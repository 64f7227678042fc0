---------------------------- MODULE DeviceClient ----------------------------
(***************************************************************************)
(* Six parts of the client that share no state with each other, put side   *)
(* by side: a behaviour is about one of them, `part', and the others rest. *)
(***************************************************************************)
EXTENDS MultipartStream, AlarmServer, Snapshot, EntryConfig, PanelUnits, Cameras

VARIABLE part

Parts == {"stream", "alarm server", "snapshot", "entries", "units", "cameras"}

vars == <<part, streamVars, alarmVars, snapshotVars, configVars, unitVars, cameraVars>>

TypeOK ==
    /\ part \in Parts
    /\ StreamTypeOK /\ AlarmTypeOK /\ SnapshotTypeOK
    /\ ConfigTypeOK /\ UnitsTypeOK /\ CamerasTypeOK

Init ==
    /\ part \in Parts
    /\ StreamInit /\ AlarmInit /\ SnapshotInit /\ ConfigInit /\ UnitsInit /\ CamerasInit

StreamStep ==
    /\ part = "stream" /\ StreamNext
    /\ UNCHANGED <<part, alarmVars, snapshotVars, configVars, unitVars, cameraVars>>
AlarmServerStep ==
    /\ part = "alarm server" /\ AlarmNext
    /\ UNCHANGED <<part, streamVars, snapshotVars, configVars, unitVars, cameraVars>>
SnapshotStep ==
    /\ part = "snapshot" /\ SnapshotNext
    /\ UNCHANGED <<part, streamVars, alarmVars, configVars, unitVars, cameraVars>>
EntriesStep ==
    /\ part = "entries" /\ ConfigNext
    /\ UNCHANGED <<part, streamVars, alarmVars, snapshotVars, unitVars, cameraVars>>
UnitsStep ==
    /\ part = "units" /\ UnitsNext
    /\ UNCHANGED <<part, streamVars, alarmVars, snapshotVars, configVars, cameraVars>>
CamerasStep ==
    /\ part = "cameras" /\ CamerasNext
    /\ UNCHANGED <<part, streamVars, alarmVars, snapshotVars, configVars, unitVars>>

Next ==
    \/ StreamStep \/ AlarmServerStep \/ SnapshotStep
    \/ EntriesStep \/ UnitsStep \/ CamerasStep

Spec == Init /\ [][Next]_vars
=============================================================================
