-------------------------- MODULE MCNotifications --------------------------
(* A thermal camera of two channels, a recorder of an analog camera and two *)
(* IP cameras behind it, and a security panel.                              *)
EXTENDS Notifications, TLC

Trigger(n, type, video, dynVideo, input, center) ==
    [no |-> n, type |-> type, video |-> video, dynVideo |-> dynVideo,
     input |-> input, dynInput |-> 0, centre |-> center]

MCOrder == <<"dvr", "cam", "panel">>
MCDevice ==
    [dvr |-> [triggers |-> {Trigger(1, "linedetection", 0, 5, 0, TRUE),
                            Trigger(2, "VMD", 2, 0, 0, TRUE),
                            Trigger(3, "VMD", 0, 6, 0, TRUE)},
              single |-> {}, channels |-> {},
              cameras |-> <<[id |-> 5, ip |-> TRUE, port |-> 1],
                            [id |-> 6, ip |-> TRUE, port |-> 1],
                            [id |-> 2, ip |-> FALSE, port |-> 2]>>,
              pir |-> FALSE, scene |-> FALSE, multi |-> FALSE],
     cam |-> [triggers |-> {Trigger(1, "VMD", 2, 0, 0, TRUE),
                            Trigger(2, "thermometry", 2, 0, 0, FALSE),
                            Trigger(3, "IO", 0, 0, 1, TRUE)},
              single |-> {Trigger(4, "scenechangedetection", 1, 0, 0, FALSE)},
              channels |-> {[channel |-> 2, types |-> {"VMD", "facedetection"}]},
              cameras |-> <<[id |-> 1, ip |-> TRUE, port |-> 1],
                            [id |-> 2, ip |-> TRUE, port |-> 2]>>,
              pir |-> FALSE, scene |-> TRUE, multi |-> TRUE]]
MCSentChannel == [dvr |-> (2 :> 2 @@ 5 :> 33 @@ 6 :> 34), cam |-> (1 :> 1 @@ 2 :> 2)]
MCIdentity ==
    [dvr |-> [mac |-> FALSE, serial |-> "respelt"],
     cam |-> [mac |-> TRUE, serial |-> "none"],
     panel |-> [mac |-> FALSE, serial |-> "none"]]
MCEdited == {<<"cam", 1>>, <<"dvr", 1>>}
MCHost == [dvr |-> "gateway", cam |-> "10.0.0.2", panel |-> "10.0.0.3"]
=============================================================================
