----------------------------- MODULE MCSwitches -----------------------------
(* Two exclusive events, an output beside an event that is disabled, the   *)
(* holiday on a leap day and on another, and the switches of a zone.       *)
EXTENDS Switches, TLC

MCControls == {"motion", "line", "io", "output", "holiday", "bypass", "chime", "silent"}
MCKind ==
    ("motion" :> "event" @@ "line" :> "event" @@ "io" :> "event" @@ "output" :> "output"
     @@ "holiday" :> "holiday" @@ "bypass" :> "bypass" @@ "chime" :> "chime" @@ "silent" :> "silent")
Scene(cs, checking, polling, leap) ==
    [controls |-> cs, checking |-> checking, polling |-> polling, leap |-> leap]
MCScenes ==
    {Scene({"motion", "line"}, TRUE, TRUE, FALSE),
     Scene({"motion", "line"}, FALSE, FALSE, FALSE),
     Scene({"output", "io"}, TRUE, FALSE, FALSE),
     Scene({"holiday"}, FALSE, TRUE, TRUE),
     Scene({"holiday"}, FALSE, TRUE, FALSE),
     Scene({"bypass", "chime"}, FALSE, FALSE, FALSE),
     Scene({"silent"}, FALSE, TRUE, FALSE)}
=============================================================================
