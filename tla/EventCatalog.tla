---------------------------- MODULE EventCatalog ----------------------------
(***************************************************************************)
(* The events a camera or recorder can report, as get_supported_events of  *)
(* isapi.py reads them and get_device_event_capabilities of                *)
(* hikvision_device.py turns them into entities.  Operators only: the      *)
(* state machine around them is Notifications.                             *)
(*                                                                         *)
(* A device d is a record of what it answers:                              *)
(*   triggers   the entries of Event/triggers                              *)
(*   single     those it only answers to Event/triggers/<id>-<channel>     *)
(*   channels   Event/channels/capabilities: [channel, types]              *)
(*   cameras    [id, ip, port], in the order they are listed               *)
(*   pir, scene, multi   isSupportPIR, isSupportSceneChangeDetection,      *)
(*                       several channels                                  *)
(* A trigger has a number `no', a raw type, and the four id elements, 0    *)
(* standing for an element that is missing.                                *)
(***************************************************************************)
EXTENDS Naturals, Sequences

\* the types of event the integration handles, with their kind and slug
EVENTS ==
    [motiondetection      |-> [kind |-> "basic", slug |-> "motionDetection"],
     tamperdetection      |-> [kind |-> "basic", slug |-> "tamperDetection"],
     videoloss            |-> [kind |-> "basic", slug |-> "videoLoss"],
     scenechangedetection |-> [kind |-> "smart", slug |-> "SceneChangeDetection"],
     fielddetection       |-> [kind |-> "smart", slug |-> "FieldDetection"],
     linedetection        |-> [kind |-> "smart", slug |-> "LineDetection"],
     regionentrance       |-> [kind |-> "smart", slug |-> "regionEntrance"],
     regionexiting        |-> [kind |-> "smart", slug |-> "regionExiting"],
     io                   |-> [kind |-> "io",    slug |-> "inputs"],
     pir                  |-> [kind |-> "pir",   slug |-> "WLAlarm/PIR"]]

\* the last key is never met: ids are in lower case when they are looked up
EVENTS_ALTERNATE_ID ==
    [vmd |-> "motiondetection", thermometry |-> "motiondetection",
     shelteralarm |-> "tamperdetection", VMDHumanVehicle |-> "motiondetection"]

\* str.lower of the raw types that have capitals
Lower(type) ==
    CASE type = "VMD" -> "vmd"
      [] type = "IO" -> "io"
      [] type = "PIR" -> "pir"
      [] type = "VMDHumanVehicle" -> "vmdhumanvehicle"
      [] OTHER -> type

EventId(type) ==
    LET id == Lower(type)
    IN  IF id \in DOMAIN EVENTS_ALTERNATE_ID THEN EVENTS_ALTERNATE_ID[id] ELSE id

\* a url as the collection it lies in and the number at its end; the PIR
\* document has no number
GetEventUrl(id, channel, port, proxy) ==
    IF id \notin DOMAIN EVENTS THEN <<>>
    ELSE LET slug == EVENTS[id].slug
         IN  CASE EVENTS[id].kind = "basic" ->
                      <<IF proxy THEN "ContentMgmt/InputProxy" ELSE "System/Video", slug, channel>>
               [] EVENTS[id].kind = "io" ->
                      <<IF proxy THEN "ContentMgmt/IOProxy" ELSE "System/IO", slug, port>>
               [] EVENTS[id].kind = "pir" -> <<slug>>
               [] OTHER -> <<"Smart", slug, channel>>

OrElse(n, m) == IF n # 0 THEN n ELSE m

\* an EventInfo; `centre' is "center" \in notifications
EventInfo(t, notifying) ==
    LET id == EventId(t.type)
        io == id = "io"
        channel == IF io THEN 0 ELSE OrElse(t.video, t.dynVideo)
        port == IF io THEN OrElse(t.input, t.dynInput) ELSE 0
        proxy == IF io THEN t.input = 0 /\ port > 0 ELSE t.video = 0 /\ channel > 0
    IN  [no |-> t.no, id |-> id, channel |-> channel, port |-> port,
         url |-> GetEventUrl(id, channel, port, proxy), centre |-> t.no \in notifying]

\* create_event_info returns nothing for a trigger without a type, nor for
\* the PIR of a device without one
CreateEvents(d, triggers, notifying) ==
    {EventInfo(t, notifying) : t \in {u \in triggers : /\ u.type # "none"
                                                       /\ EventId(u.type) = "pir" => d.pir}}

\* Event/triggers/<id>-<channel>
Single(d, id, channel) ==
    {t \in d.single : EventId(t.type) = id /\ OrElse(t.video, t.dynVideo) = channel}

HasEvent(events, id, channel) == \E e \in events : e.id = id /\ e.channel = channel

\* get_supported_events; `listed' is the answer to Event/triggers
GetSupportedEvents(d, listed, notifying) ==
    LET first == CreateEvents(d, listed, notifying)
        scene == IF d.scene /\ ~\E e \in first : e.id = "scenechangedetection"
                 THEN CreateEvents(d, Single(d, "scenechangedetection", 1), notifying)
                 ELSE {}
        events == first \union scene
        missing == {<<id, c.channel>> : id \in DOMAIN EVENTS, c \in d.channels}
        wanted == {m \in missing :
                    /\ \E c \in d.channels :
                          c.channel = m[2] /\ \E type \in c.types : EventId(type) = m[1]
                    /\ ~HasEvent(events, m[1], m[2])}
    IN  events \union
        (IF d.multi
         THEN UNION {CreateEvents(d, Single(d, m[1], m[2]), notifying) : m \in wanted}
         ELSE {})

\* a unique id, the parts an underscore joins; 0 is left out
UniqueId(serial, camera, port, id) ==
    <<serial>> \o (IF camera # 0 THEN <<camera>> ELSE <<>>)
               \o (IF port # 0 THEN <<port>> ELSE <<>>) \o <<id>>

\* slip: every event becomes an entity, those with one unique id too
Unmerged(serial, camera, events) ==
    {[no |-> e.no, uid |-> UniqueId(serial, camera, e.port, e.id), url |-> e.url,
      disabled |-> ~e.centre, of |-> {e.no}] : e \in events}

\* events with one unique id are one entity: the first one's, enabled when
\* any of them notifies the surveillance center; `no' gives their order, `of'
\* (history) the triggers behind them
MergeEvents(serial, camera, events) ==
    LET Uid(e) == UniqueId(serial, camera, e.port, e.id)
        Same(e) == {f \in events : Uid(f) = Uid(e)}
    IN  {[no |-> e.no, uid |-> Uid(e), url |-> e.url,
          disabled |-> ~\E f \in Same(e) : f.centre, of |-> {f.no : f \in Same(e)}] :
            e \in {f \in events : \A g \in Same(f) : f.no <= g.no}}

\* camera 0 stands for the device itself, which only has alarm inputs
GetDeviceEventCapabilities(serial, camera, events) ==
    MergeEvents(serial, camera,
        {e \in events : /\ e.id \in DOMAIN EVENTS
                        /\ IF camera = 0 THEN EVENTS[e.id].kind = "io"
                                         ELSE e.channel = camera})

\* the entities of a device: init_coordinators
EntityEvents(serial, d, events) ==
    UNION {GetDeviceEventCapabilities(serial, n, events) :
              n \in {0} \union {d.cameras[i].id : i \in DOMAIN d.cameras}}

-----------------------------------------------------------------------------
(* Alerts: what a device posts.                                            *)

\* parse_event_notification: the type of an alert; a "duration" alert names
\* the event it is about in an element of its own
AlertEventId(alert) ==
    EventId(IF alert.type \in {"none", "duration"} THEN alert.related ELSE alert.type)

\* update_alert_channel
AlertChannel(d, channel) ==
    LET fits == {i \in DOMAIN d.cameras : d.cameras[i].ip /\ d.cameras[i].port + 32 = channel}
    IN  IF channel <= 32 THEN channel
        ELSE IF fits = {} THEN channel - 32
        ELSE d.cameras[CHOOSE i \in fits : \A j \in fits : i <= j].id

\* slip: the channel an alarm input's alert names is part of the id
AlertUidWithChannel(serial, channel, port, id) == UniqueId(serial, channel, port, id)

\* trigger_sensor: the unique id of the sensor an alert is for
AlertUid(serial, channel, port, id) ==
    UniqueId(serial, IF id = "io" THEN 0 ELSE channel, port, id)
=============================================================================
