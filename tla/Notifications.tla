---------------------------- MODULE Notifications ----------------------------
(***************************************************************************)
(* What becomes of the events devices post to Home Assistant:              *)
(* EventNotificationsView of notifications.py, with the event sensors the  *)
(* setup of an entry creates (binary_sensor.py) and the registry flags it  *)
(* keeps in step with the devices (refresh_disabled_entities_in_registry   *)
(* of __init__.py).  The life of an entry is that of EntrySetup, with only *)
(* the steps events can tell apart; the view is registered.                *)
(*                                                                         *)
(* A post is suspended once, to read its body; what follows it is one      *)
(* step.  Home Assistant answers for the registry (an entity that becomes  *)
(* enabled has its entry reloaded later) and for the states (an entity     *)
(* that leaves is unavailable if it may return; one that is polled writes  *)
(* its own state, off, again).                                             *)
(***************************************************************************)
EXTENDS EventCatalog, FiniteSets

CONSTANTS
    Order,          \* the entries, in the order Home Assistant lists them
    Panels,         \* those whose device is a security panel
    Device,         \* per other entry, what its device answers (EventCatalog)
    SentChannel,    \* per such entry and camera id, the channel its alerts name
    Identity,       \* per entry: the parts an alert of its device carries,
                    \* [mac : BOOLEAN, serial : {"none", "same", "respelt"}]
    Host,           \* per entry, the address its host name resolves to
    Edited,         \* the triggers, as <<entry, number>>, someone may edit on the
                    \* device, or whose sensor a user may toggle
    Gateway,        \* the address a post may seem to come from behind NAT
    MaxPosts,       \* bound: events posted
    MaxUpsets       \* bound: failed setups and requests, acts of the user on
                    \* entries and entities, changes of a trigger's notifications

Entries == {Order[i] : i \in DOMAIN Order}
Cameras == Entries \ Panels

ASSUME OrderAssumption ==
    /\ Order \in Seq(Entries) /\ Panels \subseteq Entries /\ "none" \notin Entries
    /\ \A i, j \in DOMAIN Order : Order[i] = Order[j] => i = j
ASSUME IdentityAssumption ==
    Identity \in [Entries -> [mac : BOOLEAN, serial : {"none", "same", "respelt"}]]
ASSUME BoundsAssumption == MaxPosts \in Nat /\ MaxUpsets \in Nat

Triggers(e) == IF e \in Panels THEN {} ELSE Device[e].triggers \union Device[e].single
Numbers(e) == {t.no : t \in Triggers(e)}

\* a number tells a trigger from the others and gives its place in the list,
\* 0 is no trigger's; one that is only answered by name is the only one of that
\* name; cameras are counted from 1
ASSUME DeviceAssumption ==
    \A e \in Cameras :
        /\ \A t \in Triggers(e) :
              /\ t.no \in Nat \ {0}
              /\ {t.video, t.dynVideo, t.input, t.dynInput} \subseteq Nat
        /\ \A t, u \in Triggers(e) : t.no = u.no => t = u
        /\ \A t \in Device[e].single, u \in Triggers(e) :
              LET i == EventInfo(t, {})
                  j == EventInfo(u, {})
              IN  i.id = j.id /\ i.channel = j.channel /\ i.port = j.port => t = u
        /\ DOMAIN Device[e].cameras \subseteq Nat
        /\ \A i \in DOMAIN Device[e].cameras : Device[e].cameras[i].id \in Nat \ {0}

\* an alert names the channel of its trigger, or one above 32
ASSUME SentChannelAssumption ==
    \A e \in Cameras : \A t \in Triggers(e) : EventId(t.type) # "io" =>
        LET channel == OrElse(t.video, t.dynVideo)
            sent == SentChannel[e][channel]
        IN  sent \in Nat /\ (sent = channel \/ sent > 32)

\* the triggers that may notify the center when a device is asked
Notifying(e) ==
    LET first == {t.no : t \in {u \in Triggers(e) : u.centre}}
    IN  {n \in SUBSET Numbers(e) :
            \A i \in Numbers(e) : <<e, i>> \in Edited \/ (i \in n <=> i \in first)}

\* what the entities of each device are then
Lists ==
    UNION {{[of |-> e, told |-> n,
             events |-> EntityEvents(e, Device[e],
                            GetSupportedEvents(Device[e], Device[e].triggers, n))] :
               n \in Notifying(e)} : e \in Cameras}
EventsInfo(e, n) == (CHOOSE l \in Lists : l.of = e /\ l.told = n).events

\* the same, whatever notifies
Sensors(e) == (CHOOSE l \in Lists : l.of = e).events

Uids == UNION {{c.uid : c \in Sensors(e)} : e \in Cameras}
Owner(uid) == uid[1]

VARIABLES
    phase,      \* per entry, how far its setup is
    known,      \* entries whose runtime_data is set
    disabled,   \* entries the user has disabled
    caps,       \* per entry, events_info of the device in runtime_data
    centre,     \* per entry, triggers of the device that notify the center
    told,       \* history: per entry, `centre' as the device in runtime_data read it
    registry,   \* per unique id, its registry entry: absent, enabled or disabled by
                \* the integration, the user or with the config entry
    shown,      \* per unique id, its state ("none": there is none)
    touched,    \* history: unique ids the user toggled since the entry's setup
    reload,     \* entries Home Assistant is about to reload
    posts,      \* posts whose body is being read
    bus,        \* what the last step fired (hikvision_next_event), and the panels it
                \* asked for a refresh
    posted, upsets      \* counters, for the bounds

entry == <<phase, known, disabled, caps, told>>
entities == <<registry, shown, touched, reload>>
traffic == <<posts, posted>>
vars == <<entry, entities, centre, traffic, bus, upsets>>

Silence == [from |-> "none", id |-> "none", channel |-> 0, camera |-> 0, asked |-> {}]

TypeOK ==
    /\ phase \in [Entries -> {"out", "coordinating", "adding", "in", "failed"}]
    /\ known \subseteq Entries /\ disabled \subseteq Entries /\ reload \subseteq Entries
    /\ \A e \in Entries : \A c \in caps[e] : Owner(c.uid) = e /\ c.of \in SUBSET Numbers(e)
    /\ \A e \in Entries : centre[e] \subseteq Numbers(e) /\ told[e] \subseteq Numbers(e)
    /\ registry \in [Uids -> {"absent", "enabled", "integration", "user", "entry"}]
    /\ shown \in [Uids -> {"none", "unavailable", "off", "on"}]
    /\ touched \subseteq Uids
    /\ \A p \in posts : p.from \in Entries /\ p.ok \in BOOLEAN
    /\ bus.from \in Entries \union {"none"} /\ bus.asked \subseteq Panels
    /\ posted \in 0 .. MaxPosts /\ upsets \in 0 .. MaxUpsets

Init ==
    /\ phase = [e \in Entries |-> "out"]
    /\ known = {} /\ disabled = {}
    /\ caps = [e \in Entries |-> {}]
    /\ centre = [e \in Entries |-> {t.no : t \in {u \in Triggers(e) : u.centre}}]
    /\ told = [e \in Entries |-> {}]
    /\ registry = [u \in Uids |-> "absent"]
    /\ shown = [u \in Uids |-> "none"]
    /\ touched = {} /\ reload = {} /\ posts = {}
    /\ bus = Silence
    /\ posted = 0 /\ upsets = 0

-----------------------------------------------------------------------------
(* Setup and unloading.                                                    *)

Goto(e, place) == phase' = [phase EXCEPT ![e] = place]
Silent == bus' = Silence
Upset == upsets < MaxUpsets /\ upsets' = upsets + 1

\* the unique ids of entity events of an entry's device
Listed(e) == {c.uid : c \in caps[e]}

\* a first setup, or a try after others: get_hardware_info,
\* `entry.runtime_data = device' and init_coordinators as far as its first
\* await.  A request that fails during setup is answered with {}: the device
\* has no events then.  If get_hardware_info raises, but for a 401, nothing
\* has changed and Home Assistant tries again
DeviceRead(e) ==
    /\ phase[e] = "out" /\ e \notin disabled
    /\ Goto(e, "coordinating")
    /\ known' = known \union {e}
    /\ told' = [told EXCEPT ![e] = centre[e]]
    /\ \/ /\ caps' = [caps EXCEPT ![e] = IF e \in Panels THEN {} ELSE EventsInfo(e, centre[e])]
          /\ UNCHANGED upsets
       \/ e \in Cameras /\ caps' = [caps EXCEPT ![e] = {}] /\ Upset
    /\ Silent /\ UNCHANGED <<disabled, entities, traffic, centre>>

\* get_hardware_info is refused with a 401: Home Assistant waits for the user
SetupRefused(e) ==
    /\ phase[e] = "out" /\ e \notin disabled /\ Goto(e, "failed")
    /\ Upset
    /\ Silent /\ UNCHANGED <<known, disabled, caps, told, entities, centre, traffic>>

\* set_alarm_server raises, which Home Assistant does not retry either;
\* runtime_data stays
SetupFails(e) ==
    /\ phase[e] = "coordinating" /\ Goto(e, "failed")
    /\ Upset
    /\ Silent /\ UNCHANGED <<known, disabled, caps, told, entities, centre, traffic>>

\* async_setup_entry of binary_sensor.py: Home Assistant gives an entity it
\* has not met a registry entry, disabled if the entity says so, and the
\* entities that are enabled a state
PlatformsSetUp(e) ==
    /\ phase[e] = "coordinating" /\ Goto(e, "adding")
    /\ registry' = [u \in Uids |->
                       IF u \notin Listed(e) \/ registry[u] # "absent" THEN registry[u]
                       ELSE IF \E c \in caps[e] : c.uid = u /\ ~c.disabled THEN "enabled"
                       ELSE "integration"]
    /\ shown' = [u \in Uids |->
                    IF u \in Listed(e) /\ registry'[u] = "enabled" THEN "off" ELSE shown[u]]
    /\ Silent /\ UNCHANGED <<known, disabled, caps, told, touched, reload, centre, traffic, upsets>>

\* slip: an entity keeps the flag its registry entry was made with
RefreshNothing(e) ==
    UNCHANGED <<registry, shown, reload>>

\* refresh_disabled_entities_in_registry, one event after the other: the flag
\* of an entity follows the device whoever set it.  Home Assistant drops the
\* state of an entity that becomes disabled and reloads the entry of one that
\* becomes enabled
RefreshRegistry(e) ==
    LET Turns(c) == {d \in caps[e] : d.uid = c.uid /\ d.no < c.no}
        WasOff(c) == IF Turns(c) = {} THEN registry[c.uid] # "enabled"
                     ELSE \E d \in Turns(c) : d.disabled /\ \A o \in Turns(c) : o.no <= d.no
        wrong == {c \in caps[e] : registry[c.uid] # "absent" /\ WasOff(c) # c.disabled}
        last == {c \in wrong : \A d \in wrong : d.uid = c.uid => d.no <= c.no}
        off == {c.uid : c \in {d \in last : d.disabled}}
        on == {c.uid : c \in {d \in last : ~d.disabled}}
    IN  /\ registry' = [u \in Uids |-> IF u \in on THEN "enabled"
                                       ELSE IF u \in off THEN "integration" ELSE registry[u]]
        /\ shown' = [u \in Uids |-> IF u \in off THEN "none" ELSE shown[u]]
        /\ reload' = IF \E c \in wrong : ~c.disabled THEN reload \union {e} ELSE reload

\* the end of async_setup_entry
SetupEnds(e) ==
    /\ phase[e] = "adding" /\ Goto(e, "in")
    /\ RefreshRegistry(e)
    /\ touched' = touched \ Listed(e)
    /\ Silent /\ UNCHANGED <<known, disabled, caps, told, centre, traffic, upsets>>

\* Home Assistant forgets runtime_data when an entry is unloaded
Forgets(e) ==
    /\ known' = known \ {e}
    /\ caps' = [caps EXCEPT ![e] = {}] /\ told' = [told EXCEPT ![e] = {}]

\* async_unload_entry
Unload(e) ==
    /\ phase[e] = "in" /\ Goto(e, "out")
    /\ Forgets(e)
    /\ shown' = [u \in Uids |-> IF Owner(u) = e /\ shown[u] # "none" THEN "unavailable"
                                ELSE shown[u]]

\* the delay after an entity was enabled is over: entries that are loaded
\* are reloaded
ScheduledReload(e) ==
    /\ e \in reload /\ reload' = reload \ {e}
    /\ \/ Unload(e)
       \/ phase[e] # "in" /\ UNCHANGED <<phase, known, caps, told, shown>>
    /\ Silent /\ UNCHANGED <<disabled, registry, touched, centre, traffic, upsets>>

\* a setup that failed left nothing to unload, and nothing is forgotten
UserReloads(e) ==
    /\ Upset
    /\ \/ Unload(e)
       \/ phase[e] = "failed" /\ Goto(e, "out") /\ UNCHANGED <<known, caps, told, shown>>
    /\ Silent /\ UNCHANGED <<disabled, registry, touched, reload, centre, traffic>>

\* only a loaded entry is disabled here; its entities are disabled with it
UserDisables(e) ==
    /\ Upset /\ e \notin disabled /\ disabled' = disabled \union {e}
    /\ phase[e] = "in" /\ Goto(e, "out")
    /\ Forgets(e)
    /\ registry' = [u \in Uids |-> IF Owner(u) = e /\ registry[u] = "enabled" THEN "entry"
                                   ELSE registry[u]]
    /\ shown' = [u \in Uids |-> IF Owner(u) = e THEN "none" ELSE shown[u]]
    /\ Silent /\ UNCHANGED <<touched, reload, centre, traffic>>

UserEnables(e) ==
    /\ Upset /\ e \in disabled /\ disabled' = disabled \ {e}
    /\ registry' = [u \in Uids |-> IF Owner(u) = e /\ registry[u] = "entry" THEN "enabled"
                                   ELSE registry[u]]
    /\ Silent /\ UNCHANGED <<phase, known, caps, told, shown, touched, reload, centre, traffic>>

UserToggles(u) ==
    /\ \E c \in Sensors(Owner(u)) : c.uid = u /\ \E n \in c.of : <<Owner(u), n>> \in Edited
    /\ Upset /\ registry[u] \notin {"absent", "entry"}
    /\ \/ /\ registry[u] = "enabled" /\ registry' = [registry EXCEPT ![u] = "user"]
          /\ shown' = [shown EXCEPT ![u] = "none"] /\ UNCHANGED reload
       \/ /\ registry[u] # "enabled" /\ registry' = [registry EXCEPT ![u] = "enabled"]
          /\ reload' = reload \union {Owner(u)} /\ UNCHANGED shown
    /\ touched' = touched \union {u}
    /\ Silent /\ UNCHANGED <<entry, centre, traffic>>

\* someone changes whether a trigger notifies the surveillance center
DeviceEdited(e, n) ==
    /\ Upset /\ <<e, n>> \in Edited
    /\ centre' = [centre EXCEPT ![e] = IF n \in @ THEN @ \ {n} ELSE @ \union {n}]
    /\ Silent /\ UNCHANGED <<entry, entities, traffic>>

-----------------------------------------------------------------------------
(* Events.                                                                 *)

\* the alert of a trigger; an alarm input's names a channel as well
Alert(e, t, wrapped, address, ok) ==
    [from |-> e, no |-> t.no,
     type |-> IF wrapped THEN "duration" ELSE t.type,
     related |-> IF wrapped THEN t.type ELSE "none",
     channel |-> IF t.no = 0 THEN 0 ELSE IF EventId(t.type) = "io" THEN 1
                 ELSE SentChannel[e][OrElse(t.video, t.dynVideo)],
     port |-> IF EventId(t.type) = "io" THEN OrElse(t.input, t.dynInput) ELSE 0,
     mac |-> IF Identity[e].mac THEN e ELSE "none",
     serial |-> <<e, Identity[e].serial>>,
     at |-> address, ok |-> ok]

\* a panel's alert has a type of its own; it also stands for a broken body,
\* of which nothing is read
PanelTrigger == [no |-> 0, type |-> "changedStatus", video |-> 0, dynVideo |-> 0]

\* a device posts an event it notifies the center of (smart events are those
\* that come wrapped); the body may be broken
Post(e) ==
    /\ posted < MaxPosts /\ posted' = posted + 1
    /\ \E address \in {Host[e], Gateway} :
          \/ \E t \in Triggers(e), wrapped \in BOOLEAN :
                /\ t.no \in centre[e] /\ (wrapped => EVENTS[EventId(t.type)].kind = "smart")
                /\ posts' = posts \union {Alert(e, t, wrapped, address, TRUE)}
          \/ e \in Panels /\ posts' = posts \union {Alert(e, PanelTrigger, FALSE, address, TRUE)}
          \/ posts' = posts \union {Alert(e, PanelTrigger, FALSE, address, FALSE)}
    /\ Silent /\ UNCHANGED <<entry, entities, centre, upsets>>

Ready == known \ disabled
First(S) == LET n == CHOOSE i \in DOMAIN Order :
                        Order[i] \in S /\ \A j \in DOMAIN Order : Order[j] \in S => i <= j
            IN  Order[n]

\* _normalize_serial: the spelling does not matter
NormalizeSerial(serial) == IF serial[2] = "none" THEN "none" ELSE serial[1]

ByMac(p) == {e \in Ready : e = p.mac}
BySerial(p) == {e \in Ready : e = NormalizeSerial(p.serial)}
ByAddress(p) == {e \in Ready : Host[e] = p.at}

\* slip: when the address fits, the other identifiers are not looked at
GetIsapiDeviceByAddress(p) ==
    IF Cardinality(Ready) = 1 THEN Ready
    ELSE LET found == IF ByAddress(p) # {} THEN ByAddress(p)
                      ELSE IF ByMac(p) # {} THEN ByMac(p) ELSE BySerial(p)
         IN  IF found = {} THEN {} ELSE {First(found)}

\* get_isapi_device: at most one entry
GetIsapiDevice(p) ==
    IF Cardinality(Ready) = 1 THEN Ready
    ELSE LET found == IF ByMac(p) # {} THEN ByMac(p)
                      ELSE IF BySerial(p) # {} THEN BySerial(p) ELSE ByAddress(p)
         IN  IF found = {} THEN {} ELSE {First(found)}

\* trigger_sensor and fire_hass_event.  A sensor without a registry entry is
\* an error, one without a state is not; nothing happens in either case
TriggerSensor(e, p) ==
    LET id == AlertEventId(p)
        channel == AlertChannel(Device[e], p.channel)
        uid == AlertUid(e, channel, p.port, id)
        named == \E i \in DOMAIN Device[e].cameras : Device[e].cameras[i].id = channel
    IN  IF id \in DOMAIN EVENTS /\ uid \in Uids /\ registry[uid] # "absent"
           /\ shown[uid] # "none"
        THEN /\ shown' = [shown EXCEPT ![uid] = "on"]
             /\ bus' = [from |-> e, id |-> id, channel |-> channel,
                        camera |-> IF named THEN channel ELSE 0, asked |-> {}]
        ELSE Silent /\ UNCHANGED shown

\* handle_security_cp_event, for whatever is attributed to a panel; a panel
\* has a coordinator as soon as it is known
HandleSecurityCpEvent(e, p) ==
    bus' = [from |-> e, id |-> p.type, channel |-> 0, camera |-> 0, asked |-> {e}]

\* slip: any event is taken for a panel's
AnyIsPanel(e) == TRUE

IsSecurityPanel(e) == e \in Panels

\* the body has arrived: the rest of `post', which is answered 200 whatever
\* happens
Handle(p) ==
    LET found == GetIsapiDevice(p)
    IN  /\ posts' = posts \ {p}
        /\ IF ~p.ok \/ found = {} THEN Silent /\ UNCHANGED shown
           ELSE \A e \in found :
                   \/ IsSecurityPanel(e) /\ HandleSecurityCpEvent(e, p) /\ UNCHANGED shown
                   \/ ~IsSecurityPanel(e) /\ TriggerSensor(e, p)
        /\ UNCHANGED <<entry, registry, touched, reload, centre, posted, upsets>>

\* Home Assistant polls the sensor, whose own state has stayed off
Polled(u) ==
    /\ shown[u] = "on" /\ u \in Listed(Owner(u)) /\ phase[Owner(u)] \in {"adding", "in"}
    /\ shown' = [shown EXCEPT ![u] = "off"]
    /\ Silent /\ UNCHANGED <<entry, registry, touched, reload, centre, traffic, upsets>>

Next ==
    \/ \E e \in Entries :
          \/ DeviceRead(e) \/ SetupRefused(e) \/ SetupFails(e) \/ PlatformsSetUp(e)
          \/ SetupEnds(e) \/ ScheduledReload(e)
          \/ UserReloads(e) \/ UserDisables(e) \/ UserEnables(e)
          \/ Post(e)
          \/ \E n \in Numbers(e) : DeviceEdited(e, n)
    \/ \E u \in Uids : UserToggles(u) \/ Polled(u)
    \/ \E p \in posts : Handle(p)

\* Home Assistant goes on with what it has begun, but not with a setup that
\* failed for good; nothing is assumed of the user or of the devices
Fairness ==
    \A e \in Entries :
        /\ WF_phase(DeviceRead(e) \/ PlatformsSetUp(e) \/ SetupEnds(e))
        /\ WF_reload(ScheduledReload(e))

Spec == Init /\ [][Next]_vars /\ Fairness

-----------------------------------------------------------------------------
(* Properties.                                                             *)

\* what the trigger a post is about belongs to, by the device's own lists
SensorOf(p) ==
    IF p.from \in Panels THEN {}
    ELSE {c.uid : c \in {d \in Sensors(p.from) : p.no \in d.of}}

\* a post names its device, or comes from an address only that device has
Identified(p) ==
    \/ p.mac # "none" \/ p.serial[2] # "none" \/ Ready = {p.from}
    \/ {e \in Ready : Host[e] = p.at} = {p.from}

\* a recorder's channels above 32 are told apart: the camera is the first one
\* at that input port, or no camera has the port and ids count from 33
Numbered(p) ==
    p.channel > 32 =>
        LET cams == Device[p.from].cameras
            at == {i \in DOMAIN cams : cams[i].ip /\ cams[i].port + 32 = p.channel}
            ids == {uid[2] : uid \in SensorOf(p)}
        IN  IF at = {} THEN ids = {p.channel - 32}
            ELSE \E i \in at : cams[i].id \in ids /\ \A j \in at : i <= j

\* The view's only safety is in whom it believes an event to come from: a
\* sensor is switched on by the event it stands for.  The exceptions are a
\* sender whose entry is not ready, when a single other entry is (line 93 of
\* notifications.py) or one has the address the post seems to come from, an
\* anonymous post from an address two devices share, and the IP cameras of a
\* DVR behind the first one (line 190).
RightSensor ==
    [][\A u \in Uids : shown[u] # "on" /\ shown'[u] = "on" =>
          \E p \in posts \ posts' :
             \/ u \in SensorOf(p)
             \/ Owner(u) = p.from /\ ~Numbered(p)
             \/ /\ Owner(u) # p.from /\ p.from \notin Ready
                /\ Ready = {Owner(u)} \/ Host[Owner(u)] = p.at
             \/ Owner(u) # p.from /\ ~Identified(p) /\ Host[Owner(u)] = p.at]_vars

\* The ids the catalogue builds and those the view builds from an alert agree,
\* for every type of event, wrapped or not, and every way a device may name
\* itself: an event of a ready device turns its sensor on if that has a
\* state, and is fired with the camera it comes from; an event of a panel
\* asks for a refresh.
Delivered ==
    [][\A p \in posts \ posts' : p.ok /\ p.from \in Ready /\ Identified(p) =>
          /\ p.from \in Panels => p.from \in bus'.asked
          /\ Numbered(p) => \A u \in SensorOf(p) :
                shown[u] # "none" /\ registry[u] # "absent" =>
                    shown'[u] = "on" /\ bus'.from = p.from]_vars

\* Once an entry is set up, a sensor is enabled exactly when one of the
\* triggers behind it notifies the surveillance center (as the device said
\* when it was asked), unless the user has toggled it since: also when
\* several triggers share the sensor and when the user had disabled it.
RegistryFollows ==
    \A e \in Cameras : phase[e] = "in" =>
        \A c \in caps[e] : c.uid \notin touched /\ e \notin disabled =>
            (registry[c.uid] = "enabled" <=> c.of \intersect told[e] # {})

\* Two entities of one device never read and write the same document, though
\* several triggers do; only the document of the PIR has no number, and
\* belongs to the PIR of every camera (line 383 of isapi.py).
OneEntityPerDocument ==
    \A e \in Cameras : \A c, d \in caps[e] :
        c.url = d.url => c = d \/ c.url = <<EVENTS["pir"].slug>>

\* The reloads that follow from a setup's own changes of the registry come to
\* an end: without acts of the user and failures every enabled entry stays
\* set up ("fight over the entity registry's disabled_by flag on every setup
\* and trigger an endless reload loop", line 238 of hikvision_device.py), or
\* its setup has failed for good, by a 401 or in set_alarm_server.
Settles ==
    <>[](\A e \in Entries :
            e \notin reload /\ (e \notin disabled => phase[e] \in {"in", "failed"}))
=============================================================================
