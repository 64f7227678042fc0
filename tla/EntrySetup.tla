----------------------------- MODULE EntrySetup -----------------------------
(***************************************************************************)
(* The life of the config entries (__init__.py, init_coordinators of       *)
(* hikvision_device.py): async_setup_entry with the requests of            *)
(* get_hardware_info, the listener it starts, the notification host it     *)
(* configures, the registry entries it adds and removes and the webhook    *)
(* view it registers, and async_unload_entry, run by Home Assistant, which *)
(* retries a setup that was not ready and may itself restart.              *)
(*                                                                         *)
(* An entry is suspended in one await (`at') at a time; entries interleave. *)
(* While pending_initialization is set an HTTP error is answered with {}:  *)
(* such a request is "suppressed", and the setup goes on without it.       *)
(***************************************************************************)
EXTENDS Naturals, Sequences, FiniteSets

CONSTANTS
    Order,          \* the entries, in the order Home Assistant lists them
    Panels,         \* those whose device is a security panel
    Controls,       \* those with the "set notifications host" option
    Parts,          \* the partitions of a panel
    MaxErrors,      \* bound: failures of any kind
    MaxToggles,     \* bound: partitions disabled or enabled on a panel
    MaxActs,        \* bound: reloads, disablings and enablings by the user
    MaxRestarts     \* bound: restarts of Home Assistant

Entries == {Order[i] : i \in DOMAIN Order}

ASSUME EntriesAssumption ==
    /\ Order \in Seq(Entries)
    /\ \A i, j \in DOMAIN Order : Order[i] = Order[j] => i = j
    /\ Panels \subseteq Entries /\ Controls \subseteq Entries
ASSUME PartsAssumption == IsFiniteSet(Parts)
ASSUME BoundsAssumption ==
    MaxErrors \in Nat /\ MaxToggles \in Nat /\ MaxActs \in Nat /\ MaxRestarts \in Nat

VARIABLES
    state,      \* per entry, its ConfigEntryState ("auth_failed" is SETUP_ERROR
                \* with a reauthentication flow)
    at,         \* per entry, the await its setup or unload is suspended in
    waiting,    \* per entry, the reloads that wait for its setup lock
    disabled,   \* entries the user has disabled
    dev,        \* per entry, what its current HikvisionDevice has learnt
    listening,  \* entries whose current device's arming listener runs
    leaked,     \* per entry, running listeners nobody refers to any more
    registry,   \* per entry, partitions with an entity in the registry
    views,      \* times EventNotificationsView has been registered
    enabled,    \* per panel, its enabled partitions
    host,       \* per device, where it posts its events
    late,       \* history: per entry, setups that failed after the listener's start
    adrift,     \* history: entries that were given up without a reset of the host
    hasty,      \* history: entries disabled while they were not set up
    retired,    \* history: per panel, partitions that have been disabled
    errors, toggles, acts, restarts     \* counters, for the bounds

owner == <<state, at, disabled, dev, late>>
rest == <<waiting, hasty, adrift>>
world == <<enabled, host, retired, toggles>>
vars == <<owner, rest, listening, leaked, registry, views, world, errors, acts, restarts>>

\* slip: a partition that no panel has
NewDeviceFilled == [panel |-> FALSE, partitions |-> {0}, server |-> FALSE, blind |-> FALSE]

\* what HikvisionDevice() starts from; `blind' is history: the request for
\* the partitions was suppressed
NewDevice == [panel |-> FALSE, partitions |-> {}, server |-> FALSE, blind |-> FALSE]

TypeOK ==
    /\ state \in [Entries -> {"not_loaded", "setup", "retry", "error", "auth_failed",
                              "loaded", "unloading", "failed_unload"}]
    /\ at \in [Entries -> {"none", "device", "panel", "partitions", "alarm", "refresh",
                           "platforms", "stop", "entities", "kept", "reset"}]
    /\ waiting \in [Entries -> 0 .. MaxActs]
    /\ disabled \in SUBSET Entries /\ adrift \in SUBSET Entries /\ hasty \in SUBSET Entries
    /\ dev \in [Entries -> [panel : BOOLEAN, partitions : SUBSET Parts,
                            server : BOOLEAN, blind : BOOLEAN]]
    /\ listening \in SUBSET Entries
    /\ leaked \in [Entries -> Nat]
    /\ registry \in [Entries -> SUBSET Parts]
    /\ views \in Nat
    /\ enabled \in [Entries -> SUBSET Parts]
    /\ host \in [Entries -> {"other", "ha", "off"}]
    /\ late \in [Entries -> Nat]
    /\ retired \in [Entries -> SUBSET Parts]
    /\ errors \in 0 .. MaxErrors /\ toggles \in 0 .. MaxToggles
    /\ acts \in 0 .. MaxActs /\ restarts \in 0 .. MaxRestarts

Init ==
    /\ state = [e \in Entries |-> "not_loaded"]
    /\ at = [e \in Entries |-> "none"]
    /\ waiting = [e \in Entries |-> 0]
    /\ disabled = {} /\ adrift = {} /\ hasty = {}
    /\ dev = [e \in Entries |-> NewDevice]
    /\ listening = {}
    /\ leaked = [e \in Entries |-> 0]
    /\ registry = [e \in Entries |-> {}]
    /\ views = 0
    /\ enabled = [e \in Entries |-> IF e \in Panels THEN Parts ELSE {}]
    /\ host = [e \in Entries |-> "other"]
    /\ late = [e \in Entries |-> 0]
    /\ retired = [e \in Entries |-> {}]
    /\ errors = 0 /\ toggles = 0 /\ acts = 0 /\ restarts = 0

-----------------------------------------------------------------------------
(* The parts actions are made of.                                          *)

Goto(e, place) == at' = [at EXCEPT ![e] = place]
Becomes(e, s) == state' = [state EXCEPT ![e] = s]
Learns(e, field, value) == dev' = [dev EXCEPT ![e][field] = value]

Error == errors < MaxErrors /\ errors' = errors + 1

Held(e) == state[e] \in {"setup", "loaded", "unloading"}

\* outcomes of a request made under pending_initialization
Answered == UNCHANGED errors
Suppressed == Error

Settings == {"device", "panel", "partitions", "alarm", "refresh", "platforms"}

-----------------------------------------------------------------------------
(* async_setup_entry up to `entry.runtime_data = device'.                  *)

\* Home Assistant sets an enabled entry up, for the first time or again; a
\* reload that waits has cancelled the retry.  The device object of an
\* earlier setup is dropped, its listener is not.
SetupBegins(e) ==
    /\ state[e] = "not_loaded" \/ (state[e] = "retry" /\ waiting[e] = 0)
    /\ e \notin disabled
    /\ Becomes(e, "setup") /\ Goto(e, "device")
    /\ dev' = [dev EXCEPT ![e] = NewDevice]
    /\ leaked' = [leaked EXCEPT ![e] = IF e \in listening THEN @ + 1 ELSE @]
    /\ listening' = listening \ {e}
    /\ UNCHANGED <<disabled, late, registry, views, world, errors, acts, restarts, rest>>

\* get_device_info, System/capabilities and get_alarm_server
ReadDevice(e) ==
    /\ at[e] = "device"
    /\ \/ Answered /\ Learns(e, "server", TRUE)
       \/ Suppressed /\ UNCHANGED dev
    /\ Goto(e, "panel")
    /\ UNCHANGED <<state, disabled, late, listening, leaked, registry, views, world, acts,
                   restarts, rest>>

\* init_coordinators as far as its first await
Coordinators(e, d) ==
    /\ listening' = IF d.panel THEN listening \union {e} ELSE listening
    /\ Goto(e, IF e \in Controls /\ d.server THEN "alarm" ELSE "refresh")

\* SecurityCP/capabilities; without an answer the device is set up like a
\* camera or recorder, whose other requests are left out
ReadPanel(e) ==
    /\ at[e] = "panel"
    /\ \/ Answered /\ e \in Panels /\ Learns(e, "panel", TRUE)
          /\ Goto(e, "partitions") /\ UNCHANGED listening
       \/ Answered /\ e \notin Panels /\ UNCHANGED dev /\ Coordinators(e, dev[e])
       \/ Suppressed /\ e \in Panels /\ UNCHANGED dev /\ Coordinators(e, dev[e])
    /\ UNCHANGED <<state, disabled, late, leaked, registry, views, world, acts, restarts,
                   rest>>

\* get_partitions keeps the enabled ones; {} has none
ReadPartitions(e) ==
    /\ at[e] = "partitions"
    /\ \/ Answered /\ Learns(e, "partitions", enabled[e])
       \/ Suppressed /\ Learns(e, "blind", TRUE)
    /\ Coordinators(e, dev[e])
    /\ UNCHANGED <<state, disabled, late, leaked, registry, views, world, acts, restarts,
                   rest>>

\* slip: the failed setup is reported as permanent
NotReadyForGood(e) ==
    /\ at[e] \in {"device", "panel", "partitions"}
    /\ Error
    /\ Becomes(e, "error") /\ Goto(e, "none")
    /\ UNCHANGED <<disabled, dev, late, listening, leaked, registry, views, world, acts,
                   restarts, rest>>

\* slip: the error is logged and the setup goes on with what it has
NotReadyGoesOn(e) ==
    /\ at[e] \in {"device", "panel", "partitions"}
    /\ Error
    /\ Coordinators(e, dev[e])
    /\ UNCHANGED <<state, disabled, dev, late, leaked, registry, views, world, acts,
                   restarts, rest>>

\* anything but a 401 in the try statement: ConfigEntryNotReady
NotReady(e) ==
    /\ at[e] \in {"device", "panel", "partitions"}
    /\ Error
    /\ Becomes(e, "retry") /\ Goto(e, "none")
    /\ UNCHANGED <<disabled, dev, late, listening, leaked, registry, views, world, acts,
                   restarts, rest>>

\* a 401: ConfigEntryAuthFailed, the entry waits for the user
AuthFails(e) ==
    /\ at[e] \in {"device", "panel", "partitions"}
    /\ Error
    /\ Becomes(e, "auth_failed") /\ Goto(e, "none")
    /\ UNCHANGED <<disabled, dev, late, listening, leaked, registry, views, world, acts,
                   restarts, rest>>

-----------------------------------------------------------------------------
(* The rest of init_coordinators and of async_setup_entry, unguarded.      *)

\* set_alarm_server: the host is written, or a request of it is suppressed
SetAlarmServer(e) ==
    /\ at[e] = "alarm"
    /\ \/ Answered /\ host' = [host EXCEPT ![e] = "ha"]
       \/ Suppressed /\ UNCHANGED host
    /\ Goto(e, "refresh")
    /\ UNCHANGED <<state, disabled, dev, late, listening, leaked, registry, views,
                   enabled, retired, toggles, acts, restarts, rest>>

\* set_alarm_server raises: a lost connection, a timeout, which the device
\* may have obeyed before, or a 401
SetupFails(e) ==
    /\ at[e] = "alarm"
    /\ Error
    /\ Becomes(e, "error") /\ Goto(e, "none")
    /\ host' \in {host, [host EXCEPT ![e] = "ha"]}
    /\ late' = [late EXCEPT ![e] = @ + 1]
    /\ adrift' = adrift \union {e}
    /\ UNCHANGED <<disabled, dev, waiting, hasty, listening, leaked, registry, views,
                   enabled, retired, toggles, acts, restarts>>

\* the first refreshes: _async_update_data raises nothing
FirstRefresh(e) ==
    /\ at[e] = "refresh"
    /\ Goto(e, "platforms")
    /\ UNCHANGED <<state, disabled, dev, late, listening, leaked, registry, views, world,
                   errors, acts, restarts, rest>>

\* get_first_instance_unique_id is this entry's, the first enabled one's
First(e) == \E i \in DOMAIN Order :
    /\ Order[i] = e /\ e \notin disabled
    /\ \A j \in 1 .. i - 1 : Order[j] \in disabled

\* slip: disabled entries count
RegistersViewIfListed(e) == e = Order[1]

RegistersView(e) == First(e)

\* remove_orphaned_partition_entities, the new entities being registered
RemoveOrphans(e, known) ==
    [registry EXCEPT ![e] = {p \in @ \union known : p \in known}]

\* async_forward_entry_setups returns; the rest has no await
SetupEnds(e) ==
    /\ at[e] = "platforms" /\ ~(Entries \subseteq disabled)
    /\ Becomes(e, "loaded") /\ Goto(e, "none")
    /\ registry' = IF dev[e].panel THEN RemoveOrphans(e, dev[e].partitions) ELSE registry
    /\ views' = IF RegistersView(e) THEN views + 1 ELSE views
    /\ UNCHANGED <<disabled, dev, late, listening, leaked, world, errors, acts, restarts,
                   rest>>

\* every entry has been disabled meanwhile: there is no first one to index.
\* The entities have been added, the listener runs, and the host is written.
SetupRaises(e) ==
    /\ at[e] = "platforms" /\ Entries \subseteq disabled
    /\ Becomes(e, "error") /\ Goto(e, "none")
    /\ registry' = IF dev[e].panel THEN [registry EXCEPT ![e] = @ \union dev[e].partitions]
                   ELSE registry
    /\ late' = [late EXCEPT ![e] = @ + 1]
    /\ adrift' = adrift \union {e}
    /\ UNCHANGED <<disabled, dev, waiting, hasty, listening, leaked, views, world, errors,
                   acts, restarts>>

-----------------------------------------------------------------------------
(* async_unload_entry, which Home Assistant calls for a loaded entry only. *)

Busy(e) == state[e] \in {"setup", "unloading"}

\* a failed unload is not recoverable: the reload is refused
UnloadBegins(e) ==
    \/ state[e] = "loaded" /\ Becomes(e, "unloading") /\ Goto(e, "stop")
    \/ state[e] \in {"retry", "error", "auth_failed"} /\ Becomes(e, "not_loaded") /\ UNCHANGED at
    \/ state[e] \in {"not_loaded", "failed_unload"} /\ UNCHANGED <<state, at>>

\* a reload waits for the setup or the unload that holds the entry's lock
ReloadAsked(e) ==
    \/ Busy(e) /\ waiting' = [waiting EXCEPT ![e] = @ + 1] /\ UNCHANGED <<state, at>>
    \/ ~Busy(e) /\ UnloadBegins(e) /\ UNCHANGED waiting

\* the lock is passed on; a reload sets the entry up again before it gives
\* the lock back
Granted(e) ==
    /\ waiting[e] > 0 /\ ~Busy(e) /\ (state[e] = "not_loaded" => e \in disabled)
    /\ waiting' = [waiting EXCEPT ![e] = @ - 1]
    /\ UnloadBegins(e)
    /\ UNCHANGED <<disabled, dev, late, hasty, listening, leaked, registry, views, world,
                   adrift, errors, acts, restarts>>

Reload(e) ==
    /\ state[e] \notin {"not_loaded", "failed_unload"}
    /\ acts < MaxActs /\ acts' = acts + 1
    /\ ReloadAsked(e)
    /\ UNCHANGED <<disabled, dev, late, hasty, listening, leaked, registry, views, world,
                   adrift, errors, restarts>>

SetUp(e) == state[e] \in {"loaded", "unloading", "failed_unload"}

\* disabled_by is set at once, the reload that follows may have to wait
Disable(e) ==
    /\ e \notin disabled
    /\ acts < MaxActs /\ acts' = acts + 1
    /\ disabled' = disabled \union {e}
    /\ hasty' = IF SetUp(e) THEN hasty ELSE hasty \union {e}
    /\ ReloadAsked(e)
    /\ UNCHANGED <<dev, late, listening, leaked, registry, views, world, adrift, errors,
                   restarts>>

Enable(e) ==
    /\ e \in disabled
    /\ acts < MaxActs /\ acts' = acts + 1
    /\ disabled' = disabled \ {e}
    /\ hasty' = IF SetUp(e) THEN hasty ELSE hasty \ {e}
    /\ ReloadAsked(e)
    /\ UNCHANGED <<dev, late, listening, leaked, registry, views, world, adrift, errors,
                   restarts>>

\* slip: the listener is left running
StopNothing(e) ==
    /\ at[e] = "stop"
    /\ Goto(e, "entities")
    /\ UNCHANGED <<state, disabled, dev, late, listening, leaked, registry, views, world,
                   errors, acts, restarts, rest>>

\* async_stop of the listener, if there is one, has returned
StopListener(e) ==
    /\ at[e] = "stop"
    /\ listening' = listening \ {e}
    /\ Goto(e, "entities")
    /\ UNCHANGED <<state, disabled, dev, late, leaked, registry, views, world, errors,
                   acts, restarts, rest>>

\* the platforms are unloaded, or one of them refuses
UnloadPlatforms(e) ==
    /\ at[e] = "entities"
    /\ \/ Answered /\ Goto(e, "reset")
       \/ Error /\ Goto(e, "kept")
    /\ UNCHANGED <<state, disabled, dev, late, listening, leaked, registry, views, world,
                   acts, restarts, rest>>

\* slip: only an entry that is still loaded is reset
ResetsIfLoaded(e) == e \in Controls /\ state[e] = "loaded"

\* whether the notification host is reset
Resets(e) == e \in Controls

\* set_alarm_server with 0.0.0.0, whose errors are suppressed; a device may
\* have obeyed before its answer was lost
UnloadEnds(e) ==
    /\ at[e] \in {"reset", "kept"}
    /\ \/ Resets(e) /\ Answered /\ host' = [host EXCEPT ![e] = "off"] /\ adrift' = adrift \ {e}
       \/ Resets(e) /\ Error /\ host' = [host EXCEPT ![e] = "off"] /\ adrift' = adrift \ {e}
       \/ Resets(e) /\ Error /\ UNCHANGED host /\ adrift' = adrift \union {e}
       \/ ~Resets(e) /\ UNCHANGED <<host, adrift, errors>>
    /\ Becomes(e, IF at[e] = "kept" THEN "failed_unload" ELSE "not_loaded")
    /\ Goto(e, "none")
    /\ UNCHANGED <<disabled, dev, late, waiting, hasty, listening, leaked, registry,
                   views, enabled, retired, toggles, acts, restarts>>

-----------------------------------------------------------------------------
(* The world.                                                              *)

\* tasks, views and entry states are gone; the registry and the devices stay,
\* and no entry is unloaded
Restart ==
    /\ restarts < MaxRestarts /\ restarts' = restarts + 1
    /\ state' = [e \in Entries |-> "not_loaded"]
    /\ at' = [e \in Entries |-> "none"]
    /\ dev' = [e \in Entries |-> NewDevice]
    /\ late' = [e \in Entries |-> 0]
    /\ listening' = {}
    /\ leaked' = [e \in Entries |-> 0]
    /\ views' = 0
    /\ waiting' = [e \in Entries |-> 0]
    /\ hasty' = {}
    /\ adrift' = adrift \union {e \in Entries : Held(e)}
    /\ UNCHANGED <<disabled, registry, world, errors, acts>>

\* the installer disables or enables a partition on the panel
Toggle(e, p) ==
    /\ toggles < MaxToggles /\ toggles' = toggles + 1
    /\ enabled' = [enabled EXCEPT ![e] = IF p \in @ THEN @ \ {p} ELSE @ \union {p}]
    /\ retired' = [retired EXCEPT ![e] = IF p \in enabled[e] THEN @ \union {p} ELSE @]
    /\ UNCHANGED <<owner, listening, leaked, registry, views, host, errors, acts,
                   restarts, rest>>

-----------------------------------------------------------------------------

Setup(e) ==
    \/ SetupBegins(e) \/ ReadDevice(e) \/ ReadPanel(e) \/ ReadPartitions(e)
    \/ NotReady(e) \/ AuthFails(e)
    \/ SetAlarmServer(e) \/ SetupFails(e) \/ FirstRefresh(e) \/ SetupEnds(e) \/ SetupRaises(e)

Unload(e) == Granted(e) \/ StopListener(e) \/ UnloadPlatforms(e) \/ UnloadEnds(e)

User(e) == Reload(e) \/ Disable(e) \/ Enable(e)

Next ==
    \/ \E e \in Entries : Setup(e) \/ Unload(e) \/ User(e)
    \/ Restart
    \/ \E e \in Panels, p \in Parts : Toggle(e, p)

Spec == Init /\ [][Next]_vars

(* Home Assistant sets enabled entries up, retries those that were not     *)
(* ready and passes their locks on; awaits are answered or time out.       *)
(* Nothing is assumed of the user.                                         *)
FairSpec == Spec /\ \A e \in Entries : WF_vars(Setup(e)) /\ WF_vars(Unload(e))

-----------------------------------------------------------------------------

(* Each arming listener that runs belongs to the setup Home Assistant      *)
(* holds, which will stop it, or was left behind by a setup that failed    *)
(* after init_coordinators had started it: in set_alarm_server, or because *)
(* every entry had been disabled meanwhile; and a loaded panel has its     *)
(* listener.                                                               *)
ListenersAccountedFor ==
    \A e \in Entries :
        /\ leaked[e] + (IF e \in listening /\ ~Held(e) THEN 1 ELSE 0) =< late[e]
        /\ state[e] = "loaded" => (e \in listening <=> dev[e].panel)

(* A partition's entity is removed from the registry only when the panel   *)
(* no longer has the partition enabled (docstring of                       *)
(* remove_orphaned_partition_entities).                                    *)
OnlyRetiredRemoved ==
    [][\A e \in Entries : registry[e] \ registry'[e] \subseteq retired[e]]_vars

(* The same, but for a setup whose request for the partitions was          *)
(* suppressed: no other lost request, retry or reload removes an entity.   *)
RemovedIfRetiredOrBlind ==
    [][\A e \in Entries :
         dev[e].blind \/ registry[e] \ registry'[e] \subseteq retired[e]]_vars

(* A device posts its events to Home Assistant only while its entry is set *)
(* up, unless the entry was given up without a reset, and no reset has     *)
(* succeeded since: the reset at an unload was lost, a restart cut the     *)
(* setup or the entry off, or a setup failed after its device was told.    *)
HostReverted == \A e \in Entries : host[e] = "ha" => Held(e) \/ e \in adrift

(* The view that takes the events of all devices is there while the first  *)
(* enabled entry is set up, through failures, disabling and enabling of    *)
(* the entries before it, unless one of these, or the entry itself, was    *)
(* disabled when it was not set up, and so passed the view on to nobody.   *)
ViewReady ==
    \A e \in Entries : SetUp(e) /\ First(e) =>
        views > 0 \/ \E i, j \in DOMAIN Order : i =< j /\ Order[i] \in hasty /\ Order[j] = e

(* A setup whose device fails for a while is completed by the retries,     *)
(* unless the user disables the entry, or a 401 or set_alarm_server ended  *)
(* it for good.                                                            *)
SetupCompletes ==
    \A e \in Entries :
        state[e] = "setup" ~> \/ state[e] = "loaded"
                              \/ e \in disabled
                              \/ state[e] = "auth_failed"
                              \/ late[e] > 0
=============================================================================
