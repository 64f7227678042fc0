# TLA+ models of hikvision_next

`hikvision_next` is a Home Assistant integration (Python, asyncio) for Hikvision
cameras, recorders (NVRs) and security control panels. This directory holds TLA+
modules of the parts of it that keep state across awaits, the configurations
with which TLC checks them, and proofs that TLAPS checks. Paths below are
relative to `src/custom_components/hikvision_next/`.

## 1. Inventory

Everything runs in one asyncio event loop: there is no parallelism, but every
`await` is a point at which another coroutine may run, and the device behind
the HTTP requests changes on its own.

| Component | State | Operations | Talks to |
|---|---|---|---|
| `ISAPIClient.request` and friends (`isapi/isapi.py` 1078-1194), `SessionLoginAuth` (`isapi/session_auth.py`) | `_auth_method`, `_session` (with the shared cookie jar), `cookie`, `pending_initialization` | `request`, `_detect_auth_method`, `_fallback_to_session_login`, `async_auth_flow` | the device; called by all other components |
| `HikvisionDevice` (`hikvision_device.py`) | `auth_token_expired`, `coordinators`, `events_info`, `arming_listener` | `init_coordinators`, `get_device_event_capabilities`, `handle_exception` | coordinators, entities, reauthentication flow |
| Hardware discovery (`isapi/isapi.py` 101-428, 435-763) | `device_info`, `capabilities`, `cameras`, `partitions`, `zones`, `peripherals`, `storage` | `get_hardware_info`, `get_cameras`, `get_partitions`, ... | `request` |
| Coordinators (`coordinator.py` 57-237) | `data`, the timers of Home Assistant's `DataUpdateCoordinator` and `Debouncer` | `_async_update_data` of Events, Secondary and Security | `request`, entities |
| `SecurityArmingListener` (`coordinator.py` 262-370), `open_arming_stream` (`isapi/isapi.py` 1211-1276) | `_task`, `_stopped`, `delay`, the connection | `async_start`, `async_stop`, `_async_run`, `_handle_event`, follow-up refresh | the panel, Security coordinator, event bus |
| Entry lifecycle (`__init__.py`) | `runtime_data`, the view, registry entries | setup, unload, migration, orphan removal, disabling | Home Assistant's config entries and registries |
| Notifications (`notifications.py`) | binary sensor states | `post`, `get_isapi_device`, `trigger_sensor`, `handle_security_cp_event` | devices post to it; all entries |
| Switches (`switch.py`) and setters (`isapi/isapi.py` 765-886) | optimistic `_attr_is_on`; documents on the device | event, output, holiday, bypass, chime, silent | `request`, coordinators |
| Alarm panel (`alarm_control_panel.py`) | none | arm, disarm | `request`, Security coordinator |
| Notification host (`isapi/isapi.py` 888-978) | a document on the device | `get_alarm_server`, `set_alarm_server` | `request`; called by setup and unload |
| Multipart parser (`isapi/multipart_stream.py`) | buffer and headers of the part being read | `feed` | `open_arming_stream` |
| Snapshots (`isapi/isapi.py` 1033-1069), `camera.py`, `image.py` | `use_alternate_picture_url` | `get_camera_image` | `request_bytes` |
| Config flow (`config_flow.py`), services (`services.py`) | none between steps | user, reconfigure, reauth; reboot, raw request | `request`, entry lifecycle |
| Sensors, diagnostics, tables, translations | none | projections and texts | coordinators |

What is hard, and what makes each part correct:

- **Shared authentication.** All coroutines of a device share `_auth_method` and
  read it before and after awaits. Nobody may be shut out while the password is
  right; the user must be asked when it is wrong, and only then.
- **The listener.** Cancellation may meet the task anywhere, also while an error
  replaces the `CancelledError`; an event must not be dropped silently; a panel
  that drops connections must be retried with a growing delay, for ever.
- **Refreshes.** Polls, requested refreshes and events overlap; the panel's status
  lags behind its events; requests fail one by one; a debouncer drops or delays
  requests. What the entities show must be something the panel said, must not go
  back in time, and must converge.
- **Setup.** A sequence of a dozen awaits, of which most failures are suppressed,
  with side effects (listener, notification host, registry, view) that are undone
  only by an unload that Home Assistant calls only for a loaded entry.
- **Notifications, switches, documents, parser, migration.** Matching by address,
  check-then-act, read-modify-write, chunk independence, chains of versions.

The hazards are listed one by one, at their lines, in `PROJECT.json`.

## 2. Plan

Modules, the most important behaviour first, and their state:

1. `ArmingListener`: modelled, checked, and proved (`ArmingListenerProofs`).
2. `SecurityRefresh`, implementing the abstract `StatusMirror`: modelled, checked, and
   proved, the refinement included (`SecurityRefreshProofs`).
3. `RequestAuth`: modelled, checked, and proved (`RequestAuthProofs`).
4. `EntrySetup`: modelled, checked, and proved (`EntrySetupProofs`).
5. `EventCatalog` and `Notifications`: supported events, their merging into entities,
   the registry flags, and the webhook's matching, against entries that come and go:
   modelled, checked, and proved (`EventCatalogProofs` for the operators,
   `NotificationsProofs` for the state machine).
6. `Switches`: two calls at a time, mutual exclusion, documents written back whole,
   optimistic switches: modelled, checked, and proved (`SwitchesProofs`).
7. `DeviceClient`, which puts `MultipartStream`, `AlarmServer`, `Snapshot`,
   `EntryConfig`, `PanelUnits` and `Cameras` side by side: modelled,
   checked, and proved (`DeviceClientProofs`).

What is left to model is listed in section 7, what is left to prove at the end of
section 6. Liveness stays with TLC throughout.

Which composes which: `StatusMirror` is instantiated by `SecurityRefresh`; `Notifications`
extends `EventCatalog` and has the entry states of `EntrySetup` that events can tell
apart; `Switches` has one refresh in flight where `SecurityRefresh` has the debouncer;
`DeviceClient` extends its six parts. `ArmingListener` asks for the refreshes whose fate
`SecurityRefresh` follows, and `RequestAuth` is what becomes of a single request
in all of them.

## 3. Modules

The constants carry named assumptions (`ASSUME`), which TLC evaluates on every run and
the proofs rest on. Besides sorts and bounds they say: delays are positive and the base
delay is the smaller one; lists of entries, groups and channels have no duplicates; there
is a session object for each caller (`RequestAuth`), which is what recycling them needs;
events that exclude each other come in sets of at least two (`Switches`); a host of the
first notification document has an address or a name and not both (`AlarmServer`); entries
of a former session are what this code has made and migrated (`EntryConfig`); kind and
number tell the units of a panel apart (`PanelUnits`); a device states the right lengths
(`MultipartStream`, see below); a recorder numbers its network
cameras and its inputs in one row, as it must since `Streaming/channels/<id>0<n>` is asked
for both (`Cameras`). About devices
with events (`Notifications`): the numbers of the triggers tell them apart, one that is
only answered by name is the only one of its name, channel and port, and an alert names the
channel of its trigger or one above 32, which is what `update_alert_channel` translates.

In every module the operators marked `slip` are plausible programming mistakes,
each in front of the definition it would replace. They are not part of the
specifications; each property is known to fail with one of them.

### ArmingListener

One `SecurityArmingListener` over its restarts. `phase` is the await the task is
suspended in (`opening` the connection, `reading` a chunk, `sleeping`), `stopper` the
progress of `async_stop`, `cancelling` a cancellation that has been requested and not
yet delivered. The parts that have arrived are numbered; `read` is the last one the
task has taken. Since `_handle_event` does not await, all parts of a chunk are one
step (`ReadChunk(last)` for any `last`), in which the parts up to the first that
raises are handled. The model tells parts apart by what the code does with them:
`ack`, `alive`, `event`, `null` (an event whose `CIDEvent` is null: the refresh task
is created, then building the bus event raises) and `list` (JSON that is not an
object). `Cancelled` is the delivery of `CancelledError`; `CancelReplaced` the case in
which closing the response raises something else while it unwinds, which
`except Exception` swallows: the test of `_stopped` then ends the task. `FollowUp` is
the second request of a refresh task; the tasks outlive the listener, as in the code.
Data that has arrived is read before the end or the loss of its connection is seen.

### SecurityRefresh and StatusMirror

Values are version numbers per group (partitions, zones, ... one request each).
`real` is the panel, `status` what its status endpoints report, which lags behind,
`data` what the coordinator holds. `Begin`/`Answer`/`Fail`/`Finish` are a refresh in one
of two slots: the one that holds the debouncer's lock, and the scheduled one.
`Request`, `RunsNow` and `TimerEnds` translate Home Assistant's `Debouncer` (cooldown
10 s, immediate): a request during the cooldown is remembered, one while a refresh
holds the lock is dropped, and each refresh cancels both timers. `HandleEvent` and
`FollowUp` are the listener's refresh tasks. Home Assistant's part is external to
this repository.

`StatusMirror` is what the coordinator promises: a poll shows, per group, something
the panel reported between its beginning and its end, or nothing.
`MirrorSpec` says that `SecurityRefresh` implements it; `floor` is mapped to the status
at the beginning of each refresh in flight.

### RequestAuth

Callers of one device: coordinators (`Pollers`, of which only the Events coordinator
is in `Clearing`), service calls (`Users`) and the arming stream (`Streams`). `auth` is
`_auth_method`: none, Basic/Digest (`plain`), the no-op `httpx.Auth()` (`noop`) or a
`SessionLoginAuth` object with its own cookie; `jar` is the cookie in the shared httpx
client. A caller is suspended in the probe, a request, the login exchange or the
request after it. `FallsBack` and `Rejected` read the *current* `auth` after the await,
as line 1157 does. `Unauthorized` applies `handle_exception` for coordinators. Objects
are recycled when no request refers to them. The login exchange (capabilities and
login request) is one step: only its outcome touches shared state. `async_auth_flow` ends
with whatever the device answered last, and httpx hands that to `request()` as the answer
to its own request (`NoSession`): a 401 is a 401, another status an error that is no
`ISAPIUnauthorizedError`, a 200 without a session a result that is `foreign` to what was
asked. `refusal`, chosen in `Init`, is which of them a device gives to a login it does not
accept; a device that is still booting gives any of them (`LoginFails`).

### EntrySetup

Config entries with the device each of them sets up. `at` is the await a setup or
an unload is suspended in. While `pending_initialization` is set, HTTP errors are
"suppressed" (answered with `{}`): each request either is answered, is suppressed, or
raises. A suppressed `System/deviceInfo` leaves no MAC address, which Home Assistant's
device registry refuses: it is `NotReady` like any error in the `try` statement.
`Coordinators` is `init_coordinators` up to its first await: there the listener of a
panel is running. The steps after it are unguarded in the code: a raising
`set_alarm_server` makes the setup fail for good (`SetupFails`) with the listener left
running; the next setup makes a new device object, and `leaked` counts listeners
nobody refers to. Home Assistant calls `async_unload_entry` for loaded entries only and
does not reload an entry whose unload failed. It sets `disabled_by` at once, and the
reload that follows waits for a setup or unload under way (`waiting`, `Granted`): an entry
may be disabled during its own setup. If then no entry is enabled,
`get_first_instance_unique_id` raises `IndexError` (`SetupRaises`), which ends the setup
like a raising `set_alarm_server`; that the platforms stay set up is left out. `blind`,
`late`, `adrift`, `hasty` and `retired` are history.

### EventCatalog and Notifications

`EventCatalog` is pure: the types of event and their alternative names, the triggers of
a device turned into `EventInfo`s (`CreateEvents`, `GetSupportedEvents` with the triggers
that are only answered one by one), their merging into entities by unique id
(`MergeEvents`), and the way back from an alert to a unique id (`AlertEventId`,
`AlertChannel`, `AlertUid`). A url is a tuple of the collection, slug and number, a
unique id a tuple of the parts an underscore joins.

`Notifications` is the state machine. `phase` is how far an entry's setup is, with the
steps events can tell apart; `known` are the entries with `runtime_data`, which is set
before the first await that may fail and stays after a failure: such an entry is matched
although it is not loaded. `caps` is `events_info`, `registry` the entity registry's
entry per unique id with who disabled it, `shown` the state. A post is suspended once
(reading its body) between `Post` and `Handle`; the entries may change in between.
`RefreshRegistry` is `refresh_disabled_entities_in_registry`, event by event, with what
Home Assistant does to an entity whose flag changes: it drops the state, or reloads the
entry later (`ScheduledReload`). A setup that is refused with a 401 (`SetupRefused`) or
whose `set_alarm_server` raises (`SetupFails`) waits for the user. `centre` is which triggers notify the surveillance
center on the device, `told` what the device said when it was last asked.
Every host name is taken to resolve, and the view to be registered (`EntrySetup`'s
`ViewReady` says when it is not).

### Switches

A call is the sequence of requests its setter makes: `mutex` (the exclusions are asked),
`get`, `put`, `answer`. A control is the switch `on`, everything `rest` in its document
and, for the holiday, whether its dates cover today. `Whole` controls (events and the
holiday) are read, changed and written back; the output, bypass, chime and silence are
single writes. `Return` is the end of every setter with its `finally`: events and
outputs ask for a refresh whatever happened, the holiday and the bypass after a
success, and the zone settings set `_attr_is_on` themselves. Somebody else changes the
device at any time. A behaviour is about one `scene`, controls of one coordinator,
chosen in `Init`: two exclusive events, with a device that can tell its exclusions and
one that cannot; an output beside a disabled event; the holiday on a leap day and on
another; the switches of a zone with and without polling. `seen` and `stale` in a call
and `excused` are history.

### DeviceClient

Six parts that share no state with each other or with the rest; each is small, and one
run checks them all. `part`, chosen in `Init`, says which one a behaviour is about.

- `MultipartStream`: `MultipartStreamParser.feed` over tokens. `Turn` is one turn of its
  loop, with `_consume_part_headers` and `_consume_part_body`; `FeedLoop`, a recursive
  function, repeats it as often as it can go on; `Feed` hands it a chunk of any size. The
  device sends parts with a length, without one (whose body loses the line ends at its
  end), or a closing delimiter. A delimiter is one token, and so is a header line, one for each
  length it states (`LinesAssumption`): a cut inside one of them is not exercised. Of the device it is assumed that a length it states
  is right and that a body without one holds no delimiter (`PartsAssumption`): nothing
  else tells the receiver where such a body ends.
- `AlarmServer`: `set_alarm_server` as a GET and a PUT some time later, with the
  comparison that ends it early, and `get_alarm_server`. Somebody else edits a host, this
  one or the other one, at any time; either request may fail, after which the call raises
  or, during a setup, returns. A PUT may arrive although its answer is lost.
- `Snapshot`: `get_camera_image` of several viewers over the shared
  `use_alternate_picture_url`, with the retries and the switch of the url.
- `EntryConfig`: the flows (`user`, `reconfigure`, `reauth`) with the await on the device
  they point at, addresses that lead to another device, and `async_migrate_entry`, which
  is one step because none of what it awaits reads what it writes. For an entry of version
  1 it ends at the assignment of `config_entry.version`, which raises (section 4).
- `PanelUnits`: the zones and peripherals, read at setup, which fixes the entities, and
  with every refresh, which gives the values, while the panel's units change. Each list
  is a request that may fail.
- `Cameras`: `get_cameras` and `get_camera_streams`, the made-up serial numbers, and the
  registry of the devices the camera entities belong to. A recorder may report a serial
  number twice, not at all, or its own. `NetworkCameras` is the loop of
  `get_cameras`, in which the serial of a camera depends on those found before it.

## 4. Runs

| Run | Question | Bounds, and why they suffice |
|---|---|---|
| `ArmingListener` | `TypeOK`, `KeepAlivesAreFree`, `QuietAfterStop`, `LostOnlyToStopOrRaise`, `StopCompletes`, `Reconnects`, `BacksOff` | three parts make chunks with something before, at and after a raising part; two starts make a stop followed by a new listener; delays 5..60 are the code's |
| `SecurityRefresh` | `TypeOK`, `MirrorSpec`, `OlderOnlyByOverlap`, `Converges` | two groups (one pushed, one not, as zones are), two changes, one failed request, one lost connection; two refreshes in flight, one of each kind |
| `PushOnly` | `FollowUpCatches` with polling off and a panel that catches up faster than a refresh takes | three changes of two groups, so that an event comes during another's refresh, cooldown and sleep |
| `PushOnlySlowPoll` | the same without the timing assumption: violated | as above |
| `RequestAuth` | `TypeOK`, `ReauthExplained`, `WrongIsNoticed`, `Recovers` | the Events coordinator with two requests per update, two service calls, one reboot, two errors, one password change, each of the three ways to refuse a login; two callers suffice for each to overwrite the other's `_auth_method` (404 390 states) |
| `PanelReauth` | `ReauthOnlyIfWrong` for a panel's two coordinators: violated | two reboots |
| `PushOnlyAuth` | `Recovers` for the arming stream alone, as on a panel without a Secondary coordinator: violated | one reboot |
| `EntrySetup` | `TypeOK`, `ListenersAccountedFor`, `HostReverted`, `ViewReady`, `RemovedIfRetiredOrBlind`, `SetupCompletes` | a panel and a camera, one failure, one partition toggled, two user actions, one restart: a late failure followed by a reload leaks a listener, a disabling changes the first entry, two empty the list of enabled entries (358 440 states) |
| `OrphanRemoval` | `OnlyRetiredRemoved`: violated | one panel with two partitions, one failure, one reload |
| `Notifications` | `TypeOK`, `RegistryFollows`, `OneEntityPerDocument`, `RightSensor`, `Delivered`, `Settles` | a camera of two channels with two names for one event, a recorder with two IP cameras at one port and an analog one, a panel; one naming itself by MAC, one by a serial spelt otherwise, one not at all; one post, as posts do not read what others wrote but `shown`; two upsets make a failed setup, or a disabled entry, combined with an edit (119 908 states) |
| `Switches` | `TypeOK`, `Explained`, `ExclusiveByOverlap`, `CallEffective`, `Settles` | two calls suffice for each to write between the other's read and write; one change by somebody else, one lost request or answer; the seven scenes of section 3 (334 628 states) |
| `DeviceClient` | `TypeOK`, `PartsInTime`, `HostReadsBack`, `SnapshotHonest`, `EntryKeepsDevice`, `ShownIsHeard`, `CamerasApart` | three parts cut into chunks anywhere; three calls over four addresses (both schemes, name and number, with and without port) and two edits; two viewers; two flows at once over two devices and entries of every version; three changes at a panel of two zones, a keypad and a siren with equal numbers; a recorder with two network cameras and an input, listed twice (247 685 states) |

The runs of `ArmingListener`, `EntrySetup`, `Notifications`, `Switches` and `DeviceClient`
do not check deadlock: a stopped listener, an entry nobody touches any more, a device
that is not changed and a stream that has been read may rest. The other systems never
stop.

### What the violated runs show

- `PushOnlySlowPoll`: the follow-up refresh is dropped when a refresh that has already
  read the old status is still in flight. With polling turned off the change is not
  shown until the next event.
- `PanelReauth`: a panel's coordinators never reset `auth_token_expired`; two requests
  that race through line 1157 of `isapi.py` after reboots add up to a reauthentication
  flow although the password is right. With a single reboot the property holds.
- `PushOnlyAuth`: after a reload of an entry the probe is answered thanks to the cookie
  jar and a no-op auth is cached. When the device then forgets the session, the
  arming stream is refused at every reconnect: only `request()` falls back to
  sessionLogin. This is a panel whose polling is turned off and that has neither
  `httpHosts` nor holiday mode, while nobody operates it. On others the Secondary
  coordinator, which the polling interval does not reach (`hikvision_device.py:109`),
  calls `request()` every hour, falls back, and so replaces the no-op auth.
- `OrphanRemoval`: an HTTP error to `SecurityCP/Configuration/subSys` during setup is
  taken for an empty list, and the registry entries of all partitions are removed.

### Found on the way

Each of these is a case the properties have to except, or that a module shows; none has
a run of its own.

- Authentication: a device that refuses a login with another status than 401, or with a
  200 that holds no session, hides a changed password at run time: no coordinator meets an
  `ISAPIUnauthorizedError`, and the user is not asked (`WrongIsNoticed` speaks of devices
  that answer 401).
- Setup: one that fails in `set_alarm_server` leaves its listener running
  (`ListenersAccountedFor` counts it); the view may not exist while a later entry is
  loaded and told to push, when the first entry failed, or when the first one was disabled
  before it was set up (`ViewReady` names the entries that were `hasty`). When the only
  enabled entry is disabled while its setup is in flight, `get_first_instance_unique_id`
  (`__init__.py:135`) raises `IndexError`: the setup has failed, `async_unload_entry` is
  never called, and the device goes on posting to Home Assistant, and the listener of a
  panel runs on, although no request failed (`SetupRaises`, counted in `adrift` and `late`).
  HTTP errors during setup are taken for empty lists (`PanelUnits`, `Notifications`).
- Refreshes: with one request per update the reset of `auth_token_expired` at its end
  hides a wrong password for ever (`WrongIsNoticed` needs the two requests per update of
  the run); reconnecting refreshes nothing, so that with polling off a change missed
  while disconnected stays hidden.
- Webhook (`RightSensor`): a single ready entry receives the events of any device
  (`notifications.py:93`); an event without identity from a shared address goes to
  the first entry with that address; the IP cameras of a DVR behind the first one are
  misnumbered when their port is shared (`notifications.py:190`). An alert without a MAC
  address equals the missing MAC address of an entry (`notifications.py:101`). The
  `eventState` of an alert is never read. `dynInputIOPortID` is read for triggers
  (`isapi/isapi.py:298`) and not for alerts (`isapi/isapi.py:1011`).
- Switches: exclusive events can be turned on together by two calls, the check and
  the PUT being awaits apart (`ExclusiveByOverlap`); a document written back whole loses
  what somebody else wrote meanwhile (`CallEffective` speaks of calls nobody
  disturbed); a lost answer to the holiday or bypass asks for no refresh
  (`Explained`); turning the holiday on raises on 29 February; a mutex function without
  an event of its own raises `KeyError`; the PIR alarms of all channels share one document
  (`OneEntityPerDocument`).
- Parser (`PartsInTime`): after a closing delimiter the parts that follow in the same
  chunk wait for the next one (`multipart_stream.py:49`, against the docstring of line
  24, which returns every part completed by a chunk).
- Notification host: its document is written again at every setup when the address is a
  host name or has no port, because the comparison looks under a key that does not
  exist (`isapi/isapi.py:930`) and compares the port with `None`. Only requests are
  wasted: `HostReadsBack` holds.
  An edit of any host made between the two requests is undone, as the document is written
  back whole.
- Cameras (`CamerasApart`): a camera for which the recorder reports the recorder's own
  serial number becomes the recorder's device (`isapi/isapi.py:213` compares it with the
  other cameras only).
- Snapshots (`SnapshotHonest`): of two viewers at once, the one whose answer comes second
  gives up with an error document, which is handed out as the picture
  (`isapi/isapi.py:1061`).
- Migration: `__init__.py:154` assigns `config_entry.version`, which the Home Assistant
  versions that have `_abort_if_unique_id_mismatch` (`config_flow.py:92`) refuse with an
  `AttributeError`. An entry of version 1 gets its new unique id, keeps its version and is
  not set up, at every start again (`UniqueIdMigrated`).
- Flows (`EntryKeepsDevice`): a reauthentication compares the entry with itself and not
  the device that answered (`config_flow.py:98`); a disabled entry of version 1 does not
  keep a second one for its device from being added.
- Zones (`ShownIsHeard`): the sensor of a zone shows closed when nothing was heard of the
  zone (`binary_sensor.py:113`), where all others are unknown.

## 5. Fairness

- `ArmingListener`: the event loop runs what is ready, so a due sleep, a pending
  cancellation, a received chunk and a finished stop are weakly fair. The end of a
  connection is noticed (end of stream or `ARMING_IDLE_TIMEOUT`). An open is answered or
  times out, and is strongly assumed to succeed some day: nothing reconnects to a
  panel that never accepts.
- `SecurityRefresh`: timers fire, requests are answered, the lag of the panel is
  finite, the listener reconnects. Nothing is assumed of failures, changes or calls.
  `PollFast` is a timing assumption, stated at `FollowUp`.
- `RequestAuth`: a request in flight ends, coordinators and stream keep asking. A login
  exchange ends as the device's way to refuse says. Service calls may stop.
- `EntrySetup`: Home Assistant sets up enabled entries, retries those that were not ready,
  and passes an entry's lock on to a reload that waits for it; awaits end. Nothing is
  assumed of the user, and a setup that failed for good is not retried.
- `Notifications`: per entry, the setup that has begun goes on and a scheduled reload
  happens. A setup that failed stays failed until the user reloads the entry, which is not
  assumed: it is one of the two ends `Settles` allows. Nothing is assumed of users, devices
  or posts; failures are bounded.
- `Switches`: a refresh that is due begins and ends. One is due when it was asked for, or
  where a scene has polling; calls may stop anywhere.
- `DeviceClient`: safety only, no fairness.

## 6. Proofs

Every safety property that a passing run checks is a theorem; the theorems hold for every
value of the constants that satisfies the assumptions of section 3 (any number of entries,
callers, requests, failures, ...).
Where a property is not inductive a module `...Proofs` has an `Inv`, a conjunction of
named parts, that is; its step lemma has one case per action. Each `Inv`
has also been checked by TLC, with the bounds of section 4.

### The arming listener

`ArmingListenerProofs` proves, for every value of the constants (any delays with
`0 < BaseDelay <= MaxDelay`, any set of kinds of part, any number of parts and starts):

- `TypeCorrect`: `Spec => []TypeOK`. `TypeOK` is inductive; the step lemma has one case
  per action, the chunk and the panel having lemmas of their own.
- `StopIsQuiet`: `Spec => QuietAfterStop`. The property is about single steps, but needs
  to know that the task is over once `async_stop` has returned. `TaskInv` is the
  strengthening: a connection is open only under a reading task, a cancellation is
  pending only while `async_stop` awaits a task that has not ended, and a completed stop
  means an ended task. Without the part about `cancelling` a step of `Cancelled` could
  follow the stop.
- `NothingLostSilently`: `Spec => LostOnlyToStopOrRaise`, from `TypeOK`; `LostInChunk` is
  the core: a part that a chunk passes without firing lies behind a raising one.
- `NoRequestForKeepAlives`: `Spec => []KeepAlivesAreFree`, by counting: the events of a
  chunk are new, so the count on the right grows by as many as were asked.

### Refreshes

`SecurityRefreshProofs`. `Inv` is `TypeOK` with three parts. `Counted`: status endpoints
are never ahead of the panel. `Mirrored`: nothing shown or read is newer than the status
now, and nothing read is older than the status was when its refresh began. `Crossing`: a
refresh that met no other one began after the data were last replaced, two in flight have
met, and a scheduled one exists only with polling.

- `TypeCorrect`: `Spec => []TypeOK`.
- `Refinement`: `Spec => MirrorSpec`. Initial states map to initial states; each action is
  shown to be a step of `StatusMirror` (a report, an opening, a replacement) or to leave
  the mapped state alone.
- `StepsBackOnlyByOverlap`: `Spec => OlderOnlyByOverlap`, from `Crossing`: a refresh that
  met no other one has read nothing older than what is shown.

### Authentication

`RequestAuthProofs`. `Inv` counts what must have gone wrong (`Accounted`): with the right
password `auth_token_expired` takes two disturbances, asking the user three, and a caller
whose new session was lost again two - three if the flag is set and `_auth_method` still is
its own object. The last clause is what makes the count inductive. `PlainQuiet` and
`FreshGood` say that nothing is refused without a disturbance; `Tied` that who logs in
holds a session object. That a recycled object exists is a pigeonhole argument.

- `TypeCorrect`: `Spec => []TypeOK`; `ReauthNeedsReason`: `Spec => []ReauthExplained`.

### The life of an entry

`EntrySetupProofs`. `Inv` says per entry where `at` stands with `state` (`Placed`), what the
device object has learnt by then (`Learnt`), from when to when its listener runs
(`Listening`), that a device posts to Home Assistant only from the `alarm` step of its setup
to its reset, or `adrift` (`Posting`), and that an entry found disabled during its setup is
`hasty` (`Queued`). `ViewPassed` is `ViewReady` made inductive: it speaks of every entry that
is set up with no enabled one before it, whether it is enabled itself or not, because a
disabling and an enabling in between must not lose the claim.

- `TypeCorrect`, `ListenersCounted`, `HostsReverted`, `ViewRegistered`:
  `Spec => []` of `TypeOK`, `ListenersAccountedFor`, `HostReverted`, `ViewReady`.
- `OnlyOrphansRemoved`: `Spec => RemovedIfRetiredOrBlind`, from `Learnt`: when
  `remove_orphaned_partition_entities` runs, the enabled partitions are known unless the
  request was suppressed.

### Switches

`SwitchesProofs`. `Undisturbed` is the core: a call that is not `stale` has found its rivals
off and they still are, holds the document the device has, and, once it has written, what
it has written is there. `Accounted` is `Explained` made inductive: of the calls in flight
only those that have written excuse a switch, and what a refresh has read counts as what
will be shown. `Bounded` ties the documents' versions to the counter.

- `TypeCorrect`: `Spec => []TypeOK`; `WrongOnlyWithReason`: `Spec => []Explained`.
- `ExclusionKept`: `Spec => ExclusiveByOverlap`; `UndisturbedEffective`:
  `Spec => CallEffective`, both from `Undisturbed`.

### Events

`EventCatalogProofs` has the lemmas about the operators. The numbers of a device's triggers
survive `CreateEvents` and the events answered one by one (`SupportedEvents`); the unique
id tells kind, device, channel and port (`UidParts`), so that `MergeEvents` yields one
entity per id (`EntitiesApart`), and two entities have different urls (`DocumentsApart`)
unless both are the PIR alarm, whose url is a constant (`isapi/isapi.py:383`): a device
with a PIR alarm on two channels gets two switches for one document.
`OneEntityPerDocument` has that exception since the proof asked for it.

`NotificationsProofs`. `Inv` says per entry that its list of entities is the one the
catalogue makes of what the device said (`told`), that an entity set up is in the registry,
that a disabled entry is out, and that the flags follow (`Kept`). An entry's part of the
registry is its own, as ids contain the entry; this makes every case a case about one entry.
`Posts` adds that a post on its way was sent by some device.

- `TypeCorrect`, `RegistryKept`, `DocumentsKept`: `Spec => []` of `TypeOK`,
  `RegistryFollows`, `OneEntityPerDocument`.
- `DeliveredKept`: `Spec => Delivered`, and `RightSensorKept`: `Spec => RightSensor`. Both
  rest on `UidsAgree`: for every type of event, wrapped or not, the id `AlertUid` builds
  from an alert is the one the catalogue gave its trigger; and on `SenderFound` and
  `OtherFound`, which say whom `get_isapi_device` picks.

### The parts of the client

`DeviceClientProofs`. No part touches another one's state (`Apart`), so each has an
invariant of its own.

- `HostsReadBack`: a call in flight holds the document it read with its first host
  rewritten, what `Rewritten` makes of a host reads back as the address
  (`RewrittenReadsBack`), and the other host in it is as it was last edited unless an edit
  has crossed the call.
- `SnapshotsHonest`: the requests of a call are bounded by its attempts; who still asks at
  the first url when the stream has been switched has been passed.
- `EntriesKept`: from the entries each flow and migration may change and what they keep.
- `UnitsShown`: a value is kept for a unit exactly if the last refresh heard of it, as the
  ids of units do not collide (`UidsApart`).
- `CamerasKeptApart`: by induction over the loop of `get_cameras` (`LookedKeeps`,
  `NetworkFound`): a reported number is taken only if no camera before has it, and one that
  is made up contains the camera's own id; the recorder's own number is taken only from
  its report.
- `PartsAreInTime`: `Spec => []PartsInTime`, for any parts and lengths. The text of a stream
  is laid out by offsets (`TextLaid`, `Layout`), and whatever lies on the wire or in the
  buffer is a piece of it, `Cut(text, a, b)`. `StreamInv` says which: when `b` tokens have
  arrived and part `k` is next, the buffer starts where that part starts, or two tokens
  before, as a line end that comes late is left over (`Before`), or its headers are read
  and the buffer starts with its body (`Inside`); the bodies of the parts before have been
  returned; and no later part has arrived (`Waits`), unless a closing delimiter was met.
  `HeadersConsumed` and `BodyConsumed` find the first delimiter, the end of the headers and
  the length in such a buffer, `TurnKeeps` puts them together to one turn, and `LoopReads`
  goes over the turns. `TurnsUnfold` and `FlattenUnfolds` show that the recursive functions
  behind `FeedLoop` and `FlattenSeq` exist. `StreamOwes` counts the parts that have
  arrived: they are those returned.
- `ClientTyped`: `Spec => []TypeOK`, from the invariants above; `AlarmTyped` adds that a host
  has either an address or a name, in the document and in one about to be written.

Where a definition chooses a least element or recurs over a list, the proofs use the
minimum of a set of naturals (`LeastNumber`) and induction over a set (`Induction`), both
from the well-foundedness of finite sets; `LoopDefined` shows with the latter that the
recursive function of the cameras' loop exists. What is proved by this induction is always
about a given recursive function, for sets of naturals; an induction over an operator is
out of the provers' reach.

### Only model-checked

- Liveness, which is out of TLAPS's reach: `StopCompletes`, `Reconnects`, `BacksOff`,
  `Converges`, `FollowUpCatches`, `WrongIsNoticed`, `Recovers`, `SetupCompletes`, and
  `Settles` of `Notifications` and of `Switches`.
- That the properties of the violated runs fail: TLC's counterexamples show it.

## 7. Not modelled

- Diagnostics, constants, tables, translations, tests and blueprints: texts and
  projections without state.
- `image.py`, the RTSP source of a camera, and `reboot`/raw requests of the services
  other than as requests of `RequestAuth` (the selection of the entry is a lookup).
- Storage and host-status sensors, and the sensors that show device information: they
  show a value of the coordinator's data as it is. How the storage sensor mixes two coordinators
  is listed among the hazards.
- The login exchange's hashing, the bytes of requests and answers other than in
  `MultipartStream`, `extract_boundary`, URLs and logging.
- Failed unloads in `Notifications` (they are in `EntrySetup`), a crash between the
  entity and the entry storage during migration, and a holiday that is on with dates in
  the past (turning it on again writes nothing; see the hazards).
