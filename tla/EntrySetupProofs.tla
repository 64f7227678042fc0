-------------------------- MODULE EntrySetupProofs --------------------------
(***************************************************************************)
(* Proofs about EntrySetup, for any number of entries and partitions and   *)
(* any number of errors, restarts and acts of the user: the types, that    *)
(* every arming listener and every notification host that is left behind   *)
(* is accounted for, when the view is registered, and that no entity is    *)
(* removed but for a retired partition or a suppressed request.            *)
(***************************************************************************)
EXTENDS EntrySetup, TLAPS

(* Where the setup and the unload of an entry stand with its state.        *)
Placed(e) ==
    /\ state[e] = "setup" <=> at[e] \in Settings
    /\ state[e] = "unloading" <=> at[e] \in {"stop", "entities", "kept", "reset"}
    /\ at[e] = "alarm" => e \in Controls

(* What a device object has learnt by then: nothing of the partitions      *)
(* before they were asked for, and after that the enabled ones, unless the *)
(* request was suppressed; only a panel is found to be one.                *)
Learnt(e) ==
    /\ dev[e].panel => e \in Panels
    /\ at[e] \in {"device", "panel"} => ~dev[e].panel
    /\ at[e] \in {"alarm", "refresh", "platforms"} /\ dev[e].panel /\ ~dev[e].blind =>
          registry[e] \subseteq dev[e].partitions \union retired[e]
    /\ e \in Panels => Parts \subseteq enabled[e] \union retired[e]

(* A listener runs from init_coordinators of a panel to its stop, and      *)
(* beyond a setup only if that failed after it was started.                *)
Listening(e) ==
    /\ at[e] \in {"device", "panel", "partitions", "entities", "kept", "reset"} =>
          e \notin listening
    /\ at[e] \in {"alarm", "refresh", "platforms"} \/ state[e] = "loaded" =>
          (e \in listening <=> dev[e].panel)
    /\ leaked[e] + (IF e \in listening /\ ~Held(e) THEN 1 ELSE 0) =< late[e]

(* Only an entry that controls the host has ever written it; a setup that  *)
(* finds its device posting was left behind by an earlier one.             *)
Posting(e) ==
    /\ host[e] # "other" => e \in Controls
    /\ host[e] = "ha" /\ (Held(e) => at[e] \in {"device", "panel", "partitions"}) => e \in adrift

(* A reload that waits was asked for by the user, and an entry that is     *)
(* disabled while it is being set up was enabled when that began.          *)
Queued(e) ==
    /\ waiting[e] =< acts
    /\ state[e] = "setup" /\ e \in disabled => e \in hasty

(* The entries before `e' are disabled, whether it is itself or not.       *)
Before(e) == \E i \in DOMAIN Order :
    Order[i] = e /\ \A j \in 1 .. i - 1 : Order[j] \in disabled

(* The entry itself, or one before it, passed the view on to nobody.       *)
Excused(e) == \E i, j \in DOMAIN Order : i =< j /\ Order[i] \in hasty /\ Order[j] = e

ViewPassed == \A e \in Entries : SetUp(e) /\ Before(e) => views > 0 \/ Excused(e)

Local(e) == Placed(e) /\ Learnt(e) /\ Listening(e) /\ Posting(e) /\ Queued(e)

Inv == TypeOK /\ (\A e \in Entries : Local(e)) /\ ViewPassed

-----------------------------------------------------------------------------
(* The parts actions are made of.                                          *)

Devices == [panel : BOOLEAN, partitions : SUBSET Parts, server : BOOLEAN, blind : BOOLEAN]

(* What a device object learns changes one field of it.                    *)
LEMMA Learning ==
    ASSUME TypeOK, NEW e \in Entries, NEW field, NEW value, Learns(e, field, value),
           \/ field \in {"panel", "server", "blind"} /\ value \in BOOLEAN
           \/ field = "partitions" /\ value \in SUBSET Parts
    PROVE  /\ dev' \in [Entries -> Devices]
           /\ \A f \in Entries \ {e} : dev'[f] = dev[f]
           /\ dev'[e].panel = IF field = "panel" THEN value ELSE dev[e].panel
           /\ dev'[e].partitions = IF field = "partitions" THEN value ELSE dev[e].partitions
           /\ dev'[e].blind = IF field = "blind" THEN value ELSE dev[e].blind
<1>1. PICK d \in Devices : dev[e] = d
  BY DEF TypeOK, Devices
<1> DEFINE new == [d EXCEPT ![field] = value]
<1>2. dev' = [dev EXCEPT ![e] = new]
  BY <1>1, Zenon DEF Learns
<1>3. CASE field = "panel" /\ value \in BOOLEAN
  <2>1. new = [d EXCEPT !.panel = value]
    BY <1>3
  <2> QED
    BY <1>1, <1>2, <1>3, <2>1 DEF TypeOK, Devices
<1>4. CASE field = "server" /\ value \in BOOLEAN
  <2>1. new = [d EXCEPT !.server = value]
    BY <1>4
  <2> QED
    BY <1>1, <1>2, <1>4, <2>1 DEF TypeOK, Devices
<1>5. CASE field = "blind" /\ value \in BOOLEAN
  <2>1. new = [d EXCEPT !.blind = value]
    BY <1>5
  <2> QED
    BY <1>1, <1>2, <1>5, <2>1 DEF TypeOK, Devices
<1>6. CASE field = "partitions" /\ value \in SUBSET Parts
  <2>1. new = [d EXCEPT !.partitions = value]
    BY <1>6
  <2> QED
    BY <1>1, <1>2, <1>6, <2>1 DEF TypeOK, Devices
<1> QED
  BY <1>3, <1>4, <1>5, <1>6

(* A step of one entry leaves everything of the others as it was.          *)
Same(f) ==
    /\ state'[f] = state[f] /\ at'[f] = at[f] /\ dev'[f] = dev[f]
    /\ f \in listening' <=> f \in listening
    /\ leaked'[f] = leaked[f] /\ late'[f] = late[f] /\ registry'[f] = registry[f]
    /\ enabled'[f] = enabled[f] /\ retired'[f] = retired[f] /\ host'[f] = host[f]
    /\ waiting'[f] = waiting[f] /\ (f \in adrift' <=> f \in adrift)
    /\ f \in disabled' <=> f \in disabled
    /\ f \in hasty' <=> f \in hasty

LEMMA OthersKept ==
    ASSUME Inv, NEW f \in Entries, Same(f), acts' >= acts, acts' \in Nat
    PROVE  Local(f)'
<1>1. acts \in Nat /\ acts' \in Nat /\ acts' >= acts /\ waiting[f] \in 0 .. MaxActs
  BY BoundsAssumption DEF Inv, TypeOK
<1>2. Queued(f)'
  <2>1. waiting[f] \in Nat
    BY <1>1, BoundsAssumption
  <2> QED
    BY <1>1, <2>1 DEF Inv, Local, Same, Queued
<1> QED
  BY <1>2 DEF Inv, Local, Same, Placed, Learnt, Listening, Posting, Held

(* The view stays registered while the entries that are set up stay so or  *)
(* leave, and none is disabled or enabled.                                 *)
LEMMA ViewKept ==
    ASSUME Inv, views' >= views, views' \in Nat, disabled' = disabled, hasty' = hasty,
           \A e \in Entries : SetUp(e)' => SetUp(e)
    PROVE  ViewPassed'
BY DEF Inv, TypeOK, ViewPassed, Before, Excused

(* What a step of one entry has to keep.                                   *)
LEMMA Assembled ==
    ASSUME Inv, NEW e \in Entries, TypeOK', acts' >= acts, \A f \in Entries \ {e} : Same(f),
           Local(e)', ViewPassed'
    PROVE  Inv'
<1>1. acts' \in Nat
  BY BoundsAssumption DEF TypeOK
<1> QED
  BY <1>1, OthersKept DEF Inv

LEMMA Counting == ASSUME TypeOK, Answered \/ Error PROVE errors' \in 0 .. MaxErrors
BY BoundsAssumption DEF Answered, Error, TypeOK

LEMMA Numbers ==
    ASSUME Inv
    PROVE  /\ acts \in Nat /\ acts >= acts /\ views \in Nat
           /\ \A e \in Entries : leaked[e] \in Nat /\ late[e] \in Nat /\ waiting[e] \in Nat
BY BoundsAssumption DEF Inv, TypeOK

LEMMA InvInit == Init => Inv
<1> SUFFICES ASSUME Init
             PROVE  Inv
  OBVIOUS
<1>1. TypeOK
  BY BoundsAssumption DEF Init, TypeOK, NewDevice
<1>2. ASSUME NEW e \in Entries
      PROVE  Local(e)
  BY <1>2 DEF Init, NewDevice, Local, Placed, Settings, Learnt, Listening, Held, Posting, Queued
<1>3. ViewPassed
  BY DEF Init, ViewPassed, SetUp
<1> QED
  BY <1>1, <1>2, <1>3 DEF Inv

-----------------------------------------------------------------------------
(* The setup, step by step.                                                *)

(* Within the setup or the unload of an entry the view is not touched.     *)
LEMMA Within ==
    ASSUME Inv, NEW e \in Entries, \A f \in Entries \ {e} : Same(f), SetUp(e)' => SetUp(e),
           UNCHANGED <<views, disabled, hasty>>
    PROVE  ViewPassed'
<1>1. \A f \in Entries : SetUp(f)' => SetUp(f)
  BY DEF Same, SetUp
<1> QED
  BY <1>1, ViewKept DEF Inv, TypeOK

LEMMA BeginsStep ==
    ASSUME Inv, NEW e \in Entries, SetupBegins(e)
    PROVE  Inv'
<1>1. TypeOK'
  BY DEF SetupBegins, Becomes, Goto, NewDevice, Inv, TypeOK, owner, world, rest
<1>2. \A f \in Entries \ {e} : Same(f)
  BY DEF SetupBegins, Becomes, Goto, Inv, TypeOK, Same, world, rest
<1>3. /\ state[e] \in {"not_loaded", "retry"} /\ state'[e] = "setup" /\ at'[e] = "device"
      /\ dev'[e] = NewDevice /\ e \notin listening' /\ e \notin disabled
      /\ leaked'[e] = IF e \in listening THEN leaked[e] + 1 ELSE leaked[e]
      /\ UNCHANGED <<late, registry, views, enabled, host, retired, disabled, waiting, hasty,
                     adrift, acts>>
  BY DEF SetupBegins, Becomes, Goto, Inv, TypeOK, world, rest
<1>4. Local(e)'
  BY <1>3, Numbers DEF Inv, Local, Placed, Settings, Learnt, NewDevice, Listening, Held, Posting,
                       Queued
<1>5. ViewPassed'
  BY <1>2, <1>3, Within DEF SetUp
<1> QED
  BY <1>1, <1>2, <1>3, <1>4, <1>5, Assembled, Numbers

LEMMA DeviceStep ==
    ASSUME Inv, NEW e \in Entries, ReadDevice(e)
    PROVE  Inv'
<1>1. /\ at[e] = "device" /\ at'[e] = "panel" /\ at' = [at EXCEPT ![e] = "panel"]
      /\ UNCHANGED <<state, disabled, late, listening, leaked, registry, views, enabled, host,
                     retired, toggles, acts, restarts, waiting, hasty, adrift>>
  BY DEF ReadDevice, Goto, Inv, TypeOK, world, rest
<1>2. errors' \in 0 .. MaxErrors
  BY Counting DEF ReadDevice, Suppressed, Inv
<1>3. /\ dev' \in [Entries -> Devices] /\ \A f \in Entries \ {e} : dev'[f] = dev[f]
      /\ dev'[e].panel = dev[e].panel
  <2>1. CASE Learns(e, "server", TRUE)
    <3>1. TypeOK /\ "server" \in {"panel", "server", "blind"} /\ TRUE \in BOOLEAN
      BY DEF Inv
    <3>2. "server" # "panel"
      OBVIOUS
    <3> QED
      BY <2>1, <3>1, <3>2, Learning, Zenon
  <2>2. CASE UNCHANGED dev
    BY <2>2 DEF Inv, TypeOK, Devices
  <2> QED
    BY <2>1, <2>2 DEF ReadDevice
<1>4. TypeOK'
  BY <1>1, <1>2, <1>3 DEF Inv, TypeOK, Devices
<1>5. \A f \in Entries \ {e} : Same(f)
  BY <1>1, <1>3 DEF Inv, TypeOK, Same
<1>6. Local(e)'
  BY <1>1, <1>2, <1>3 DEF Inv, Local, Placed, Settings, Learnt, Listening, Held, Posting, Queued
<1>7. ViewPassed'
  BY <1>1, <1>5, Within DEF SetUp
<1> QED
  BY <1>1, <1>4, <1>5, <1>6, <1>7, Assembled, Numbers

(* init_coordinators starts the listener of a panel, and of nothing else.  *)
LEMMA Starting ==
    ASSUME Inv, NEW e \in Entries, Coordinators(e, dev[e])
    PROVE  /\ listening' \in SUBSET Entries
           /\ \A f \in Entries \ {e} : f \in listening' <=> f \in listening
           /\ e \notin listening => (e \in listening' <=> dev[e].panel)
           /\ at' = [at EXCEPT ![e] = at'[e]] /\ at'[e] \in {"alarm", "refresh"}
           /\ at'[e] = "alarm" => e \in Controls
BY DEF Coordinators, Goto, Inv, TypeOK

LEMMA PanelStep ==
    ASSUME Inv, NEW e \in Entries, ReadPanel(e)
    PROVE  Inv'
<1>1. /\ at[e] = "panel" /\ state[e] = "setup" /\ ~dev[e].panel /\ e \notin listening
      /\ UNCHANGED <<state, disabled, late, leaked, registry, views, enabled, host, retired,
                     toggles, acts, restarts, waiting, hasty, adrift>>
  BY DEF ReadPanel, Inv, Local, Placed, Settings, Learnt, Listening, world, rest
<1>2. errors' \in 0 .. MaxErrors
  BY Counting DEF ReadPanel, Suppressed, Inv
<1>3. CASE e \in Panels /\ Learns(e, "panel", TRUE) /\ Goto(e, "partitions") /\ UNCHANGED listening
  <2>1. /\ dev' \in [Entries -> Devices] /\ \A f \in Entries \ {e} : dev'[f] = dev[f]
        /\ at' = [at EXCEPT ![e] = "partitions"] /\ at'[e] = "partitions"
    BY <1>3, Learning DEF Inv, TypeOK, Goto
  <2>2. TypeOK'
    BY <1>1, <1>2, <1>3, <2>1 DEF Inv, TypeOK, Devices
  <2>3. \A f \in Entries \ {e} : Same(f)
    BY <1>1, <1>3, <2>1 DEF Inv, TypeOK, Same
  <2>4. Local(e)'
    BY <1>1, <1>2, <1>3, <2>1 DEF Inv, Local, Placed, Settings, Learnt, Listening, Held, Posting,
                                  Queued
  <2>5. ViewPassed'
    BY <1>1, <2>3, Within DEF SetUp
  <2> QED
    BY <1>1, <2>2, <2>3, <2>4, <2>5, Assembled, Numbers
<1>4. CASE UNCHANGED dev /\ Coordinators(e, dev[e])
  <2>1. /\ listening' \in SUBSET Entries
        /\ \A f \in Entries \ {e} : f \in listening' <=> f \in listening
        /\ e \notin listening' /\ at' = [at EXCEPT ![e] = at'[e]]
        /\ at'[e] \in {"alarm", "refresh"} /\ (at'[e] = "alarm" => e \in Controls)
    BY <1>1, <1>4, Starting
  <2>2. TypeOK'
    BY <1>1, <1>2, <1>4, <2>1 DEF Inv, TypeOK
  <2>3. \A f \in Entries \ {e} : Same(f)
    BY <1>1, <1>4, <2>1 DEF Inv, TypeOK, Same
  <2>4. Local(e)'
    BY <1>1, <1>2, <1>4, <2>1 DEF Inv, Local, Placed, Settings, Learnt, Listening, Held, Posting,
                                  Queued
  <2>5. ViewPassed'
    BY <1>1, <2>3, Within DEF SetUp
  <2> QED
    BY <1>1, <2>2, <2>3, <2>4, <2>5, Assembled, Numbers
<1> QED
  BY <1>3, <1>4 DEF ReadPanel

LEMMA PartitionsStep ==
    ASSUME Inv, NEW e \in Entries, ReadPartitions(e)
    PROVE  Inv'
<1>1. /\ at[e] = "partitions" /\ state[e] = "setup" /\ e \notin listening
      /\ UNCHANGED <<state, disabled, late, leaked, registry, views, enabled, host, retired,
                     toggles, acts, restarts, waiting, hasty, adrift>>
  BY DEF ReadPartitions, Inv, Local, Placed, Settings, Listening, world, rest
<1>2. errors' \in 0 .. MaxErrors
  BY Counting DEF ReadPartitions, Suppressed, Inv
<1>3. /\ dev' \in [Entries -> Devices] /\ \A f \in Entries \ {e} : dev'[f] = dev[f]
      /\ dev'[e].panel = dev[e].panel
      /\ dev'[e].blind \/ dev'[e].partitions = enabled[e]
  <2>1. CASE Learns(e, "partitions", enabled[e])
    <3>1. enabled[e] \in SUBSET Parts
      BY DEF Inv, TypeOK
    <3> QED
      BY <2>1, <3>1, Learning DEF Inv
  <2>2. CASE Learns(e, "blind", TRUE)
    BY <2>2, Learning DEF Inv
  <2> QED
    BY <2>1, <2>2 DEF ReadPartitions
<1>4. /\ listening' \in SUBSET Entries
      /\ \A f \in Entries \ {e} : f \in listening' <=> f \in listening
      /\ e \in listening' <=> dev[e].panel
      /\ at' = [at EXCEPT ![e] = at'[e]] /\ at'[e] \in {"alarm", "refresh"}
      /\ at'[e] = "alarm" => e \in Controls
  BY <1>1, Starting DEF ReadPartitions
<1>5. TypeOK'
  <2>1. at' \in [Entries -> {"none", "device", "panel", "partitions", "alarm", "refresh",
                             "platforms", "stop", "entities", "kept", "reset"}]
    BY <1>4 DEF Inv, TypeOK
  <2> QED
    BY <1>1, <1>2, <1>3, <1>4, <2>1 DEF Inv, TypeOK, Devices
<1>6. \A f \in Entries \ {e} : Same(f)
  BY <1>1, <1>3, <1>4 DEF Inv, TypeOK, Same
<1>7. Learnt(e)'
  <2>1. registry[e] \subseteq Parts
    BY DEF Inv, TypeOK
  <2> QED
    BY <1>1, <1>3, <1>4, <2>1 DEF Inv, Local, Learnt
<1>8. (Placed(e) /\ Listening(e) /\ Posting(e) /\ Queued(e))'
  BY <1>1, <1>2, <1>3, <1>4 DEF Inv, Local, Placed, Settings, Listening, Held, Posting, Queued
<1>9. ViewPassed'
  BY <1>1, <1>6, Within DEF SetUp
<1> QED
  BY <1>1, <1>5, <1>6, <1>7, <1>8, <1>9, Assembled, Numbers DEF Local

(* A setup is given up, before the listener could start.                   *)
LEMMA GivenUpStep ==
    ASSUME Inv, NEW e \in Entries, NotReady(e) \/ AuthFails(e)
    PROVE  Inv'
<1>1. /\ at[e] \in {"device", "panel", "partitions"} /\ state[e] = "setup"
      /\ state'[e] \in {"retry", "auth_failed"} /\ state' = [state EXCEPT ![e] = state'[e]]
      /\ at' = [at EXCEPT ![e] = "none"] /\ at'[e] = "none"
      /\ UNCHANGED <<disabled, dev, late, listening, leaked, registry, views, enabled, host,
                     retired, toggles, acts, restarts, waiting, hasty, adrift>>
  BY DEF NotReady, AuthFails, Becomes, Goto, Inv, TypeOK, Local, Placed, Settings, world, rest
<1>2. errors' \in 0 .. MaxErrors
  BY Counting DEF NotReady, AuthFails, Inv
<1>3. TypeOK'
  BY <1>1, <1>2 DEF Inv, TypeOK
<1>4. \A f \in Entries \ {e} : Same(f)
  BY <1>1 DEF Inv, TypeOK, Same
<1>5. Local(e)'
  <2>1. (Placed(e) /\ Learnt(e) /\ Queued(e))'
    BY <1>1 DEF Inv, Local, Placed, Settings, Learnt, Queued
  <2>2. Listening(e)'
    BY <1>1, Numbers DEF Inv, Local, Listening, Held
  <2>3. Posting(e)'
    BY <1>1 DEF Inv, Local, Posting, Held
  <2> QED
    BY <2>1, <2>2, <2>3 DEF Local
<1>6. ViewPassed'
  BY <1>1, <1>4, Within DEF SetUp
<1> QED
  BY <1>1, <1>3, <1>4, <1>5, <1>6, Assembled, Numbers

LEMMA ServerStep ==
    ASSUME Inv, NEW e \in Entries, SetAlarmServer(e)
    PROVE  Inv'
<1>1. /\ at[e] = "alarm" /\ state[e] = "setup" /\ e \in Controls
      /\ at' = [at EXCEPT ![e] = "refresh"] /\ at'[e] = "refresh"
      /\ UNCHANGED <<state, disabled, dev, late, listening, leaked, registry, views, enabled,
                     retired, toggles, acts, restarts, waiting, hasty, adrift>>
      /\ host' = [host EXCEPT ![e] = "ha"] \/ host' = host
  BY DEF SetAlarmServer, Goto, Inv, TypeOK, Local, Placed, Settings, rest
<1>2. errors' \in 0 .. MaxErrors
  BY Counting DEF SetAlarmServer, Suppressed, Inv
<1>3. TypeOK'
  BY <1>1, <1>2 DEF Inv, TypeOK
<1>4. \A f \in Entries \ {e} : Same(f)
  BY <1>1 DEF Inv, TypeOK, Same
<1>5. Local(e)'
  BY <1>1, <1>2 DEF Inv, Local, Placed, Settings, Learnt, Listening, Held, Posting, Queued
<1>6. ViewPassed'
  BY <1>1, <1>4, Within DEF SetUp
<1> QED
  BY <1>1, <1>3, <1>4, <1>5, <1>6, Assembled, Numbers

(* set_alarm_server raises: the listener that runs is counted as left      *)
(* behind from here on, and the device as adrift.                          *)
LEMMA FailsStep ==
    ASSUME Inv, NEW e \in Entries, SetupFails(e)
    PROVE  Inv'
<1>1. /\ at[e] = "alarm" /\ state[e] = "setup" /\ e \in Controls
      /\ state' = [state EXCEPT ![e] = "error"] /\ state'[e] = "error"
      /\ at' = [at EXCEPT ![e] = "none"] /\ at'[e] = "none"
      /\ late' = [late EXCEPT ![e] = @ + 1] /\ late'[e] = late[e] + 1
      /\ host' = [host EXCEPT ![e] = "ha"] \/ host' = host
      /\ adrift' = adrift \union {e}
      /\ UNCHANGED <<disabled, dev, listening, leaked, registry, views, enabled,
                     retired, toggles, acts, restarts, waiting, hasty>>
  BY DEF SetupFails, Becomes, Goto, Inv, TypeOK, Local, Placed, Settings
<1>2. errors' \in 0 .. MaxErrors
  BY Counting DEF SetupFails, Inv
<1>3. TypeOK'
  BY <1>1, <1>2, Numbers DEF Inv, TypeOK
<1>4. \A f \in Entries \ {e} : Same(f)
  BY <1>1 DEF Inv, TypeOK, Same
<1>5. Local(e)'
  <2>1. (Placed(e) /\ Learnt(e) /\ Posting(e) /\ Queued(e))'
    BY <1>1 DEF Inv, Local, Placed, Settings, Learnt, Posting, Queued
  <2>2. Listening(e)'
    BY <1>1, Numbers DEF Inv, Local, Listening, Held
  <2> QED
    BY <2>1, <2>2 DEF Local
<1>6. ViewPassed'
  BY <1>1, <1>4, Within DEF SetUp
<1> QED
  BY <1>1, <1>3, <1>4, <1>5, <1>6, Assembled, Numbers

LEMMA RefreshStep ==
    ASSUME Inv, NEW e \in Entries, FirstRefresh(e)
    PROVE  Inv'
<1>1. /\ at[e] = "refresh" /\ state[e] = "setup"
      /\ at' = [at EXCEPT ![e] = "platforms"] /\ at'[e] = "platforms"
      /\ UNCHANGED <<state, disabled, dev, late, listening, leaked, registry, views, enabled,
                     host, retired, toggles, errors, acts, restarts, waiting, hasty, adrift>>
  BY DEF FirstRefresh, Goto, Inv, TypeOK, Local, Placed, Settings, world, rest
<1>2. TypeOK'
  BY <1>1 DEF Inv, TypeOK
<1>3. \A f \in Entries \ {e} : Same(f)
  BY <1>1 DEF Inv, TypeOK, Same
<1>4. Local(e)'
  BY <1>1 DEF Inv, Local, Placed, Settings, Learnt, Listening, Held, Posting, Queued
<1>5. ViewPassed'
  BY <1>1, <1>3, Within DEF SetUp
<1> QED
  BY <1>1, <1>2, <1>3, <1>4, <1>5, Assembled, Numbers

(* An entry that ends its setup registers the view if it is the first      *)
(* enabled one; one that is disabled by then was so in a hurry.            *)
LEMMA EndsStep ==
    ASSUME Inv, NEW e \in Entries, SetupEnds(e)
    PROVE  Inv'
<1>1. /\ at[e] = "platforms" /\ state[e] = "setup"
      /\ state' = [state EXCEPT ![e] = "loaded"] /\ state'[e] = "loaded"
      /\ at' = [at EXCEPT ![e] = "none"] /\ at'[e] = "none"
      /\ UNCHANGED <<disabled, dev, late, listening, leaked, enabled, host, retired, toggles,
                     errors, acts, restarts, waiting, hasty, adrift>>
  BY DEF SetupEnds, Becomes, Goto, Inv, TypeOK, Local, Placed, Settings, world, rest
<1>2. /\ registry' \in [Entries -> SUBSET Parts]
      /\ \A f \in Entries \ {e} : registry'[f] = registry[f]
  BY DEF SetupEnds, RemoveOrphans, Inv, TypeOK
<1>3. views \in Nat /\ views' = IF First(e) THEN views + 1 ELSE views
  BY DEF SetupEnds, RegistersView, Inv, TypeOK
<1>4. TypeOK'
  <2>1. views' \in Nat
    BY <1>3
  <2> QED
    BY <1>1, <1>2, <2>1 DEF Inv, TypeOK
<1>5. \A f \in Entries \ {e} : Same(f)
  BY <1>1, <1>2 DEF Inv, TypeOK, Same
<1>6. Local(e)'
  BY <1>1 DEF Inv, Local, Placed, Settings, Learnt, Listening, Held, Posting, Queued
<1>7. ViewPassed'
  <2> SUFFICES ASSUME NEW f \in Entries, SetUp(f)', Before(f)'
               PROVE  views' > 0 \/ Excused(f)'
    BY DEF ViewPassed
  <2>1. Before(f)
    BY <1>1 DEF Before
  <2>2. CASE f # e
    <3>1. SetUp(f)
      BY <1>5, <2>2 DEF SetUp, Same
    <3>2. views > 0 \/ Excused(f)
      BY <2>1, <3>1 DEF Inv, ViewPassed
    <3>3. views > 0 => views' > 0
      BY <1>3
    <3> QED
      BY <1>1, <3>2, <3>3 DEF Excused
  <2>3. CASE f = e /\ e \in disabled
    <3>1. e \in hasty
      BY <1>1, <2>3 DEF Inv, Local, Queued
    <3>2. PICK i \in DOMAIN Order : Order[i] = e
      BY <2>1, <2>3 DEF Before
    <3>3. i =< i
      <4>1. DOMAIN Order = 1 .. Len(Order) /\ Len(Order) \in Nat
        BY EntriesAssumption
      <4> QED
        BY <4>1
    <3> QED
      BY <1>1, <2>3, <3>1, <3>2, <3>3 DEF Excused
  <2>4. CASE f = e /\ e \notin disabled
    <3>1. First(e)
      BY <2>1, <2>4 DEF Before, First
    <3> QED
      BY <1>3, <3>1
  <2> QED
    BY <2>2, <2>3, <2>4
<1> QED
  BY <1>1, <1>4, <1>5, <1>6, <1>7, Assembled, Numbers

(* The setup that finds no enabled entry leaves its listener running and   *)
(* its device told.                                                        *)
LEMMA RaisesStep ==
    ASSUME Inv, NEW e \in Entries, SetupRaises(e)
    PROVE  Inv'
<1>1. /\ at[e] = "platforms" /\ state[e] = "setup"
      /\ state' = [state EXCEPT ![e] = "error"] /\ state'[e] = "error"
      /\ at' = [at EXCEPT ![e] = "none"] /\ at'[e] = "none"
      /\ late' = [late EXCEPT ![e] = @ + 1] /\ late'[e] = late[e] + 1
      /\ adrift' = adrift \union {e}
      /\ UNCHANGED <<disabled, dev, listening, leaked, views, enabled, host, retired, toggles,
                     errors, acts, restarts, waiting, hasty>>
  BY DEF SetupRaises, Becomes, Goto, Inv, TypeOK, Local, Placed, Settings, world
<1>2. /\ registry' \in [Entries -> SUBSET Parts]
      /\ \A f \in Entries \ {e} : registry'[f] = registry[f]
  BY DEF SetupRaises, Inv, TypeOK
<1>3. TypeOK'
  <2>1. late' \in [Entries -> Nat]
    BY <1>1 DEF Inv, TypeOK
  <2>2. adrift' \in SUBSET Entries
    BY <1>1 DEF Inv, TypeOK
  <2> QED
    BY <1>1, <1>2, <2>1, <2>2 DEF Inv, TypeOK
<1>4. \A f \in Entries \ {e} : Same(f)
  BY <1>1, <1>2 DEF Inv, TypeOK, Same
<1>5. Local(e)'
  <2>1. (Placed(e) /\ Learnt(e) /\ Posting(e) /\ Queued(e))'
    BY <1>1 DEF Inv, Local, Placed, Settings, Learnt, Posting, Queued
  <2>2. Listening(e)'
    BY <1>1, Numbers DEF Inv, Local, Listening, Held
  <2> QED
    BY <2>1, <2>2 DEF Local
<1>6. ViewPassed'
  BY <1>1, <1>4, Within DEF SetUp
<1> QED
  BY <1>1, <1>3, <1>4, <1>5, <1>6, Assembled, Numbers

-----------------------------------------------------------------------------
(* The unload, and the user.                                               *)

(* What a reload does at once: an entry that is loaded goes to the stop of *)
(* its listener, another one is forgotten or left as it is.                *)
Leaves(e) ==
    /\ state' = [state EXCEPT ![e] = state'[e]] /\ at' = [at EXCEPT ![e] = at'[e]]
    /\ \/ state[e] = "loaded" /\ state'[e] = "unloading" /\ at'[e] = "stop"
       \/ state[e] \in {"retry", "error", "auth_failed"} /\ state'[e] = "not_loaded" /\ at'[e] = at[e]
       \/ state'[e] = state[e] /\ at'[e] = at[e]

LEMMA LeavesNow == ASSUME Inv, NEW e \in Entries, UnloadBegins(e) PROVE Leaves(e)
BY DEF UnloadBegins, Becomes, Goto, Inv, TypeOK, Leaves

LEMMA ReloadAskedCases ==
    ASSUME Inv, NEW e \in Entries, ReloadAsked(e), acts < MaxActs, acts' = acts + 1
    PROVE  /\ Leaves(e)
           /\ waiting' \in [Entries -> 0 .. MaxActs]
           /\ \A f \in Entries \ {e} : waiting'[f] = waiting[f]
           /\ waiting'[e] =< acts'
           /\ acts' >= acts /\ acts' \in 0 .. MaxActs
<1>1. waiting[e] \in 0 .. MaxActs /\ waiting[e] =< acts /\ acts \in 0 .. MaxActs
  BY DEF Inv, TypeOK, Local, Queued
<1>2. acts' >= acts /\ acts' \in 0 .. MaxActs /\ waiting[e] + 1 =< acts' /\ waiting[e] =< acts'
      /\ waiting[e] + 1 \in 0 .. MaxActs
  BY <1>1, BoundsAssumption
<1>3. CASE Busy(e)
  <2>1. waiting' = [waiting EXCEPT ![e] = waiting[e] + 1] /\ UNCHANGED <<state, at>>
    BY <1>3 DEF ReloadAsked
  <2> QED
    BY <1>2, <2>1 DEF Inv, TypeOK, Leaves
<1>4. CASE ~Busy(e)
  <2>1. UnloadBegins(e) /\ UNCHANGED waiting
    BY <1>4 DEF ReloadAsked
  <2> QED
    BY <1>2, <2>1, LeavesNow DEF Inv, TypeOK
<1> QED
  BY <1>3, <1>4

(* However its reload was asked for, the entry is where its state says.    *)
LEMMA LeavesKeeps ==
    ASSUME Inv, NEW e \in Entries, Leaves(e),
           UNCHANGED <<dev, late, listening, leaked, registry, enabled, host, retired, adrift>>
    PROVE  /\ state' \in [Entries -> {"not_loaded", "setup", "retry", "error", "auth_failed",
                                      "loaded", "unloading", "failed_unload"}]
           /\ at' \in [Entries -> {"none", "device", "panel", "partitions", "alarm", "refresh",
                                   "platforms", "stop", "entities", "kept", "reset"}]
           /\ (Placed(e) /\ Learnt(e) /\ Listening(e) /\ Posting(e))'
           /\ \A f \in Entries : SetUp(f)' <=> SetUp(f)
           /\ state'[e] = "setup" => state[e] = "setup"
           /\ \A f \in Entries \ {e} : state'[f] = state[f] /\ at'[f] = at[f]
<1>1. \A f \in Entries \ {e} : state'[f] = state[f] /\ at'[f] = at[f]
  BY DEF Leaves, Inv, TypeOK
<1>2. state[e] \in {"loaded", "retry", "error", "auth_failed"} => at[e] = "none"
  BY DEF Inv, TypeOK, Local, Placed, Settings
<1>3. /\ state' \in [Entries -> {"not_loaded", "setup", "retry", "error", "auth_failed",
                                 "loaded", "unloading", "failed_unload"}]
      /\ at' \in [Entries -> {"none", "device", "panel", "partitions", "alarm", "refresh",
                              "platforms", "stop", "entities", "kept", "reset"}]
  <2>1. /\ state'[e] \in {"not_loaded", "setup", "retry", "error", "auth_failed",
                          "loaded", "unloading", "failed_unload"}
        /\ at'[e] \in {"none", "device", "panel", "partitions", "alarm", "refresh",
                       "platforms", "stop", "entities", "kept", "reset"}
    BY DEF Leaves, Inv, TypeOK
  <2> QED
    BY <2>1 DEF Leaves, Inv, TypeOK
<1>4. (Placed(e) /\ Learnt(e))'
  BY <1>2 DEF Leaves, Inv, Local, Placed, Settings, Learnt
<1>5. (Listening(e) /\ Posting(e))'
  BY <1>2 DEF Leaves, Inv, Local, Listening, Held, Posting
<1>6. \A f \in Entries : SetUp(f)' <=> SetUp(f)
  BY <1>1 DEF Leaves, SetUp
<1> QED
  BY <1>1, <1>3, <1>4, <1>5, <1>6 DEF Leaves

LEMMA ReloadStep ==
    ASSUME Inv, NEW e \in Entries, Reload(e) \/ Granted(e)
    PROVE  Inv'
<1>1. UNCHANGED <<dev, late, listening, leaked, registry, views, enabled, host, retired, toggles,
                  adrift, disabled, hasty, errors, restarts>>
  BY DEF Reload, Granted, world
<1>2. /\ Leaves(e) /\ waiting' \in [Entries -> 0 .. MaxActs]
      /\ \A f \in Entries \ {e} : waiting'[f] = waiting[f]
      /\ waiting'[e] =< acts' /\ acts' >= acts /\ acts' \in 0 .. MaxActs
  <2>1. CASE Reload(e)
    BY <2>1, ReloadAskedCases DEF Reload
  <2>2. CASE Granted(e)
    <3>1. waiting[e] \in 0 .. MaxActs /\ waiting[e] > 0 /\ waiting[e] =< acts /\ acts \in 0 .. MaxActs
      BY <2>2 DEF Granted, Inv, TypeOK, Local, Queued
    <3>2. waiting[e] - 1 \in 0 .. MaxActs /\ waiting[e] - 1 =< acts /\ acts >= acts
      BY <3>1, BoundsAssumption
    <3>3. waiting' = [waiting EXCEPT ![e] = waiting[e] - 1] /\ acts' = acts
      BY <2>2 DEF Granted
    <3>4. Leaves(e)
      BY <2>2, LeavesNow DEF Granted
    <3> QED
      BY <3>1, <3>2, <3>3, <3>4 DEF Inv, TypeOK
  <2> QED
    BY <2>1, <2>2
<1>3. TypeOK'
  BY <1>1, <1>2, LeavesKeeps DEF Inv, TypeOK
<1>4. \A f \in Entries \ {e} : Same(f)
  BY <1>1, <1>2, LeavesKeeps DEF Same
<1>5. Local(e)'
  BY <1>1, <1>2, LeavesKeeps DEF Inv, Local, Queued
<1>6. ViewPassed'
  BY <1>1, <1>2, LeavesKeeps, ViewKept, Numbers
<1> QED
  BY <1>2, <1>3, <1>4, <1>5, <1>6, Assembled

(* Two positions in the order of the entries.                              *)
LEMMA Positions ==
    /\ \A i, j \in DOMAIN Order : i =< j \/ j \in 1 .. i - 1
    /\ \A i \in DOMAIN Order : \A j \in 1 .. i - 1 :
          /\ j \in DOMAIN Order /\ j =< i /\ j # i
          /\ \A m \in 1 .. j - 1 : m \in 1 .. i - 1
    /\ \A i, j, k \in DOMAIN Order : i =< j /\ j =< k => i =< k
    /\ \A i \in DOMAIN Order : i =< i
<1>1. DOMAIN Order = 1 .. Len(Order) /\ Len(Order) \in Nat
  BY EntriesAssumption
<1> QED
  BY <1>1

(* An excuse of an entry is one of those after it.                         *)
LEMMA ExcusedAfter ==
    ASSUME NEW i \in DOMAIN Order, NEW j \in 1 .. i - 1, Excused(Order[j])
    PROVE  Excused(Order[i])
<1>1. PICK k, l \in DOMAIN Order : k =< l /\ Order[k] \in hasty /\ Order[l] = Order[j]
  BY DEF Excused
<1>2. l = j /\ j =< i /\ j \in DOMAIN Order
  BY <1>1, Positions, EntriesAssumption
<1>3. k =< i
  BY <1>1, <1>2, Positions
<1> QED
  BY <1>1, <1>3 DEF Excused

(* Disabling an entry may make a later one the first: the view is there    *)
(* already if the disabled one was set up.                                 *)
LEMMA DisableStep ==
    ASSUME Inv, NEW e \in Entries, Disable(e)
    PROVE  Inv'
<1>1. /\ UNCHANGED <<dev, late, listening, leaked, registry, views, enabled, host, retired, toggles,
                     adrift, errors, restarts>>
      /\ disabled' = disabled \union {e}
      /\ hasty' = IF SetUp(e) THEN hasty ELSE hasty \union {e}
  BY DEF Disable, world
<1>2. /\ Leaves(e) /\ waiting' \in [Entries -> 0 .. MaxActs]
      /\ \A f \in Entries \ {e} : waiting'[f] = waiting[f]
      /\ waiting'[e] =< acts' /\ acts' >= acts /\ acts' \in 0 .. MaxActs
  BY ReloadAskedCases DEF Disable
<1>3. TypeOK'
  BY <1>1, <1>2, LeavesKeeps DEF Inv, TypeOK
<1>4. \A f \in Entries \ {e} : Same(f)
  BY <1>1, <1>2, LeavesKeeps DEF Same
<1>5. Local(e)'
  <2>1. state'[e] = "setup" => e \in hasty'
    BY <1>1, <1>2, LeavesKeeps DEF SetUp
  <2> QED
    BY <1>1, <1>2, <2>1, LeavesKeeps DEF Local, Queued
<1>6. ViewPassed'
  <2> SUFFICES ASSUME NEW f \in Entries, SetUp(f)', Before(f)'
               PROVE  views' > 0 \/ Excused(f)'
    BY DEF ViewPassed
  <2>1. SetUp(f)
    BY <1>1, <1>2, LeavesKeeps
  <2>2. hasty \subseteq hasty' /\ views' = views
    BY <1>1
  <2>3. \A g \in Entries : Excused(g) => Excused(g)'
    BY <2>2 DEF Excused
  <2>4. PICK i \in DOMAIN Order : Order[i] = f /\ \A j \in 1 .. i - 1 : Order[j] \in disabled'
    BY DEF Before
  <2>5. CASE \A j \in 1 .. i - 1 : Order[j] \in disabled
    BY <2>1, <2>2, <2>3, <2>4, <2>5 DEF Before, Inv, ViewPassed
  <2>6. ASSUME NEW j \in 1 .. i - 1, Order[j] \notin disabled
        PROVE  views' > 0 \/ Excused(f)'
    <3>1. j \in DOMAIN Order /\ Order[j] = e
      BY <1>1, <2>4, <2>6, Positions
    <3>2. Before(e)
      <4>1. ASSUME NEW m \in 1 .. j - 1
            PROVE  Order[m] \in disabled
        <5>1. m \in 1 .. i - 1 /\ m \in DOMAIN Order /\ m # j
          BY <3>1, <4>1, Positions
        <5>2. Order[m] # e
          BY <3>1, <5>1, EntriesAssumption
        <5> QED
          BY <1>1, <2>4, <5>1, <5>2
      <4> QED
        BY <3>1, <4>1 DEF Before
    <3>3. CASE SetUp(e)
      <4>1. views > 0 \/ Excused(Order[j])
        BY <3>1, <3>2, <3>3 DEF Inv, ViewPassed
      <4>2. Excused(Order[j]) => Excused(f)
        BY <2>4, ExcusedAfter
      <4> QED
        BY <2>2, <2>3, <4>1, <4>2
    <3>4. CASE ~SetUp(e)
      <4>1. Order[j] \in hasty' /\ j =< i
        BY <1>1, <3>1, <3>4, Positions
      <4> QED
        BY <2>4, <3>1, <4>1 DEF Excused
    <3> QED
      BY <3>3, <3>4
  <2> QED
    BY <2>5, <2>6
<1> QED
  BY <1>2, <1>3, <1>4, <1>5, <1>6, Assembled

(* Enabling an entry makes no later one the first.                         *)
LEMMA EnableStep ==
    ASSUME Inv, NEW e \in Entries, Enable(e)
    PROVE  Inv'
<1>1. /\ UNCHANGED <<dev, late, listening, leaked, registry, views, enabled, host, retired, toggles,
                     adrift, errors, restarts>>
      /\ disabled' = disabled \ {e}
      /\ hasty' = IF SetUp(e) THEN hasty ELSE hasty \ {e}
  BY DEF Enable, world
<1>2. /\ Leaves(e) /\ waiting' \in [Entries -> 0 .. MaxActs]
      /\ \A f \in Entries \ {e} : waiting'[f] = waiting[f]
      /\ waiting'[e] =< acts' /\ acts' >= acts /\ acts' \in 0 .. MaxActs
  BY ReloadAskedCases DEF Enable
<1>3. TypeOK'
  BY <1>1, <1>2, LeavesKeeps DEF Inv, TypeOK
<1>4. \A f \in Entries \ {e} : Same(f)
  BY <1>1, <1>2, LeavesKeeps DEF Same
<1>5. Local(e)'
  BY <1>1, <1>2, LeavesKeeps DEF Local, Queued
<1>6. ViewPassed'
  <2> SUFFICES ASSUME NEW f \in Entries, SetUp(f)', Before(f)'
               PROVE  views' > 0 \/ Excused(f)'
    BY DEF ViewPassed
  <2>1. SetUp(f)
    BY <1>1, <1>2, LeavesKeeps
  <2>2. PICK i \in DOMAIN Order : Order[i] = f /\ \A j \in 1 .. i - 1 : Order[j] \in disabled'
    BY DEF Before
  <2>3. Before(f)
    BY <1>1, <2>2 DEF Before
  <2>4. views > 0 \/ Excused(f)
    BY <2>1, <2>3 DEF Inv, ViewPassed
  <2>5. ASSUME Excused(f)
        PROVE  Excused(f)'
    <3>1. PICK k, l \in DOMAIN Order : k =< l /\ Order[k] \in hasty /\ Order[l] = f
      BY <2>5 DEF Excused
    <3>2. l = i
      BY <2>2, <3>1, EntriesAssumption
    <3>3. CASE k = i
      <4>1. Order[k] = f /\ SetUp(f)
        BY <2>1, <2>2, <3>3
      <4>2. Order[k] \in hasty'
        BY <1>1, <3>1, <4>1
      <4> QED
        BY <3>1, <4>2 DEF Excused
    <3>4. CASE k # i
      <4>1. k \in 1 .. i - 1
        <5>1. DOMAIN Order = 1 .. Len(Order) /\ Len(Order) \in Nat
          BY EntriesAssumption
        <5> QED
          BY <3>1, <3>2, <3>4, <5>1
      <4>2. Order[k] # e
        BY <1>1, <2>2, <4>1
      <4>3. Order[k] \in hasty'
        BY <1>1, <3>1, <4>2
      <4> QED
        BY <3>1, <4>3 DEF Excused
    <3> QED
      BY <3>3, <3>4
  <2> QED
    BY <1>1, <2>4, <2>5
<1> QED
  BY <1>2, <1>3, <1>4, <1>5, <1>6, Assembled

LEMMA StopStep ==
    ASSUME Inv, NEW e \in Entries, StopListener(e)
    PROVE  Inv'
<1>1. /\ at[e] = "stop" /\ state[e] = "unloading" /\ listening' = listening \ {e}
      /\ at' = [at EXCEPT ![e] = "entities"] /\ at'[e] = "entities"
      /\ UNCHANGED <<state, disabled, dev, late, leaked, registry, views, enabled, host,
                     retired, toggles, errors, acts, restarts, waiting, hasty, adrift>>
  BY DEF StopListener, Goto, Inv, TypeOK, Local, Placed, world, rest
<1>2. TypeOK'
  BY <1>1 DEF Inv, TypeOK
<1>3. \A f \in Entries \ {e} : Same(f)
  BY <1>1 DEF Inv, TypeOK, Same
<1>4. Local(e)'
  BY <1>1 DEF Inv, Local, Placed, Settings, Learnt, Listening, Held, Posting, Queued
<1>5. ViewPassed'
  BY <1>1, <1>3, Within DEF SetUp
<1> QED
  BY <1>1, <1>2, <1>3, <1>4, <1>5, Assembled, Numbers

LEMMA PlatformsStep ==
    ASSUME Inv, NEW e \in Entries, UnloadPlatforms(e)
    PROVE  Inv'
<1>1. /\ at[e] = "entities" /\ state[e] = "unloading"
      /\ at'[e] \in {"reset", "kept"} /\ at' = [at EXCEPT ![e] = at'[e]]
      /\ UNCHANGED <<state, disabled, dev, late, listening, leaked, registry, views, enabled,
                     host, retired, toggles, acts, restarts, waiting, hasty, adrift>>
  BY DEF UnloadPlatforms, Goto, Inv, TypeOK, Local, Placed, world, rest
<1>2. errors' \in 0 .. MaxErrors
  BY Counting DEF UnloadPlatforms, Inv
<1>3. TypeOK'
  BY <1>1, <1>2 DEF Inv, TypeOK
<1>4. \A f \in Entries \ {e} : Same(f)
  BY <1>1 DEF Inv, TypeOK, Same
<1>5. Local(e)'
  BY <1>1, <1>2 DEF Inv, Local, Placed, Settings, Learnt, Listening, Held, Posting, Queued
<1>6. ViewPassed'
  BY <1>1, <1>4, Within DEF SetUp
<1> QED
  BY <1>1, <1>3, <1>4, <1>5, <1>6, Assembled, Numbers

(* The host is reset, or the device is adrift; one that was never written  *)
(* is not in question.                                                     *)
LEMMA UnloadedStep ==
    ASSUME Inv, NEW e \in Entries, UnloadEnds(e)
    PROVE  Inv'
<1>1. /\ at[e] \in {"reset", "kept"} /\ state[e] = "unloading"
      /\ state' = [state EXCEPT ![e] = state'[e]] /\ at' = [at EXCEPT ![e] = "none"]
      /\ at'[e] = "none"
      /\ state'[e] = IF at[e] = "kept" THEN "failed_unload" ELSE "not_loaded"
      /\ UNCHANGED <<disabled, dev, late, listening, leaked, registry, views, enabled,
                     retired, toggles, acts, restarts, waiting, hasty>>
  BY DEF UnloadEnds, Becomes, Goto, Inv, TypeOK, Local, Placed
<1>2. errors' \in 0 .. MaxErrors
  BY Counting DEF UnloadEnds, Inv, TypeOK
<1>3. /\ host' \in [Entries -> {"other", "ha", "off"}]
      /\ \A f \in Entries \ {e} : host'[f] = host[f] /\ (f \in adrift' <=> f \in adrift)
      /\ host'[e] # "other" => e \in Controls
      /\ host'[e] = "ha" => e \in adrift'
      /\ adrift' \in SUBSET Entries
  <2>1. CASE e \in Controls /\ host' = [host EXCEPT ![e] = "off"] /\ adrift' = adrift \ {e}
    BY <2>1 DEF Inv, TypeOK
  <2>2. CASE e \in Controls /\ UNCHANGED host /\ adrift' = adrift \union {e}
    BY <2>2 DEF Inv, TypeOK
  <2>3. CASE e \notin Controls /\ UNCHANGED <<host, adrift>>
    BY <2>3 DEF Inv, TypeOK, Local, Posting
  <2> QED
    BY <2>1, <2>2, <2>3 DEF UnloadEnds, Resets
<1>4. TypeOK'
  <2>1. \/ state' = [state EXCEPT ![e] = "failed_unload"]
        \/ state' = [state EXCEPT ![e] = "not_loaded"]
    BY <1>1, Zenon
  <2>2. state' \in [Entries -> {"not_loaded", "setup", "retry", "error", "auth_failed",
                                "loaded", "unloading", "failed_unload"}]
    BY <2>1 DEF Inv, TypeOK
  <2>3. at' \in [Entries -> {"none", "device", "panel", "partitions", "alarm", "refresh",
                             "platforms", "stop", "entities", "kept", "reset"}]
    BY <1>1 DEF Inv, TypeOK
  <2> QED
    BY <1>1, <1>2, <1>3, <2>2, <2>3 DEF Inv, TypeOK
<1>5. \A f \in Entries \ {e} : Same(f)
  BY <1>1, <1>3 DEF Inv, TypeOK, Same
<1>6. Local(e)'
  BY <1>1, <1>3 DEF Inv, Local, Placed, Settings, Learnt, Listening, Held, Posting, Queued
<1>7. ViewPassed'
  BY <1>1, <1>5, Within DEF SetUp
<1> QED
  BY <1>1, <1>4, <1>5, <1>6, <1>7, Assembled, Numbers

-----------------------------------------------------------------------------
(* The world.                                                              *)

LEMMA RestartStep ==
    ASSUME Inv, Restart
    PROVE  Inv'
<1>1. /\ \A e \in Entries : state'[e] = "not_loaded" /\ at'[e] = "none" /\ dev'[e] = NewDevice
                            /\ late'[e] = 0 /\ leaked'[e] = 0 /\ e \notin listening'
                            /\ waiting'[e] = 0
      /\ adrift' = adrift \union {e \in Entries : Held(e)}
      /\ UNCHANGED <<disabled, registry, enabled, host, retired, toggles, errors, acts>>
      /\ restarts \in Nat /\ restarts' = restarts + 1 /\ restarts' \in 0 .. MaxRestarts
  BY BoundsAssumption DEF Restart, Inv, TypeOK, world
<1>2. TypeOK'
  BY <1>1, BoundsAssumption DEF Restart, NewDevice, Inv, TypeOK
<1>3. ASSUME NEW e \in Entries
      PROVE  Local(e)'
  BY <1>1, Numbers DEF Inv, Local, Placed, Settings, Learnt, NewDevice, Listening, Held, Posting,
                       Queued
<1>4. ViewPassed'
  BY <1>1 DEF ViewPassed, SetUp
<1> QED
  BY <1>2, <1>3, <1>4 DEF Inv

(* A partition that is not enabled any more is retired.                    *)
LEMMA ToggleStep ==
    ASSUME Inv, NEW e \in Panels, NEW p \in Parts, Toggle(e, p)
    PROVE  Inv'
<1>1. /\ e \in Entries /\ toggles' \in 0 .. MaxToggles
      /\ UNCHANGED <<state, at, disabled, dev, late, listening, leaked, registry, views, host,
                     errors, acts, restarts, waiting, hasty, adrift>>
  BY EntriesAssumption, BoundsAssumption DEF Toggle, owner, rest, Inv, TypeOK
<1>2. /\ enabled' = [enabled EXCEPT ![e] = enabled'[e]] /\ enabled'[e] \in SUBSET Parts
      /\ retired' = [retired EXCEPT ![e] = retired'[e]] /\ retired'[e] \in SUBSET Parts
      /\ retired[e] \subseteq retired'[e]
      /\ enabled[e] \subseteq enabled'[e] \union retired'[e]
  BY <1>1 DEF Toggle, Inv, TypeOK
<1>3. TypeOK'
  BY <1>1, <1>2 DEF Inv, TypeOK
<1>4. \A f \in Entries \ {e} : Same(f)
  BY <1>1, <1>2 DEF Inv, TypeOK, Same
<1>5. Local(e)'
  BY <1>1, <1>2 DEF Inv, Local, Placed, Settings, Learnt, Listening, Held, Posting, Queued
<1>6. ViewPassed'
  BY <1>1, <1>4, Within DEF SetUp
<1> QED
  BY <1>1, <1>3, <1>4, <1>5, <1>6, Assembled, Numbers

LEMMA InvStep == Inv /\ [Next]_vars => Inv'
<1> SUFFICES ASSUME Inv, [Next]_vars
             PROVE  Inv'
  OBVIOUS
<1>1. ASSUME NEW e \in Entries, Setup(e)
      PROVE  Inv'
  BY <1>1, BeginsStep, DeviceStep, PanelStep, PartitionsStep, GivenUpStep, ServerStep, FailsStep,
     RefreshStep, EndsStep, RaisesStep DEF Setup
<1>2. ASSUME NEW e \in Entries, Unload(e) \/ User(e)
      PROVE  Inv'
  BY <1>2, StopStep, PlatformsStep, UnloadedStep, ReloadStep, DisableStep, EnableStep
     DEF Unload, User
<1>3. CASE UNCHANGED vars
  <2>1. UNCHANGED <<state, at, disabled, dev, late, listening, leaked, registry, views, enabled,
                    host, retired, toggles, errors, acts, restarts, waiting, hasty, adrift>>
    BY <1>3 DEF vars, owner, world, rest
  <2>2. TypeOK' /\ \A f \in Entries : Same(f)
    BY <2>1 DEF Inv, TypeOK, Same
  <2>3. \A f \in Entries : Local(f)'
    BY <2>1, <2>2, OthersKept, Numbers
  <2>4. ViewPassed'
    BY <2>1, ViewKept, Numbers DEF SetUp
  <2> QED
    BY <2>2, <2>3, <2>4 DEF Inv
<1> QED
  BY <1>1, <1>2, <1>3, RestartStep, ToggleStep DEF Next

(* Every reachable state satisfies the inductive invariant.                *)
THEOREM Invariance == Spec => []Inv
<1> QED
  BY InvInit, InvStep, PTL DEF Spec

(* Every variable keeps its type: whatever fails, an entry is in a state   *)
(* and an await its setup or unload can be in, and the counters within     *)
(* their bounds.                                                           *)
THEOREM TypeCorrect == Spec => []TypeOK
<1>1. Inv => TypeOK
  BY DEF Inv
<1> QED
  BY <1>1, Invariance, PTL

(* Each arming listener that runs belongs to the setup Home Assistant      *)
(* holds, or was left behind by a set_alarm_server that raised or by a     *)
(* setup that found no enabled entry; a loaded panel has its listener      *)
(* (init_coordinators, async_unload_entry, get_first_instance_unique_id).  *)
THEOREM ListenersCounted == Spec => []ListenersAccountedFor
<1>1. Inv => ListenersAccountedFor
  BY DEF Inv, Local, Listening, ListenersAccountedFor
<1> QED
  BY <1>1, Invariance, PTL

(* A device posts its events to Home Assistant only while its entry is set *)
(* up, or since the entry was given up without a reset that succeeded      *)
(* (set_alarm_server, async_unload_entry).                                 *)
THEOREM HostsReverted == Spec => []HostReverted
<1>1. Inv => HostReverted
  BY DEF Inv, Local, Posting, HostReverted
<1> QED
  BY <1>1, Invariance, PTL

(* The view is registered while the first enabled entry is set up, unless  *)
(* that entry or one before it was disabled when it was not set up         *)
(* (get_first_instance_unique_id).                                         *)
THEOREM ViewRegistered == Spec => []ViewReady
<1>1. Inv => ViewReady
  BY DEF Inv, ViewPassed, Before, Excused, First, ViewReady
<1> QED
  BY <1>1, Invariance, PTL

(* An entity is removed from the registry only for a partition that has    *)
(* been disabled, or by a setup whose request for the partitions was       *)
(* suppressed (remove_orphaned_partition_entities).                        *)
THEOREM OnlyOrphansRemoved == Spec => RemovedIfRetiredOrBlind
<1>1. ASSUME Inv, [Next]_vars, NEW e \in Entries, ~dev[e].blind
      PROVE  registry[e] \ registry'[e] \subseteq retired[e]
  <2>1. ASSUME NEW f \in Entries, SetupEnds(f)
        PROVE  registry[e] \ registry'[e] \subseteq retired[e]
    <3>1. CASE e # f \/ ~dev[f].panel
      BY <2>1, <3>1 DEF SetupEnds, RemoveOrphans, Inv, TypeOK
    <3>2. CASE e = f /\ dev[f].panel
      <4>1. registry[e] \subseteq dev[e].partitions \union retired[e]
        BY <1>1, <2>1, <3>2 DEF SetupEnds, Inv, Local, Learnt
      <4>2. dev[e].partitions \subseteq registry'[e]
        BY <2>1, <3>2, <1>1 DEF SetupEnds, RemoveOrphans, Inv, TypeOK
      <4> QED
        BY <4>1, <4>2
    <3> QED
      BY <3>1, <3>2
  <2>2. ASSUME NEW f \in Entries, SetupRaises(f)
        PROVE  registry[e] \subseteq registry'[e]
    BY <1>1, <2>2 DEF SetupRaises, Inv, TypeOK
  <2>3. UNCHANGED registry \/ \E f \in Entries : SetupEnds(f) \/ SetupRaises(f)
    BY <1>1 DEF vars, Next, Setup, Unload, User, SetupBegins, ReadDevice, ReadPanel,
                ReadPartitions, NotReady, AuthFails, SetAlarmServer, SetupFails, FirstRefresh,
                Granted, StopListener, UnloadPlatforms, UnloadEnds, Reload, Disable, Enable,
                Restart, Toggle
  <2> QED
    BY <2>1, <2>2, <2>3
<1>2. Inv /\ [Next]_vars =>
         [\A e \in Entries :
            dev[e].blind \/ registry[e] \ registry'[e] \subseteq retired[e]]_vars
  BY <1>1
<1> QED
  BY <1>2, Invariance, PTL DEF Spec, RemovedIfRetiredOrBlind
=============================================================================
