------------------------- MODULE NotificationsProofs -------------------------
(***************************************************************************)
(* The registry of Notifications follows the devices, for any devices and  *)
(* entries, and the entities of a device keep to documents of their own.   *)
(***************************************************************************)
EXTENDS Notifications, EventCatalogProofs, FiniteSetTheorems, WellFoundedInduction

-----------------------------------------------------------------------------
(* Numbers and places.                                                     *)

LEMMA LeastNumber ==
    ASSUME NEW S, S \subseteq Nat, S # {}
    PROVE  \E n \in S : \A m \in S : n <= m
<1> DEFINE Below(n) == 0 .. n
           T == {Below(n) : n \in S}
<1>1. T \subseteq FiniteSubsetsOf(Nat) /\ T # {}
  <2>1. \A n \in S : Below(n) \subseteq Nat /\ IsFiniteSet(Below(n))
    BY FS_Interval
  <2> QED
    BY <2>1 DEF FiniteSubsetsOf
<1>2. PICK x \in T : \A y \in T : <<y, x>> \notin StrictSubsetOrdering(Nat)
  <2>1. IsWellFoundedOn(StrictSubsetOrdering(Nat), FiniteSubsetsOf(Nat))
    BY FS_StrictSubsetOrderingWellFounded
  <2> HIDE DEF T
  <2> QED
    BY <1>1, <2>1, WFMin
<1>3. PICK n \in S : x = Below(n)
  BY <1>2
<1>4. ASSUME NEW m \in S, m < n
      PROVE  FALSE
  <2>1. Below(m) \subseteq Below(n) /\ Below(m) # Below(n) /\ Below(m) \in T
    <3>1. n \in Below(n) /\ n \notin Below(m)
      BY <1>4
    <3> QED
      BY <1>4, <3>1
  <2>2. Below(m) \in SUBSET Nat /\ Below(n) \in SUBSET Nat
    OBVIOUS
  <2> HIDE DEF Below, T
  <2> QED
    BY <1>2, <1>3, <2>1, <2>2 DEF StrictSubsetOrdering
<1> QED
  BY <1>4

LEMMA LeastChosen ==
    ASSUME NEW S, S \subseteq Nat, NEW n \in S, \A m \in S : n <= m
    PROVE  (CHOOSE k \in S : \A m \in S : k <= m) = n
<1> DEFINE least == CHOOSE k \in S : \A m \in S : k <= m
<1>1. least \in S /\ \A m \in S : least <= m
  BY Zenon
<1>2. least \in Nat /\ n \in Nat /\ least <= n /\ n <= least
  BY <1>1
<1> QED
  BY <1>2

\* the entry of a set that Home Assistant lists first
LEMMA FirstIsOne ==
    ASSUME NEW S, S \subseteq Entries, S # {}
    PROVE  First(S) \in S
<1> DEFINE Places == {i \in DOMAIN Order : Order[i] \in S}
<1>1. Places \subseteq Nat /\ Places # {}
  BY OrderAssumption DEF Entries
<1>2. PICK n \in Places : \A m \in Places : n <= m
  BY <1>1, LeastNumber
<1>3. \E i \in DOMAIN Order : Order[i] \in S /\ \A j \in DOMAIN Order : Order[j] \in S => i <= j
  BY <1>2
<1> QED
  BY <1>3 DEF First

-----------------------------------------------------------------------------
(* The entities of a device.                                               *)

Listing(e) == Chosen(Device[e], Device[e].triggers)

LEMMA ListingNumbered ==
    ASSUME NEW e \in Cameras
    PROVE  /\ WellNumbered(Listing(e)) /\ Listing(e) \subseteq Triggers(e)
           /\ CameraIds(Device[e]) \subseteq Nat
<1>1. Listing(e) \subseteq Triggers(e)
  BY ChosenAmong DEF Listing, Triggers, Cameras
<1>2. CameraIds(Device[e]) \subseteq Nat
  BY DeviceAssumption DEF CameraIds
<1>3. WellNumbered(Listing(e))
  BY <1>1, DeviceAssumption DEF WellNumbered
<1> QED
  BY <1>1, <1>2, <1>3

LEMMA FirstNotifying ==
    ASSUME NEW e \in Entries
    PROVE  /\ {t.no : t \in {u \in Triggers(e) : u.centre}} \in Notifying(e)
           /\ \A n \in Notifying(e) : n \subseteq Numbers(e)
BY DEF Notifying, Numbers

(* events_info of a device, as the code builds it from what it reads.      *)
LEMMA EventsOfDevice ==
    ASSUME NEW e \in Cameras
    PROVE  /\ \A n \in Notifying(e) :
                 EventsInfo(e, n) = EntityEvents(e, Device[e], EventsOf(Listing(e), n))
           /\ \E n \in Notifying(e) :
                 Sensors(e) = EntityEvents(e, Device[e], EventsOf(Listing(e), n))
<1> DEFINE Made(f, n) == [of |-> f, told |-> n,
                          events |-> EntityEvents(f, Device[f],
                             GetSupportedEvents(Device[f], Device[f].triggers, n))]
<1>1. \A l : l \in Lists <=> \E f \in Cameras : \E n \in Notifying(f) : l = Made(f, n)
  BY DEF Lists
<1>2. \A n : Made(e, n).events = EntityEvents(e, Device[e], EventsOf(Listing(e), n))
  BY SupportedEvents DEF Listing
<1>3. \A f, n : Made(f, n).of = f /\ Made(f, n).told = n
  OBVIOUS
<1> HIDE DEF Made
<1>4. ASSUME NEW n \in Notifying(e)
      PROVE  EventsInfo(e, n) = EntityEvents(e, Device[e], EventsOf(Listing(e), n))
  <2>1. Made(e, n) \in Lists
    BY <1>1
  <2>2. \A l \in Lists : l.of = e /\ l.told = n => l = Made(e, n)
    BY <1>1, <1>3
  <2>3. (CHOOSE l \in Lists : l.of = e /\ l.told = n) = Made(e, n)
    BY <1>3, <2>1, <2>2
  <2> QED
    BY <1>2, <2>3 DEF EventsInfo
<1>5. \E n \in Notifying(e) : Sensors(e) = EntityEvents(e, Device[e], EventsOf(Listing(e), n))
  <2>1. PICK m : m \in Notifying(e)
    BY FirstNotifying DEF Cameras
  <2>2. Made(e, m) \in Lists /\ Made(e, m).of = e
    BY <1>1, <1>3, <2>1
  <2> DEFINE l == CHOOSE x \in Lists : x.of = e
  <2>3. l \in Lists /\ l.of = e
    BY <2>2
  <2> HIDE DEF l
  <2>4. PICK n \in Notifying(e) : l = Made(e, n)
    BY <1>1, <1>3, <2>3
  <2>5. Sensors(e) = l.events
    BY DEF Sensors, l
  <2> QED
    BY <1>2, <2>4, <2>5
<1> QED
  BY <1>4, <1>5

(* Which entities there are, and what they say.                            *)
LEMMA EventsInfoFacts ==
    ASSUME NEW e \in Cameras, NEW n \in Notifying(e), NEW c \in EventsInfo(e, n)
    PROVE  /\ c.uid \in Uids /\ Owner(c.uid) = e
           /\ c.no \in Nat /\ c.of \subseteq Numbers(e)
           /\ c.disabled \in BOOLEAN /\ (c.disabled <=> c.of \intersect n = {})
           /\ \A b \in EventsInfo(e, n) :
                 /\ b.uid = c.uid => b = c
                 /\ b.url = c.url => b = c \/ c.url = <<EVENTS["pir"].slug>>
<1> DEFINE E == EntityEvents(e, Device[e], EventsOf(Listing(e), n))
<1>1. EventsInfo(e, n) = E
  BY EventsOfDevice
<1>2. /\ WellNumbered(Listing(e)) /\ Listing(e) \subseteq Triggers(e)
      /\ CameraIds(Device[e]) \subseteq Nat
  BY ListingNumbered
<1>3. c \in E
  BY <1>1
<1>4. /\ c.uid[1] = e /\ c.no \in Nat
      /\ c.of \subseteq {t.no : t \in Listing(e)}
      /\ c.disabled \in BOOLEAN
      /\ c.disabled <=> c.of \intersect n = {}
  BY <1>2, <1>3, EntityFacts
<1>5. c.of \subseteq Numbers(e)
  BY <1>2, <1>4 DEF Numbers
<1>6. c.uid \in Uids
  <2>1. PICK m \in Notifying(e) :
           Sensors(e) = EntityEvents(e, Device[e], EventsOf(Listing(e), m))
    BY EventsOfDevice
  <2>2. \E b \in EntityEvents(e, Device[e], EventsOf(Listing(e), m)) : b.uid = c.uid
    BY <1>3, UidsSettled
  <2>3. \E b \in Sensors(e) : b.uid = c.uid
    BY <2>1, <2>2
  <2> QED
    BY <2>3 DEF Uids
<1>7. ASSUME NEW b \in E
      PROVE  /\ b.uid = c.uid => b = c
             /\ b.url = c.url => b = c \/ c.url = <<EVENTS["pir"].slug>>
  BY <1>2, <1>3, EntitiesApart, DocumentsApart
<1> HIDE DEF E
<1> QED
  BY <1>1, <1>4, <1>5, <1>6, <1>7 DEF Owner

-----------------------------------------------------------------------------
(* The inductive invariant.  An entity that is set up is in the registry,  *)
(* and the list of a device is one the device gave; that is what makes the *)
(* flags of an entry its own business.                                     *)

Typed ==
    /\ phase \in [Entries -> {"out", "coordinating", "adding", "in", "failed"}]
    /\ known \subseteq Entries /\ disabled \subseteq Entries /\ reload \subseteq Entries
    /\ caps = [e \in Entries |-> caps[e]] /\ centre = [e \in Entries |-> centre[e]]
    /\ told = [e \in Entries |-> told[e]]
    /\ registry \in [Uids -> {"absent", "enabled", "integration", "user", "entry"}]
    /\ shown \in [Uids -> {"none", "unavailable", "off", "on"}]
    /\ touched \subseteq Uids
    /\ \A p \in posts : p.from \in Entries /\ p.ok \in BOOLEAN
    /\ bus.from \in Entries \union {"none"} /\ bus.asked \subseteq Panels
    /\ posted \in 0 .. MaxPosts /\ upsets \in 0 .. MaxUpsets

Follows(e) ==
    phase[e] = "in" => \A c \in caps[e] : c.uid \notin touched /\ e \notin disabled =>
        (registry[c.uid] = "enabled" <=> c.of \intersect told[e] # {})

Kept(e) ==
    /\ centre[e] \in Notifying(e)
    /\ told[e] = {} \/ told[e] \in Notifying(e)
    /\ caps[e] = {} \/ (/\ e \in Cameras /\ told[e] \in Notifying(e)
                        /\ caps[e] = EventsInfo(e, told[e]))
    /\ phase[e] \in {"adding", "in"} => \A c \in caps[e] : registry[c.uid] # "absent"
    /\ e \in disabled => phase[e] = "out"
    /\ Follows(e)

Inv == Typed /\ \A e \in Entries : Kept(e)

LEMMA KeptFacts ==
    ASSUME NEW e \in Entries, Kept(e), NEW c \in caps[e]
    PROVE  /\ e \in Cameras /\ c.uid \in Uids /\ Owner(c.uid) = e
           /\ c.no \in Nat /\ c.of \subseteq Numbers(e)
           /\ c.disabled \in BOOLEAN /\ (c.disabled <=> c.of \intersect told[e] = {})
           /\ \A b \in caps[e] :
                 /\ b.uid = c.uid => b = c
                 /\ b.url = c.url => b = c \/ c.url = <<EVENTS["pir"].slug>>
<1>1. e \in Cameras /\ told[e] \in Notifying(e) /\ caps[e] = EventsInfo(e, told[e])
  BY DEF Kept
<1> QED
  BY <1>1, EventsInfoFacts

LEMMA InvMeans ==
    ASSUME Inv
    PROVE  TypeOK /\ RegistryFollows /\ OneEntityPerDocument
<1>1. RegistryFollows
  BY DEF Inv, Kept, Follows, RegistryFollows, Cameras
<1>2. OneEntityPerDocument
  BY KeptFacts DEF Inv, OneEntityPerDocument, Cameras
<1>3. \A e \in Entries : \A c \in caps[e] : Owner(c.uid) = e /\ c.of \in SUBSET Numbers(e)
  BY KeptFacts DEF Inv
<1>4. \A e \in Entries : centre[e] \subseteq Numbers(e) /\ told[e] \subseteq Numbers(e)
  BY FirstNotifying DEF Inv, Kept
<1>5. TypeOK
  BY <1>3, <1>4 DEF Inv, Typed, TypeOK
<1> QED
  BY <1>1, <1>2, <1>5

LEMMA InitKept == Init => Inv
<1> SUFFICES ASSUME Init PROVE Inv
  OBVIOUS
<1>1. Typed
  BY BoundsAssumption DEF Init, Typed, Silence
<1>2. ASSUME NEW e \in Entries
      PROVE  Kept(e)
  <2>1. centre[e] \in Notifying(e)
    BY FirstNotifying DEF Init
  <2>2. caps[e] = {} /\ told[e] = {} /\ phase[e] = "out" /\ disabled = {}
    BY DEF Init
  <2> QED
    BY <2>1, <2>2 DEF Kept, Follows
<1> QED
  BY <1>1, <1>2 DEF Inv

(* What a step leaves of an entry, and of the registry entries of its      *)
(* entities, stays in order.                                               *)
LEMMA LeftAlone ==
    ASSUME NEW e \in Entries, Kept(e),
           centre'[e] = centre[e], caps'[e] = caps[e], told'[e] = told[e],
           phase'[e] = phase[e], e \in disabled <=> e \in disabled',
           \A u \in Uids : Owner(u) = e =>
              registry'[u] = registry[u] /\ (u \in touched => u \in touched')
    PROVE  Kept(e)'
<1>1. \A c \in caps[e] : /\ registry'[c.uid] = registry[c.uid]
                         /\ c.uid \in touched => c.uid \in touched'
  BY KeptFacts
<1> QED
  BY <1>1 DEF Kept, Follows

-----------------------------------------------------------------------------
(* Every step keeps it.                                                    *)

LEMMA UpsetsBounded ==
    ASSUME Inv, Upset \/ upsets' = upsets
    PROVE  upsets' \in 0 .. MaxUpsets
BY BoundsAssumption DEF Inv, Typed, Upset

LEMMA DeviceReadKeeps ==
    ASSUME Inv, NEW e \in Entries, DeviceRead(e)
    PROVE  Inv'
<1>1. Kept(e) /\ phase' = [phase EXCEPT ![e] = "coordinating"] /\ e \notin disabled
  BY DEF Inv, DeviceRead, Goto
<1>2. Typed'
  <2>1. upsets' \in 0 .. MaxUpsets
    BY UpsetsBounded DEF DeviceRead
  <2>2. /\ caps' = [f \in Entries |-> caps'[f]] /\ told' = [f \in Entries |-> told'[f]]
        /\ centre' = centre
    BY DEF Inv, Typed, DeviceRead
  <2>3. known' = known \union {e} /\ bus' = Silence /\ UNCHANGED <<disabled, entities, traffic>>
    BY DEF DeviceRead, Silent
  <2> QED
    BY <1>1, <2>1, <2>2, <2>3 DEF Inv, Typed, Silence, entities, traffic
<1>3. Kept(e)'
  <2>1. /\ centre' = centre /\ disabled' = disabled
        /\ told' = [told EXCEPT ![e] = centre[e]]
        /\ \/ caps' = [caps EXCEPT ![e] = IF e \in Panels THEN {} ELSE EventsInfo(e, centre[e])]
           \/ caps' = [caps EXCEPT ![e] = {}]
    BY DEF DeviceRead
  <2>2. phase'[e] = "coordinating" /\ told'[e] = centre[e]
    BY <1>1, <2>1 DEF Inv, Typed
  <2>3. caps'[e] = {} \/ (e \in Cameras /\ caps'[e] = EventsInfo(e, centre[e]))
    BY <2>1 DEF Inv, Typed, Cameras
  <2> QED
    BY <1>1, <2>1, <2>2, <2>3 DEF Kept, Follows
<1>4. ASSUME NEW f \in Entries, f # e
      PROVE  Kept(f)'
  <2>1. /\ centre'[f] = centre[f] /\ caps'[f] = caps[f] /\ told'[f] = told[f]
        /\ phase'[f] = phase[f] /\ disabled' = disabled
        /\ registry' = registry /\ touched' = touched
    BY <1>4 DEF Inv, Typed, DeviceRead, Goto, entities
  <2> QED
    BY <2>1, LeftAlone DEF Inv
<1> QED
  BY <1>2, <1>3, <1>4 DEF Inv

LEMMA SetupRefusedKeeps ==
    ASSUME Inv, NEW e \in Entries, SetupRefused(e)
    PROVE  Inv'
<1>1. /\ phase' = [phase EXCEPT ![e] = "failed"] /\ e \notin disabled
      /\ UNCHANGED <<centre, caps, told, disabled, registry, touched>>
  BY DEF SetupRefused, Goto, entities
<1>2. Typed'
  <2>1. upsets' \in 0 .. MaxUpsets
    BY UpsetsBounded DEF SetupRefused
  <2>2. bus' = Silence /\ UNCHANGED <<known, entities, traffic>>
    BY DEF SetupRefused, Silent
  <2> QED
    BY <1>1, <2>1, <2>2 DEF Inv, Typed, Silence, entities, traffic
<1>3. Kept(e)'
  <2>1. phase'[e] = "failed"
    BY <1>1 DEF Inv, Typed
  <2> QED
    BY <1>1, <2>1 DEF Inv, Kept, Follows
<1>4. ASSUME NEW f \in Entries, f # e
      PROVE  Kept(f)'
  <2>1. phase'[f] = phase[f]
    BY <1>1, <1>4 DEF Inv, Typed
  <2> QED
    BY <1>1, <2>1, LeftAlone DEF Inv
<1> QED
  BY <1>2, <1>3, <1>4 DEF Inv

LEMMA SetupFailsKeeps ==
    ASSUME Inv, NEW e \in Entries, SetupFails(e)
    PROVE  Inv'
<1>1. /\ phase' = [phase EXCEPT ![e] = "failed"] /\ phase[e] = "coordinating"
      /\ UNCHANGED <<centre, caps, told, disabled, registry, touched>>
  BY DEF SetupFails, Goto, entities
<1>2. Typed'
  <2>1. upsets' \in 0 .. MaxUpsets
    BY UpsetsBounded DEF SetupFails
  <2>2. bus' = Silence /\ UNCHANGED <<known, entities, traffic>>
    BY DEF SetupFails, Silent
  <2> QED
    BY <1>1, <2>1, <2>2 DEF Inv, Typed, Silence, entities, traffic
<1>3. Kept(e)'
  <2>1. phase'[e] = "failed"
    BY <1>1 DEF Inv, Typed
  <2> QED
    BY <1>1, <2>1 DEF Inv, Kept, Follows
<1>4. ASSUME NEW f \in Entries, f # e
      PROVE  Kept(f)'
  <2>1. phase'[f] = phase[f]
    BY <1>1, <1>4 DEF Inv, Typed
  <2> QED
    BY <1>1, <2>1, LeftAlone DEF Inv
<1> QED
  BY <1>2, <1>3, <1>4 DEF Inv

LEMMA PlatformsSetUpKeeps ==
    ASSUME Inv, NEW e \in Entries, PlatformsSetUp(e)
    PROVE  Inv'
<1>1. /\ phase' = [phase EXCEPT ![e] = "adding"] /\ phase[e] = "coordinating"
      /\ UNCHANGED <<centre, caps, told, disabled, touched>>
      /\ registry' = [u \in Uids |->
                         IF u \notin Listed(e) \/ registry[u] # "absent" THEN registry[u]
                         ELSE IF \E c \in caps[e] : c.uid = u /\ ~c.disabled THEN "enabled"
                         ELSE "integration"]
  BY DEF PlatformsSetUp, Goto
<1>2. \A u \in Uids : /\ u \notin Listed(e) => registry'[u] = registry[u]
                      /\ u \in Listed(e) => registry'[u] # "absent"
  BY <1>1
<1>3. Typed'
  <2>1. registry' \in [Uids -> {"absent", "enabled", "integration", "user", "entry"}]
    BY <1>1 DEF Inv, Typed
  <2>2. shown' \in [Uids -> {"none", "unavailable", "off", "on"}]
    BY DEF Inv, Typed, PlatformsSetUp
  <2> QED
    BY <1>1, <2>1, <2>2 DEF Inv, Typed, PlatformsSetUp, Silent, Silence, traffic
<1>4. Kept(e)'
  <2>1. phase'[e] = "adding"
    BY <1>1 DEF Inv, Typed
  <2>2. \A c \in caps[e] : registry'[c.uid] # "absent"
    BY <1>2, KeptFacts DEF Inv, Listed
  <2> QED
    BY <1>1, <2>1, <2>2 DEF Inv, Kept, Follows
<1>5. ASSUME NEW f \in Entries, f # e
      PROVE  Kept(f)'
  <2>1. phase'[f] = phase[f]
    BY <1>1, <1>5 DEF Inv, Typed
  <2>2. \A u \in Uids : Owner(u) = f => u \notin Listed(e)
    BY <1>5, KeptFacts DEF Inv, Listed
  <2> QED
    BY <1>1, <1>2, <2>1, <2>2, LeftAlone DEF Inv
<1> QED
  BY <1>3, <1>4, <1>5 DEF Inv

(* The flags after refresh_disabled_entities_in_registry: since no two     *)
(* entities of a list share a unique id, each follows its own.             *)
LEMMA FlagsRefreshed ==
    ASSUME Inv, NEW e \in Entries, RefreshRegistry(e),
           \A c \in caps[e] : registry[c.uid] # "absent"
    PROVE  /\ registry' \in [Uids -> {"absent", "enabled", "integration", "user", "entry"}]
           /\ shown' \in [Uids -> {"none", "unavailable", "off", "on"}]
           /\ reload' \in {reload, reload \union {e}}
           /\ \A u \in Uids : u \notin Listed(e) => registry'[u] = registry[u]
           /\ \A c \in caps[e] : /\ registry'[c.uid] = "enabled" <=> ~c.disabled
                                 /\ registry'[c.uid] # "absent"
<1> DEFINE Turns(c) == {d \in caps[e] : d.uid = c.uid /\ d.no < c.no}
           WasOff(c) == IF Turns(c) = {} THEN registry[c.uid] # "enabled"
                        ELSE \E d \in Turns(c) : d.disabled /\ \A o \in Turns(c) : o.no <= d.no
           wrong == {c \in caps[e] : registry[c.uid] # "absent" /\ WasOff(c) # c.disabled}
           last == {c \in wrong : \A d \in wrong : d.uid = c.uid => d.no <= c.no}
           off == {c.uid : c \in {d \in last : d.disabled}}
           on == {c.uid : c \in {d \in last : ~d.disabled}}
<1>1. /\ registry' = [u \in Uids |-> IF u \in on THEN "enabled"
                                     ELSE IF u \in off THEN "integration" ELSE registry[u]]
      /\ shown' = [u \in Uids |-> IF u \in off THEN "none" ELSE shown[u]]
      /\ reload' = IF \E c \in wrong : ~c.disabled THEN reload \union {e} ELSE reload
  BY Zenon DEF RefreshRegistry
<1>2. \A c \in caps[e] : /\ c.uid \in Uids /\ c.no \in Nat /\ c.disabled \in BOOLEAN
                         /\ \A b \in caps[e] : b.uid = c.uid => b = c
  BY KeptFacts DEF Inv
<1>3. \A c \in caps[e] : Turns(c) = {}
  BY <1>2
<1> HIDE DEF Turns
<1>4. \A c \in caps[e] : WasOff(c) <=> registry[c.uid] # "enabled"
  BY <1>3
<1>5. \A c \in caps[e] : c \in wrong <=> (registry[c.uid] # "enabled") # c.disabled
  <2>1. \A c \in caps[e] : WasOff(c) \in BOOLEAN
    BY <1>3
  <2> HIDE DEF WasOff
  <2> QED
    BY <1>2, <1>4, <2>1
<1>6. wrong \subseteq caps[e]
  OBVIOUS
<1> HIDE DEF wrong
<1>7. last = wrong
  BY <1>2, <1>6
<1> HIDE DEF last
<1>8. \A c \in caps[e] : /\ c.uid \in on <=> c \in wrong /\ ~c.disabled
                         /\ c.uid \in off <=> c \in wrong /\ c.disabled
  BY <1>2, <1>6, <1>7
<1>9. on \subseteq Listed(e) /\ off \subseteq Listed(e)
  BY <1>6, <1>7 DEF Listed
<1> HIDE DEF on, off
<1>10. ASSUME NEW c \in caps[e]
       PROVE  (registry'[c.uid] = "enabled" <=> ~c.disabled) /\ registry'[c.uid] # "absent"
  <2>1. CASE c.disabled
    BY <1>1, <1>2, <1>5, <1>8, <2>1
  <2>2. CASE ~c.disabled
    BY <1>1, <1>2, <1>5, <1>8, <2>2
  <2> QED
    BY <2>1, <2>2
<1>11. /\ registry' \in [Uids -> {"absent", "enabled", "integration", "user", "entry"}]
       /\ shown' \in [Uids -> {"none", "unavailable", "off", "on"}]
  BY <1>1 DEF Inv, Typed
<1>12. \A u \in Uids : u \notin Listed(e) => registry'[u] = registry[u]
  BY <1>1, <1>9
<1>13. reload' \in {reload, reload \union {e}}
  BY <1>1
<1> QED
  BY <1>10, <1>11, <1>12, <1>13

LEMMA SetupEndsKeeps ==
    ASSUME Inv, NEW e \in Entries, SetupEnds(e)
    PROVE  Inv'
<1>1. /\ phase' = [phase EXCEPT ![e] = "in"] /\ phase[e] = "adding"
      /\ UNCHANGED <<centre, caps, told, disabled>>
      /\ touched' = touched \ Listed(e) /\ RefreshRegistry(e)
  BY DEF SetupEnds, Goto
<1>2. \A c \in caps[e] : registry[c.uid] # "absent"
  BY <1>1 DEF Inv, Kept
<1>3. /\ registry' \in [Uids -> {"absent", "enabled", "integration", "user", "entry"}]
      /\ shown' \in [Uids -> {"none", "unavailable", "off", "on"}]
      /\ reload' \in {reload, reload \union {e}}
      /\ \A u \in Uids : u \notin Listed(e) => registry'[u] = registry[u]
      /\ \A c \in caps[e] : /\ registry'[c.uid] = "enabled" <=> ~c.disabled
                            /\ registry'[c.uid] # "absent"
  BY <1>1, <1>2, FlagsRefreshed
<1>4. Typed'
  <2>1. touched' \subseteq Uids /\ reload' \subseteq Entries
    BY <1>1, <1>3 DEF Inv, Typed
  <2>2. bus' = Silence /\ UNCHANGED <<known, posts, posted, upsets>>
    BY DEF SetupEnds, Silent, traffic
  <2> QED
    BY <1>1, <1>3, <2>1, <2>2 DEF Inv, Typed, Silence
<1>5. Kept(e)'
  <2>1. phase'[e] = "in"
    BY <1>1 DEF Inv, Typed
  <2>2. \A c \in caps[e] : registry'[c.uid] = "enabled" <=> c.of \intersect told[e] # {}
    BY <1>3, KeptFacts DEF Inv
  <2>3. e \notin disabled
    BY <1>1 DEF Inv, Kept
  <2> QED
    BY <1>1, <1>3, <2>1, <2>2, <2>3 DEF Inv, Kept, Follows
<1>6. ASSUME NEW f \in Entries, f # e
      PROVE  Kept(f)'
  <2>1. phase'[f] = phase[f]
    BY <1>1, <1>6 DEF Inv, Typed
  <2>2. \A u \in Uids : Owner(u) = f => u \notin Listed(e)
    BY <1>6, KeptFacts DEF Inv, Listed
  <2> QED
    BY <1>1, <1>3, <2>1, <2>2, LeftAlone DEF Inv
<1> QED
  BY <1>4, <1>5, <1>6 DEF Inv

\* runtime_data is forgotten, whatever becomes of the flags of the entry's
\* own entities
LEMMA ForgottenKeeps ==
    ASSUME Inv, NEW e \in Entries, Forgets(e),
           phase' = [phase EXCEPT ![e] = "out"], centre' = centre, touched' = touched,
           \A f \in Entries : f # e => (f \in disabled <=> f \in disabled'),
           \A u \in Uids : Owner(u) # e => registry'[u] = registry[u]
    PROVE  \A f \in Entries : Kept(f)'
<1>1. Kept(e)'
  <2>1. phase'[e] = "out" /\ caps'[e] = {} /\ told'[e] = {}
    BY DEF Forgets, Inv, Typed
  <2> QED
    BY <2>1 DEF Inv, Kept, Follows
<1>2. ASSUME NEW f \in Entries, f # e
      PROVE  Kept(f)'
  <2>1. /\ caps'[f] = caps[f] /\ told'[f] = told[f] /\ phase'[f] = phase[f]
        /\ f \in disabled <=> f \in disabled'
    BY <1>2 DEF Forgets, Inv, Typed
  <2> QED
    BY <1>2, <2>1, LeftAlone DEF Inv
<1> QED
  BY <1>1, <1>2

LEMMA UnloadKeeps ==
    ASSUME Inv, NEW e \in Entries, Unload(e), Silent, upsets' \in 0 .. MaxUpsets,
           reload' \subseteq Entries, UNCHANGED <<disabled, registry, touched, centre, traffic>>
    PROVE  Inv'
<1>1. Forgets(e) /\ phase' = [phase EXCEPT ![e] = "out"]
  BY DEF Unload, Goto
<1>2. shown' \in [Uids -> {"none", "unavailable", "off", "on"}]
  BY DEF Unload, Inv, Typed
<1>3. Typed'
  <2>1. /\ known' \subseteq Entries
        /\ caps' = [f \in Entries |-> caps'[f]] /\ told' = [f \in Entries |-> told'[f]]
    BY <1>1 DEF Forgets, Inv, Typed
  <2> QED
    BY <1>1, <1>2, <2>1 DEF Inv, Typed, Silent, Silence, traffic
<1>4. \A f \in Entries : Kept(f)'
  BY <1>1, ForgottenKeeps
<1> QED
  BY <1>3, <1>4 DEF Inv

LEMMA ScheduledReloadKeeps ==
    ASSUME Inv, NEW e \in Entries, ScheduledReload(e)
    PROVE  Inv'
<1>1. /\ reload' \subseteq Entries /\ Silent
      /\ UNCHANGED <<disabled, registry, touched, centre, traffic, upsets>>
  BY DEF ScheduledReload, Inv, Typed
<1>2. upsets' \in 0 .. MaxUpsets
  BY <1>1, UpsetsBounded
<1>3. CASE Unload(e)
  BY <1>1, <1>2, <1>3, UnloadKeeps
<1>4. CASE UNCHANGED <<phase, known, caps, told, shown>>
  <2>1. Typed'
    BY <1>1, <1>4 DEF Inv, Typed, Silent, Silence, traffic
  <2>2. \A f \in Entries : Kept(f)'
    BY <1>1, <1>4, LeftAlone DEF Inv
  <2> QED
    BY <2>1, <2>2 DEF Inv
<1> QED
  BY <1>3, <1>4 DEF ScheduledReload

LEMMA UserReloadsKeeps ==
    ASSUME Inv, NEW e \in Entries, UserReloads(e)
    PROVE  Inv'
<1>1. /\ reload' = reload /\ Silent
      /\ UNCHANGED <<disabled, registry, touched, centre, traffic>>
  BY DEF UserReloads
<1>2. upsets' \in 0 .. MaxUpsets
  BY UpsetsBounded DEF UserReloads
<1>3. CASE Unload(e)
  BY <1>1, <1>2, <1>3, UnloadKeeps DEF Inv, Typed
<1>4. CASE Goto(e, "out") /\ UNCHANGED <<known, caps, told, shown>>
  <2>1. phase' = [phase EXCEPT ![e] = "out"]
    BY <1>4 DEF Goto
  <2>2. Typed'
    BY <1>1, <1>2, <1>4, <2>1 DEF Inv, Typed, Silent, Silence, traffic
  <2>3. Kept(e)'
    <3>1. phase'[e] = "out"
      BY <2>1 DEF Inv, Typed
    <3> QED
      BY <1>1, <1>4, <3>1 DEF Inv, Kept, Follows
  <2>4. ASSUME NEW f \in Entries, f # e
        PROVE  Kept(f)'
    <3>1. phase'[f] = phase[f]
      BY <2>1, <2>4 DEF Inv, Typed
    <3> QED
      BY <1>1, <1>4, <3>1, LeftAlone DEF Inv
  <2> QED
    BY <2>2, <2>3, <2>4 DEF Inv
<1> QED
  BY <1>3, <1>4 DEF UserReloads

LEMMA UserDisablesKeeps ==
    ASSUME Inv, NEW e \in Entries, UserDisables(e)
    PROVE  Inv'
<1>1. /\ phase' = [phase EXCEPT ![e] = "out"] /\ Forgets(e) /\ disabled' = disabled \union {e}
      /\ registry' = [u \in Uids |-> IF Owner(u) = e /\ registry[u] = "enabled" THEN "entry"
                                     ELSE registry[u]]
      /\ shown' = [u \in Uids |-> IF Owner(u) = e THEN "none" ELSE shown[u]]
      /\ Silent /\ UNCHANGED <<touched, reload, centre, traffic>>
  BY DEF UserDisables, Goto
<1>2. Typed'
  <2>1. upsets' \in 0 .. MaxUpsets
    BY UpsetsBounded DEF UserDisables
  <2>2. /\ known' \subseteq Entries
        /\ caps' = [f \in Entries |-> caps'[f]] /\ told' = [f \in Entries |-> told'[f]]
    BY <1>1 DEF Forgets, Inv, Typed
  <2>3. /\ registry' \in [Uids -> {"absent", "enabled", "integration", "user", "entry"}]
        /\ shown' \in [Uids -> {"none", "unavailable", "off", "on"}]
    BY <1>1 DEF Inv, Typed
  <2> QED
    BY <1>1, <2>1, <2>2, <2>3 DEF Inv, Typed, Silent, Silence, traffic
<1>3. \A u \in Uids : Owner(u) # e => registry'[u] = registry[u]
  BY <1>1
<1>4. \A f \in Entries : Kept(f)'
  BY <1>1, <1>3, ForgottenKeeps
<1> QED
  BY <1>2, <1>4 DEF Inv

LEMMA UserEnablesKeeps ==
    ASSUME Inv, NEW e \in Entries, UserEnables(e)
    PROVE  Inv'
<1>1. /\ e \in disabled /\ disabled' = disabled \ {e}
      /\ registry' = [u \in Uids |-> IF Owner(u) = e /\ registry[u] = "entry" THEN "enabled"
                                     ELSE registry[u]]
      /\ Silent /\ UNCHANGED <<phase, known, caps, told, shown, touched, reload, centre, traffic>>
  BY DEF UserEnables
<1>2. Typed'
  <2>1. upsets' \in 0 .. MaxUpsets
    BY UpsetsBounded DEF UserEnables
  <2>2. registry' \in [Uids -> {"absent", "enabled", "integration", "user", "entry"}]
    BY <1>1 DEF Inv, Typed
  <2> QED
    BY <1>1, <2>1, <2>2 DEF Inv, Typed, Silent, Silence, traffic
<1>3. Kept(e)'
  <2>1. phase'[e] = "out"
    BY <1>1 DEF Inv, Kept
  <2> QED
    BY <1>1, <2>1 DEF Inv, Kept, Follows
<1>4. ASSUME NEW f \in Entries, f # e
      PROVE  Kept(f)'
  <2>1. f \in disabled <=> f \in disabled'
    BY <1>1, <1>4
  <2>2. \A u \in Uids : Owner(u) = f => registry'[u] = registry[u]
    BY <1>1, <1>4
  <2> QED
    BY <1>1, <2>1, <2>2, LeftAlone DEF Inv
<1> QED
  BY <1>2, <1>3, <1>4 DEF Inv

\* an entity the user has toggled need not follow the device until the entry
\* is set up again
LEMMA UserTogglesKeeps ==
    ASSUME Inv, NEW u \in Uids, UserToggles(u)
    PROVE  Inv'
<1>1. /\ touched' = touched \union {u} /\ registry[u] # "absent"
      /\ Silent /\ UNCHANGED <<entry, centre, traffic>>
      /\ \/ /\ registry' = [registry EXCEPT ![u] = "user"]
            /\ shown' = [shown EXCEPT ![u] = "none"] /\ reload' = reload
         \/ /\ registry' = [registry EXCEPT ![u] = "enabled"]
            /\ reload' = reload \union {Owner(u)} /\ shown' = shown
  BY DEF UserToggles
<1>2. Owner(u) \in Entries
  <2>1. PICK e \in Cameras : \E c \in Sensors(e) : c.uid = u
    BY DEF Uids
  <2>2. PICK n \in Notifying(e) :
           Sensors(e) = EntityEvents(e, Device[e], EventsOf(Listing(e), n))
    BY EventsOfDevice
  <2>3. Sensors(e) = EventsInfo(e, n)
    BY <2>2, EventsOfDevice
  <2>4. Owner(u) = e
    BY <2>1, <2>3, EventsInfoFacts
  <2> QED
    BY <2>4 DEF Cameras
<1>3. Typed'
  <2>1. upsets' \in 0 .. MaxUpsets
    BY UpsetsBounded DEF UserToggles
  <2>2. /\ registry' \in [Uids -> {"absent", "enabled", "integration", "user", "entry"}]
        /\ shown' \in [Uids -> {"none", "unavailable", "off", "on"}]
        /\ touched' \subseteq Uids /\ reload' \subseteq Entries
    BY <1>1, <1>2 DEF Inv, Typed
  <2> QED
    BY <1>1, <2>1, <2>2 DEF Inv, Typed, Silent, Silence, traffic, entry
<1>4. ASSUME NEW f \in Entries
      PROVE  Kept(f)'
  <2>1. \A v \in Uids : /\ v # u => registry'[v] = registry[v]
                        /\ registry'[u] # "absent"
    BY <1>1 DEF Inv, Typed
  <2>2. \A c \in caps[f] : /\ registry[c.uid] # "absent" => registry'[c.uid] # "absent"
                           /\ c.uid \notin touched' =>
                                 c.uid \notin touched /\ registry'[c.uid] = registry[c.uid]
    BY <1>1, <2>1, KeptFacts DEF Inv
  <2>3. UNCHANGED <<phase, known, disabled, caps, told, centre>>
    BY <1>1 DEF entry
  <2> QED
    BY <2>2, <2>3 DEF Inv, Kept, Follows
<1> QED
  BY <1>3, <1>4 DEF Inv

LEMMA DeviceEditedKeeps ==
    ASSUME Inv, NEW e \in Entries, NEW n \in Numbers(e), DeviceEdited(e, n)
    PROVE  Inv'
<1>1. /\ centre' = [centre EXCEPT ![e] = IF n \in @ THEN @ \ {n} ELSE @ \union {n}]
      /\ <<e, n>> \in Edited
      /\ Silent /\ UNCHANGED <<entry, entities, traffic>>
  BY DEF DeviceEdited
<1>2. Typed'
  <2>1. upsets' \in 0 .. MaxUpsets
    BY UpsetsBounded DEF DeviceEdited
  <2>2. centre' = [f \in Entries |-> centre'[f]]
    BY <1>1 DEF Inv, Typed
  <2> QED
    BY <1>1, <2>1, <2>2 DEF Inv, Typed, Silent, Silence, entry, entities, traffic
<1>3. ASSUME NEW f \in Entries
      PROVE  Kept(f)'
  <2>1. UNCHANGED <<phase, disabled, caps, told, registry, touched>>
    BY <1>1 DEF entry, entities
  <2>2. centre'[f] \in Notifying(f)
    <3>1. centre'[f] = IF f = e THEN (IF n \in centre[e] THEN centre[e] \ {n} ELSE centre[e] \union {n})
                       ELSE centre[f]
      BY <1>1 DEF Inv, Typed
    <3>2. centre[f] \in Notifying(f)
      BY DEF Inv, Kept
    <3> QED
      BY <1>1, <3>1, <3>2 DEF Notifying
  <2> QED
    BY <2>1, <2>2 DEF Inv, Kept, Follows
<1> QED
  BY <1>2, <1>3 DEF Inv

LEMMA PostKeeps ==
    ASSUME Inv, NEW e \in Entries, Post(e)
    PROVE  Inv'
<1>1. /\ posted < MaxPosts /\ posted' = posted + 1 /\ Silent
      /\ UNCHANGED <<entry, entities, centre, upsets>>
  BY DEF Post
<1>2. ASSUME NEW p \in posts'
      PROVE  p.from \in Entries /\ p.ok \in BOOLEAN
  <2>1. \A t, wrapped, address : \A ok \in BOOLEAN :
           /\ Alert(e, t, wrapped, address, ok).from = e
           /\ Alert(e, t, wrapped, address, ok).ok \in BOOLEAN
    BY DEF Alert
  <2>2. p \in posts \/ \E t, wrapped, address : \E ok \in BOOLEAN :
                          p = Alert(e, t, wrapped, address, ok)
    BY DEF Post
  <2> QED
    BY <2>1, <2>2 DEF Inv, Typed
<1>3. Typed'
  <2>1. posted' \in 0 .. MaxPosts
    BY <1>1, BoundsAssumption DEF Inv, Typed
  <2> QED
    BY <1>1, <1>2, <2>1 DEF Inv, Typed, Silent, Silence, entry, entities
<1>4. \A f \in Entries : Kept(f)'
  BY <1>1, LeftAlone DEF Inv, entry, entities
<1> QED
  BY <1>3, <1>4 DEF Inv

\* an event is taken for that of an entry that is ready
LEMMA FoundReady ==
    ASSUME Inv, NEW p
    PROVE  GetIsapiDevice(p) \subseteq Ready /\ Ready \subseteq Entries
<1>1. Ready \subseteq Entries
  BY DEF Ready, Inv, Typed
<1>2. /\ ByMac(p) \subseteq Ready /\ BySerial(p) \subseteq Ready /\ ByAddress(p) \subseteq Ready
  BY DEF ByMac, BySerial, ByAddress
<1>3. \A S \in SUBSET Ready : S # {} => First(S) \in S
  BY <1>1, FirstIsOne
<1> QED
  BY <1>1, <1>2, <1>3 DEF GetIsapiDevice

LEMMA HandleKeeps ==
    ASSUME Inv, NEW p \in posts, Handle(p)
    PROVE  Inv'
<1>1. posts' = posts \ {p} /\ UNCHANGED <<entry, registry, touched, reload, centre, posted, upsets>>
  BY DEF Handle
<1>2. /\ shown' \in [Uids -> {"none", "unavailable", "off", "on"}]
      /\ bus'.from \in Entries \union {"none"} /\ bus'.asked \subseteq Panels
  <2>1. CASE Silent /\ UNCHANGED shown
    BY <2>1 DEF Inv, Typed, Silent, Silence
  <2>2. CASE \E e \in GetIsapiDevice(p) :
                \/ IsSecurityPanel(e) /\ HandleSecurityCpEvent(e, p) /\ UNCHANGED shown
                \/ ~IsSecurityPanel(e) /\ TriggerSensor(e, p)
    <3>1. PICK e \in GetIsapiDevice(p) :
                \/ IsSecurityPanel(e) /\ HandleSecurityCpEvent(e, p) /\ UNCHANGED shown
                \/ ~IsSecurityPanel(e) /\ TriggerSensor(e, p)
      BY <2>2
    <3>2. e \in Entries
      BY FoundReady
    <3>3. CASE IsSecurityPanel(e) /\ HandleSecurityCpEvent(e, p) /\ UNCHANGED shown
      BY <3>2, <3>3 DEF IsSecurityPanel, HandleSecurityCpEvent, Inv, Typed
    <3>4. CASE TriggerSensor(e, p)
      <4> DEFINE id == AlertEventId(p)
                 channel == AlertChannel(Device[e], p.channel)
                 uid == AlertUid(e, channel, p.port, id)
                 named == \E i \in DOMAIN Device[e].cameras : Device[e].cameras[i].id = channel
      <4>1. \/ /\ shown' = [shown EXCEPT ![uid] = "on"]
               /\ bus' = [from |-> e, id |-> id, channel |-> channel,
                          camera |-> IF named THEN channel ELSE 0, asked |-> {}]
            \/ Silent /\ UNCHANGED shown
        BY <3>4, Zenon DEF TriggerSensor
      <4> HIDE DEF uid, id, channel, named
      <4> QED
        BY <2>1, <3>2, <4>1 DEF Inv, Typed
    <3> QED
      BY <3>1, <3>3, <3>4
  <2> QED
    BY <2>1, <2>2 DEF Handle
<1>3. Typed'
  BY <1>1, <1>2 DEF Inv, Typed, entry
<1>4. \A f \in Entries : Kept(f)'
  BY <1>1, LeftAlone DEF Inv, entry
<1> QED
  BY <1>3, <1>4 DEF Inv

LEMMA PolledKeeps ==
    ASSUME Inv, NEW u \in Uids, Polled(u)
    PROVE  Inv'
<1>1. /\ shown' = [shown EXCEPT ![u] = "off"] /\ Silent
      /\ UNCHANGED <<entry, registry, touched, reload, centre, traffic, upsets>>
  BY DEF Polled
<1>2. Typed'
  BY <1>1 DEF Inv, Typed, Silent, Silence, entry, traffic
<1>3. \A f \in Entries : Kept(f)'
  BY <1>1, LeftAlone DEF Inv, entry
<1> QED
  BY <1>2, <1>3 DEF Inv

LEMMA StutterKeeps ==
    ASSUME Inv, UNCHANGED vars
    PROVE  Inv'
<1>1. Typed'
  BY DEF Inv, Typed, vars, entry, entities, traffic
<1>2. \A f \in Entries : Kept(f)'
  BY LeftAlone DEF Inv, vars, entry, entities
<1> QED
  BY <1>1, <1>2 DEF Inv

LEMMA NextKeeps == Inv /\ [Next]_vars => Inv'
<1> SUFFICES ASSUME Inv, [Next]_vars PROVE Inv'
  OBVIOUS
<1>1. ASSUME NEW e \in Entries,
             \/ DeviceRead(e) \/ SetupRefused(e) \/ SetupFails(e) \/ PlatformsSetUp(e)
             \/ SetupEnds(e) \/ ScheduledReload(e)
             \/ UserReloads(e) \/ UserDisables(e) \/ UserEnables(e)
             \/ Post(e) \/ \E n \in Numbers(e) : DeviceEdited(e, n)
      PROVE  Inv'
  BY <1>1, DeviceReadKeeps, SetupRefusedKeeps, SetupFailsKeeps, PlatformsSetUpKeeps,
     SetupEndsKeeps, ScheduledReloadKeeps, UserReloadsKeeps, UserDisablesKeeps,
     UserEnablesKeeps, PostKeeps, DeviceEditedKeeps
<1>2. ASSUME NEW u \in Uids, UserToggles(u) \/ Polled(u)
      PROVE  Inv'
  BY <1>2, UserTogglesKeeps, PolledKeeps
<1>3. ASSUME NEW p \in posts, Handle(p)
      PROVE  Inv'
  BY <1>3, HandleKeeps
<1> QED
  BY <1>1, <1>2, <1>3, StutterKeeps DEF Next

-----------------------------------------------------------------------------
(* The unique id the catalogue makes of a trigger, and the one the view    *)
(* makes of its alert.                                                     *)

LEMMA ListedFirst ==
    ASSUME NEW e \in Cameras, NEW t \in Triggers(e), EventId(t.type) \in DOMAIN EVENTS,
           NEW s \in Listing(e), EventId(s.type) = EventId(t.type),
           Channel(s) = Channel(t), Port(s) = Port(t)
    PROVE  t \in Listing(e)
<1>1. s \in Triggers(e)
  BY ListingNumbered
<1>2. EventId(s.type) = "pir" => Device[e].pir
  BY DEF Listing, Chosen, Usable
<1>3. t.type # "none"
  BY DEF EventId, Lower, EVENTS, EVENTS_ALTERNATE_ID
<1>4. CASE t \in Device[e].triggers
  <2>1. t \in Usable(Device[e], Device[e].triggers)
    BY <1>2, <1>3, <1>4 DEF Usable
  <2> QED
    BY <2>1 DEF Listing, Chosen
<1>5. CASE t \in Device[e].single
  <2>1. \A u : /\ EventInfo(u, {}).id = EventId(u.type)
               /\ EventInfo(u, {}).channel = Channel(u) /\ EventInfo(u, {}).port = Port(u)
    BY InfoOfTrigger
  <2>2. t = s
    BY <1>1, <1>5, <2>1, DeviceAssumption
  <2> QED
    BY <2>2
<1> QED
  BY <1>4, <1>5 DEF Triggers, Cameras

LEMMA SensorsFacts ==
    ASSUME NEW e \in Cameras, NEW c \in Sensors(e)
    PROVE  /\ c.uid \in Uids /\ Owner(c.uid) = e
           /\ \E k \in CameraIds(Device[e]) : \E s \in OfCamera(Listing(e), k) :
                 /\ c.uid = UidOf(e, k, s)
                 /\ c.of = {t.no : t \in Sharing(e, k, Listing(e), s)}
<1>1. PICK n \in Notifying(e) :
         Sensors(e) = EntityEvents(e, Device[e], EventsOf(Listing(e), n))
  BY EventsOfDevice
<1>2. c \in EventsInfo(e, n)
  BY <1>1, EventsOfDevice
<1>3. PICK k \in CameraIds(Device[e]), s \in Listing(e) :
         IsFirst(e, k, Listing(e), s) /\ c = Entity(e, k, Listing(e), s, n)
  BY <1>1, Entities
<1>4. /\ s \in OfCamera(Listing(e), k) /\ c.uid = UidOf(e, k, s)
      /\ c.of = {t.no : t \in Sharing(e, k, Listing(e), s)}
  BY <1>3 DEF IsFirst, Entity
<1> QED
  BY <1>2, <1>4, EventsInfoFacts

LEMMA UidsOwned ==
    ASSUME NEW u \in Uids
    PROVE  Owner(u) \in Cameras /\ \E c \in Sensors(Owner(u)) : c.uid = u
<1>1. PICK e \in Cameras : \E c \in Sensors(e) : c.uid = u
  BY DEF Uids
<1> QED
  BY <1>1, SensorsFacts

\* an alert names the type and the port of its trigger
LEMMA AlertFacts ==
    ASSUME NEW e \in Cameras, NEW t \in Triggers(e), NEW wrapped \in BOOLEAN, NEW address,
           NEW ok, NEW p, p = Alert(e, t, wrapped, address, ok)
    PROVE  /\ p.from = e /\ p.no = t.no /\ p.ok = ok /\ p.at = address
           /\ p.mac \in {e, "none"} /\ p.serial[1] = e
           /\ p.port = Port(t) /\ Port(t) \in Nat /\ Channel(t) \in Nat
           /\ EventId(t.type) # "io" =>
                 p.channel \in Nat /\ (p.channel = Channel(t) \/ p.channel > 32)
           /\ AlertEventId(p) \in DOMAIN EVENTS \/ EventId(t.type) \in DOMAIN EVENTS =>
                 AlertEventId(p) = EventId(t.type)
<1>1. /\ p.from = e /\ p.no = t.no /\ p.ok = ok /\ p.at = address /\ p.port = Port(t)
      /\ p.mac \in {e, "none"} /\ p.serial[1] = e
  BY DEF Alert, Port
<1>2. Port(t) \in Nat /\ Channel(t) \in Nat
  BY DeviceAssumption DEF Port, Channel, OrElse
<1>3. EventId(t.type) # "io" => p.channel = SentChannel[e][Channel(t)]
  <2>1. t.no # 0
    BY DeviceAssumption
  <2> QED
    BY <2>1 DEF Alert, Channel
<1>4. EventId(t.type) # "io" =>
         p.channel \in Nat /\ (p.channel = Channel(t) \/ p.channel > 32)
  BY <1>3, SentChannelAssumption DEF Channel
<1>5. /\ p.type = IF wrapped THEN "duration" ELSE t.type
      /\ p.related = IF wrapped THEN t.type ELSE "none"
  BY DEF Alert
<1>6. EventId("none") \notin DOMAIN EVENTS /\ EventId("duration") \notin DOMAIN EVENTS
  BY DEF EventId, Lower, EVENTS, EVENTS_ALTERNATE_ID
<1>7. AlertEventId(p) \in DOMAIN EVENTS \/ EventId(t.type) \in DOMAIN EVENTS =>
         AlertEventId(p) = EventId(t.type)
  BY <1>5, <1>6 DEF AlertEventId
<1> QED
  BY <1>1, <1>2, <1>4, <1>7

\* the sensor of a trigger, if it has one
LEMMA SensorOfTrigger ==
    ASSUME NEW e \in Cameras, NEW t \in Triggers(e), NEW p, p.from = e, p.no = t.no,
           NEW u \in SensorOf(p)
    PROVE  /\ u \in Uids /\ Owner(u) = e
           /\ \E k \in CameraIds(Device[e]) : t \in OfCamera(Listing(e), k) /\ u = UidOf(e, k, t)
<1>1. PICK c \in Sensors(e) : c.uid = u /\ t.no \in c.of
  BY DEF SensorOf, Cameras
<1>2. PICK k \in CameraIds(Device[e]) : \E s \in OfCamera(Listing(e), k) :
         c.uid = UidOf(e, k, s) /\ c.of = {v.no : v \in Sharing(e, k, Listing(e), s)}
  BY SensorsFacts
<1>3. PICK s \in OfCamera(Listing(e), k) :
         c.uid = UidOf(e, k, s) /\ c.of = {v.no : v \in Sharing(e, k, Listing(e), s)}
  BY <1>2
<1>4. PICK v \in Sharing(e, k, Listing(e), s) : v.no = t.no
  BY <1>1, <1>3
<1>5. v \in OfCamera(Listing(e), k) /\ UidOf(e, k, v) = u /\ v \in Listing(e)
  BY <1>1, <1>3, <1>4 DEF Sharing, OfCamera
<1>6. v = t
  BY <1>4, <1>5, ListingNumbered, DeviceAssumption
<1> QED
  BY <1>1, <1>5, <1>6, SensorsFacts

LEMMA AlertChannelNumber ==
    ASSUME NEW e \in Cameras, NEW channel \in Nat
    PROVE  /\ AlertChannel(Device[e], channel) \in Nat
           /\ channel <= 32 => AlertChannel(Device[e], channel) = channel
<1> DEFINE cams == Device[e].cameras
           fits == {i \in DOMAIN cams : cams[i].ip /\ cams[i].port + 32 = channel}
<1>1. AlertChannel(Device[e], channel) =
         IF channel <= 32 THEN channel
         ELSE IF fits = {} THEN channel - 32
         ELSE cams[CHOOSE i \in fits : \A j \in fits : i <= j].id
  BY Zenon DEF AlertChannel
<1>2. fits \subseteq Nat /\ fits \subseteq DOMAIN cams
  BY DeviceAssumption
<1> HIDE DEF fits
<1>3. CASE channel <= 32
  BY <1>1, <1>3
<1>4. CASE channel > 32 /\ fits = {}
  BY <1>1, <1>4
<1>5. CASE channel > 32 /\ fits # {}
  <2>1. \E i \in fits : \A j \in fits : i <= j
    BY <1>5, <1>2, LeastNumber
  <2>2. (CHOOSE i \in fits : \A j \in fits : i <= j) \in DOMAIN cams
    BY <1>2, <2>1
  <2>3. AlertChannel(Device[e], channel) = cams[CHOOSE i \in fits : \A j \in fits : i <= j].id
    BY <1>1, <1>5
  <2> QED
    BY <1>5, <2>2, <2>3, DeviceAssumption
<1> QED
  BY <1>3, <1>4, <1>5

\* where the channels of a recorder are told apart, update_alert_channel finds
\* the camera the alert is about
LEMMA NumberedChannel ==
    ASSUME NEW p, p.from \in Cameras, p.channel \in Nat, p.channel > 32, Numbered(p)
    PROVE  AlertChannel(Device[p.from], p.channel) \in {uid[2] : uid \in SensorOf(p)}
<1> DEFINE cams == Device[p.from].cameras
           fits == {i \in DOMAIN cams : cams[i].ip /\ cams[i].port + 32 = p.channel}
           ids == {uid[2] : uid \in SensorOf(p)}
<1>1. IF fits = {} THEN ids = {p.channel - 32}
      ELSE \E i \in fits : cams[i].id \in ids /\ \A j \in fits : i <= j
  BY DEF Numbered
<1>2. AlertChannel(Device[p.from], p.channel) =
         IF fits = {} THEN p.channel - 32
         ELSE cams[CHOOSE i \in fits : \A j \in fits : i <= j].id
  <2>1. AlertChannel(Device[p.from], p.channel) =
           IF p.channel <= 32 THEN p.channel
           ELSE IF fits = {} THEN p.channel - 32
           ELSE cams[CHOOSE i \in fits : \A j \in fits : i <= j].id
    BY Zenon DEF AlertChannel
  <2> HIDE DEF fits, cams
  <2> QED
    BY <2>1
<1>3. fits \subseteq Nat
  BY DeviceAssumption
<1> HIDE DEF fits, ids
<1>4. CASE fits = {}
  BY <1>1, <1>2, <1>4 DEF ids
<1>5. CASE fits # {}
  <2>1. PICK i \in fits : cams[i].id \in ids /\ \A j \in fits : i <= j
    BY <1>1, <1>5
  <2>2. (CHOOSE k \in fits : \A j \in fits : k <= j) = i
    BY <1>3, <2>1, LeastChosen
  <2> QED
    BY <1>2, <1>5, <2>1, <2>2 DEF ids
<1> QED
  BY <1>4, <1>5

LEMMA UidOfFacts ==
    ASSUME NEW e \in Cameras, NEW k \in CameraIds(Device[e]), NEW t \in OfCamera(Listing(e), k)
    PROVE  /\ EventId(t.type) \in DOMAIN EVENTS /\ t \in Triggers(e) /\ t \in Listing(e)
           /\ k \in Nat /\ Channel(t) = k /\ Port(t) \in Nat
           /\ EventId(t.type) = "io" => UidOf(e, k, t) = UniqueId(e, 0, Port(t), "io")
           /\ EventId(t.type) # "io" => /\ k # 0 /\ Port(t) = 0 /\ UidOf(e, k, t)[2] = k
                                        /\ UidOf(e, k, t) = UniqueId(e, k, 0, EventId(t.type))
<1>1. t \in Listing(e) /\ EventId(t.type) \in DOMAIN EVENTS /\ k \in Nat /\ t \in Triggers(e)
  BY ListingNumbered DEF OfCamera
<1>2. /\ Channel(t) = k /\ (EventId(t.type) # "io" => k # 0 /\ Port(t) = 0)
      /\ EventId(t.type) = "io" => k = 0
  BY DEF OfCamera, Channel, Port
<1>3. Port(t) \in Nat
  BY <1>1, ListingNumbered DEF WellNumbered, Port, OrElse
<1>4. EventId(t.type) # "io" => UidOf(e, k, t) = UniqueId(e, k, 0, EventId(t.type))
  BY <1>2 DEF UidOf
<1>5. EventId(t.type) = "io" => UidOf(e, k, t) = UniqueId(e, 0, Port(t), "io")
  BY <1>2 DEF UidOf
<1>6. EventId(t.type) # "io" => UidOf(e, k, t)[2] = k
  BY <1>1, <1>2, <1>4, UidParts
<1> QED
  BY <1>1, <1>2, <1>3, <1>4, <1>5, <1>6

\* the sensor the view looks for
SoughtUid(e, p) ==
    AlertUid(e, AlertChannel(Device[e], p.channel), p.port, AlertEventId(p))

(* The sensor the view finds for an event of a device is the one that      *)
(* stands for the trigger, and it finds that one if there is one.          *)
LEMMA UidsAgree ==
    ASSUME NEW e \in Cameras, NEW t \in Triggers(e), NEW wrapped \in BOOLEAN, NEW address,
           NEW ok, NEW p, p = Alert(e, t, wrapped, address, ok)
    PROVE  /\ AlertEventId(p) \in DOMAIN EVENTS /\ SoughtUid(e, p) \in Uids =>
                 /\ Owner(SoughtUid(e, p)) = e
                 /\ SoughtUid(e, p) \in SensorOf(p) \/ ~Numbered(p)
           /\ \A u \in SensorOf(p) :
                 Numbered(p) => AlertEventId(p) \in DOMAIN EVENTS /\ SoughtUid(e, p) = u
<1> DEFINE id == EventId(t.type)
           channel == AlertChannel(Device[e], p.channel)
           uid == SoughtUid(e, p)
<1>1. /\ p.from = e /\ p.no = t.no /\ p.port = Port(t) /\ Port(t) \in Nat /\ Channel(t) \in Nat
      /\ id # "io" => p.channel \in Nat /\ (p.channel = Channel(t) \/ p.channel > 32)
      /\ AlertEventId(p) \in DOMAIN EVENTS \/ id \in DOMAIN EVENTS => AlertEventId(p) = id
  BY AlertFacts
<1>2. /\ id # "io" => Port(t) = 0
      /\ id # "io" => channel \in Nat /\ (p.channel <= 32 => channel = Channel(t))
  BY <1>1, AlertChannelNumber DEF Port
<1>3. AlertEventId(p) = id =>
         uid = IF id = "io" THEN UniqueId(e, 0, Port(t), "io") ELSE UniqueId(e, channel, 0, id)
  BY <1>1, <1>2 DEF SoughtUid, AlertUid
<1> HIDE DEF uid
\* whatever stands for the trigger has its channel
<1>4. ASSUME NEW u \in SensorOf(p)
      PROVE  /\ id \in DOMAIN EVENTS
             /\ id = "io" => u = UniqueId(e, 0, Port(t), "io")
             /\ id # "io" => u[2] = Channel(t) /\ u = UniqueId(e, Channel(t), 0, id)
  <2>1. PICK k \in CameraIds(Device[e]) : t \in OfCamera(Listing(e), k) /\ u = UidOf(e, k, t)
    BY <1>1, SensorOfTrigger
  <2> QED
    BY <2>1, UidOfFacts
<1>5. Numbered(p) /\ id # "io" /\ SensorOf(p) # {} => channel = Channel(t)
  <2> SUFFICES ASSUME Numbered(p), id # "io", SensorOf(p) # {}
               PROVE  channel = Channel(t)
    OBVIOUS
  <2>1. CASE p.channel <= 32
    BY <1>2, <2>1
  <2>2. CASE p.channel > 32
    <3>1. channel \in {v[2] : v \in SensorOf(p)}
      BY <1>1, <2>2, NumberedChannel
    <3> QED
      BY <1>4, <3>1
  <2> QED
    BY <1>1, <2>1, <2>2
<1>6. Numbered(p) /\ id # "io" /\ p.channel > 32 => SensorOf(p) # {}
  <2> SUFFICES ASSUME Numbered(p), id # "io", p.channel > 32
               PROVE  SensorOf(p) # {}
    OBVIOUS
  <2>1. channel \in {v[2] : v \in SensorOf(p)}
    BY <1>1, NumberedChannel
  <2> QED
    BY <2>1
<1>7. ASSUME NEW u \in SensorOf(p), Numbered(p)
      PROVE  AlertEventId(p) \in DOMAIN EVENTS /\ uid = u
  BY <1>1, <1>3, <1>4, <1>5, <1>7
<1>8. ASSUME AlertEventId(p) \in DOMAIN EVENTS, uid \in Uids
      PROVE  Owner(uid) = e /\ (uid \in SensorOf(p) \/ ~Numbered(p))
  <2>1. id \in DOMAIN EVENTS /\ AlertEventId(p) = id
    BY <1>1, <1>8
  <2>2. Owner(uid) = e
    BY <1>1, <1>2, <1>3, <2>1, UidParts DEF Owner
  <2>3. PICK c \in Sensors(e) : c.uid = uid
    BY <1>8, <2>2, UidsOwned
  <2>4. PICK k \in CameraIds(Device[e]) : \E s \in OfCamera(Listing(e), k) :
           c.uid = UidOf(e, k, s) /\ c.of = {v.no : v \in Sharing(e, k, Listing(e), s)}
    BY SensorsFacts
  <2>5. PICK s \in OfCamera(Listing(e), k) :
           c.uid = UidOf(e, k, s) /\ c.of = {v.no : v \in Sharing(e, k, Listing(e), s)}
    BY <2>4
  <2> DEFINE other == EventId(s.type)
  <2>6. /\ other \in DOMAIN EVENTS /\ s \in Listing(e) /\ k \in Nat
        /\ Channel(s) = k /\ Port(s) \in Nat
        /\ other = "io" => uid = UniqueId(e, 0, Port(s), "io")
        /\ other # "io" => k # 0 /\ Port(s) = 0 /\ uid = UniqueId(e, k, 0, other)
    BY <2>3, <2>5, UidOfFacts
  <2>7. id = other /\ (id = "io" => Port(t) = Port(s)) /\ (id # "io" => channel = k)
    <3>1. uid[Len(uid)] = id
      BY <1>1, <1>2, <1>3, <2>1, UidParts
    <3>2. uid[Len(uid)] = other
      BY <2>6, UidParts
    <3>3. id = "io" => Port(t) = Port(s)
      <4> SUFFICES ASSUME id = "io"
                   PROVE  Port(t) = Port(s)
        OBVIOUS
      <4>1. uid = UniqueId(e, 0, Port(t), "io") /\ uid = UniqueId(e, 0, Port(s), "io")
        BY <1>3, <2>1, <2>6, <3>1, <3>2
      <4>2. \A n \in Nat : LET v == UniqueId(e, 0, n, "io")
                           IN  IF n = 0 THEN Len(v) = 2 ELSE Len(v) = 3 /\ v[2] = n
        BY UidParts
      <4> QED
        BY <1>1, <2>6, <4>1, <4>2
    <3>4. id # "io" => channel = k
      BY <1>1, <1>2, <1>3, <2>1, <2>6, <3>1, <3>2, UidParts
    <3> QED
      BY <3>1, <3>2, <3>3, <3>4
  <2>8. CASE id # "io" /\ channel # Channel(t)
    <3>1. ~(p.channel <= 32) /\ p.channel \in Nat
      BY <1>1, <1>2, <2>8
    <3>2. ~Numbered(p)
      BY <1>5, <1>6, <2>8, <3>1
    <3> QED
      BY <2>2, <3>2
  <2>9. CASE id = "io" \/ channel = Channel(t)
    <3>1. Channel(s) = Channel(t) /\ Port(s) = Port(t)
      BY <1>2, <2>6, <2>7, <2>9 DEF Channel
    <3>2. t \in Listing(e)
      BY <2>1, <2>6, <2>7, <3>1, ListedFirst
    <3>3. t \in OfCamera(Listing(e), k) /\ UidOf(e, k, t) = UidOf(e, k, s)
      <4>1. t \in OfCamera(Listing(e), k)
        BY <2>1, <2>5, <2>6, <2>7, <3>1, <3>2 DEF OfCamera
      <4> QED
        BY <2>7, <3>1, <4>1 DEF UidOf
    <3>4. t \in Sharing(e, k, Listing(e), s)
      BY <3>3 DEF Sharing
    <3>5. p.no \in c.of
      BY <1>1, <2>5, <3>4
    <3> QED
      BY <1>1, <2>2, <2>3, <3>5 DEF SensorOf, Cameras
  <2> QED
    BY <2>8, <2>9
<1> QED
  BY <1>7, <1>8 DEF uid

-----------------------------------------------------------------------------
(* Whom the view believes.  History: a post on its way is one some device  *)
(* has sent.                                                               *)

Origins == {Host[e] : e \in Entries} \union {Gateway}

Sent(p) ==
    \E e \in Entries, address \in Origins :
        \/ \E t \in Triggers(e), wrapped \in BOOLEAN : p = Alert(e, t, wrapped, address, TRUE)
        \/ e \in Panels /\ p = Alert(e, PanelTrigger, FALSE, address, TRUE)
        \/ p = Alert(e, PanelTrigger, FALSE, address, FALSE)

Posts == Inv /\ \A p \in posts : Sent(p)

LEMMA SentFacts ==
    ASSUME NEW p, Sent(p)
    PROVE  /\ p.from \in Entries /\ p.mac \in {p.from, "none"} /\ p.serial[1] = p.from
           /\ p.ok \in BOOLEAN /\ p.port \in Nat
           /\ AlertEventId(p) \in DOMAIN EVENTS => p.channel \in Nat
           /\ p.ok /\ p.from \in Panels => AlertEventId(p) \notin DOMAIN EVENTS
           /\ p.ok /\ p.from \in Cameras =>
                 \E t \in Triggers(p.from), wrapped \in BOOLEAN, address \in Origins :
                    p = Alert(p.from, t, wrapped, address, TRUE)
<1>1. PICK e \in Entries, address \in Origins :
         \/ \E t \in Triggers(e), wrapped \in BOOLEAN : p = Alert(e, t, wrapped, address, TRUE)
         \/ e \in Panels /\ p = Alert(e, PanelTrigger, FALSE, address, TRUE)
         \/ p = Alert(e, PanelTrigger, FALSE, address, FALSE)
  BY DEF Sent
<1>2. CASE \E t \in Triggers(e), wrapped \in BOOLEAN : p = Alert(e, t, wrapped, address, TRUE)
  <2>1. PICK t \in Triggers(e), wrapped \in BOOLEAN : p = Alert(e, t, wrapped, address, TRUE)
    BY <1>2
  <2>2. e \in Cameras /\ e \notin Panels
    BY DEF Cameras, Triggers
  <2>3. /\ p.from = e /\ p.mac \in {e, "none"} /\ p.serial[1] = e /\ p.ok = TRUE /\ p.port \in Nat
        /\ EventId(t.type) # "io" => p.channel \in Nat
    <3>1. PICK ok : p = Alert(e, t, wrapped, address, ok)
      BY <2>1, Zenon
    <3>2. /\ p.from = e /\ p.mac \in {e, "none"} /\ p.serial[1] = e
          /\ p.port = Port(t) /\ Port(t) \in Nat
          /\ EventId(t.type) # "io" => p.channel \in Nat
      BY <2>2, <3>1, AlertFacts
    <3>3. p.ok = TRUE
      BY <2>1, Zenon DEF Alert
    <3> QED
      BY <3>2, <3>3
  <2>4. p.channel \in Nat
    <3>1. EventId(t.type) = "io" /\ t.no # 0 => p.channel = 1
      BY <2>1 DEF Alert
    <3>2. t.no # 0
      BY <2>2, DeviceAssumption
    <3> QED
      BY <2>3, <3>1, <3>2
  <2> QED
    BY <2>1, <2>2, <2>3, <2>4
<1>3. ASSUME NEW ok \in BOOLEAN, p = Alert(e, PanelTrigger, FALSE, address, ok)
      PROVE  /\ p.from = e /\ p.mac \in {e, "none"} /\ p.serial[1] = e /\ p.ok = ok
             /\ p.port = 0 /\ AlertEventId(p) \notin DOMAIN EVENTS
  <2>1. EventId("changedStatus") = "changedStatus" /\ "changedStatus" \notin DOMAIN EVENTS
    BY DEF EventId, Lower, EVENTS, EVENTS_ALTERNATE_ID
  <2>2. /\ PanelTrigger.type = "changedStatus"
    BY DEF PanelTrigger
  <2>3. /\ p.from = e /\ p.mac \in {e, "none"} /\ p.serial[1] = e /\ p.ok = ok
        /\ p.port = 0 /\ p.type = "changedStatus"
    BY <1>3, <2>1, <2>2 DEF Alert
  <2> QED
    BY <2>1, <2>3 DEF AlertEventId
<1>4. CASE e \in Panels /\ p = Alert(e, PanelTrigger, FALSE, address, TRUE)
  <2>1. p.from = e /\ p.mac \in {e, "none"} /\ p.serial[1] = e /\ p.ok = TRUE
        /\ p.port = 0 /\ AlertEventId(p) \notin DOMAIN EVENTS
    <3>1. TRUE \in BOOLEAN
      OBVIOUS
    <3> QED
      BY <1>3, <1>4, <3>1, Zenon
  <2>2. p.from \notin Cameras /\ p.ok \in BOOLEAN
    BY <1>4, <2>1, Zenon DEF Cameras
  <2>3. p.from \in Entries /\ p.mac \in {p.from, "none"} /\ p.serial[1] = p.from
    BY <2>1
  <2>4. p.port \in Nat
    BY <2>1
  <2>5. AlertEventId(p) \notin DOMAIN EVENTS
    BY <2>1
  <2> QED
    BY <2>2, <2>3, <2>4, <2>5, Zenon
<1>5. CASE p = Alert(e, PanelTrigger, FALSE, address, FALSE)
  <2>1. p.from = e /\ p.mac \in {e, "none"} /\ p.serial[1] = e /\ p.ok = FALSE
        /\ p.port = 0 /\ AlertEventId(p) \notin DOMAIN EVENTS
    <3>1. FALSE \in BOOLEAN
      OBVIOUS
    <3> QED
      BY <1>3, <1>5, <3>1, Zenon
  <2>2. ~p.ok /\ p.ok \in BOOLEAN
    BY <2>1, Zenon
  <2>3. p.from \in Entries /\ p.mac \in {p.from, "none"} /\ p.serial[1] = p.from
    BY <2>1
  <2>4. p.port \in Nat
    BY <2>1
  <2>5. AlertEventId(p) \notin DOMAIN EVENTS
    BY <2>1
  <2> QED
    BY <2>2, <2>3, <2>4, <2>5, Zenon
<1> QED
  BY <1>1, <1>2, <1>4, <1>5

LEMMA ReadyFinite ==
    ASSUME Inv
    PROVE  IsFiniteSet(Ready)
<1>1. Order \in Surjection(1 .. Len(Order), Entries)
  BY OrderAssumption DEF Surjection, Entries
<1>2. IsFiniteSet(Entries)
  <2>1. IsFiniteSet(1 .. Len(Order))
    BY OrderAssumption, FS_Interval
  <2> QED
    BY <1>1, <2>1, FS_Surjection
<1> QED
  BY <1>2, FS_Subset DEF Ready, Inv, Typed

\* an event of a ready device that says who it is, or comes from an address no
\* other ready device has, is taken for that device's
LEMMA SenderFound ==
    ASSUME Inv, NEW p, Sent(p), p.from \in Ready, Identified(p)
    PROVE  GetIsapiDevice(p) = {p.from}
<1>1. p.mac \in {p.from, "none"} /\ p.serial[1] = p.from /\ "none" \notin Ready /\ Ready \subseteq Entries
  BY SentFacts, OrderAssumption, FoundReady
<1>2. \A S \in SUBSET Ready : S # {} => First(S) \in S
  BY <1>1, FirstIsOne
<1>3. First({p.from}) = p.from
  BY <1>2
<1>4. CASE Cardinality(Ready) = 1
  <2>1. PICK x : Ready = {x}
    BY <1>4, ReadyFinite, FS_Singleton
  <2> QED
    BY <1>4, <2>1 DEF GetIsapiDevice
<1>5. CASE Cardinality(Ready) # 1
  <2>1. Ready # {p.from}
    BY <1>5, FS_Singleton
  <2>2. ByMac(p) = IF p.mac = "none" THEN {} ELSE {p.from}
    BY <1>1 DEF ByMac
  <2>3. BySerial(p) = IF p.serial[2] = "none" THEN {} ELSE {p.from}
    BY <1>1 DEF BySerial, NormalizeSerial
  <2>4. p.mac = "none" /\ p.serial[2] = "none" => ByAddress(p) = {p.from}
    BY <2>1 DEF Identified, ByAddress
  <2> QED
    BY <1>3, <1>5, <2>2, <2>3, <2>4 DEF GetIsapiDevice
<1> QED
  BY <1>4, <1>5

\* an event is taken for another device's only if its sender is not ready, or
\* anonymous
LEMMA OtherFound ==
    ASSUME Inv, NEW p, Sent(p), NEW e \in GetIsapiDevice(p), e # p.from
    PROVE  \/ p.from \notin Ready /\ (Ready = {e} \/ Host[e] = p.at)
           \/ ~Identified(p) /\ Host[e] = p.at
<1>1. p.mac \in {p.from, "none"} /\ p.serial[1] = p.from /\ "none" \notin Ready /\ Ready \subseteq Entries
  BY SentFacts, OrderAssumption, FoundReady
<1>2. \A S \in SUBSET Ready : S # {} => First(S) \in S
  BY <1>1, FirstIsOne
<1>3. CASE Cardinality(Ready) = 1
  <2>1. PICK x : Ready = {x}
    BY <1>3, ReadyFinite, FS_Singleton
  <2> QED
    BY <1>3, <2>1 DEF GetIsapiDevice
<1>4. CASE Cardinality(Ready) # 1
  <2>1. ByMac(p) \subseteq {p.from} /\ BySerial(p) \subseteq {p.from}
    BY <1>1 DEF ByMac, BySerial, NormalizeSerial
  <2>2. ByMac(p) = {} /\ BySerial(p) = {} /\ e \in ByAddress(p)
    <3>1. /\ ByMac(p) \subseteq Ready /\ BySerial(p) \subseteq Ready /\ ByAddress(p) \subseteq Ready
      BY DEF ByMac, BySerial, ByAddress
    <3> QED
      BY <1>2, <1>4, <2>1, <3>1 DEF GetIsapiDevice
  <2>3. Host[e] = p.at
    BY <2>2 DEF ByAddress
  <2>4. p.from \in Ready => ~Identified(p)
    BY SenderFound
  <2> QED
    BY <2>3, <2>4
<1> QED
  BY <1>3, <1>4

\* only an event switches a sensor on, and only the view takes a post
LEMMA OthersQuiet ==
    ASSUME Inv, [Next]_vars, ~\E p \in posts : Handle(p)
    PROVE  /\ \A u \in Uids : shown'[u] = "on" => shown[u] = "on"
           /\ posts \subseteq posts' /\ \A p \in posts' : p \in posts \/ Sent(p)
<1> DEFINE Calm == \A u \in Uids : shown'[u] = "on" => shown[u] = "on"
           Goal == Calm /\ posts \subseteq posts' /\ \A p \in posts' : p \in posts \/ Sent(p)
<1>1. shown \in [Uids -> {"none", "unavailable", "off", "on"}]
  BY DEF Inv, Typed
<1>2. shown' = shown => Calm
  OBVIOUS
<1>3. posts' = posts /\ Calm => Goal
  OBVIOUS
<1>4. ASSUME NEW e \in Entries,
             DeviceRead(e) \/ SetupRefused(e) \/ SetupFails(e) \/ UserEnables(e)
      PROVE  Goal
  <2>1. shown' = shown /\ posts' = posts
    BY <1>4 DEF DeviceRead, SetupRefused, SetupFails, UserEnables, entities, traffic
  <2> QED
    BY <2>1, <1>3
<1>5. ASSUME NEW e \in Entries, PlatformsSetUp(e)
      PROVE  Goal
  <2>1. posts' = posts /\ Calm
    BY <1>1, <1>5 DEF PlatformsSetUp, traffic
  <2> QED
    BY <2>1, <1>3
<1>6. ASSUME NEW e \in Entries, SetupEnds(e)
      PROVE  Goal
  <2>1. posts' = posts /\ RefreshRegistry(e)
    BY <1>6 DEF SetupEnds, traffic
  <2>2. \E off : shown' = [u \in Uids |-> IF u \in off THEN "none" ELSE shown[u]]
    BY <2>1, Zenon DEF RefreshRegistry
  <2>3. Calm
    BY <2>2
  <2> QED
    BY <2>1, <2>3, <1>3
<1>7. ASSUME NEW e \in Entries, Unload(e)
      PROVE  Calm
  BY <1>7 DEF Unload
<1>8. ASSUME NEW e \in Entries, ScheduledReload(e) \/ UserReloads(e)
      PROVE  Goal
  <2>1. posts' = posts /\ (Unload(e) \/ shown' = shown)
    BY <1>8 DEF ScheduledReload, UserReloads, traffic
  <2> QED
    BY <2>1, <1>2, <1>3, <1>7
<1>9. ASSUME NEW e \in Entries, UserDisables(e)
      PROVE  Goal
  <2>1. posts' = posts /\ Calm
    BY <1>1, <1>9 DEF UserDisables, traffic
  <2> QED
    BY <2>1, <1>3
<1>10. ASSUME NEW e \in Entries, NEW n \in Numbers(e), DeviceEdited(e, n)
       PROVE  Goal
  <2>1. shown' = shown /\ posts' = posts
    BY <1>10 DEF DeviceEdited, entities, traffic
  <2> QED
    BY <2>1, <1>3
<1>11. ASSUME NEW e \in Entries, Post(e)
       PROVE  Goal
  <2>1. shown' = shown
    BY <1>11 DEF Post, entities
  <2>2. {Host[e], Gateway} \subseteq Origins
    BY <1>11 DEF Origins
  <2>3. \E address \in {Host[e], Gateway} :
          \/ \E t \in Triggers(e), wrapped \in BOOLEAN :
                posts' = posts \union {Alert(e, t, wrapped, address, TRUE)}
          \/ e \in Panels /\ posts' = posts \union {Alert(e, PanelTrigger, FALSE, address, TRUE)}
          \/ posts' = posts \union {Alert(e, PanelTrigger, FALSE, address, FALSE)}
    BY <1>11, Zenon DEF Post
  <2>4. PICK p : posts' = posts \union {p} /\ Sent(p)
    <3> HIDE DEF Origins
    <3> QED
      BY <2>2, <2>3, Zenon DEF Sent
  <2> QED
    BY <2>1, <2>4
<1>12. ASSUME NEW u \in Uids, UserToggles(u) \/ Polled(u)
       PROVE  Goal
  <2>1. posts' = posts
    BY <1>12 DEF UserToggles, Polled, traffic
  <2>2. shown' \in {shown, [shown EXCEPT ![u] = "none"], [shown EXCEPT ![u] = "off"]}
    BY <1>12 DEF UserToggles, Polled
  <2>3. Calm
    BY <1>1, <2>2
  <2> QED
    BY <2>1, <2>3, <1>3
<1>13. ASSUME UNCHANGED vars
       PROVE  Goal
  <2>1. shown' = shown /\ posts' = posts
    BY <1>13 DEF vars, entities, traffic
  <2> QED
    BY <2>1, <1>3
<1> QED
  <2> HIDE DEF Goal, Calm
  <2>1. Goal
    <3>1. ASSUME NEW e \in Entries,
                 \/ DeviceRead(e) \/ SetupRefused(e) \/ SetupFails(e) \/ PlatformsSetUp(e)
                 \/ SetupEnds(e) \/ ScheduledReload(e)
                 \/ UserReloads(e) \/ UserDisables(e) \/ UserEnables(e)
                 \/ Post(e) \/ \E n \in Numbers(e) : DeviceEdited(e, n)
          PROVE  Goal
      BY <3>1, <1>4, <1>5, <1>6, <1>8, <1>9, <1>10, <1>11
    <3>2. ASSUME Next
          PROVE  Goal
      BY <3>1, <3>2, <1>12 DEF Next
    <3> QED
      BY <3>2, <1>13
  <2> QED
    BY <2>1 DEF Goal, Calm

LEMMA PostsKept == Posts /\ [Next]_vars => Posts'
<1> SUFFICES ASSUME Posts, [Next]_vars PROVE Posts'
  OBVIOUS
<1>1. Inv'
  BY NextKeeps DEF Posts
<1>2. \A p \in posts' : p \in posts \/ Sent(p)
  <2>1. CASE \E p \in posts : Handle(p)
    BY <2>1 DEF Handle
  <2>2. CASE ~\E p \in posts : Handle(p)
    BY <2>2, OthersQuiet DEF Posts
  <2> QED
    BY <2>1, <2>2
<1>3. \A p : Sent(p) <=> Sent(p)'
  BY Zenon DEF Sent
<1> QED
  BY <1>1, <1>2, <1>3 DEF Posts

\* what becomes of one post
LEMMA HandleMeans ==
    ASSUME Inv, NEW p \in posts, Sent(p), Handle(p)
    PROVE  /\ posts \ posts' = {p}
           /\ \A u \in Uids : shown[u] # "on" /\ shown'[u] = "on" =>
                 /\ p.ok /\ AlertEventId(p) \in DOMAIN EVENTS
                 /\ \E e \in GetIsapiDevice(p) \ Panels : u = SoughtUid(e, p)
           /\ p.ok => \A e \in GetIsapiDevice(p) :
                 /\ e \in Panels => e \in bus'.asked
                 /\ e \notin Panels /\ AlertEventId(p) \in DOMAIN EVENTS =>
                       LET u == SoughtUid(e, p)
                       IN  u \in Uids /\ registry[u] # "absent" /\ shown[u] # "none" =>
                              shown'[u] = "on" /\ bus'.from = e
<1>1. posts' = posts \ {p}
  BY DEF Handle
<1>2. \/ (~p.ok \/ GetIsapiDevice(p) = {}) /\ shown' = shown
      \/ /\ p.ok /\ GetIsapiDevice(p) # {}
         /\ \A e \in GetIsapiDevice(p) :
               \/ e \in Panels /\ HandleSecurityCpEvent(e, p) /\ shown' = shown
               \/ e \notin Panels /\ TriggerSensor(e, p)
  BY Zenon DEF Handle, IsSecurityPanel
<1>3. \A e : IF /\ AlertEventId(p) \in DOMAIN EVENTS /\ SoughtUid(e, p) \in Uids
                /\ registry[SoughtUid(e, p)] # "absent" /\ shown[SoughtUid(e, p)] # "none"
             THEN TriggerSensor(e, p) => /\ shown' = [shown EXCEPT ![SoughtUid(e, p)] = "on"]
                                         /\ bus'.from = e
             ELSE TriggerSensor(e, p) => shown' = shown
  BY DEF TriggerSensor, SoughtUid
<1>4. \A e : HandleSecurityCpEvent(e, p) => bus'.asked = {e}
  BY DEF HandleSecurityCpEvent
<1>5. shown \in [Uids -> {"none", "unavailable", "off", "on"}]
  BY DEF Inv, Typed
<1>6. ASSUME NEW u \in Uids, shown[u] # "on", shown'[u] = "on"
      PROVE  /\ p.ok /\ AlertEventId(p) \in DOMAIN EVENTS
             /\ \E e \in GetIsapiDevice(p) \ Panels : u = SoughtUid(e, p)
  <2>1. p.ok /\ \E e \in GetIsapiDevice(p) \ Panels : TriggerSensor(e, p)
    BY <1>2, <1>6
  <2>2. PICK e \in GetIsapiDevice(p) \ Panels : TriggerSensor(e, p)
    BY <2>1
  <2> QED
    BY <1>3, <1>5, <1>6, <2>1, <2>2
<1>7. ASSUME p.ok, NEW e \in GetIsapiDevice(p)
      PROVE  /\ e \in Panels => e \in bus'.asked
             /\ e \notin Panels /\ AlertEventId(p) \in DOMAIN EVENTS =>
                   LET u == SoughtUid(e, p)
                   IN  u \in Uids /\ registry[u] # "absent" /\ shown[u] # "none" =>
                          shown'[u] = "on" /\ bus'.from = e
  <2>1. \/ e \in Panels /\ HandleSecurityCpEvent(e, p)
        \/ e \notin Panels /\ TriggerSensor(e, p)
    BY <1>2, <1>7
  <2> QED
    BY <1>3, <1>4, <1>5, <2>1
<1> QED
  BY <1>1, <1>6, <1>7

-----------------------------------------------------------------------------
(* The theorems.                                                           *)

\* The invariant holds in every reachable state, for any entries and devices.
THEOREM Invariance == Spec => []Inv
BY InitKept, NextKeeps, PTL DEF Spec

\* Every variable keeps its type; in particular an event is fired in the name
\* of an entry, and only panels are asked for a refresh.
THEOREM TypeCorrect == Spec => []TypeOK
BY Invariance, InvMeans, PTL

\* refresh_disabled_entities_in_registry: after a setup the sensors that are
\* enabled are those one of whose triggers notifies the surveillance center,
\* however triggers share sensors, whoever disabled them and whatever else is
\* set up, reloaded or disabled meanwhile.
THEOREM RegistryKept == Spec => []RegistryFollows
BY Invariance, InvMeans, PTL

\* get_device_event_capabilities: no two entities of a device read and write
\* one document, however its triggers repeat themselves, that of the PIR aside.
THEOREM DocumentsKept == Spec => []OneEntityPerDocument
BY Invariance, InvMeans, PTL

LEMMA PostsInvariant == Spec => []Posts
<1>1. Init => Posts
  BY InitKept DEF Init, Posts
<1> QED
  BY <1>1, PostsKept, PTL DEF Spec

\* update_alert_channel, trigger_sensor and get_isapi_device: a sensor is
\* switched on by an event of the triggers it stands for, whatever channels
\* and ports the devices have, with the exceptions RightSensor names.
THEOREM RightSensorKept == Spec => RightSensor
<1> DEFINE Right ==
      \A u \in Uids : shown[u] # "on" /\ shown'[u] = "on" =>
          \E p \in posts \ posts' :
             \/ u \in SensorOf(p)
             \/ Owner(u) = p.from /\ ~Numbered(p)
             \/ /\ Owner(u) # p.from /\ p.from \notin Ready
                /\ Ready = {Owner(u)} \/ Host[Owner(u)] = p.at
             \/ Owner(u) # p.from /\ ~Identified(p) /\ Host[Owner(u)] = p.at
<1>1. Posts /\ [Next]_vars => [Right]_vars
  <2> SUFFICES ASSUME Posts, [Next]_vars, NEW u \in Uids, shown[u] # "on", shown'[u] = "on"
               PROVE  \E p \in posts \ posts' :
                        \/ u \in SensorOf(p)
                        \/ Owner(u) = p.from /\ ~Numbered(p)
                        \/ /\ Owner(u) # p.from /\ p.from \notin Ready
                           /\ Ready = {Owner(u)} \/ Host[Owner(u)] = p.at
                        \/ Owner(u) # p.from /\ ~Identified(p) /\ Host[Owner(u)] = p.at
    OBVIOUS
  <2>1. PICK p \in posts : Handle(p)
    BY OthersQuiet DEF Posts
  <2>2. /\ Sent(p) /\ posts \ posts' = {p} /\ p.ok /\ AlertEventId(p) \in DOMAIN EVENTS
        /\ \E e \in GetIsapiDevice(p) \ Panels : u = SoughtUid(e, p)
    BY <2>1, HandleMeans DEF Posts
  <2>3. PICK e \in GetIsapiDevice(p) \ Panels : u = SoughtUid(e, p)
    BY <2>2
  <2>4. e \in Cameras /\ Owner(u) = e
    <3>1. e \in Cameras
      BY FoundReady DEF Cameras, Posts
    <3>2. p.channel \in Nat /\ p.port \in Nat
      BY <2>2, SentFacts
    <3>3. AlertChannel(Device[e], p.channel) \in Nat
      BY <3>1, <3>2, AlertChannelNumber
    <3> QED
      BY <2>3, <3>1, <3>2, <3>3, UidParts DEF SoughtUid, AlertUid, Owner
  <2>5. CASE e = p.from
    <3>1. Sent(p) /\ p.ok /\ p.from \in Cameras
      BY <2>2, <2>4, <2>5
    <3>2. PICK t \in Triggers(e), wrapped \in BOOLEAN, address \in Origins :
             p = Alert(e, t, wrapped, address, TRUE)
      BY <2>5, <3>1, SentFacts
    <3>3. u \in SensorOf(p) \/ ~Numbered(p)
      BY <2>2, <2>3, <2>4, <3>2, UidsAgree
    <3> QED
      BY <2>2, <2>4, <2>5, <3>3
  <2>6. CASE e # p.from
    BY <2>2, <2>3, <2>4, <2>6, OtherFound DEF Posts
  <2> QED
    BY <2>5, <2>6
<1> QED
  BY <1>1, PostsInvariant, PTL DEF Spec, RightSensor

\* The ids agree the other way round: the view finds the sensor of an event
\* whose device is ready and says who it is, and the panel of a panel's.
THEOREM DeliveredKept == Spec => Delivered
<1> DEFINE Done ==
      \A p \in posts \ posts' : p.ok /\ p.from \in Ready /\ Identified(p) =>
          /\ p.from \in Panels => p.from \in bus'.asked
          /\ Numbered(p) => \A u \in SensorOf(p) :
                shown[u] # "none" /\ registry[u] # "absent" =>
                    shown'[u] = "on" /\ bus'.from = p.from
<1>1. Posts /\ [Next]_vars => [Done]_vars
  <2> SUFFICES ASSUME Posts, [Next]_vars, NEW p \in posts \ posts', p.ok, p.from \in Ready,
                      Identified(p)
               PROVE  /\ p.from \in Panels => p.from \in bus'.asked
                      /\ Numbered(p) => \A u \in SensorOf(p) :
                            shown[u] # "none" /\ registry[u] # "absent" =>
                                shown'[u] = "on" /\ bus'.from = p.from
    OBVIOUS
  <2>1. Sent(p) /\ Handle(p)
    <3>1. PICK q \in posts : Handle(q)
      BY OthersQuiet DEF Posts
    <3>2. q = p
      BY <3>1 DEF Handle
    <3> QED
      BY <3>1, <3>2 DEF Posts
  <2>2. GetIsapiDevice(p) = {p.from}
    BY <2>1, SenderFound DEF Posts
  <2>3. /\ p.from \in Panels => p.from \in bus'.asked
        /\ p.from \notin Panels /\ AlertEventId(p) \in DOMAIN EVENTS =>
              LET u == SoughtUid(p.from, p)
              IN  u \in Uids /\ registry[u] # "absent" /\ shown[u] # "none" =>
                     shown'[u] = "on" /\ bus'.from = p.from
    BY <2>1, <2>2, HandleMeans DEF Posts
  <2>4. ASSUME Numbered(p), NEW u \in SensorOf(p), shown[u] # "none", registry[u] # "absent"
        PROVE  shown'[u] = "on" /\ bus'.from = p.from
    <3>1. p.from \in Cameras
      BY <2>1, <2>4, SentFacts DEF SensorOf, Cameras
    <3>2. PICK t \in Triggers(p.from), wrapped \in BOOLEAN, address \in Origins :
             p = Alert(p.from, t, wrapped, address, TRUE)
      BY <2>1, <3>1, SentFacts
    <3>3. p.from \in Cameras /\ p.no = t.no
      BY <3>1, <3>2 DEF Alert
    <3>4. u \in Uids
      BY <2>4, <3>2, <3>3, SensorOfTrigger
    <3>5. AlertEventId(p) \in DOMAIN EVENTS /\ SoughtUid(p.from, p) = u
      <4>1. PICK ok : p = Alert(p.from, t, wrapped, address, ok)
        BY <3>2, Zenon
      <4> QED
        BY <2>4, <3>1, <4>1, UidsAgree
    <3> QED
      BY <2>3, <2>4, <3>1, <3>4, <3>5 DEF Cameras
  <2> QED
    BY <2>3, <2>4
<1> QED
  BY <1>1, PostsInvariant, PTL DEF Spec, Delivered
=============================================================================
