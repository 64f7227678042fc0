----------------------------- MODULE PanelUnits -----------------------------
(***************************************************************************)
(* The zones and peripherals of a security panel, and the sensors made of  *)
(* them: get_zones, get_peripherals (isapi.py), _init_security_entities    *)
(* (hikvision_device.py), SecurityCoordinator (coordinator.py), sensor.py  *)
(* and binary_sensor.py.                                                   *)
(*                                                                         *)
(* Units are read at setup, which fixes the entities, and with every       *)
(* refresh, which gives them their values.  Each list of units is a        *)
(* request of its own that may fail.  A unit is a zone or a peripheral of  *)
(* some kind, with a number of its own; it reports some of the fields, and *)
(* units are paired, removed and changed on the panel.                     *)
(***************************************************************************)
EXTENDS Naturals, FiniteSets

CONSTANTS
    Units,          \* [kind, id]; kind "zone", or a kind of peripheral
    TamperZones,    \* zones whose detector only watches its own case
    FieldsOf,       \* the fields a unit of a kind may report
    Always,         \* fields a zone has an entity for whatever it reports
    MaxPanel,       \* bound: changes at the panel
    MaxLost         \* bound: requests that fail

ASSUME UnitsAssumption ==
    /\ \A u, v \in Units : u.kind = v.kind /\ u.id = v.id => u = v
    /\ MaxPanel \in Nat /\ MaxLost \in Nat

VARIABLES
    paired,    \* the units of the panel: the fields they report, and a state
    known,     \* device.zones, device.peripherals: the fields reported at setup
    ready,     \* the entities are there
    values,    \* coordinator.data
    heard,     \* history: what the panel told the last refresh
    panelChanges, lost   \* counters, for the bounds

unitVars == <<paired, known, ready, values, heard, panelChanges, lost>>

Kinds == {u.kind : u \in Units}
ZonesOf(f) == {u \in DOMAIN f : u.kind = "zone"}
\* the requests behind the lists; zones have two, configuration and status
Requests == (Kinds \ {"zone"}) \union {"configuration", "zone", "capabilities"}

\* "open" is what a detector watches, "tamper" its case
UnitStates == [fields : SUBSET UNION {FieldsOf[k] : k \in Kinds}, open : BOOLEAN, tamper : BOOLEAN]

Nothing == <<>>

UnitsInit ==
    /\ paired = Nothing /\ known = Nothing /\ ready = FALSE
    /\ values = Nothing /\ heard = Nothing
    /\ panelChanges = 0 /\ lost = 0

UnitsTypeOK ==
    /\ DOMAIN paired \subseteq Units /\ DOMAIN known \subseteq Units
    /\ \A u \in DOMAIN paired : paired[u] \in UnitStates /\ paired[u].fields \subseteq FieldsOf[u.kind]
    /\ \A u \in DOMAIN known : known[u] \subseteq FieldsOf[u.kind]
    /\ \A u \in DOMAIN heard : heard[u] \in UnitStates
    /\ \A key \in DOMAIN values : values[key] \in UnitStates
    /\ ready \in BOOLEAN
    /\ panelChanges \in 0 .. MaxPanel /\ lost \in 0 .. MaxLost

\* a unit is paired, changes its state or is removed
PanelChanges(u) ==
    /\ panelChanges < MaxPanel /\ panelChanges' = panelChanges + 1
    /\ \/ \E s \in UnitStates :
             /\ s.fields \subseteq FieldsOf[u.kind]
             /\ s.tamper => u.kind = "zone"
             /\ paired' = [x \in DOMAIN paired \union {u} |-> IF x = u THEN s ELSE paired[x]]
       \/ /\ u \in DOMAIN paired
          /\ paired' = [x \in DOMAIN paired \ {u} |-> paired[x]]
    /\ UNCHANGED <<known, ready, values, heard, lost>>

\* the requests that fail this time; a bound
Failing(failed) ==
    /\ failed \in {{}} \union {{r} : r \in Requests}
    /\ lost + Cardinality(failed) =< MaxLost
    /\ lost' = lost + Cardinality(failed)

\* the peripherals that are read: without the capabilities none is asked for
PeripheralsRead(failed) ==
    {u \in DOMAIN paired : u.kind # "zone" /\ u.kind \notin failed /\ "capabilities" \notin failed}

-----------------------------------------------------------------------------
\* slip: peripherals are told apart by their number
UidByNumber(u) == <<IF u.kind = "zone" THEN "zone" ELSE "peripheral", u.id>>

\* the unique id, after the serial of the panel
UnitUid(u) == <<u.kind, u.id>>

\* get_hardware_info and _init_security_entities.  The HTTP errors of a setup
\* are taken for empty answers: without the configuration there are no zones,
\* without their status zones that report nothing.
PanelSetUp ==
    /\ ~ready
    /\ \E failed \in SUBSET Requests :
          /\ Failing(failed)
          /\ known' = [u \in (IF "configuration" \in failed THEN {} ELSE ZonesOf(paired))
                             \union PeripheralsRead(failed) |->
                         IF u.kind = "zone" /\ "zone" \in failed THEN {} ELSE paired[u].fields]
    /\ ready' = TRUE
    /\ UNCHANGED <<paired, values, heard, panelChanges>>

\* binary_sensor.py: the sensors every zone has
ZoneEntities == ZonesOf(known) \X Always

\* sensor.py and binary_sensor.py: those for what was reported at setup
ReportedEntities == UNION {{u} \X known[u] : u \in DOMAIN known}

UnitEntities == ZoneEntities \union ReportedEntities

\* get_zone_by_id, get_peripheral_by_kind_and_id: units that are not known
\* are passed over
IsKnown(u) == \E k \in DOMAIN known : UnitUid(k) = UnitUid(u)

\* _async_update_data puts a new dictionary in the place of the former one
Fetched(read) ==
    [key \in {UnitUid(u) : u \in read} |-> paired[CHOOSE u \in read : UnitUid(u) = key]]

PanelRefresh ==
    /\ ready
    /\ \E failed \in SUBSET (Requests \ {"configuration"}) :
          LET read == (IF "zone" \in failed THEN {} ELSE ZonesOf(paired)) \union PeripheralsRead(failed)
          IN  /\ Failing(failed)
              /\ values' = Fetched({u \in read : IsKnown(u)})
              /\ heard' = [u \in read |-> paired[u]]
    /\ UNCHANGED <<paired, known, ready, panelChanges>>

\* a reload reads the units anew
PanelReload ==
    /\ ready
    /\ ready' = FALSE /\ known' = Nothing /\ values' = Nothing /\ heard' = Nothing
    /\ UNCHANGED <<paired, panelChanges, lost>>

UnitsNext ==
    \/ \E u \in Units : PanelChanges(u)
    \/ PanelSetUp \/ PanelRefresh \/ PanelReload

-----------------------------------------------------------------------------
\* _zone_is_triggered, and the fields as they are reported
Triggered(u, s) == IF u \in TamperZones THEN s.tamper ELSE s.open
Reported(u, s, f) ==
    CASE f = "triggered" -> {Triggered(u, s)}
      [] f = "tamper" /\ u.kind = "zone" -> {s.tamper}
      [] f \in s.fields -> {s.open}
      [] OTHER -> {}

\* what an entity shows; {} is unknown.  The zone's own sensor shows off
\* where it has no data: bool(data) and ...
ShownBy(u, f) ==
    IF UnitUid(u) \in DOMAIN values THEN Reported(u, values[UnitUid(u)], f)
    ELSE IF f = "triggered" THEN {FALSE} ELSE {}

\* Every entity shows what the panel said of its own unit in the last refresh,
\* and is unknown if that refresh heard nothing of it, be it that the unit is
\* gone, that it does not report the field, or that a request failed - except
\* the sensor of a zone, which then shows closed.  An entity is there for every field
\* reported at setup, whatever comes later.
ShownIsHeard ==
    \A x \in UnitEntities :
        LET u == x[1]
            f == x[2]
        IN  ShownBy(u, f) = IF u \in DOMAIN heard THEN Reported(u, heard[u], f)
                            ELSE IF f = "triggered" THEN {FALSE} ELSE {}
=============================================================================
