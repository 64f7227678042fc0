----------------------------- MODULE EntryConfig -----------------------------
(***************************************************************************)
(* The config entries: the flows that add, reconfigure and reauthorise     *)
(* them (config_flow.py) and the migration of old ones                     *)
(* (async_migrate_entry of __init__.py).  A flow awaits the device it is   *)
(* pointed at; several flows may be open, and addresses may lead to other  *)
(* devices than before.                                                    *)
(*                                                                         *)
(* A unique id is the serial number of a device; up to version 1 it was a  *)
(* list that holds one (`legacy').                                         *)
(***************************************************************************)
EXTENDS Naturals, FiniteSets

CONSTANTS
    Slots,         \* entries there may be
    FlowIds,       \* flows that may be open at once
    Serials, HostNames,   \* devices and addresses
    FirstEntries,  \* sets of entries a behaviour may start with: slot -> entry
    MaxFlows, MaxSwaps   \* bounds

VARIABLES
    entries,    \* the entries there are
    flow,       \* the open flows
    behind,     \* the device behind each address
    flows, swaps   \* counters, for the bounds

configVars == <<entries, flow, behind, flows, swaps>>

NoFlow == [at |-> "none"]
Uids == [legacy : BOOLEAN, serial : Serials]
Uid(s) == [legacy |-> FALSE, serial |-> s]
\* `old' are sensor entities of the registry that await their removal:
\* "alarm_server", gone since version 3, and "plain", to be created anew;
\* `excuse' is history, see EntryKeepsDevice
EntryRecords ==
    [version : 1 .. 4, uid : Uids, host : HostNames, disabled : BOOLEAN,
     old : SUBSET {"alarm_server", "plain"}, excuse : SUBSET {"moved", "reauth", "twin"}]
Flows ==
    [at : {"form", "reading"}, source : {"user", "reconfigure", "reauth"},
     entry : Slots, uid : Uids, host : HostNames]

\* entries of a former session have been made and migrated by the same code
ASSUME FirstEntriesAssumption ==
    \A first \in FirstEntries :
        /\ DOMAIN first \subseteq Slots
        /\ \A e \in DOMAIN first :
              /\ first[e] \in EntryRecords /\ first[e].excuse = {}
              /\ first[e].version >= 2 => ~first[e].uid.legacy
              /\ first[e].version >= 3 => "alarm_server" \notin first[e].old
              /\ first[e].version = 4 => first[e].old = {}
        /\ \A d, e \in DOMAIN first : first[d].uid.serial = first[e].uid.serial => d = e
ASSUME ConfigAssumption ==
    Serials # {} /\ HostNames # {} /\ MaxFlows \in Nat \ {0} /\ MaxSwaps \in Nat

ConfigInit ==
    /\ entries = <<>>
    /\ flow = [f \in FlowIds |-> NoFlow]
    /\ behind = [h \in HostNames |-> CHOOSE s \in Serials : TRUE]
    /\ flows = 0 /\ swaps = 0

ConfigTypeOK ==
    /\ DOMAIN entries \subseteq Slots
    /\ \A e \in DOMAIN entries : entries[e] \in EntryRecords
    /\ flow \in [FlowIds -> Flows \union {NoFlow}]
    /\ behind \in [HostNames -> Serials]
    /\ flows \in 0 .. MaxFlows /\ swaps \in 0 .. MaxSwaps

\* the entries of a former session are loaded
EntriesLoaded ==
    /\ entries = <<>> /\ flows = 0
    /\ behind' \in [HostNames -> Serials]
    /\ \E first \in FirstEntries :
          /\ \A e \in DOMAIN first : behind'[first[e].host] = first[e].uid.serial
          /\ entries' = first
    /\ flows' = 1
    /\ UNCHANGED <<flow, swaps>>

\* an address leads to another device: a lease ran out, a device was replaced
Swap(h) ==
    /\ flows > 0 /\ swaps < MaxSwaps /\ swaps' = swaps + 1
    /\ \E s \in Serials \ {behind[h]} : behind' = [behind EXCEPT ![h] = s]
    /\ entries' = [e \in DOMAIN entries |-> IF entries[e].host = h
                                            THEN [entries[e] EXCEPT !.excuse = @ \union {"moved"}]
                                            ELSE entries[e]]
    /\ UNCHANGED <<flow, flows>>

EnableEntry(e) ==
    /\ entries[e].disabled
    /\ entries' = [entries EXCEPT ![e].disabled = FALSE]
    /\ UNCHANGED <<flow, behind, flows, swaps>>

-----------------------------------------------------------------------------
(* Migration, in one go when an entry that is not disabled is set up.      *)

\* the new unique id is stored; the assignment to config_entry.version that
\* follows raises in the versions of Home Assistant config_flow.py is written
\* for: the entry stays at version 1 and is not set up
UniqueIdMigrated(entry) == [entry EXCEPT !.uid.legacy = FALSE]
AlarmSensorsRemoved(entry) == [entry EXCEPT !.version = 3, !.old = @ \ {"alarm_server"}]
SensorsRemoved(entry) == [entry EXCEPT !.version = 4, !.old = {}]

\* the steps follow each other from the version the entry has
Migrated(entry) ==
    LET three == IF entry.version = 2 THEN AlarmSensorsRemoved(entry) ELSE entry
    IN  IF entry.version = 1 THEN UniqueIdMigrated(entry) ELSE SensorsRemoved(three)

MigrateEntry(e) ==
    /\ ~entries[e].disabled /\ entries[e].version < 4
    /\ entries' = [entries EXCEPT ![e] = Migrated(@)]
    /\ UNCHANGED <<flow, behind, flows, swaps>>

-----------------------------------------------------------------------------
(* The flows.                                                              *)

\* a form is opened: for a new device, or for an entry that is set up.  A
\* reauthorisation starts with the unique id of its entry.
OpenFlow(f) ==
    /\ flow[f] = NoFlow
    /\ flows > 0 /\ flows < MaxFlows /\ flows' = flows + 1
    /\ \E source \in {"user", "reconfigure", "reauth"}, e \in Slots, h \in HostNames :
          /\ source # "user" => e \in DOMAIN entries /\ ~entries[e].disabled /\ entries[e].version = 4
          /\ source = "user" => e \notin DOMAIN entries /\ h = CHOOSE g \in HostNames : TRUE
          /\ flow' = [flow EXCEPT ![f] =
                        [at |-> "form", source |-> source, entry |-> e,
                         uid |-> IF source = "user" THEN Uid(CHOOSE s \in Serials : TRUE)
                                 ELSE entries[e].uid,
                         host |-> h]]
    /\ UNCHANGED <<entries, behind, swaps>>

\* the form is submitted: the device at the address is asked for its serial
Submit(f) ==
    /\ flow[f].at = "form"
    /\ \E h \in HostNames : flow' = [flow EXCEPT ![f].at = "reading", ![f].host = h]
    /\ UNCHANGED <<entries, behind, flows, swaps>>

\* it cannot be reached, or refuses the credentials: the form is shown again
ReadingFails(f) ==
    /\ flow[f].at = "reading"
    /\ flow' = [flow EXCEPT ![f].at = "form"]
    /\ UNCHANGED <<entries, behind, flows, swaps>>

\* slip: the device is not compared with the entry
AnyDevice(f, s) == flow[f].entry \in DOMAIN entries

\* reconfigure takes the unique id of the device; reauth keeps the one it
\* started with, so that its comparison says nothing about the device
Matches(f, s) ==
    /\ flow[f].entry \in DOMAIN entries
    /\ entries[flow[f].entry].uid = IF flow[f].source = "reconfigure" THEN Uid(s) ELSE flow[f].uid

Configured(s) == \E e \in DOMAIN entries : entries[e].uid = Uid(s)

\* the device answers: the flow aborts, or adds or changes the entry
DeviceAnswers(f) ==
    /\ flow[f].at = "reading"
    /\ flow' = [flow EXCEPT ![f] = NoFlow]
    /\ LET s == behind[flow[f].host]
           h == flow[f].host
       IN  \/ /\ flow[f].source = "user" /\ ~Configured(s)
              /\ \E e \in Slots \ DOMAIN entries :
                    entries' = [x \in DOMAIN entries \union {e} |->
                        IF x = e
                        THEN [version |-> 4, uid |-> Uid(s), host |-> h, disabled |-> FALSE, old |-> {},
                              excuse |-> IF \E d \in DOMAIN entries : entries[d].uid.serial = s
                                         THEN {"twin"} ELSE {}]
                        ELSE entries[x]]
           \/ /\ flow[f].source # "user" /\ Matches(f, s)
              /\ entries' = [entries EXCEPT
                               ![flow[f].entry].host = h,
                               ![flow[f].entry].excuse =
                                   IF flow[f].source = "reconfigure" THEN @ \ {"moved", "reauth"}
                                   ELSE IF h # entries[flow[f].entry].host THEN @ \union {"reauth"}
                                   ELSE @]
           \/ /\ IF flow[f].source = "user" THEN Configured(s) ELSE ~Matches(f, s)
              /\ UNCHANGED entries
    /\ UNCHANGED <<behind, flows, swaps>>

ConfigNext ==
    \/ EntriesLoaded
    \/ \E h \in HostNames : Swap(h)
    \/ \E e \in DOMAIN entries : EnableEntry(e) \/ MigrateEntry(e)
    \/ \E f \in FlowIds : OpenFlow(f) \/ Submit(f) \/ ReadingFails(f) \/ DeviceAnswers(f)

-----------------------------------------------------------------------------
(* No two entries are for one device, except one added while the other, of *)
(* version 1, had no serial to compare with; an entry's address leads to   *)
(* the device it was made for, unless another device took the address, or  *)
(* a reauthorisation was answered with another address: only reconfigure   *)
(* compares the device.  A migration that comes to its end, from version 2 *)
(* or 3, leaves the serial and none of the sensors to be removed.          *)
EntryKeepsDevice ==
    /\ \A d, e \in DOMAIN entries :
          d # e /\ entries[d].uid.serial = entries[e].uid.serial =>
              "twin" \in entries[d].excuse \union entries[e].excuse
    /\ \A e \in DOMAIN entries :
          entries[e].excuse \intersect {"moved", "reauth"} = {} =>
              behind[entries[e].host] = entries[e].uid.serial
    /\ \A e \in DOMAIN entries :
          entries[e].version = 4 => ~entries[e].uid.legacy /\ entries[e].old = {}
=============================================================================
