------------------------------ MODULE Cameras ------------------------------
(***************************************************************************)
(* The cameras of a device: get_cameras and get_camera_streams (isapi.py), *)
(* the devices and entities Home Assistant registers for them              *)
(* (hass_device_info of hikvision_device.py, camera.py, image.py).         *)
(*                                                                         *)
(* A recorder lists its network cameras, as well as it recognises them,    *)
(* and its analog inputs; a camera lists the channels its streams belong   *)
(* to.  Serial numbers are tuples, so that those made up here cannot be    *)
(* mistaken for others.                                                    *)
(***************************************************************************)
EXTENDS Naturals, Sequences, SequencesExt

CONSTANTS
    CameraSerials,   \* serial numbers a recorder may report for its cameras, its own,
                     \* "own", perhaps among them; "none" is no number
    Protocols,       \* protocols by which a recorder reaches its cameras
    DigitalIds,      \* the channels of its network cameras, as they are listed
    AnalogIds,       \* the channels of its inputs
    MaxListings      \* bound: changes of what the device reports

\* Streaming/channels numbers all cameras of a recorder in one row
ASSUME CamerasAssumption ==
    /\ DigitalIds \in Seq(Nat) /\ IsFiniteSet(AnalogIds) /\ AnalogIds \subseteq Nat
    /\ \A i, j \in DOMAIN DigitalIds : DigitalIds[i] = DigitalIds[j] => i = j
    /\ \A i \in DOMAIN DigitalIds : DigitalIds[i] \notin AnalogIds
    /\ MaxListings \in Nat

VARIABLES
    listing,     \* what the device reports
    cameras,     \* device.cameras, in order
    registered,  \* the registry: the device each camera entity belongs to
    told,        \* history: what the device reported when it was last set up
    listings     \* counter, for the bound

cameraVars == <<listing, cameras, registered, told, listings>>

Own == <<"own">>     \* the serial number of the device itself
NoListing == [nvr |-> FALSE, digital |-> <<>>, analog |-> {}, channels |-> {}]

CamerasInit ==
    /\ listing = NoListing /\ told = NoListing
    /\ cameras = <<>> /\ registered = <<>> /\ listings = 0

\* a channel as a recorder lists it: whether it has a source descriptor
DigitalChannels(n) ==
    [id : {n}, source : BOOLEAN, serial : CameraSerials \union {"none"}, protocol : Protocols]

ChannelsListed(l) == \A i \in DOMAIN l.digital : l.digital[i] \in DigitalChannels(DigitalIds[i])

CamerasTypeOK ==
    /\ ChannelsListed(listing) /\ ChannelsListed(told)
    /\ \A i \in DOMAIN cameras : cameras[i].id \in Nat /\ cameras[i].streams \subseteq 1 .. 4
    /\ \A x \in DOMAIN registered : x[1] = Own /\ x[2] \in Nat \X (1 .. 4)
    /\ listings \in 0 .. MaxListings

\* the device, found or looked at again: a recorder, or a camera of one or
\* two channels
DeviceReports ==
    /\ listings < MaxListings /\ listings' = listings + 1
    /\ \/ \E ds \in [DOMAIN DigitalIds -> UNION {DigitalChannels(DigitalIds[i]) : i \in DOMAIN DigitalIds}],
             as \in SUBSET AnalogIds :
             /\ listing.nvr \/ listing = NoListing
             /\ \A i \in DOMAIN ds : ds[i].id = DigitalIds[i]
             /\ listing' = [nvr |-> TRUE, digital |-> ds, analog |-> as, channels |-> {}]
       \/ \E cs \in {{1}, {1, 2}} :
             /\ ~listing.nvr
             /\ listing' = [NoListing EXCEPT !.channels = cs]
    /\ UNCHANGED <<cameras, registered, told>>

MadeUp(how, id) == <<"own", how, id>>

\* slip: what the recorder reports is taken as it is
AsReported(found, c) == IF c.serial = "none" THEN MadeUp(c.protocol, c.id) ELSE <<c.serial>>

\* a number that is missing, or that a camera before it has, is made up
SerialFor(found, c) ==
    IF c.serial = "none" \/ \E i \in DOMAIN found : found[i].serial = <<c.serial>>
    THEN MadeUp(c.protocol, c.id) ELSE <<c.serial>>

\* get_camera_streams asks for each of the four types of stream; `answered'
\* are the streams the device answered for, the others are left out
StreamsOf(id, answered) == {n \in 1 .. 4 : <<id, n>> \in answered}

\* the loop over the network cameras, `found' being self.cameras: one without
\* a source is passed over
NetworkCameras(digital, answered) ==
    LET found[k \in 0 .. Len(digital)] ==
            IF k = 0 THEN <<>>
            ELSE IF ~digital[k].source THEN found[k - 1]
            ELSE Append(found[k - 1],
                        [id |-> digital[k].id, serial |-> SerialFor(found[k - 1], digital[k]),
                         streams |-> StreamsOf(digital[k].id, answered)])
    IN  found[Len(digital)]

\* the loop over the inputs, in some order
AnalogCameras(inputs, answered) ==
    LET analog == SetToSeq(inputs)
    IN  [i \in DOMAIN analog |-> [id |-> analog[i], serial |-> MadeUp("VI", analog[i]),
                                  streams |-> StreamsOf(analog[i], answered)]]

\* get_cameras: network cameras with a source, then the analog ones; or one
\* camera per channel, all with the device's own serial
GetCameras(answered) ==
    IF ~listing.nvr
    THEN [i \in 1 .. Cardinality(listing.channels) |->
             [id |-> i, serial |-> Own, streams |-> StreamsOf(i, answered)]]
    ELSE NetworkCameras(listing.digital, answered) \o AnalogCameras(listing.analog, answered)

Ids == {DigitalIds[i] : i \in DOMAIN DigitalIds} \union AnalogIds \union {1, 2}

\* the entry is set up, once and again at each reload: entities are added, or
\* found in the registry and moved to the device they belong to now
CamerasSetUp ==
    /\ listing # NoListing
    /\ \E answered \in {Ids \X {1, 2}} \union {(Ids \ {n}) \X {1, 2} : n \in Ids} :
          cameras' = GetCameras(answered)
    /\ LET entities == {x \in (DOMAIN cameras') \X (1 .. 4) : x[2] \in cameras'[x[1]].streams}
           uid(x) == <<Own, <<cameras'[x[1]].id, x[2]>>>>
       IN  registered' = [u \in DOMAIN registered \union {uid(x) : x \in entities} |->
                             IF \E x \in entities : uid(x) = u
                             THEN cameras'[(CHOOSE x \in entities : uid(x) = u)[1]].serial
                             ELSE registered[u]]
    /\ told' = listing
    /\ UNCHANGED <<listing, listings>>

CamerasNext == DeviceReports \/ CamerasSetUp

-----------------------------------------------------------------------------
(* No two cameras of a recorder are one device in Home Assistant, however  *)
(* badly the recorder recognises them, and none is the recorder itself but *)
(* one for which it reports its own number, which nothing checks; those of *)
(* a camera are the camera; and the streams of one camera lie on its       *)
(* device.                                                                 *)
CamerasApart ==
    /\ told.nvr => \A i, j \in DOMAIN cameras : i # j => cameras[i].serial # cameras[j].serial
    /\ told.nvr => \A i \in DOMAIN cameras : cameras[i].serial = Own =>
          \E k \in DOMAIN told.digital :
              told.digital[k].id = cameras[i].id /\ told.digital[k].serial = "own"
    /\ ~told.nvr => \A i \in DOMAIN cameras : cameras[i].serial = Own
    /\ \A i, j \in DOMAIN cameras : i # j => cameras[i].id # cameras[j].id
    /\ \A i \in DOMAIN cameras : \A n \in cameras[i].streams :
          registered[<<Own, <<cameras[i].id, n>>>>] = cameras[i].serial
=============================================================================
