------------------------------ MODULE Switches ------------------------------
(***************************************************************************)
(* The switches: events, alarm outputs and the holiday of a camera or      *)
(* recorder, the bypass, chime and silence of a panel's zones (switch.py), *)
(* with the calls to the device behind them (isapi.py) and the coordinator *)
(* that reads the states back (coordinator.py).                            *)
(*                                                                         *)
(* Two calls may be under way at once, each a sequence of requests, while  *)
(* somebody else changes the device.  A control lies in a document of the  *)
(* device: `on' is the switch, `rest' a version of everything else in the  *)
(* document, `dated' says that a holiday covers today.  An event and the   *)
(* holiday are written by reading the document, changing it and writing    *)
(* all of it back; the others are written on their own.                    *)
(*                                                                         *)
(* A behaviour is about one scene: some controls of one coordinator.       *)
(***************************************************************************)
EXTENDS Naturals, FiniteSets

CONSTANTS
    Callers,      \* calls that may be under way at once
    Controls,
    Kind,         \* "event", "output", "holiday", "bypass", "chime", "silent"
    Disabled,     \* events that do not notify the surveillance center
    HasMutex,     \* events of a camera whose type has the mutex flag
    Excluding,    \* sets of events the device cannot run together
    Scenes,       \* [controls, checking, polling, leap]
    Unknown,      \* what a switch shows that has no value
    MaxCalls, MaxChanges, MaxUpsets   \* bounds

ASSUME ControlsAssumption ==
    /\ Kind \in [Controls -> {"event", "output", "holiday", "bypass", "chime", "silent"}]
    /\ HasMutex \subseteq {k \in Controls : Kind[k] = "event"}
    /\ Disabled \subseteq {k \in Controls : Kind[k] = "event"}
    /\ Excluding \subseteq SUBSET HasMutex
    /\ \A s \in Excluding : \A k \in s : s # {k}
ASSUME ScenesAssumption ==
    Scenes \subseteq [controls : SUBSET Controls, checking : BOOLEAN,
                      polling : BOOLEAN, leap : BOOLEAN]
ASSUME UnknownAssumption == Unknown \notin BOOLEAN
ASSUME BoundsAssumption == MaxCalls \in Nat /\ MaxChanges \in Nat /\ MaxUpsets \in Nat

VARIABLES
    scene,      \* the controls looked at; does not change
    device,     \* the documents of the device
    call,       \* the calls under way
    shown,      \* what the switches show: coordinator.data, or _attr_is_on
    refresh,    \* the refresh in flight: what is left to read, what was read
    pending,    \* a refresh was asked for and has not begun
    excused,    \* history: switches that may show a stale state, see Explained
    calls, changes, upsets   \* counters, for the bounds

vars == <<scene, device, call, shown, refresh, pending, excused, calls, changes, upsets>>

Documents == [on : BOOLEAN, rest : 0 .. MaxChanges, dated : BOOLEAN]
NoDocument == [on |-> FALSE, rest |-> 0, dated |-> FALSE]
NoCall == [at |-> "idle"]
NoRefresh == [at |-> "idle"]

Excl(k) == (UNION {s \in Excluding : k \in s}) \ {k}

\* `seen' (history) are the documents a call has read or written, `stale'
\* says that somebody else has written one of them since
Calls == [at : {"mutex", "get", "put", "answer"}, control : Controls, want : BOOLEAN,
          doc : Documents, seen : SUBSET Controls, stale : BOOLEAN]

TypeOK ==
    /\ scene \in Scenes
    /\ device \in [scene.controls -> Documents]
    /\ call \in [Callers -> Calls \union {NoCall}]
    /\ \A c \in Callers : call[c].at = "mutex" => call[c].control \in HasMutex
    /\ shown \in [scene.controls -> BOOLEAN \union {Unknown}]
    /\ refresh \in {NoRefresh} \union
          [at : {"reading"}, left : SUBSET scene.controls,
           data : [scene.controls -> BOOLEAN \union {Unknown}]]
    /\ \A k \in scene.controls \intersect Disabled : shown[k] = Unknown
    /\ pending \in BOOLEAN
    /\ excused \subseteq scene.controls
    /\ calls \in 0 .. MaxCalls /\ changes \in 0 .. MaxChanges /\ upsets \in 0 .. MaxUpsets

\* controls whose document is read first and written back whole
Whole(k) == Kind[k] \in {"event", "holiday"}
\* zone settings no coordinator reads; the switch keeps the state itself
Local(k) == Kind[k] \in {"chime", "silent"}
\* controls whose state a coordinator reads; _async_update_data leaves out
\* the events that are disabled
Followed(k) == ~Local(k) /\ k \notin Disabled

\* the switches are set up after the first refresh of their coordinator, with
\* the configuration of the zones read; the device respects its exclusions
Init ==
    /\ scene \in Scenes
    /\ device \in [scene.controls -> [on : BOOLEAN, rest : {0}, dated : {FALSE}]]
    /\ \A k \in scene.controls : device[k].on =>
          \A e \in Excl(k) \intersect scene.controls : ~device[e].on
    /\ call = [c \in Callers |-> NoCall]
    /\ shown = [k \in scene.controls |-> IF k \in Disabled THEN Unknown ELSE device[k].on]
    /\ refresh = NoRefresh
    /\ pending = FALSE
    /\ excused = {}
    /\ calls = 0 /\ changes = 0 /\ upsets = 0

Active(c) == call[c] # NoCall
Upset == upsets < MaxUpsets /\ upsets' = upsets + 1

\* the calls once somebody has written k: those of `others' go by what was there
Disturbed(others, k) ==
    [c \in Callers |-> IF Active(c) /\ c \in others /\ k \in call[c].seen
                       THEN [call[c] EXCEPT !.stale = TRUE] ELSE call[c]]

-----------------------------------------------------------------------------
(* The device, and whoever else changes it: its own pages, a keypad, an    *)
(* app, the calendar.                                                      *)

DeviceChanges(k) ==
    /\ changes < MaxChanges
    /\ changes' = changes + 1
    /\ \E doc \in {[device[k] EXCEPT !.on = ~@],
                   [device[k] EXCEPT !.rest = @ + 1, !.dated = FALSE]} :
          device' = [device EXCEPT ![k] = doc]
    /\ call' = Disturbed(Callers, k)
    /\ excused' = IF device'[k].on # device[k].on THEN excused \union {k} ELSE excused
    /\ UNCHANGED <<scene, shown, refresh, pending, calls, upsets>>

-----------------------------------------------------------------------------
(* The calls.                                                              *)

\* slip: a control is checked when it is turned off, too late
ChecksTurningOff(k, want) == scene.checking /\ k \in HasMutex /\ ~want

\* slip: whatever is turned on is checked
ChecksAll(k, want) == scene.checking /\ want

\* set_event_enabled_state asks for the exclusions only of an event that is
\* turned on, of a camera, when the device can answer
Checks(k, want) == scene.checking /\ k \in HasMutex /\ want

FirstRequest(k, want) ==
    IF Checks(k, want) THEN "mutex" ELSE IF Whole(k) THEN "get" ELSE "put"

\* async_turn_on, async_turn_off
TurnOnOff(c, k, want) ==
    /\ ~Active(c)
    /\ calls < MaxCalls
    /\ calls' = calls + 1
    /\ call' = [call EXCEPT ![c] =
                  [at |-> FirstRequest(k, want), control |-> k, want |-> want,
                   doc |-> NoDocument, seen |-> {}, stale |-> FALSE]]
    /\ UNCHANGED <<scene, device, shown, refresh, pending, excused, changes, upsets>>

\* slip: a refresh is asked for only after a success
AskedAfterSuccess(k, ok) == ok /\ ~Local(k)

\* events and outputs ask for a refresh whatever happened (finally), the
\* holiday and the bypass only after a success
AsksRefresh(k, ok) == Kind[k] \in {"event", "output"} \/ (ok /\ ~Local(k))

\* async_request_refresh: dropped, it may be, while a refresh is in flight
RequestRefresh(k) ==
    \/ /\ pending' = TRUE
       /\ excused' = excused
    \/ /\ refresh # NoRefresh
       /\ pending' = pending
       /\ excused' = excused \union {k}

\* the call returns or raises; `reached' says that its PUT got to the device
Return(c, ok, reached) ==
    LET k == call[c].control
    IN  /\ call' = [call EXCEPT ![c] = NoCall]
        /\ shown' = IF ok /\ Local(k) THEN [shown EXCEPT ![k] = call[c].want] ELSE shown
        /\ IF AsksRefresh(k, ok) THEN RequestRefresh(k)
           ELSE /\ pending' = pending
                /\ excused' = IF ~reached \/ Kind[k] \in {"event", "output"} THEN excused
                              ELSE IF ok /\ ~call[c].stale THEN excused \ {k}
                              ELSE excused \union {k}
        /\ UNCHANGED <<scene, device, refresh, calls, changes>>

\* a request fails before it has an effect: the call raises
RequestFails(c) ==
    /\ Active(c) /\ call[c].at # "answer"
    /\ Upset
    /\ Return(c, FALSE, FALSE)

\* get_event_switch_mutex: the events that stand in the way are those that
\* are on; any of them refuses the call
MutexChecked(c) ==
    /\ Active(c) /\ call[c].at = "mutex"
    /\ LET rivals == Excl(call[c].control) \intersect scene.controls
       IN  \/ /\ \A e \in rivals : ~device[e].on
              /\ call' = [call EXCEPT ![c].at = "get", ![c].seen = rivals]
              /\ UNCHANGED <<scene, device, shown, refresh, pending, excused, calls, changes, upsets>>
           \/ /\ \E e \in rivals : device[e].on
              /\ Return(c, FALSE, FALSE)
              /\ UNCHANGED upsets

\* the document is read; a state that is already as wanted ends the call.
\* On a leap day the end of the holiday does not exist: replace() raises.
DocumentRead(c) ==
    /\ Active(c) /\ call[c].at = "get"
    /\ LET k == call[c].control
           doc == device[k]
           raises == Kind[k] = "holiday" /\ call[c].want /\ scene.leap
       IN  \/ /\ doc.on = call[c].want
              /\ Return(c, TRUE, FALSE)
           \/ /\ doc.on # call[c].want /\ raises
              /\ Return(c, FALSE, FALSE)
           \/ /\ doc.on # call[c].want /\ ~raises
              /\ call' = [call EXCEPT ![c].at = "put", ![c].doc = doc,
                                      ![c].seen = @ \union {k}]
              /\ UNCHANGED <<scene, device, shown, refresh, pending, excused, calls, changes>>
    /\ UNCHANGED upsets
-----------------------------------------------------------------------------
\* slip: only the switch is sent, as if every document took a partial update
SwitchAlone(c) == [NoDocument EXCEPT !.on = call[c].want]

\* what the device holds after the PUT: the document that was read with the
\* new state, a holiday turned on with its dates; or a single field changed
Written(c) ==
    LET k == call[c].control
        want == call[c].want
    IN  IF Whole(k)
        THEN [call[c].doc EXCEPT !.on = want, !.dated = @ \/ (Kind[k] = "holiday" /\ want)]
        ELSE [device[k] EXCEPT !.on = want]

PutArrives(c) ==
    /\ Active(c) /\ call[c].at = "put"
    /\ LET k == call[c].control
       IN  /\ device' = [device EXCEPT ![k] = Written(c)]
           /\ call' = [Disturbed(Callers \ {c}, k) EXCEPT ![c].at = "answer", ![c].seen = @ \union {k}]
    /\ UNCHANGED <<scene, shown, refresh, pending, excused, calls, changes, upsets>>

\* the answer comes, or is lost: then the call raises though it had its effect
Answered(c) ==
    /\ Active(c) /\ call[c].at = "answer"
    /\ \/ Return(c, TRUE, TRUE) /\ UNCHANGED upsets
       \/ Upset /\ Return(c, FALSE, TRUE)

-----------------------------------------------------------------------------
(* The coordinator.  How requests and scheduled polls share the debouncer  *)
(* is the matter of SecurityRefresh; here one refresh is in flight.        *)

\* slip: the update interval is not handed to the coordinator
DueIfAsked == pending

\* a refresh that was asked for, or a scheduled one
Due == pending \/ scene.polling

RefreshBegins ==
    /\ refresh = NoRefresh
    /\ \E k \in scene.controls : Followed(k)
    /\ Due
    /\ pending' = FALSE
    /\ refresh' = [at |-> "reading", left |-> {k \in scene.controls : Followed(k)},
                   data |-> [k \in scene.controls |-> Unknown]]
    /\ UNCHANGED <<scene, device, call, shown, excused, calls, changes, upsets>>

\* one value is read; a failure leaves it out of the data
StateRead(k) ==
    /\ refresh # NoRefresh
    /\ k \in refresh.left
    /\ \/ /\ refresh' = [refresh EXCEPT !.left = @ \ {k}, !.data[k] = device[k].on]
          /\ excused' = excused \ {k}
          /\ UNCHANGED upsets
       \/ /\ Upset
          /\ refresh' = [refresh EXCEPT !.left = @ \ {k}]
          /\ excused' = excused \union {k}
    /\ UNCHANGED <<scene, device, call, shown, pending, calls, changes>>

\* the data replace the former ones
RefreshEnds ==
    /\ refresh # NoRefresh
    /\ refresh.left = {}
    /\ shown' = [k \in scene.controls |-> IF Local(k) THEN shown[k] ELSE refresh.data[k]]
    /\ refresh' = NoRefresh
    /\ UNCHANGED <<scene, device, call, pending, excused, calls, changes, upsets>>

Refreshing ==
    \/ RefreshBegins
    \/ \E k \in scene.controls : StateRead(k)
    \/ RefreshEnds

Calling(c) ==
    \/ \E k \in scene.controls, want \in BOOLEAN : TurnOnOff(c, k, want)
    \/ MutexChecked(c)
    \/ DocumentRead(c)
    \/ PutArrives(c)
    \/ Answered(c)
    \/ RequestFails(c)

Next ==
    \/ \E k \in scene.controls : DeviceChanges(k)
    \/ \E c \in Callers : Calling(c)
    \/ Refreshing

\* requests end, refreshes run to their end, and the update interval passes
Fairness == WF_refresh(Refreshing)

Spec == Init /\ [][Next]_vars /\ Fairness

-----------------------------------------------------------------------------
(* What must hold.                                                         *)

Clashes == {s \in Excluding : s \subseteq scene.controls /\ \A k \in s : device[k].on}

\* steps in which a call writes the device, and in which it ends
Puts(c) == Active(c) /\ call[c].at = "put" /\ call'[c] # NoCall /\ call'[c].at = "answer"
Returns(c) == Active(c) /\ call'[c] = NoCall

\* Two events the device cannot run together come to be on only by somebody
\* else's hand, or by a call that did not have to ask (the device cannot
\* tell), or by one that asked before the other event was turned on: the
\* check of set_event_enabled_state and its PUT are two awaits apart.
ExclusiveByOverlap ==
    [][\/ Clashes' \subseteq Clashes
       \/ changes' # changes
       \/ ~scene.checking
       \/ \E c \in Callers : Puts(c) /\ call[c].stale]_vars

\* A call nobody got in the way of writes nothing but its own switch: all
\* other settings of the document are as they were (set_event_enabled_state
\* and set_holiday_enabled_state send the whole of it).  When such a call
\* returns after a write, the device is as was asked, and a holiday that was
\* turned on covers today.
CallEffective ==
    [][\A c \in Callers : Active(c) /\ ~call[c].stale =>
          LET k == call[c].control
          IN  /\ Puts(c) => device'[k].rest = device[k].rest
              /\ Returns(c) /\ call[c].at = "answer" =>
                    /\ device[k].on = call[c].want
                    /\ Kind[k] = "holiday" /\ call[c].want => device[k].dated]_vars

\* A switch that shows something else than the device has, with no call and
\* no refresh under way that would put it right, is excused: somebody else
\* changed the device, its state could not be read, calls crossed, a refresh
\* was dropped, or the call failed after the device had done it - which does
\* not excuse an event or an output, whose calls ask for a refresh anyway.
Explained ==
    \A k \in scene.controls \ Disabled :
        \/ shown[k] = device[k].on
        \/ k \in excused
        \/ \E c \in Callers : Active(c) /\ call[c].control = k
        \/ Followed(k) /\ (pending \/ refresh # NoRefresh)

\* Where polls are scheduled, every switch a coordinator follows ends up with
\* the state of the device, whatever failed, crossed or was dropped before.
Settles ==
    scene.polling => <>[](\A k \in scene.controls : Followed(k) => shown[k] = device[k].on)
=============================================================================
