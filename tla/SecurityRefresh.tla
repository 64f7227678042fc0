-------------------------- MODULE SecurityRefresh --------------------------
(***************************************************************************)
(* How the entities of a security panel come to show what the panel says:  *)
(* SecurityCoordinator._async_update_data, the refresh-with-follow-up of   *)
(* SecurityArmingListener (coordinator.py), the service calls that ask for *)
(* a refresh, and, as external code, the DataUpdateCoordinator and the     *)
(* Debouncer of Home Assistant that run the refreshes.                     *)
(*                                                                         *)
(* The panel keeps a version per group of values.  `real' is its state,    *)
(* `status' what its status endpoints report, which lags; `data' is what   *)
(* the coordinator holds and the entities show.                            *)
(***************************************************************************)
EXTENDS Naturals, Sequences, FiniteSets

CONSTANTS
    Groups,         \* groups of values, one request each
    Order,          \* the order in which a poll requests them
    PushedGroups,   \* groups whose changes the panel pushes as events
    Interval,       \* the polling_interval option: "unset", "zero" or "set"
    PollFast,       \* timing assumption, see FollowUp
    Missing,        \* no value: the request failed
    MaxChanges,     \* bound: changes of the panel in a behaviour
    MaxFailures,    \* bound: requests that fail
    MaxBreaks       \* bound: times the arming connection is lost

ASSUME GroupsAssumption ==
    /\ IsFiniteSet(Groups) /\ PushedGroups \subseteq Groups
    /\ Order \in Seq(Groups) /\ {Order[i] : i \in DOMAIN Order} = Groups
    /\ Len(Order) = Cardinality(Groups)
ASSUME ModeAssumption == Interval \in {"unset", "zero", "set"} /\ PollFast \in BOOLEAN
ASSUME MissingAssumption == Missing \notin Nat
ASSUME BoundsAssumption ==
    MaxChanges \in Nat /\ MaxFailures \in Nat /\ MaxBreaks \in Nat

VARIABLES
    real, status,   \* the panel
    linked,         \* the arming connection is up
    wire,           \* events pushed and not yet handled
    data,           \* coordinator.data
    poll,           \* the refreshes in flight, by slot
    armed,          \* the timer of the next scheduled poll is set
    cooldown,       \* the debouncer's timer is running
    atEnd,          \* the debouncer's _execute_at_end_of_timer
    sleepers,       \* events whose refresh task sleeps before its follow-up
    changes, failures, breaks   \* counters, for the bounds

panel == <<real, status, linked, wire, changes, breaks>>
vars == <<panel, data, poll, armed, cooldown, atEnd, sleepers, failures>>

\* "asked" is the refresh that holds the debouncer's lock.  HA could start
\* a second scheduled poll while one is in flight; one at a time is a bound.
Slots == {"asked", "scheduled"}
Events == [group : Groups, version : 1 .. MaxChanges]
NoEvent == [group |-> Missing, version |-> 0]
Versions == 0 .. MaxChanges

\* slip: an option that is not set is taken for 0
PollingIfSet == Interval = "set"

\* _resolve_update_interval: whether scheduled polls take place
Polling == Interval # "zero"

Idle == [at |-> 0]
Polls == [at : 1 .. Len(Order) + 1, got : [Groups -> Versions \union {Missing}],
          floor : [Groups -> Versions], for : Events \union {NoEvent}, crossed : BOOLEAN]

TypeOK ==
    /\ real \in [Groups -> Versions]
    /\ status \in [Groups -> Versions]
    /\ linked \in BOOLEAN
    /\ wire \in Seq(Events)
    /\ data \in [Groups -> Versions \union {Missing}]
    /\ poll \in [Slots -> Polls \union {Idle}]
    /\ armed \in BOOLEAN /\ cooldown \in BOOLEAN /\ atEnd \in BOOLEAN
    /\ sleepers \in SUBSET Events
    /\ changes \in 0 .. MaxChanges
    /\ failures \in 0 .. MaxFailures
    /\ breaks \in 0 .. MaxBreaks

\* the entry is set up: the first refresh is done, the listener connected
Init ==
    /\ real = [g \in Groups |-> 0]
    /\ status = real
    /\ linked = TRUE
    /\ wire = << >>
    /\ data = real
    /\ poll = [s \in Slots |-> Idle]
    /\ armed = Polling
    /\ cooldown = FALSE
    /\ atEnd = FALSE
    /\ sleepers = {}
    /\ changes = 0 /\ failures = 0 /\ breaks = 0

InFlight(s) == poll[s] # Idle
Locked == InFlight("asked")

-----------------------------------------------------------------------------
(* The panel and the connection to it.                                     *)

\* a detector trips, a partition is armed: an event is pushed for some groups
Change(g) ==
    /\ changes < MaxChanges
    /\ changes' = changes + 1
    /\ real' = [real EXCEPT ![g] = @ + 1]
    /\ wire' = IF linked /\ g \in PushedGroups
               THEN Append(wire, [group |-> g, version |-> real'[g]]) ELSE wire
    /\ UNCHANGED <<status, linked, breaks, data, poll, armed, cooldown, atEnd,
                   sleepers, failures>>

\* the panel's own status computation catches up
CatchUp(g) ==
    /\ status[g] # real[g]
    /\ status' = [status EXCEPT ![g] = real[g]]
    /\ UNCHANGED <<real, linked, wire, changes, breaks, data, poll, armed,
                   cooldown, atEnd, sleepers, failures>>

Break ==
    /\ linked /\ breaks < MaxBreaks
    /\ linked' = FALSE
    /\ breaks' = breaks + 1
    /\ wire' = << >>
    /\ UNCHANGED <<real, status, changes, data, poll, armed, cooldown, atEnd,
                   sleepers, failures>>

\* the listener reconnects; nothing is refreshed for what was missed
Relink ==
    /\ ~linked
    /\ linked' = TRUE
    /\ UNCHANGED <<real, status, wire, changes, breaks, data, poll, armed,
                   cooldown, atEnd, sleepers, failures>>

-----------------------------------------------------------------------------
(* DataUpdateCoordinator._async_refresh around _async_update_data.         *)

\* both timers are cancelled, then the first request is sent
Begin(s, e) ==
    /\ poll' = [t \in Slots |->
          IF t = s
          THEN [at |-> 1, got |-> [g \in Groups |-> Missing], floor |-> status,
                for |-> e, crossed |-> \E u \in Slots \ {s} : InFlight(u)]
          ELSE IF InFlight(t) THEN [poll[t] EXCEPT !.crossed = TRUE] ELSE Idle]
    /\ armed' = FALSE
    /\ cooldown' = FALSE
    /\ atEnd' = FALSE

Scheduled ==
    /\ armed /\ ~InFlight("scheduled")
    /\ Begin("scheduled", NoEvent)
    /\ UNCHANGED <<panel, data, sleepers, failures>>

\* one of the four requests of _async_update_data is answered
Answer(s) ==
    /\ InFlight(s) /\ poll[s].at =< Len(Order)
    /\ LET g == Order[poll[s].at] IN
       poll' = [poll EXCEPT ![s].at = @ + 1, ![s].got[g] = status[g]]
    /\ UNCHANGED <<panel, data, armed, cooldown, atEnd, sleepers, failures>>

\* slip: the group keeps the value it had
FailKeeping(s) ==
    /\ InFlight(s) /\ poll[s].at =< Len(Order)
    /\ failures < MaxFailures
    /\ failures' = failures + 1
    /\ poll' = [poll EXCEPT ![s].at = @ + 1, ![s].got[Order[poll[s].at]] = data[Order[poll[s].at]]]
    /\ UNCHANGED <<panel, data, armed, cooldown, atEnd, sleepers>>

\* slip: the group falls back to a default
FailDefault(s) ==
    /\ InFlight(s) /\ poll[s].at =< Len(Order)
    /\ failures < MaxFailures
    /\ failures' = failures + 1
    /\ poll' = [poll EXCEPT ![s].at = @ + 1, ![s].got[Order[poll[s].at]] = 0]
    /\ UNCHANGED <<panel, data, armed, cooldown, atEnd, sleepers>>

\* it raises instead: handle_exception, and the group stays out of the data
Fail(s) ==
    /\ InFlight(s) /\ poll[s].at =< Len(Order)
    /\ failures < MaxFailures
    /\ failures' = failures + 1
    /\ poll' = [poll EXCEPT ![s].at = @ + 1]
    /\ UNCHANGED <<panel, data, armed, cooldown, atEnd, sleepers>>

\* slip: every refresh is followed up
FinishSleeping(s) ==
    /\ InFlight(s) /\ poll[s].at > Len(Order)
    /\ data' = poll[s].got
    /\ poll' = [poll EXCEPT ![s] = Idle]
    /\ armed' = Polling
    /\ cooldown' = (cooldown \/ s = "asked")
    /\ sleepers' = sleepers \union {poll[s].for}
    /\ UNCHANGED <<panel, atEnd, failures>>

\* the data is replaced, the next poll scheduled; a debounced refresh then
\* starts the cooldown, and the task that awaited it goes to sleep
Finish(s) ==
    /\ InFlight(s) /\ poll[s].at > Len(Order)
    /\ data' = poll[s].got
    /\ poll' = [poll EXCEPT ![s] = Idle]
    /\ armed' = Polling
    /\ cooldown' = (cooldown \/ s = "asked")
    /\ sleepers' = sleepers \union ({poll[s].for} \ {NoEvent})
    /\ UNCHANGED <<panel, atEnd, failures>>

-----------------------------------------------------------------------------
(* The debouncer: at most one refresh per cooldown, a request made while   *)
(* it runs is remembered, one made while a refresh is in flight is not.    *)

RunsNow == ~cooldown /\ ~Locked

Request(e) ==
    IF RunsNow THEN Begin("asked", e)
    ELSE atEnd' = (atEnd \/ cooldown) /\ UNCHANGED <<poll, armed, cooldown>>

TimerEnds ==
    /\ cooldown
    /\ IF atEnd /\ ~Locked THEN Begin("asked", NoEvent)
       ELSE cooldown' = FALSE /\ atEnd' = FALSE /\ UNCHANGED <<poll, armed>>
    /\ UNCHANGED <<panel, data, sleepers, failures>>

-----------------------------------------------------------------------------
(* Who asks for a refresh.                                                 *)

\* slip: one refresh per event and no follow-up
HandleEventOnce ==
    /\ wire # << >>
    /\ wire' = Tail(wire)
    /\ Request(NoEvent)
    /\ UNCHANGED <<real, status, linked, changes, breaks, data, sleepers, failures>>

\* _handle_event creates the task, which runs at once to its first await:
\* through the refresh it started, or straight to the sleep
HandleEvent ==
    /\ wire # << >>
    /\ wire' = Tail(wire)
    /\ Request(Head(wire))
    /\ sleepers' = IF RunsNow THEN sleepers ELSE sleepers \union {Head(wire)}
    /\ UNCHANGED <<real, status, linked, changes, breaks, data, failures>>

\* a refresh in flight, if it has read the group of event e, read the change
ReadsChange(s, e) ==
    InFlight(s) /\ poll[s].got[e.group] # Missing => poll[s].got[e.group] >= e.version

\* The second request of the task.  Timing assumption, from the docstring of
\* _async_refresh_with_followup: the panel has caught up by then.  PollFast
\* adds that it did so longer ago than a refresh takes, so that one still in
\* flight has read the change.
FollowUp(e) ==
    /\ e \in sleepers
    /\ status[e.group] >= e.version
    /\ PollFast => \A s \in Slots : ReadsChange(s, e)
    /\ sleepers' = sleepers \ {e}
    /\ Request(NoEvent)
    /\ UNCHANGED <<panel, data, failures>>

\* a service call (arm, disarm, bypass, siren) refreshes after its command
ServiceRequest ==
    /\ Request(NoEvent)
    /\ UNCHANGED <<panel, data, sleepers, failures>>

-----------------------------------------------------------------------------

Next ==
    \/ \E g \in Groups : Change(g) \/ CatchUp(g)
    \/ Break \/ Relink
    \/ Scheduled \/ TimerEnds \/ ServiceRequest
    \/ \E s \in Slots : Answer(s) \/ Fail(s) \/ Finish(s)
    \/ HandleEvent
    \/ \E e \in Events : FollowUp(e)

Spec == Init /\ [][Next]_vars

(* The event loop runs what is due: timers fire, requests are answered or   *)
(* time out, sleeps end.  The panel's lag is finite.  Nothing is assumed of *)
(* service calls, nor of the panel changing or the connection breaking.     *)
Fairness ==
    /\ \A g \in Groups : WF_vars(CatchUp(g))
    /\ WF_vars(Relink) /\ WF_vars(HandleEvent)
    /\ WF_vars(Scheduled) /\ WF_vars(TimerEnds)
    /\ \A s \in Slots : WF_vars(Answer(s)) /\ WF_vars(Finish(s))
    /\ \A e \in Events : WF_vars(FollowUp(e))

FairSpec == Spec /\ Fairness

-----------------------------------------------------------------------------

(* _async_update_data shows nothing it has not been told during the poll:  *)
(* a group whose request failed is left out, not filled from older data.   *)
Mirror == INSTANCE StatusMirror WITH
    floor <- [s \in Slots |-> IF InFlight(s) THEN poll[s].floor
                                           ELSE [g \in Groups |-> Missing]]
MirrorSpec == Mirror!Spec

(* A value is replaced by an older one only when a scheduled poll and a    *)
(* requested refresh overlapped, which neither the coordinator nor the     *)
(* debouncer prevents: without polling the entities never step back.       *)
OlderOnlyByOverlap ==
    [][\A g \in Groups : data[g] # Missing /\ data'[g] # Missing /\ data'[g] < data[g]
          => Polling /\ \E s \in Slots : InFlight(s) /\ poll[s].crossed /\ ~InFlight(s)']_vars

(* With polling on, the entities end up showing the panel's state whatever *)
(* was not pushed, was lost with a connection, or overlapped.              *)
Converges == <>[](data = real)

Shown(e) == data[e.group] # Missing /\ data[e.group] >= e.version

(* "The follow-up refresh catches the update a few seconds later": an      *)
(* event that has reached Home Assistant leads to its change being shown,  *)
(* with the scheduled polls turned off.                                    *)
FollowUpCatches ==
    \A e \in Events : (\E i \in DOMAIN wire : wire[i] = e) ~> Shown(e)
=============================================================================
