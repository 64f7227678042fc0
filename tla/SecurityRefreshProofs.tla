------------------------ MODULE SecurityRefreshProofs ------------------------
(***************************************************************************)
(* Proofs about SecurityRefresh, for every set of groups, polling option   *)
(* and number of changes, failures and lost connections: the types, the    *)
(* refinement of StatusMirror, and that a value is replaced by an older    *)
(* one only where two refreshes overlapped.                                *)
(***************************************************************************)
EXTENDS SecurityRefresh, TLAPS

(* What the types need: no version is newer than the changes there were,   *)
(* and the status endpoints are never ahead of the panel.                  *)
Counted ==
    \A g \in Groups : status[g] =< real[g] /\ real[g] =< changes

(* Nothing that is shown, or that a refresh has read, is newer than what   *)
(* the panel reports now, nor older than what it did when the refresh      *)
(* began.                                                                  *)
Read(s) ==
    \A g \in Groups :
        /\ poll[s].floor[g] =< status[g]
        /\ poll[s].got[g] # Missing =>
              /\ poll[s].floor[g] =< poll[s].got[g]
              /\ poll[s].got[g] =< status[g]

Mirrored ==
    /\ \A g \in Groups : data[g] # Missing => data[g] =< status[g]
    /\ \A s \in Slots : InFlight(s) => Read(s)

(* A refresh that met no other one began after the data were last replaced;*)
(* two refreshes in flight have met each other; and only a scheduled one   *)
(* can meet another, as the debouncer's lock is held by one at a time.     *)
Crossing ==
    /\ \A s \in Slots : InFlight(s) /\ ~poll[s].crossed =>
          /\ \A t \in Slots : InFlight(t) => t = s
          /\ \A g \in Groups : data[g] # Missing => data[g] =< poll[s].floor[g]
    /\ \A s \in Slots : InFlight(s) /\ poll[s].crossed => Polling
    /\ armed \/ InFlight("scheduled") => Polling

Inv == TypeOK /\ Counted /\ Mirrored /\ Crossing

-----------------------------------------------------------------------------
(* The operators the model is built from.                                  *)

(* A refresh in flight is a poll, and never the idle slot.                 *)
LEMMA InFlightType ==
    ASSUME TypeOK, NEW s \in Slots
    PROVE  InFlight(s) <=> poll[s] \in Polls
<1>1. Idle \notin Polls
  BY DEF Idle, Polls
<1> QED
  BY <1>1 DEF InFlight, TypeOK

(* A group that is asked for is one of the groups.                         *)
LEMMA OrderType ==
    ASSUME NEW i \in 1 .. Len(Order)
    PROVE  Order[i] \in Groups
BY GroupsAssumption

(* What Begin and Request touch, and what they keep of it.                 *)
Refreshes ==
    /\ poll \in [Slots -> Polls \union {Idle}]
    /\ armed \in BOOLEAN /\ cooldown \in BOOLEAN /\ atEnd \in BOOLEAN
    /\ Mirrored /\ Crossing

(* A refresh that begins keeps the invariant: it has read nothing yet, and *)
(* nothing shown is newer than the status it starts from.                  *)
LEMMA BeginStep ==
    ASSUME Inv, NEW s \in Slots, NEW e \in Events \union {NoEvent},
           ~InFlight(s), s = "scheduled" => Polling,
           Begin(s, e), UNCHANGED <<status, data>>
    PROVE  Refreshes'
<1> DEFINE new == [at |-> 1, got |-> [g \in Groups |-> Missing], floor |-> status, for |-> e,
                   crossed |-> \E u \in Slots \ {s} : InFlight(u)]
<1>1. new \in Polls /\ new # Idle
  <2>1. 1 \in 1 .. Len(Order) + 1
    BY GroupsAssumption
  <2> QED
    BY <2>1 DEF Inv, TypeOK, Polls, Idle
<1>2. /\ poll'[s] = new
      /\ \A t \in Slots \ {s} : InFlight(t) => poll'[t] = [poll[t] EXCEPT !.crossed = TRUE]
      /\ \A t \in Slots \ {s} : ~InFlight(t) => poll'[t] = Idle
  BY DEF Begin
<1>3. \A t \in Slots \ {s} : InFlight(t) =>
        /\ poll'[t] \in Polls /\ poll'[t] # Idle
        /\ poll'[t].floor = poll[t].floor
        /\ poll'[t].got = poll[t].got /\ poll'[t].crossed
  <2> SUFFICES ASSUME NEW t \in Slots \ {s}, InFlight(t)
               PROVE  /\ poll'[t] \in Polls /\ poll'[t] # Idle
                      /\ poll'[t].floor = poll[t].floor
                      /\ poll'[t].got = poll[t].got /\ poll'[t].crossed
    OBVIOUS
  <2>1. poll[t] \in Polls
    BY InFlightType DEF Inv
  <2>2. poll'[t] = [poll[t] EXCEPT !.crossed = TRUE]
    BY <1>2
  <2>3. poll'[t] \in Polls
    BY <2>1, <2>2 DEF Polls
  <2>4. poll'[t].floor = poll[t].floor /\ poll'[t].got = poll[t].got /\ poll'[t].crossed
    BY <2>1, <2>2 DEF Polls
  <2>5. Idle \notin Polls
    BY DEF Polls, Idle
  <2> QED
    BY <2>3, <2>4, <2>5
<1>4. poll' \in [Slots -> Polls \union {Idle}]
  BY <1>1, <1>2, <1>3 DEF Begin
<1>5. \A t \in Slots : InFlight(t)' <=> t = s \/ InFlight(t)
  BY <1>1, <1>2, <1>3 DEF InFlight
<1>6. Mirrored'
  <2>1. \A g \in Groups : status'[g] = status[g] /\ data'[g] = data[g] /\ status[g] \in Nat
    BY DEF Inv, TypeOK, Versions
  <2>2. Read(s)'
    BY <1>2, <2>1 DEF Read
  <2>3. ASSUME NEW t \in Slots \ {s}, InFlight(t)
        PROVE  Read(t)'
    BY <1>3, <2>1, <2>3 DEF Read, Inv, Mirrored
  <2> QED
    BY <1>5, <2>1, <2>2, <2>3 DEF Mirrored, Inv
<1>7. Polling' = Polling
  BY DEF Polling
<1>8. (\E u \in Slots \ {s} : InFlight(u)) => Polling
  BY DEF Inv, Crossing, Slots
<1>9. Crossing'
  <2>1. ASSUME NEW t \in Slots, InFlight(t)', ~poll'[t].crossed
        PROVE  /\ \A u \in Slots : InFlight(u)' => u = t
               /\ \A g \in Groups : data'[g] # Missing => data'[g] =< poll'[t].floor[g]
    <3>1. t = s /\ ~\E u \in Slots \ {s} : InFlight(u)
      BY <1>2, <1>3, <1>5, <2>1
    <3>2. poll'[t].floor = status
      BY <1>2, <3>1
    <3> QED
      BY <1>5, <3>1, <3>2 DEF Inv, Mirrored
  <2>2. ASSUME NEW t \in Slots, InFlight(t)', poll'[t].crossed
        PROVE  Polling
    BY <1>2, <1>5, <1>8, <2>2
  <2>3. armed' \/ InFlight("scheduled")' => Polling
    BY <1>5 DEF Begin, Inv, Crossing, Slots
  <2> QED
    BY <1>7, <2>1, <2>2, <2>3 DEF Crossing
<1> QED
  BY <1>4, <1>6, <1>9 DEF Refreshes, Begin, Inv, TypeOK

(* A request either begins a refresh under the lock or touches none.       *)
LEMMA RequestStep ==
    ASSUME Inv, NEW e \in Events \union {NoEvent}, Request(e), UNCHANGED <<status, data>>
    PROVE  Refreshes'
<1>1. CASE RunsNow
  <2>1. ~InFlight("asked") /\ Begin("asked", e)
    BY <1>1 DEF Request, RunsNow, Locked
  <2> QED
    BY <2>1, BeginStep DEF Slots
<1>2. CASE ~RunsNow
  BY <1>2 DEF Request, Inv, TypeOK, Refreshes, Mirrored, Read, Crossing, InFlight, Polling
<1> QED
  BY <1>1, <1>2

-----------------------------------------------------------------------------
(* The inductive invariant.                                                *)

LEMMA InvInit == Init => Inv
<1> SUFFICES ASSUME Init
             PROVE  Inv
  OBVIOUS
<1>1. \A s \in Slots : poll[s] = Idle /\ ~InFlight(s)
  BY DEF Init, InFlight
<1>2. 0 \in Versions /\ << >> \in Seq(Events) /\ Polling \in BOOLEAN
  BY BoundsAssumption DEF Versions, Polling
<1>3. TypeOK
  <2>1. real \in [Groups -> Versions] /\ status \in [Groups -> Versions]
        /\ data \in [Groups -> Versions \union {Missing}]
    BY <1>2 DEF Init
  <2>2. poll \in [Slots -> Polls \union {Idle}] /\ sleepers \in SUBSET Events
    BY DEF Init
  <2>3. changes \in 0 .. MaxChanges /\ failures \in 0 .. MaxFailures /\ breaks \in 0 .. MaxBreaks
    BY BoundsAssumption DEF Init
  <2> QED
    BY <1>2, <2>1, <2>2, <2>3 DEF Init, TypeOK
<1>4. Counted /\ Mirrored
  <2>1. \A g \in Groups : real[g] = 0 /\ status[g] = 0 /\ data[g] = 0 /\ changes = 0
    BY DEF Init
  <2> QED
    BY <1>1, <2>1 DEF Counted, Mirrored
<1>5. Crossing
  BY <1>1 DEF Init, Crossing, Slots
<1> QED
  BY <1>3, <1>4, <1>5 DEF Inv

(* The panel: a change adds one to a version and to the counter; the       *)
(* status only moves up.                                                   *)
LEMMA PanelStep ==
    ASSUME Inv, (\E g \in Groups : Change(g) \/ CatchUp(g)) \/ Break \/ Relink
    PROVE  Inv'
<1> USE BoundsAssumption DEF Inv
<1>1. ASSUME NEW g \in Groups, Change(g)
      PROVE  Inv'
  <2>1. real[g] \in Nat /\ changes \in Nat /\ real[g] =< changes /\ changes < MaxChanges
    BY <1>1 DEF Change, TypeOK, Counted, Versions
  <2>2. /\ real' \in [Groups -> Versions] /\ changes' \in 0 .. MaxChanges
        /\ real'[g] = real[g] + 1
        /\ \A h \in Groups : real[h] =< real'[h] /\ real'[h] =< changes'
    BY <1>1, <2>1 DEF Change, TypeOK, Counted, Versions
  <2>3. [group |-> g, version |-> real'[g]] \in Events
    BY <2>1, <2>2 DEF Events
  <2>4. wire' \in Seq(Events)
    BY <1>1, <2>3 DEF Change, TypeOK
  <2>5. TypeOK'
    BY <1>1, <2>2, <2>4 DEF Change, TypeOK
  <2>6. Counted'
    BY <1>1, <2>2 DEF Change, TypeOK, Counted, Versions
  <2> QED
    BY <1>1, <2>5, <2>6
       DEF Change, Mirrored, Read, Crossing, InFlight, Polling
<1>2. ASSUME NEW g \in Groups, CatchUp(g)
      PROVE  Inv'
  <2>1. /\ status' \in [Groups -> Versions]
        /\ \A h \in Groups : status[h] =< status'[h] /\ status'[h] =< real[h]
    BY <1>2 DEF CatchUp, TypeOK, Counted, Versions
  <2>2. TypeOK' /\ Counted'
    BY <1>2, <2>1 DEF CatchUp, TypeOK, Counted
  <2>3. ASSUME NEW h \in Groups, data[h] # Missing
        PROVE  data[h] =< status'[h]
    BY <2>1, <2>3 DEF Mirrored, TypeOK, Versions
  <2>4. ASSUME NEW s \in Slots, InFlight(s)
        PROVE  Read(s)'
    <3>1. poll[s] \in Polls
      BY <2>4, InFlightType
    <3>2. poll[s].floor \in [Groups -> Versions]
          /\ poll[s].got \in [Groups -> Versions \union {Missing}]
      BY <3>1 DEF Polls
    <3>3. Read(s) /\ poll' = poll
      BY <1>2, <2>4 DEF CatchUp, Mirrored
    <3>4. status \in [Groups -> Nat] /\ status' \in [Groups -> Nat]
      BY <2>1 DEF TypeOK, Versions
    <3>5. ASSUME NEW h \in Groups
          PROVE  /\ poll[s].floor[h] =< status'[h]
                 /\ poll[s].got[h] # Missing => /\ poll[s].floor[h] =< poll[s].got[h]
                                               /\ poll[s].got[h] =< status'[h]
      BY <2>1, <3>2, <3>3, <3>4 DEF Read, Versions
    <3> QED
      BY <3>3, <3>5 DEF Read
  <2>5. Mirrored'
    BY <1>2, <2>3, <2>4 DEF CatchUp, Mirrored, InFlight
  <2> QED
    BY <1>2, <2>2, <2>5 DEF CatchUp, Crossing, InFlight, Polling
<1>3. CASE Break \/ Relink
  <2>1. << >> \in Seq(Events)
    OBVIOUS
  <2>2. breaks' \in 0 .. MaxBreaks
    BY <1>3 DEF Break, Relink, TypeOK
  <2>3. wire' \in Seq(Events)
    BY <1>3, <2>1 DEF Break, Relink, TypeOK
  <2>4. linked' \in BOOLEAN
    BY <1>3 DEF Break, Relink, TypeOK
  <2>5. TypeOK'
    BY <1>3, <2>2, <2>3, <2>4 DEF Break, Relink, TypeOK
  <2> QED
    BY <1>3, <2>5 DEF Break, Relink, Counted, Mirrored, Read, Crossing, InFlight, Polling
<1> QED
  BY <1>1, <1>2, <1>3

(* A refresh goes on: what it reads lies between its floor and the status, *)
(* and a failed request leaves the group out.                              *)
LEMMA RequestAnswered ==
    ASSUME Inv, NEW s \in Slots, Answer(s) \/ Fail(s)
    PROVE  /\ Inv' /\ InFlight(s)'
           /\ \A t \in Slots : InFlight(t)' <=> InFlight(t)
           /\ \A t \in Slots : InFlight(t) => poll'[t].floor = poll[t].floor
<1> DEFINE g == Order[poll[s].at]
           new == [poll[s] EXCEPT !.at = @ + 1, !.got[g] = status[g]]
           short == [poll[s] EXCEPT !.at = @ + 1]
<1>1. poll[s] \in Polls /\ InFlight(s)
  BY InFlightType DEF Answer, Fail, Inv
<1>2. poll[s].at \in 1 .. Len(Order) /\ Len(Order) \in Nat
  BY <1>1, GroupsAssumption DEF Answer, Fail, Polls
<1>3. g \in Groups
  BY <1>2, OrderType
<1>4. poll'[s] = new \/ poll'[s] = short
  BY <1>1 DEF Answer, Fail, Inv, TypeOK
<1>5. \A t \in Slots \ {s} : poll'[t] = poll[t]
  BY DEF Answer, Fail, Inv, TypeOK
<1>6. status \in [Groups -> Versions] /\ UNCHANGED <<status, data, armed>>
  BY DEF Inv, TypeOK, Answer, Fail, panel
<1>7. /\ poll'[s] \in Polls
      /\ poll'[s].floor = poll[s].floor /\ poll'[s].crossed = poll[s].crossed
      /\ \A h \in Groups : poll'[s].got[h] = poll[s].got[h] \/ poll'[s].got[h] = status[h]
  <2> HIDE DEF g
  <2>1. CASE poll'[s] = new
    <3>1. PICK p \in Polls : poll[s] = p
      BY <1>1
    <3>2. /\ p.at + 1 \in 1 .. Len(Order) + 1
          /\ [p.got EXCEPT ![g] = status[g]] \in [Groups -> Versions \union {Missing}]
      BY <1>2, <1>3, <1>6, <3>1 DEF Polls, Answer, Fail
    <3>3. new = [[p EXCEPT !.at = @ + 1] EXCEPT !.got = [p.got EXCEPT ![g] = status[g]]]
      BY <3>1 DEF Polls
    <3>4. new \in Polls
      BY <3>2, <3>3 DEF Polls
    <3>5. /\ new.floor = p.floor /\ new.crossed = p.crossed
          /\ new.got = [p.got EXCEPT ![g] = status[g]]
      BY <3>1, <3>3 DEF Polls
    <3>6. \A h \in Groups : new.got[h] = p.got[h] \/ new.got[h] = status[h]
      BY <3>1, <3>5 DEF Polls
    <3> QED
      BY <2>1, <3>1, <3>4, <3>5, <3>6
  <2>2. CASE poll'[s] = short
    BY <1>1, <1>2, <2>2 DEF Polls
  <2> QED
    BY <1>4, <2>1, <2>2
<1>8. \A t \in Slots : InFlight(t)' <=> InFlight(t)
  <2>1. Idle \notin Polls
    BY DEF Idle, Polls
  <2> QED
    BY <1>1, <1>5, <1>7, <2>1 DEF InFlight
<1>9. poll' \in [Slots -> Polls \union {Idle}]
  BY <1>5, <1>7 DEF Answer, Fail, Inv, TypeOK
<1>10. TypeOK'
  BY <1>9, BoundsAssumption DEF Answer, Fail, panel, Inv, TypeOK
<1>11. Read(s)'
  <2>1. Read(s) /\ poll[s].floor \in [Groups -> Versions]
    BY <1>1 DEF Inv, Mirrored, Polls
  <2> QED
    BY <1>6, <1>7, <2>1 DEF Read, Versions
<1>12. Mirrored'
  BY <1>5, <1>6, <1>8, <1>11 DEF Inv, Mirrored, Read
<1>13. Crossing'
  <2>1. \A t \in Slots : poll'[t].crossed = poll[t].crossed /\ poll'[t].floor = poll[t].floor
    BY <1>5, <1>7
  <2> QED
    BY <1>6, <1>8, <2>1 DEF Inv, Crossing, Polling, Slots
<1> QED
  BY <1>1, <1>5, <1>7, <1>8, <1>10, <1>12, <1>13 DEF Inv, Counted, Answer, Fail, panel

(* A refresh ends: what it got is shown from now on, and any other in      *)
(* flight has been crossed by it.                                          *)
LEMMA FinishStep ==
    ASSUME Inv, NEW s \in Slots, Finish(s)
    PROVE  Inv'
<1>1. poll[s] \in Polls /\ InFlight(s)
  BY InFlightType DEF Finish, Inv
<1>2. /\ poll'[s] = Idle
      /\ \A t \in Slots \ {s} : poll'[t] = poll[t]
      /\ \A t \in Slots : InFlight(t)' <=> InFlight(t) /\ t # s
  BY DEF Finish, Inv, TypeOK, InFlight
<1>3. data' = poll[s].got /\ UNCHANGED panel /\ armed' = Polling
  BY DEF Finish
<1>4. TypeOK'
  <2>1. data' \in [Groups -> Versions \union {Missing}]
    BY <1>1, <1>3 DEF Polls
  <2>2. sleepers' \in SUBSET Events
    BY <1>1 DEF Finish, Polls, Inv, TypeOK
  <2>3. poll' \in [Slots -> Polls \union {Idle}]
    BY DEF Finish, Inv, TypeOK
  <2> QED
    BY <2>1, <2>2, <2>3 DEF Finish, panel, Inv, TypeOK, Polling
<1>5. Mirrored'
  <2>1. Read(s)
    BY <1>1 DEF Inv, Mirrored
  <2> QED
    BY <1>2, <1>3, <2>1 DEF panel, Inv, Mirrored, Read
<1>6. Crossing'
  <2>1. ASSUME NEW t \in Slots, InFlight(t)'
        PROVE  poll'[t].crossed /\ Polling
    BY <1>1, <1>2, <2>1 DEF Inv, Crossing
  <2> QED
    BY <1>3, <2>1 DEF Crossing, Polling, Slots
<1> QED
  BY <1>3, <1>4, <1>5, <1>6 DEF panel, Inv, Counted

(* The timers, the events and whoever else asks for a refresh.             *)
LEMMA AskStep ==
    ASSUME Inv,
           Scheduled \/ TimerEnds \/ ServiceRequest \/ HandleEvent \/ \E e \in Events : FollowUp(e)
    PROVE  Inv'
<1>1. ASSUME Refreshes', UNCHANGED <<real, status, linked, changes, breaks, data, failures>>,
             wire' \in Seq(Events), sleepers' \in SUBSET Events
      PROVE  Inv'
  BY <1>1 DEF Refreshes, Inv, TypeOK, Counted
<1>2. NoEvent \in Events \union {NoEvent} /\ "asked" \in Slots /\ "scheduled" \in Slots
  BY DEF Slots
<1>3. CASE Scheduled
  <2>1. Polling
    BY <1>3 DEF Scheduled, Inv, Crossing
  <2>2. Refreshes'
    BY <1>2, <1>3, <2>1, BeginStep DEF Scheduled, panel
  <2> QED
    BY <1>1, <1>3, <2>2 DEF Scheduled, panel, Inv, TypeOK
<1>4. CASE TimerEnds
  <2>1. CASE atEnd /\ ~Locked
    <3>1. Refreshes'
      BY <1>2, <1>4, <2>1, BeginStep DEF TimerEnds, panel, Locked
    <3> QED
      BY <1>1, <1>4, <3>1 DEF TimerEnds, panel, Inv, TypeOK
  <2>2. CASE ~(atEnd /\ ~Locked)
    BY <1>4, <2>2 DEF TimerEnds, panel, Inv, TypeOK, Counted, Mirrored, Read, Crossing,
                      InFlight, Polling
  <2> QED
    BY <2>1, <2>2
<1>5. CASE ServiceRequest
  <2>1. Refreshes'
    BY <1>2, <1>5, RequestStep DEF ServiceRequest, panel
  <2> QED
    BY <1>1, <1>5, <2>1 DEF ServiceRequest, panel, Inv, TypeOK
<1>6. CASE HandleEvent
  <2>1. Head(wire) \in Events /\ Tail(wire) \in Seq(Events)
    BY <1>6 DEF HandleEvent, Inv, TypeOK
  <2>2. Refreshes'
    BY <1>6, <2>1, RequestStep DEF HandleEvent
  <2> QED
    BY <1>1, <1>6, <2>1, <2>2 DEF HandleEvent, Inv, TypeOK
<1>7. ASSUME NEW e \in Events, FollowUp(e)
      PROVE  Inv'
  <2>1. Refreshes'
    BY <1>2, <1>7, RequestStep DEF FollowUp, panel
  <2> QED
    BY <1>1, <1>7, <2>1 DEF FollowUp, panel, Inv, TypeOK
<1> QED
  BY <1>3, <1>4, <1>5, <1>6, <1>7

LEMMA InvStep == Inv /\ [Next]_vars => Inv'
<1> SUFFICES ASSUME Inv, [Next]_vars
             PROVE  Inv'
  OBVIOUS
<1>1. CASE UNCHANGED vars
  BY <1>1 DEF vars, panel, Inv, TypeOK, Counted, Mirrored, Read, Crossing, InFlight, Polling
<1>2. CASE Next
  BY <1>2, PanelStep, RequestAnswered, FinishStep, AskStep DEF Next
<1> QED
  BY <1>1, <1>2

(* The invariant holds throughout.                                         *)
THEOREM Invariance == Spec => []Inv
<1> QED
  BY InvInit, InvStep, PTL DEF Spec

(* The coordinator is type-correct; in particular no version overtakes the *)
(* number of changes.                                                      *)
THEOREM TypeCorrect == Spec => []TypeOK
<1>1. Inv => TypeOK
  BY DEF Inv
<1> QED
  BY <1>1, Invariance, PTL

-----------------------------------------------------------------------------
(* The refinement of StatusMirror, and what follows without it.            *)

(* The floors of the polls in flight, as the instance maps them.           *)
Floors == [s \in Slots |-> IF InFlight(s) THEN poll[s].floor ELSE [g \in Groups |-> Missing]]

(* No floor of a poll in flight looks like that of a slot without one,     *)
(* unless there are no groups at all.                                      *)
LEMMA FloorIsOpen ==
    ASSUME Inv, NEW s \in Slots, InFlight(s), NEW g \in Groups
    PROVE  Floors[s][g] \in Nat /\ Floors[s] # [h \in Groups |-> Missing]
<1>1. poll[s].floor \in [Groups -> Versions]
  BY InFlightType DEF Inv, Polls
<1>2. Floors[s] = poll[s].floor
  BY DEF Floors
<1> QED
  BY <1>1, <1>2, MissingAssumption DEF Versions

(* A refresh that begins is the beginning of a poll of the mirror.         *)
LEMMA BeginRefines ==
    ASSUME Inv, NEW s \in Slots, NEW e, ~InFlight(s), Begin(s, e), UNCHANGED <<status, data>>
    PROVE  Mirror!Begin(s)
<1>1. Floors[s] = Mirror!NotOpen
  BY DEF Floors, Mirror!NotOpen
<1>2. \A t \in Slots : Floors'[t] = IF t = s THEN status ELSE Floors[t]
  <2> SUFFICES ASSUME NEW t \in Slots
               PROVE  Floors'[t] = IF t = s THEN status ELSE Floors[t]
    OBVIOUS
  <2>1. CASE t = s
    <3>1. poll'[s].floor = status /\ poll'[s].at = 1
      BY DEF Begin
    <3>2. InFlight(s)'
      BY <3>1 DEF InFlight, Idle
    <3> QED
      BY <2>1, <3>1, <3>2 DEF Floors
  <2>2. CASE t # s /\ InFlight(t)
    <3>1. poll[t] \in Polls
      BY <2>2, InFlightType DEF Inv
    <3>2. poll'[t] = [poll[t] EXCEPT !.crossed = TRUE]
      BY <2>2 DEF Begin
    <3>3. poll'[t].floor = poll[t].floor /\ poll'[t] \in Polls
      BY <3>1, <3>2 DEF Polls
    <3>4. poll'[t] # Idle
      BY <3>3, GroupsAssumption DEF Polls, Idle
    <3> QED
      BY <2>2, <3>3, <3>4 DEF Floors, InFlight
  <2>3. CASE t # s /\ ~InFlight(t)
    BY <2>3 DEF Begin, Floors, InFlight
  <2> QED
    BY <2>1, <2>2, <2>3
<1>3. Floors' = [Floors EXCEPT ![s] = status]
  BY <1>2 DEF Floors
<1> QED
  BY <1>1, <1>3 DEF Mirror!Begin, Floors

LEMMA RequestRefines ==
    ASSUME Inv, NEW e, Request(e), UNCHANGED <<status, data>>
    PROVE  Mirror!Begin("asked") \/ UNCHANGED <<status, data, Floors>>
<1>1. CASE RunsNow
  BY <1>1, BeginRefines DEF Request, RunsNow, Locked, Slots
<1>2. CASE ~RunsNow
  BY <1>2 DEF Request, Floors, InFlight
<1> QED
  BY <1>1, <1>2

(* A refresh that ends shows, of each group, what it read of it: something *)
(* between its floor and the status of now.                                *)
LEMMA FinishRefines ==
    ASSUME Inv, NEW s \in Slots, Finish(s)
    PROVE  Mirror!End(s) \/ UNCHANGED <<status, data, Floors>>
<1>1. InFlight(s) /\ poll[s] \in Polls /\ Read(s)
  BY InFlightType DEF Inv, Finish, Mirrored
<1>2. data' = poll[s].got /\ status' = status
  BY DEF Finish, panel
<1>3. Floors' = [Floors EXCEPT ![s] = [g \in Groups |-> Missing]]
  <2>1. /\ poll'[s] = Idle
        /\ \A t \in Slots \ {s} : poll'[t] = poll[t]
    BY DEF Finish, Inv, TypeOK
  <2> QED
    BY <2>1 DEF Floors, InFlight
<1>4. CASE Groups = {}
  <2>1. data \in [{} -> {}] /\ data' \in [{} -> {}]
    BY <1>1, <1>2, <1>4 DEF Inv, TypeOK, Polls
  <2>2. Floors[s] = [g \in Groups |-> Missing]
    BY <1>1, <1>4 DEF Floors, Polls
  <2>3. Floors' = Floors
    BY <1>3, <2>2 DEF Floors
  <2> QED
    BY <1>2, <2>1, <2>3
<1>5. CASE Groups # {}
  <2>1. Floors[s] # Mirror!NotOpen
    BY <1>1, <1>5, FloorIsOpen DEF Mirror!NotOpen
  <2>2. ASSUME NEW g \in Groups
        PROVE  data'[g] = Missing \/ data'[g] \in Floors[s][g] .. status[g]
    BY <1>1, <1>2 DEF Read, Polls, Versions, Floors, Inv, TypeOK
  <2>3. DOMAIN data' = Groups
    BY <1>1, <1>2 DEF Polls
  <2> QED
    BY <1>2, <1>3, <2>1, <2>2, <2>3 DEF Mirror!End, Mirror!NotOpen, Floors
<1> QED
  BY <1>4, <1>5

LEMMA StepRefines == Inv /\ [Next]_vars => [Mirror!Next]_(Mirror!vars)
<1> SUFFICES ASSUME Inv, [Next]_vars
             PROVE  Mirror!Next \/ UNCHANGED <<status, data, Floors>>
  BY DEF Mirror!vars, Floors
<1>1. ASSUME NEW g \in Groups, CatchUp(g)
      PROVE  Mirror!Report
  <2>1. status'[g] > status[g] /\ status' = [status EXCEPT ![g] = status'[g]]
    BY <1>1 DEF CatchUp, Inv, TypeOK, Counted, Versions
  <2>2. UNCHANGED <<data, Floors>>
    BY <1>1 DEF CatchUp, Floors, InFlight
  <2> QED
    BY <2>1, <2>2 DEF Mirror!Report, Floors
<1>2. ASSUME NEW s \in Slots, Answer(s) \/ Fail(s)
      PROVE  UNCHANGED <<status, data, Floors>>
  <2>1. Floors' = Floors
    BY <1>2, RequestAnswered DEF Floors
  <2> QED
    BY <1>2, <2>1 DEF Answer, Fail, panel
<1>3. CASE Scheduled
  BY <1>3, BeginRefines DEF Scheduled, Slots, panel, Mirror!Next
<1>4. CASE TimerEnds
  <2>1. CASE atEnd /\ ~Locked
    BY <1>4, <2>1, BeginRefines DEF TimerEnds, Locked, Slots, panel, Mirror!Next
  <2>2. CASE ~(atEnd /\ ~Locked)
    BY <1>4, <2>2 DEF TimerEnds, Floors, InFlight, panel
  <2> QED
    BY <2>1, <2>2
<1>5. CASE ServiceRequest \/ HandleEvent \/ \E e \in Events : FollowUp(e)
  BY <1>5, RequestRefines DEF ServiceRequest, HandleEvent, FollowUp, Slots, panel, Mirror!Next
<1>6. ASSUME NEW s \in Slots, Finish(s)
      PROVE  Mirror!Next \/ UNCHANGED <<status, data, Floors>>
  BY <1>6, FinishRefines DEF Mirror!Next
<1>7. CASE (\E g \in Groups : Change(g)) \/ Break \/ Relink \/ UNCHANGED vars
  BY <1>7 DEF Change, Break, Relink, vars, panel, Floors, InFlight
<1> QED
  BY <1>1, <1>2, <1>3, <1>4, <1>5, <1>6, <1>7 DEF Next, Mirror!Next

(* SecurityCoordinator shows, per group, what the panel reported between   *)
(* the beginning and the end of a refresh, or nothing: it implements       *)
(* StatusMirror, whatever overlaps, fails, lags or is lost.                *)
THEOREM Refinement == Spec => MirrorSpec
<1>1. Init => Mirror!Init
  BY DEF Init, Mirror!Init, Mirror!NotOpen, InFlight
<1> QED
  BY <1>1, Invariance, StepRefines, PTL DEF Spec, MirrorSpec, Mirror!Spec

(* An entity steps back to an older value only at the end of a refresh     *)
(* that met another one, which takes polling to be on.                     *)
THEOREM StepsBackOnlyByOverlap == Spec => OlderOnlyByOverlap
<1> DEFINE Back(g) == data[g] # Missing /\ data'[g] # Missing /\ data'[g] < data[g]
           Met == Polling /\ \E s \in Slots : InFlight(s) /\ poll[s].crossed /\ ~InFlight(s)'
<1>1. ASSUME Inv, [Next]_vars, NEW g \in Groups, Back(g)
      PROVE  Met
  <2>1. data[g] \in Nat /\ data' # data
    BY <1>1 DEF Inv, TypeOK, Versions
  <2>2. PICK s \in Slots : Finish(s)
    BY <1>1, <2>1 DEF Next, vars, Change, CatchUp, Break, Relink, Scheduled, TimerEnds,
                      ServiceRequest, Answer, Fail, HandleEvent, FollowUp
  <2>3. InFlight(s) /\ poll[s] \in Polls /\ Read(s) /\ ~InFlight(s)' /\ data' = poll[s].got
    BY <1>1, <2>2, InFlightType DEF Finish, Inv, TypeOK, InFlight, Mirrored
  <2>4. poll[s].floor[g] =< poll[s].got[g]
    BY <1>1, <2>3 DEF Read
  <2>5. poll[s].floor[g] \in Nat /\ poll[s].got[g] \in Nat
    BY <1>1, <2>3 DEF Polls, Versions
  <2>6. poll[s].crossed
    BY <1>1, <2>1, <2>3, <2>4, <2>5 DEF Inv, Crossing
  <2> QED
    BY <1>1, <2>3, <2>6 DEF Inv, Crossing
<1>2. Inv /\ [Next]_vars =>
        [\A g \in Groups : data[g] # Missing /\ data'[g] # Missing /\ data'[g] < data[g]
            => Polling /\ \E s \in Slots : InFlight(s) /\ poll[s].crossed /\ ~InFlight(s)']_vars
  BY <1>1
<1> QED
  BY <1>2, Invariance, PTL DEF Spec, OlderOnlyByOverlap
=============================================================================
