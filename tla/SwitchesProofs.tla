--------------------------- MODULE SwitchesProofs ---------------------------
(***************************************************************************)
(* Proofs about Switches, for every set of controls, callers and scenes    *)
(* and any number of calls, changes and failures: the types, that two      *)
(* exclusive events come on together only by a call somebody got in the    *)
(* way of, that a call nobody disturbed has its effect and no other, and   *)
(* that a switch never shows a wrong state without a reason.               *)
(***************************************************************************)
EXTENDS Switches, TLAPS

(* What the types need: a version of a document, on the device or in the   *)
(* hands of a call, counts changes; only whole documents are read first; a *)
(* refresh reads what a coordinator follows and nothing else.              *)
Bounded ==
    /\ \A k \in scene.controls : device[k].rest =< changes
    /\ \A c \in Callers : Active(c) =>
          /\ call[c].control \in scene.controls /\ call[c].doc.rest =< changes
          /\ call[c].at \in {"mutex", "get"} => Whole(call[c].control)
    /\ refresh # NoRefresh =>
          /\ \A k \in refresh.left : Followed(k)
          /\ \A k \in scene.controls : ~Followed(k) => refresh.data[k] = Unknown

(* What a call that nobody disturbed may rely on: the rivals it found off  *)
(* are off, the document it has read is the device's, and what it has      *)
(* written is there.                                                       *)
UndisturbedCall(c) ==
    LET k == call[c].control
    IN  /\ call[c].at \in {"get", "put"} /\ Checks(k, call[c].want) =>
              \A e \in Excl(k) \intersect scene.controls : e \in call[c].seen /\ ~device[e].on
        /\ call[c].at = "put" /\ Whole(k) => k \in call[c].seen /\ call[c].doc = device[k]
        /\ call[c].at = "answer" =>
              /\ k \in call[c].seen /\ device[k].on = call[c].want
              /\ Kind[k] = "holiday" /\ call[c].want => device[k].dated

Undisturbed == \A c \in Callers : Active(c) /\ ~call[c].stale => UndisturbedCall(c)

(* A call that has written k and not returned.                             *)
Answering(k) ==
    \E c \in Callers : Active(c) /\ call[c].control = k /\ call[c].at = "answer"

(* Explained, made inductive: of the calls only those that have written    *)
(* excuse a switch, and what a refresh has read is accounted for as what   *)
(* is shown.                                                               *)
Accounted ==
    /\ \A k \in scene.controls \ Disabled :
          \/ shown[k] = device[k].on \/ k \in excused \/ Answering(k)
          \/ Followed(k) /\ (pending \/ refresh # NoRefresh)
    /\ refresh # NoRefresh =>
          \A k \in scene.controls : Followed(k) /\ k \notin refresh.left =>
              refresh.data[k] = device[k].on \/ k \in excused \/ Answering(k) \/ pending

Inv == TypeOK /\ Bounded /\ Undisturbed /\ Accounted

-----------------------------------------------------------------------------
(* The operators the model is built from.                                  *)

LEMMA CallType ==
    ASSUME TypeOK, NEW c \in Callers
    PROVE  Active(c) <=> call[c] \in Calls
<1>1. NoCall \notin Calls
  BY DEF NoCall, Calls
<1> QED
  BY <1>1 DEF Active, TypeOK

LEMMA SceneType ==
    ASSUME TypeOK
    PROVE  /\ scene.controls \subseteq Controls
           /\ scene.checking \in BOOLEAN /\ scene.polling \in BOOLEAN
BY ScenesAssumption DEF TypeOK

(* Whoever writes a document leaves every call as it is, except that those *)
(* that have seen the document are stale from then on.                     *)
LEMMA DisturbedCalls ==
    ASSUME TypeOK, NEW others \in SUBSET Callers, NEW k, NEW d \in Callers
    PROVE  LET new == Disturbed(others, k)[d]
           IN  /\ ~Active(d) => new = NoCall
               /\ Active(d) =>
                    /\ new \in Calls /\ new # NoCall
                    /\ new.at = call[d].at /\ new.control = call[d].control
                    /\ new.want = call[d].want /\ new.doc = call[d].doc
                    /\ new.seen = call[d].seen
                    /\ ~new.stale => ~call[d].stale /\ (d \in others => k \notin call[d].seen)
<1> DEFINE new == Disturbed(others, k)[d]
<1>1. CASE ~Active(d)
  BY <1>1 DEF Disturbed, Active
<1>2. CASE Active(d)
  <2>1. call[d] \in Calls
    BY <1>2, CallType
  <2>2. new = IF d \in others /\ k \in call[d].seen THEN [call[d] EXCEPT !.stale = TRUE] ELSE call[d]
    BY <1>2 DEF Disturbed
  <2>3. [call[d] EXCEPT !.stale = TRUE] \in Calls
    BY <2>1 DEF Calls
  <2>4. \A x \in Calls : x # NoCall
    BY DEF Calls, NoCall
  <2>5. CASE d \in others /\ k \in call[d].seen
    BY <1>2, <2>1, <2>2, <2>3, <2>4, <2>5 DEF Calls
  <2>6. CASE ~(d \in others /\ k \in call[d].seen)
    BY <1>2, <2>1, <2>2, <2>4, <2>6
  <2> QED
    BY <2>5, <2>6
<1> QED
  BY <1>1, <1>2

(* A rival of a control has it for a rival, and is another one.            *)
LEMMA Rivals ==
    ASSUME NEW k \in Controls, NEW e \in Excl(k)
    PROVE  e # k /\ k \in Excl(e) /\ k \in HasMutex
<1>1. PICK s \in Excluding : k \in s /\ e \in s /\ e # k
  BY DEF Excl
<1>2. s \subseteq HasMutex
  BY ControlsAssumption
<1> QED
  BY <1>1, <1>2 DEF Excl

(* What is read first and written back whole is read back by a coordinator,*)
(* unless it is disabled.                                                  *)
LEMMA WholeIsFollowed ==
    ASSUME NEW k \in Controls
    PROVE  /\ Whole(k) => ~Local(k)
           /\ Followed(k) <=> ~Local(k) /\ k \notin Disabled
           /\ Local(k) => k \notin Disabled /\ k \notin HasMutex
           /\ k \in HasMutex => Whole(k)
BY ControlsAssumption DEF Whole, Local, Followed

-----------------------------------------------------------------------------
(* The inductive invariant, action by action.                              *)

LEMMA InvInit == Init => Inv
<1> SUFFICES ASSUME Init
             PROVE  Inv
  OBVIOUS
<1>1. \A c \in Callers : ~Active(c) /\ call[c] = NoCall
  BY DEF Init, Active
<1>2. scene.controls \subseteq Controls
  BY ScenesAssumption DEF Init
<1>3. /\ device \in [scene.controls -> Documents]
      /\ \A k \in scene.controls : device[k].rest = 0 /\ device[k].on \in BOOLEAN
  <2>1. [on : BOOLEAN, rest : {0}, dated : {FALSE}] \subseteq Documents
    <3>1. 0 \in 0 .. MaxChanges
      BY BoundsAssumption
    <3> QED
      BY <3>1 DEF Documents
  <2> QED
    BY <2>1 DEF Init
<1>4. TypeOK
  <2>1. shown \in [scene.controls -> BOOLEAN \union {Unknown}]
    BY <1>3 DEF Init
  <2>2. \A k \in scene.controls \intersect Disabled : shown[k] = Unknown
    BY DEF Init
  <2>3. calls \in 0 .. MaxCalls /\ changes \in 0 .. MaxChanges /\ upsets \in 0 .. MaxUpsets
    BY BoundsAssumption DEF Init
  <2>4. \A c \in Callers : call[c].at # "mutex"
    BY <1>1 DEF NoCall
  <2> QED
    BY <1>3, <2>1, <2>2, <2>3, <2>4 DEF Init, TypeOK
<1>5. Bounded
  BY <1>1, <1>3 DEF Init, Bounded
<1>6. Undisturbed
  BY <1>1 DEF Undisturbed
<1>7. Accounted
  BY DEF Init, Accounted
<1> QED
  BY <1>4, <1>5, <1>6, <1>7 DEF Inv

(* Somebody else changes the device: calls that have seen the document are *)
(* stale, and a switch that shows the former state is excused.             *)
LEMMA DeviceStep ==
    ASSUME Inv, NEW k \in scene.controls, DeviceChanges(k)
    PROVE  Inv'
<1>1. /\ changes \in Nat /\ changes < MaxChanges /\ changes' = changes + 1
      /\ changes' \in 0 .. MaxChanges
  BY BoundsAssumption DEF DeviceChanges, Inv, TypeOK
<1>2. PICK doc \in {[device[k] EXCEPT !.on = ~@], [device[k] EXCEPT !.rest = @ + 1, !.dated = FALSE]} :
          device' = [device EXCEPT ![k] = doc]
  BY DEF DeviceChanges
<1>3. device[k] \in Documents /\ device[k].rest =< changes
  BY DEF Inv, TypeOK, Bounded
<1>4. doc \in Documents /\ doc.rest =< changes'
  <2>1. CASE doc = [device[k] EXCEPT !.on = ~@]
    <3>1. doc = [device[k] EXCEPT !.on = FALSE] \/ doc = [device[k] EXCEPT !.on = TRUE]
      <4>1. device[k].on = TRUE \/ device[k].on = FALSE
        BY <1>3 DEF Documents
      <4>2. CASE device[k].on = TRUE
        BY <2>1, <4>2, Zenon
      <4>3. CASE device[k].on = FALSE
        BY <2>1, <4>3, Zenon
      <4> QED
        BY <4>1, <4>2, <4>3
    <3>2. doc \in Documents
      BY <1>3, <3>1 DEF Documents
    <3>3. doc.rest = device[k].rest /\ device[k].rest \in Nat
      BY <1>3, <3>1 DEF Documents
    <3> QED
      BY <1>1, <1>3, <3>2, <3>3
  <2>2. CASE doc = [device[k] EXCEPT !.rest = @ + 1, !.dated = FALSE]
    <3>1. device[k].rest + 1 \in 0 .. MaxChanges
      BY <1>1, <1>3, BoundsAssumption DEF Documents
    <3>2. PICK d \in Documents : device[k] = d
      BY <1>3
    <3>3. doc \in Documents
      BY <2>2, <3>1, <3>2 DEF Documents
    <3>4. doc.rest = d.rest + 1
      BY <2>2, <3>2 DEF Documents
    <3>5. d.rest \in Nat
      BY <3>2 DEF Documents
    <3> QED
      BY <1>1, <1>3, <3>2, <3>3, <3>4, <3>5
  <2> QED
    BY <1>2, <2>1, <2>2
<1>5. /\ device' \in [scene.controls -> Documents]
      /\ \A j \in scene.controls : device'[j] = IF j = k THEN doc ELSE device[j]
  BY <1>2, <1>4 DEF Inv, TypeOK
<1>6. scene' = scene /\ UNCHANGED <<shown, refresh, pending, calls, upsets>>
      /\ call' = Disturbed(Callers, k)
  BY DEF DeviceChanges
<1>7. \A d \in Callers :
         /\ Active(d)' <=> Active(d)
         /\ Active(d) => /\ call'[d] \in Calls
                         /\ call'[d].at = call[d].at /\ call'[d].control = call[d].control
                         /\ call'[d].want = call[d].want /\ call'[d].doc = call[d].doc
                         /\ call'[d].seen = call[d].seen
                         /\ ~call'[d].stale => ~call[d].stale /\ k \notin call[d].seen
         /\ ~Active(d) => call'[d] = NoCall
  BY <1>6, DisturbedCalls DEF Inv, Active
<1>8. TypeOK'
  <2>1. call' \in [Callers -> Calls \union {NoCall}]
    BY <1>6, <1>7 DEF Disturbed
  <2>2. \A c \in Callers : call'[c].at = "mutex" => call'[c].control \in HasMutex
    BY <1>7 DEF Inv, TypeOK, NoCall
  <2>3. excused' \subseteq scene.controls
    BY DEF DeviceChanges, Inv, TypeOK
  <2> QED
    BY <1>1, <1>5, <1>6, <2>1, <2>2, <2>3 DEF Inv, TypeOK
<1>9. Bounded'
  <2>1. \A j \in scene.controls : device'[j].rest =< changes'
    BY <1>1, <1>4, <1>5 DEF Inv, Bounded, TypeOK, Documents
  <2>2. ASSUME NEW c \in Callers, Active(c)
        PROVE  call[c].doc.rest =< changes'
    <3>1. call[c].doc.rest \in Nat /\ call[c].doc.rest =< changes
      BY <2>2, CallType DEF Inv, Bounded, Calls, Documents
    <3> QED
      BY <1>1, <3>1
  <2> QED
    BY <1>6, <1>7, <2>1, <2>2 DEF Inv, Bounded
<1>10. Undisturbed'
  <2> SUFFICES ASSUME NEW c \in Callers, Active(c)', ~call'[c].stale
               PROVE  UndisturbedCall(c)'
    BY DEF Undisturbed
  <2>1. Active(c) /\ ~call[c].stale /\ k \notin call[c].seen /\ UndisturbedCall(c)
    BY <1>7 DEF Inv, Undisturbed
  <2>2. call[c].control \in scene.controls
    BY <2>1 DEF Inv, Bounded
  <2> QED
    BY <1>5, <1>6, <1>7, <2>1, <2>2 DEF UndisturbedCall, Checks
<1>11. Accounted'
  <2>1. \A j : Answering(j)' <=> Answering(j)
    BY <1>7 DEF Answering
  <2>2. /\ \A j \in scene.controls : device'[j].on # device[j].on => j \in excused'
        /\ excused \subseteq excused'
    BY <1>5 DEF DeviceChanges
  <2> QED
    BY <1>6, <2>1, <2>2 DEF Inv, Accounted
<1> QED
  BY <1>8, <1>9, <1>10, <1>11 DEF Inv

(* A call begins: it has seen nothing yet.                                 *)
LEMMA TurnStep ==
    ASSUME Inv, NEW c \in Callers, NEW k \in scene.controls, NEW want \in BOOLEAN,
           TurnOnOff(c, k, want)
    PROVE  Inv'
<1> DEFINE new == [at |-> FirstRequest(k, want), control |-> k, want |-> want,
                   doc |-> NoDocument, seen |-> {}, stale |-> FALSE]
<1>1. k \in Controls
  BY SceneType DEF Inv
<1>2. NoDocument \in Documents /\ NoDocument.rest = 0
  BY BoundsAssumption DEF NoDocument, Documents
<1>3. /\ FirstRequest(k, want) \in {"mutex", "get", "put"}
      /\ FirstRequest(k, want) = "mutex" => k \in HasMutex
      /\ FirstRequest(k, want) \in {"mutex", "get"} => Whole(k)
      /\ Checks(k, want) => FirstRequest(k, want) = "mutex"
      /\ Whole(k) => FirstRequest(k, want) # "put"
  BY <1>1, WholeIsFollowed DEF FirstRequest, Checks
<1>4. new \in Calls /\ new # NoCall
  BY <1>1, <1>2, <1>3 DEF Calls, NoCall
<1>5. call' = [call EXCEPT ![c] = new] /\ UNCHANGED <<scene, device, shown, refresh, pending, excused, changes, upsets>>
  BY DEF TurnOnOff
<1>6. call'[c] = new /\ \A d \in Callers \ {c} : call'[d] = call[d]
  BY <1>5 DEF Inv, TypeOK
<1>7. TypeOK'
  <2>1. call' \in [Callers -> Calls \union {NoCall}]
    BY <1>4, <1>5 DEF Inv, TypeOK
  <2>2. \A d \in Callers : call'[d].at = "mutex" => call'[d].control \in HasMutex
    BY <1>3, <1>6 DEF Inv, TypeOK
  <2>3. calls' \in 0 .. MaxCalls
    BY BoundsAssumption DEF TurnOnOff, Inv, TypeOK
  <2> QED
    BY <1>5, <2>1, <2>2, <2>3 DEF Inv, TypeOK
<1>8. Bounded'
  <2>1. 0 =< changes
    BY DEF Inv, TypeOK
  <2> QED
    BY <1>2, <1>3, <1>5, <1>6, <2>1 DEF Inv, Bounded, Active
<1>9. Undisturbed'
  <2>1. UndisturbedCall(c)'
    BY <1>3, <1>5, <1>6 DEF UndisturbedCall, Checks
  <2> QED
    BY <1>5, <1>6, <2>1 DEF Inv, Undisturbed, UndisturbedCall, Checks, Active
<1>10. Accounted'
  <2>1. \A j : Answering(j) => Answering(j)'
    <3> SUFFICES ASSUME NEW j, NEW d \in Callers, Active(d), call[d].control = j,
                        call[d].at = "answer"
                 PROVE  Answering(j)'
      BY DEF Answering
    <3>1. d # c
      BY DEF TurnOnOff
    <3> QED
      BY <1>6, <3>1 DEF Answering, Active
  <2> QED
    BY <1>5, <2>1 DEF Inv, Accounted
<1> QED
  BY <1>7, <1>8, <1>9, <1>10 DEF Inv

(* A call ends.  Its own switch is accounted for from then on by the       *)
(* refresh it asked for, or by what it shows itself, or it is excused.     *)
LEMMA ReturnStep ==
    ASSUME Inv, NEW c \in Callers, NEW ok \in BOOLEAN, NEW reached \in BOOLEAN,
           Active(c), Return(c, ok, reached), upsets' \in 0 .. MaxUpsets,
           reached <=> call[c].at = "answer", ok /\ ~reached => Whole(call[c].control)
    PROVE  Inv'
<1> DEFINE k == call[c].control
<1>1. /\ k \in scene.controls /\ k \in Controls /\ call[c].want \in BOOLEAN
      /\ call[c] \in Calls
  BY CallType, SceneType DEF Inv, Bounded, Calls
<1>2. /\ call' = [call EXCEPT ![c] = NoCall]
      /\ shown' = IF ok /\ Local(k) THEN [shown EXCEPT ![k] = call[c].want] ELSE shown
      /\ UNCHANGED <<scene, device, refresh, calls, changes>>
  BY DEF Return
<1>3. call'[c] = NoCall /\ \A d \in Callers \ {c} : call'[d] = call[d]
  BY <1>2 DEF Inv, TypeOK
<1>4. \A d \in Callers : Active(d)' <=> Active(d) /\ d # c
  BY <1>3 DEF Active
<1>5. pending' \in BOOLEAN /\ excused' \subseteq scene.controls
  BY <1>1 DEF Return, RequestRefresh, Inv, TypeOK
<1>6. TypeOK'
  <2>1. call' \in [Callers -> Calls \union {NoCall}]
    BY <1>2 DEF Inv, TypeOK
  <2>2. \A d \in Callers : call'[d].at = "mutex" => call'[d].control \in HasMutex
    BY <1>3 DEF Inv, TypeOK, NoCall
  <2>3. shown' \in [scene.controls -> BOOLEAN \union {Unknown}]
    BY <1>1, <1>2 DEF Inv, TypeOK
  <2>4. \A j \in scene.controls \intersect Disabled : shown'[j] = Unknown
    BY <1>1, <1>2, WholeIsFollowed DEF Inv, TypeOK
  <2> QED
    BY <1>2, <1>5, <2>1, <2>2, <2>3, <2>4 DEF Inv, TypeOK
<1>7. Bounded'
  BY <1>2, <1>3, <1>4 DEF Inv, Bounded
<1>8. Undisturbed'
  BY <1>2, <1>3, <1>4 DEF Inv, Undisturbed, UndisturbedCall, Checks
<1>9. \A j : Answering(j) /\ j # k => Answering(j)'
  BY <1>3, <1>4 DEF Answering
<1>10. \A j \in scene.controls : j # k =>
          shown'[j] = shown[j] /\ (j \in excused' <=> j \in excused) /\ (pending => pending')
  <2>1. \A j \in scene.controls : j # k => shown'[j] = shown[j]
    BY <1>2 DEF Inv, TypeOK
  <2>2. \A j : j # k => (j \in excused' <=> j \in excused)
    BY DEF Return, RequestRefresh
  <2>3. pending => pending'
    BY DEF Return, RequestRefresh
  <2> QED
    BY <2>1, <2>2, <2>3
<1>11. CASE AsksRefresh(k, ok)
  <2>1. ~Local(k)
    BY <1>11 DEF AsksRefresh, Local
  <2>2. pending' \/ (refresh # NoRefresh /\ k \in excused')
    BY <1>11 DEF Return, RequestRefresh
  <2>3. k \notin Disabled => Followed(k)
    BY <1>1, <2>1, WholeIsFollowed
  <2>4. Accounted'
    BY <1>2, <1>9, <1>10, <2>2, <2>3 DEF Inv, Accounted, Followed, Local
  <2> QED
    BY <1>6, <1>7, <1>8, <2>4 DEF Inv
<1>12. CASE ~AsksRefresh(k, ok)
  <2>1. Kind[k] \notin {"event", "output"} /\ (ok => Local(k)) /\ pending' = pending
    BY <1>12 DEF AsksRefresh, Return
  <2>2. ok => reached
    BY <1>1, <2>1, WholeIsFollowed
  <2>3. CASE ~reached
    <3>1. excused' = excused /\ shown' = shown
      BY <1>2, <1>12, <2>2, <2>3 DEF Return
    <3>2. \A j : Answering(j) => Answering(j)'
      <4> SUFFICES ASSUME NEW j, NEW d \in Callers, Active(d), call[d].control = j,
                          call[d].at = "answer"
                   PROVE  Answering(j)'
        BY DEF Answering
      <4>1. d # c
        BY <2>3
      <4> QED
        BY <1>3, <1>4, <4>1 DEF Answering
    <3>3. Accounted'
      BY <1>2, <2>1, <3>1, <3>2 DEF Inv, Accounted, Followed, Local
    <3> QED
      BY <1>6, <1>7, <1>8, <3>3 DEF Inv
  <2>4. CASE reached /\ ok /\ ~call[c].stale
    <3>1. shown'[k] = device[k].on
      BY <1>1, <1>2, <2>1, <2>4 DEF Inv, TypeOK, Undisturbed, UndisturbedCall
    <3>2. Local(k)
      BY <2>1, <2>4
    <3> QED
      BY <1>2, <1>6, <1>7, <1>8, <1>9, <1>10, <2>1, <3>1, <3>2
         DEF Inv, Accounted, Followed, Local
  <2>5. CASE reached /\ ~(ok /\ ~call[c].stale)
    <3>1. k \in excused'
      BY <1>12, <2>1, <2>5 DEF Return
    <3> QED
      BY <1>2, <1>6, <1>7, <1>8, <1>9, <1>10, <2>1, <3>1 DEF Inv, Accounted, Followed, Local
  <2> QED
    BY <2>3, <2>4, <2>5
<1> QED
  BY <1>11, <1>12

(* A call goes on to its next request; it has not written yet.             *)
LEMMA AdvanceStep ==
    ASSUME Inv, NEW c \in Callers, NEW new \in Calls, Active(c), call[c].at # "answer",
           call' = [call EXCEPT ![c] = new],
           new.at \in {"get", "put"}, new.control = call[c].control,
           new.doc.rest =< changes, new.at = "get" => Whole(new.control),
           new.stale = call[c].stale,
           UndisturbedCall(c) /\ ~call[c].stale => UndisturbedCall(c)',
           UNCHANGED <<scene, device, shown, refresh, pending, excused, calls, changes, upsets>>
    PROVE  Inv'
<1>1. call'[c] = new /\ \A d \in Callers \ {c} : call'[d] = call[d]
  BY DEF Inv, TypeOK
<1>2. \A d \in Callers : Active(d)' <=> Active(d)
  <2>1. new # NoCall
    BY DEF Calls, NoCall
  <2> QED
    BY <1>1, <2>1 DEF Active
<1>3. TypeOK'
  <2>1. call' \in [Callers -> Calls \union {NoCall}]
    BY DEF Inv, TypeOK
  <2>2. \A d \in Callers : call'[d].at = "mutex" => call'[d].control \in HasMutex
    BY <1>1 DEF Inv, TypeOK
  <2> QED
    BY <2>1, <2>2 DEF Inv, TypeOK
<1>4. Bounded'
  BY <1>1, <1>2 DEF Inv, Bounded
<1>5. Undisturbed'
  <2>1. ~call'[c].stale => UndisturbedCall(c)'
    BY <1>1 DEF Inv, Undisturbed
  <2>2. \A d \in Callers \ {c} : UndisturbedCall(d) => UndisturbedCall(d)'
    BY <1>1 DEF UndisturbedCall, Checks
  <2> QED
    BY <1>1, <1>2, <2>1, <2>2 DEF Inv, Undisturbed
<1>6. Accounted'
  <2>1. \A j : Answering(j) => Answering(j)'
    BY <1>1, <1>2 DEF Answering
  <2> QED
    BY <2>1 DEF Inv, Accounted
<1> QED
  BY <1>3, <1>4, <1>5, <1>6 DEF Inv

LEMMA MutexStep ==
    ASSUME Inv, NEW c \in Callers, MutexChecked(c)
    PROVE  Inv'
<1> DEFINE k == call[c].control
           rivals == Excl(k) \intersect scene.controls
           new == [call[c] EXCEPT !.at = "get", !.seen = rivals]
<1>1. /\ Active(c) /\ call[c].at = "mutex" /\ call[c] \in Calls
      /\ k \in scene.controls /\ k \in Controls /\ Whole(k)
  BY CallType, SceneType DEF MutexChecked, Inv, Bounded
<1>2. CASE /\ \A e \in rivals : ~device[e].on
           /\ call' = [call EXCEPT ![c].at = "get", ![c].seen = rivals]
           /\ UNCHANGED <<scene, device, shown, refresh, pending, excused, calls, changes, upsets>>
  <2>1. rivals \in SUBSET Controls
    BY SceneType DEF Inv
  <2>2. call' = [call EXCEPT ![c] = new]
    BY <1>2, <1>1 DEF Inv, TypeOK, Calls
  <2>3. /\ new \in Calls /\ new.at = "get" /\ new.control = k /\ new.seen = rivals
        /\ new.doc = call[c].doc /\ new.stale = call[c].stale
    BY <1>1, <2>1 DEF Calls
  <2>4. call'[c] = new
    BY <2>2 DEF Inv, TypeOK
  <2>5. UndisturbedCall(c)'
    BY <1>2, <2>3, <2>4 DEF UndisturbedCall
  <2>6. new.doc.rest =< changes
    BY <1>1, <2>3 DEF Inv, Bounded
  <2> HIDE DEF new
  <2> QED
    BY <1>1, <1>2, <2>2, <2>3, <2>5, <2>6, AdvanceStep
<1>3. CASE Return(c, FALSE, FALSE) /\ UNCHANGED upsets
  <2>1. upsets' \in 0 .. MaxUpsets
    BY <1>3 DEF Inv, TypeOK
  <2> QED
    BY <1>1, <1>3, <2>1, ReturnStep
<1> QED
  BY <1>2, <1>3 DEF MutexChecked

LEMMA ReadStep ==
    ASSUME Inv, NEW c \in Callers, DocumentRead(c)
    PROVE  Inv'
<1> DEFINE k == call[c].control
           new == [call[c] EXCEPT !.at = "put", !.doc = device[k], !.seen = @ \union {k}]
<1>1. /\ Active(c) /\ call[c].at = "get" /\ call[c] \in Calls
      /\ k \in scene.controls /\ k \in Controls /\ Whole(k) /\ device[k] \in Documents
      /\ upsets' = upsets /\ upsets' \in 0 .. MaxUpsets
  BY CallType, SceneType DEF DocumentRead, Inv, TypeOK, Bounded
<1>2. CASE /\ call' = [call EXCEPT ![c].at = "put", ![c].doc = device[k],
                                   ![c].seen = @ \union {k}]
           /\ UNCHANGED <<scene, device, shown, refresh, pending, excused, calls, changes>>
  <2>1. call[c].seen \union {k} \in SUBSET Controls
    BY <1>1 DEF Calls
  <2>2. call' = [call EXCEPT ![c] = new]
    BY <1>2, <1>1 DEF Inv, TypeOK, Calls
  <2>3. /\ new \in Calls /\ new.at = "put" /\ new.control = k /\ new.doc = device[k]
        /\ new.want = call[c].want /\ new.stale = call[c].stale
        /\ new.seen = call[c].seen \union {k}
    BY <1>1, <2>1 DEF Calls
  <2>4. call'[c] = new
    BY <2>2 DEF Inv, TypeOK
  <2>5. UndisturbedCall(c) => UndisturbedCall(c)'
    <3> HIDE DEF new
    <3>1. device' = device /\ scene' = scene
      BY <1>2
    <3>2. k \in call'[c].seen /\ call'[c].doc = device'[k] /\ call'[c].control = k
      BY <2>3, <2>4, <3>1
    <3>3. UndisturbedCall(c) /\ Checks(k, call[c].want) =>
             \A x \in Excl(k) \intersect scene.controls : x \in call'[c].seen /\ ~device[x].on
      BY <1>1, <2>3, <2>4 DEF UndisturbedCall
    <3> QED
      BY <2>3, <2>4, <3>1, <3>2, <3>3 DEF UndisturbedCall, Checks, Excl
  <2>6. new.doc.rest =< changes
    BY <1>1, <2>3 DEF Inv, Bounded
  <2> HIDE DEF new
  <2> QED
    BY <1>1, <1>2, <2>2, <2>3, <2>5, <2>6, AdvanceStep
<1>3. CASE Return(c, TRUE, FALSE) \/ Return(c, FALSE, FALSE)
  BY <1>1, <1>3, ReturnStep
<1> QED
  BY <1>1, <1>2, <1>3 DEF DocumentRead

LEMMA AnswerStep ==
    ASSUME Inv, NEW c \in Callers, Answered(c) \/ RequestFails(c)
    PROVE  Inv'
<1>1. Active(c)
  BY DEF Answered, RequestFails
<1>2. upsets' \in 0 .. MaxUpsets
  <2>1. upsets' = upsets \/ Upset
    BY DEF Answered, RequestFails
  <2> QED
    BY <2>1, BoundsAssumption DEF Upset, Inv, TypeOK
<1>3. \/ call[c].at = "answer" /\ (Return(c, TRUE, TRUE) \/ Return(c, FALSE, TRUE))
      \/ call[c].at # "answer" /\ Return(c, FALSE, FALSE)
  BY DEF Answered, RequestFails
<1> QED
  BY <1>1, <1>2, <1>3, ReturnStep

(* What a PUT leaves on the device: nothing but the switch, and the dates  *)
(* of a holiday, differ from what the call has read.                       *)
LEMMA WrittenDocument ==
    ASSUME Inv, NEW c \in Callers, Active(c)
    PROVE  LET k == call[c].control
           IN  /\ Written(c) \in Documents /\ Written(c).rest =< changes
               /\ Written(c).on = call[c].want
               /\ Kind[k] = "holiday" /\ call[c].want => Written(c).dated
               /\ Written(c).rest = IF Whole(k) THEN call[c].doc.rest ELSE device[k].rest
<1> DEFINE k == call[c].control
           dates == call[c].doc.dated \/ (Kind[k] = "holiday" /\ call[c].want)
<1>1. /\ call[c] \in Calls /\ k \in scene.controls
      /\ call[c].doc \in Documents /\ device[k] \in Documents /\ call[c].want \in BOOLEAN
      /\ call[c].doc.rest =< changes /\ device[k].rest =< changes
  BY CallType DEF Inv, TypeOK, Bounded, Calls
<1>2. CASE Whole(k)
  <2>1. PICK want \in BOOLEAN : want = call[c].want
    BY <1>1
  <2>2. PICK dated \in BOOLEAN : dated = dates
    BY <1>1 DEF Documents
  <2>3. PICK doc \in Documents : doc = call[c].doc
    BY <1>1
  <2>4. Written(c) = [doc EXCEPT !.on = want, !.dated = dated]
    BY <1>2, <2>1, <2>2, <2>3, Zenon DEF Written
  <2>5. /\ Written(c) \in Documents /\ Written(c).on = want
        /\ Written(c).dated = dated /\ Written(c).rest = doc.rest
    BY <2>4 DEF Documents
  <2> QED
    BY <1>1, <1>2, <2>1, <2>2, <2>3, <2>5
<1>3. CASE ~Whole(k)
  <2>1. PICK doc \in Documents : doc = device[k]
    BY <1>1
  <2>2. Written(c) = [doc EXCEPT !.on = call[c].want]
    BY <1>3, <2>1, Zenon DEF Written
  <2>3. Written(c) \in Documents /\ Written(c).on = call[c].want /\ Written(c).rest = doc.rest
    BY <1>1, <2>1, <2>2 DEF Documents
  <2> QED
    BY <1>1, <1>3, <2>1, <2>3 DEF Whole
<1> QED
  BY <1>2, <1>3

(* A call writes: every other call that has seen the document is stale.    *)
LEMMA PutStep ==
    ASSUME Inv, NEW c \in Callers, PutArrives(c)
    PROVE  /\ Inv'
           /\ call[c].control \in scene.controls
           /\ \A j \in scene.controls :
                 device'[j] = IF j = call[c].control THEN Written(c) ELSE device[j]
<1> DEFINE k == call[c].control
           others == Disturbed(Callers \ {c}, k)
           new == [call[c] EXCEPT !.at = "answer", !.seen = @ \union {k}]
<1>1. /\ Active(c) /\ call[c].at = "put" /\ call[c] \in Calls
      /\ k \in scene.controls /\ k \in Controls
      /\ UNCHANGED <<scene, shown, refresh, pending, excused, calls, changes, upsets>>
  BY CallType, SceneType DEF PutArrives, Inv, Bounded
<1>2. /\ device' = [device EXCEPT ![k] = Written(c)]
      /\ device' \in [scene.controls -> Documents]
      /\ \A j \in scene.controls : device'[j] = IF j = k THEN Written(c) ELSE device[j]
  BY <1>1, WrittenDocument DEF PutArrives, Inv, TypeOK
<1>3. others[c] = call[c] /\ others \in [Callers -> Calls \union {NoCall}]
  <2>1. others[c] = call[c]
    BY DEF Disturbed
  <2>2. \A d \in Callers : others[d] \in Calls \union {NoCall}
    BY DisturbedCalls DEF Inv
  <2> QED
    BY <2>1, <2>2 DEF Disturbed
<1>4. call' = [others EXCEPT ![c].at = "answer", ![c].seen = @ \union {k}]
  BY DEF PutArrives
<1>5. call' = [others EXCEPT ![c] = new]
  BY <1>1, <1>3, <1>4 DEF Calls
<1>6. /\ new \in Calls /\ new # NoCall /\ new.at = "answer" /\ new.control = k
      /\ new.want = call[c].want /\ new.doc = call[c].doc
      /\ new.seen = call[c].seen \union {k} /\ new.stale = call[c].stale
  <2>1. call[c].seen \union {k} \in SUBSET Controls
    BY <1>1 DEF Calls
  <2> QED
    BY <1>1, <2>1 DEF Calls, NoCall
<1>7. call'[c] = new /\ \A d \in Callers \ {c} : call'[d] = others[d]
  BY <1>3, <1>5
<1>8. \A d \in Callers \ {c} :
         /\ Active(d)' <=> Active(d)
         /\ Active(d) => /\ call'[d].at = call[d].at /\ call'[d].control = call[d].control
                         /\ call'[d].want = call[d].want /\ call'[d].doc = call[d].doc
                         /\ call'[d].seen = call[d].seen
                         /\ ~call'[d].stale => ~call[d].stale /\ k \notin call[d].seen
         /\ ~Active(d) => call'[d] = NoCall
  BY <1>7, DisturbedCalls DEF Inv, Active
<1>9. Active(c)'
  BY <1>6, <1>7 DEF Active
<1> HIDE DEF new, others
<1>10. TypeOK'
  <2>1. call' \in [Callers -> Calls \union {NoCall}]
    BY <1>3, <1>5, <1>6
  <2>2. \A d \in Callers : call'[d].at = "mutex" => call'[d].control \in HasMutex
    BY <1>6, <1>7, <1>8 DEF Inv, TypeOK, NoCall
  <2> QED
    BY <1>1, <1>2, <2>1, <2>2 DEF Inv, TypeOK
<1>11. Bounded'
  <2>1. Written(c).rest =< changes
    BY <1>1, WrittenDocument
  <2> QED
    BY <1>1, <1>2, <1>6, <1>7, <1>8, <2>1 DEF Inv, Bounded
<1>12. Undisturbed'
  <2>1. UndisturbedCall(c)'
    BY <1>1, <1>2, <1>6, <1>7, WrittenDocument DEF UndisturbedCall
  <2>2. ASSUME NEW d \in Callers \ {c}, Active(d)', ~call'[d].stale
        PROVE  UndisturbedCall(d)'
    <3>1. /\ Active(d) /\ ~call[d].stale /\ k \notin call[d].seen
          /\ UndisturbedCall(d) /\ call[d].control \in scene.controls
      BY <1>8, <2>2 DEF Inv, Undisturbed, Bounded
    <3> QED
      BY <1>1, <1>2, <1>8, <3>1 DEF UndisturbedCall, Checks
  <2> QED
    BY <2>1, <2>2 DEF Undisturbed
<1>13. Accounted'
  <2>1. \A j : Answering(j) => Answering(j)'
    <3> SUFFICES ASSUME NEW j, NEW d \in Callers, Active(d), call[d].control = j,
                        call[d].at = "answer"
                 PROVE  Answering(j)'
      BY DEF Answering
    <3>1. d # c
      BY <1>1
    <3> QED
      BY <1>8, <3>1 DEF Answering
  <2>2. \A j : j = k => Answering(j)'
    BY <1>6, <1>7, <1>9 DEF Answering
  <2>3. \A j \in scene.controls : device'[j].on = device[j].on \/ Answering(j)'
    BY <1>2, <2>2
  <2> HIDE DEF k
  <2> QED
    BY <1>1, <2>1, <2>3 DEF Inv, Accounted
<1> QED
  BY <1>1, <1>2, <1>10, <1>11, <1>12, <1>13 DEF Inv

(* The coordinator.                                                        *)
LEMMA BeginsStep ==
    ASSUME Inv, RefreshBegins
    PROVE  Inv'
<1> DEFINE followed == {k \in scene.controls : Followed(k)}
           nothing == [k \in scene.controls |-> Unknown]
<1>1. /\ UNCHANGED <<scene, device, call, shown, excused, calls, changes, upsets>>
      /\ pending' = FALSE /\ refresh = NoRefresh
      /\ refresh' = [at |-> "reading", left |-> followed, data |-> nothing]
  BY DEF RefreshBegins
<1>2. followed \in SUBSET scene.controls /\ nothing \in [scene.controls -> BOOLEAN \union {Unknown}]
  OBVIOUS
<1>3. refresh'.left = followed /\ refresh'.data = nothing /\ refresh' # NoRefresh
  BY <1>1 DEF NoRefresh
<1>4. TypeOK'
  BY <1>1, <1>2 DEF Inv, TypeOK
<1>5. Bounded'
  BY <1>1, <1>3 DEF Inv, Bounded, Active
<1>6. Undisturbed'
  BY <1>1 DEF Inv, Undisturbed, UndisturbedCall, Checks, Active
<1>7. Accounted'
  <2>1. \A k : Answering(k)' <=> Answering(k)
    BY <1>1 DEF Answering, Active
  <2> QED
    BY <1>1, <1>3, <2>1 DEF Inv, Accounted
<1> QED
  BY <1>4, <1>5, <1>6, <1>7 DEF Inv

LEMMA StateStep ==
    ASSUME Inv, NEW k \in scene.controls, StateRead(k)
    PROVE  Inv'
<1> DEFINE left == refresh.left \ {k}
           read == [refresh.data EXCEPT ![k] = device[k].on]
<1>1. /\ UNCHANGED <<scene, device, call, shown, pending, calls, changes>>
      /\ refresh # NoRefresh /\ k \in refresh.left /\ Followed(k)
  BY DEF StateRead, Inv, Bounded
<1>2. refresh \in [at : {"reading"}, left : SUBSET scene.controls,
                   data : [scene.controls -> BOOLEAN \union {Unknown}]]
  BY <1>1 DEF Inv, TypeOK
<1>3. /\ left \in SUBSET scene.controls
      /\ read \in [scene.controls -> BOOLEAN \union {Unknown}]
      /\ \A j \in scene.controls : read[j] = IF j = k THEN device[k].on ELSE refresh.data[j]
  <2>1. device[k].on \in BOOLEAN
    BY DEF Inv, TypeOK, Documents
  <2> QED
    BY <1>2, <2>1
<1>4. \/ /\ refresh' = [refresh EXCEPT !.left = left, !.data = read]
         /\ excused' = excused \ {k} /\ upsets' = upsets
      \/ /\ refresh' = [refresh EXCEPT !.left = left]
         /\ excused' = excused \union {k} /\ Upset
  <2>1. [refresh EXCEPT !.left = @ \ {k}, !.data[k] = device[k].on]
           = [refresh EXCEPT !.left = left, !.data = read]
    BY <1>2
  <2> QED
    BY <2>1 DEF StateRead
<1>5. /\ refresh' \in [at : {"reading"}, left : SUBSET scene.controls,
                       data : [scene.controls -> BOOLEAN \union {Unknown}]]
      /\ refresh'.left = left /\ refresh' # NoRefresh
      /\ \/ refresh'.data = read /\ excused' = excused \ {k}
         \/ refresh'.data = refresh.data /\ excused' = excused \union {k}
  BY <1>2, <1>3, <1>4 DEF NoRefresh
<1> HIDE DEF read
<1>6. TypeOK'
  <2>1. upsets' \in 0 .. MaxUpsets
    BY <1>4, BoundsAssumption DEF Upset, Inv, TypeOK
  <2>2. excused' \subseteq scene.controls
    BY <1>5 DEF Inv, TypeOK
  <2> QED
    BY <1>1, <1>5, <2>1, <2>2 DEF Inv, TypeOK
<1>7. Bounded'
  <2>1. \A j \in refresh'.left : Followed(j)
    BY <1>1, <1>5 DEF Inv, Bounded
  <2>2. \A j \in scene.controls : ~Followed(j) => refresh'.data[j] = Unknown
    BY <1>1, <1>3, <1>5 DEF Inv, Bounded
  <2> QED
    BY <1>1, <2>1, <2>2 DEF Inv, Bounded, Active
<1>8. Undisturbed'
  BY <1>1 DEF Inv, Undisturbed, UndisturbedCall, Checks, Active
<1>9. Accounted'
  <2>1. \A j : Answering(j)' <=> Answering(j)
    BY <1>1 DEF Answering, Active
  <2>2. \A j : j # k => (j \in excused' <=> j \in excused)
    BY <1>5
  <2>3. refresh'.data[k] = device[k].on \/ k \in excused'
    BY <1>3, <1>5
  <2> QED
    BY <1>1, <1>3, <1>5, <2>1, <2>2, <2>3 DEF Inv, Accounted
<1> QED
  BY <1>6, <1>7, <1>8, <1>9 DEF Inv

LEMMA EndsStep ==
    ASSUME Inv, RefreshEnds
    PROVE  Inv'
<1>1. /\ UNCHANGED <<scene, device, call, pending, excused, calls, changes, upsets>>
      /\ refresh # NoRefresh /\ refresh.left = {} /\ refresh' = NoRefresh
  BY DEF RefreshEnds
<1>2. refresh.data \in [scene.controls -> BOOLEAN \union {Unknown}]
  BY <1>1 DEF Inv, TypeOK
<1>3. /\ shown' \in [scene.controls -> BOOLEAN \union {Unknown}]
      /\ \A k \in scene.controls :
            shown'[k] = IF Local(k) THEN shown[k] ELSE refresh.data[k]
  BY <1>2 DEF RefreshEnds, Inv, TypeOK
<1>4. TypeOK'
  <2>1. \A k \in scene.controls \intersect Disabled : shown'[k] = Unknown
    BY <1>1, <1>3 DEF Inv, TypeOK, Bounded, Followed
  <2> QED
    BY <1>1, <1>3, <2>1 DEF Inv, TypeOK
<1>5. Bounded'
  BY <1>1 DEF Inv, Bounded, Active
<1>6. Undisturbed'
  BY <1>1 DEF Inv, Undisturbed, UndisturbedCall, Checks, Active
<1>7. Accounted'
  <2>1. \A k : Answering(k)' <=> Answering(k)
    BY <1>1 DEF Answering, Active
  <2> QED
    BY <1>1, <1>3, <2>1 DEF Inv, Accounted, Followed
<1> QED
  BY <1>4, <1>5, <1>6, <1>7 DEF Inv

LEMMA InvStep == Inv /\ [Next]_vars => Inv'
<1> SUFFICES ASSUME Inv, [Next]_vars
             PROVE  Inv'
  OBVIOUS
<1>1. ASSUME NEW k \in scene.controls, DeviceChanges(k)
      PROVE  Inv'
  BY <1>1, DeviceStep
<1>2. ASSUME NEW c \in Callers, Calling(c)
      PROVE  Inv'
  <2>1. CASE \E k \in scene.controls, want \in BOOLEAN : TurnOnOff(c, k, want)
    BY <2>1, TurnStep
  <2>2. CASE MutexChecked(c)
    BY <2>2, MutexStep
  <2>3. CASE DocumentRead(c)
    BY <2>3, ReadStep
  <2>4. CASE PutArrives(c)
    BY <2>4, PutStep
  <2>5. CASE Answered(c) \/ RequestFails(c)
    BY <2>5, AnswerStep
  <2> QED
    BY <1>2, <2>1, <2>2, <2>3, <2>4, <2>5 DEF Calling
<1>3. CASE RefreshBegins
  BY <1>3, BeginsStep
<1>4. ASSUME NEW k \in scene.controls, StateRead(k)
      PROVE  Inv'
  BY <1>4, StateStep
<1>5. CASE RefreshEnds
  BY <1>5, EndsStep
<1>6. CASE UNCHANGED vars
  <2>1. TypeOK' /\ Bounded'
    BY <1>6 DEF vars, Inv, TypeOK, Bounded, Active
  <2>2. Undisturbed'
    BY <1>6 DEF vars, Inv, Undisturbed, UndisturbedCall, Checks, Active
  <2>3. Accounted'
    BY <1>6 DEF vars, Inv, Accounted, Answering, Active
  <2> QED
    BY <2>1, <2>2, <2>3 DEF Inv
<1> QED
  BY <1>1, <1>2, <1>3, <1>4, <1>5, <1>6 DEF Next, Refreshing

(* Every reachable state satisfies the inductive invariant.                *)
THEOREM Invariance == Spec => []Inv
<1> QED
  BY InvInit, InvStep, PTL DEF Spec

(* Every variable keeps its type: the counters stay in their bounds, the   *)
(* calls hold documents the device can have, the switch of an event that   *)
(* is disabled shows nothing (switch.py, coordinator.py).                  *)
THEOREM TypeCorrect == Spec => []TypeOK
<1>1. Inv => TypeOK
  BY DEF Inv
<1> QED
  BY <1>1, Invariance, PTL

(* A switch that shows something else than the device has, with no call    *)
(* and no refresh under way that would put it right, is excused.           *)
THEOREM WrongOnlyWithReason == Spec => []Explained
<1>1. Inv => Explained
  <2> SUFFICES ASSUME Inv
               PROVE  Explained
    OBVIOUS
  <2>1. \A k : Answering(k) => \E c \in Callers : Active(c) /\ call[c].control = k
    BY DEF Answering
  <2> QED
    BY <2>1 DEF Inv, Accounted, Explained
<1> QED
  BY <1>1, Invariance, PTL

(* Which steps write the device, and how a call that ends does so.         *)
LEMMA WritingSteps ==
    ASSUME Inv, [Next]_vars
    PROVE  /\ scene' = scene
           /\ \/ UNCHANGED device
              \/ changes' # changes
              \/ \E c \in Callers : PutArrives(c)
<1>1. ASSUME NEW k \in scene.controls, DeviceChanges(k)
      PROVE  changes' # changes /\ scene' = scene
  <2>1. changes \in Nat
    BY BoundsAssumption DEF Inv, TypeOK
  <2> QED
    BY <1>1, <2>1 DEF DeviceChanges
<1>2. ASSUME NEW c \in Callers, Calling(c)
      PROVE  scene' = scene /\ (UNCHANGED device \/ PutArrives(c))
  <2>1. CASE \E k \in scene.controls, want \in BOOLEAN : TurnOnOff(c, k, want)
    BY <2>1 DEF TurnOnOff
  <2>2. CASE MutexChecked(c) \/ DocumentRead(c) \/ Answered(c) \/ RequestFails(c)
    BY <2>2 DEF MutexChecked, DocumentRead, Answered, RequestFails, Return
  <2>3. CASE PutArrives(c)
    BY <2>3 DEF PutArrives
  <2> QED
    BY <1>2, <2>1, <2>2, <2>3 DEF Calling
<1>3. CASE Refreshing
  BY <1>3 DEF Refreshing, RefreshBegins, StateRead, RefreshEnds
<1>4. CASE UNCHANGED vars
  BY <1>4 DEF vars
<1> QED
  BY <1>1, <1>2, <1>3, <1>4 DEF Next

(* A call that writes is one that Puts.                                    *)
LEMMA ArrivingPuts ==
    ASSUME Inv, NEW c \in Callers, PutArrives(c)
    PROVE  Puts(c)
<1>1. Active(c) /\ call[c].at = "put" /\ call[c] \in Calls
  BY CallType DEF PutArrives, Inv
<1>2. /\ Disturbed(Callers \ {c}, call[c].control)[c] = call[c]
      /\ DOMAIN Disturbed(Callers \ {c}, call[c].control) = Callers
  BY DEF Disturbed
<1>3. call'[c].at = "answer"
  BY <1>1, <1>2 DEF PutArrives, Calls
<1>4. call'[c] # NoCall
  BY <1>3 DEF NoCall
<1> QED
  BY <1>1, <1>3, <1>4 DEF Puts

(* Two events the device cannot run together come on together only if      *)
(* somebody else changes the device, or the call did not have to ask, or   *)
(* it wrote after one of them was turned on behind its back: what a call   *)
(* has found off stays off until somebody makes the call stale.            *)
THEOREM ExclusionKept == Spec => ExclusiveByOverlap
<1> DEFINE Step == \/ Clashes' \subseteq Clashes
                   \/ changes' # changes
                   \/ ~scene.checking
                   \/ \E c \in Callers : Puts(c) /\ call[c].stale
<1>1. Inv /\ Inv' /\ [Next]_vars => [Step]_vars
  <2> SUFFICES ASSUME Inv, Inv', [Next]_vars, changes' = changes, scene.checking,
                      \A c \in Callers : Puts(c) => ~call[c].stale,
                      NEW s \in Clashes', s \notin Clashes
               PROVE  FALSE
    OBVIOUS
  <2>1. /\ s \in Excluding /\ s \subseteq scene'.controls
        /\ \A k \in s : device'[k].on
    BY DEF Clashes
  <2>2. scene' = scene /\ (UNCHANGED device \/ \E c \in Callers : PutArrives(c))
    BY WritingSteps
  <2>3. PICK e \in s : ~device[e].on
    BY <2>1, <2>2 DEF Clashes
  <2>4. PICK c \in Callers : PutArrives(c)
    BY <2>1, <2>2, <2>3
  <2> DEFINE k == call[c].control
  <2>5. /\ Active(c) /\ call[c].at = "put" /\ ~call[c].stale /\ call[c] \in Calls
        /\ k \in scene.controls
    BY <2>4, ArrivingPuts, CallType DEF PutArrives, Inv, Bounded
  <2>6. \A j \in scene.controls : device'[j] = IF j = k THEN Written(c) ELSE device[j]
    BY <2>4, PutStep
  <2>7. e = k /\ call[c].want
    <3>1. e = k
      BY <2>1, <2>2, <2>3, <2>6
    <3>2. Written(c).on = call[c].want
      BY <2>5, WrittenDocument
    <3> QED
      BY <2>1, <2>2, <2>6, <3>1, <3>2
  <2>8. k \in HasMutex
    BY <2>1, <2>7, ControlsAssumption
  <2>9. PICK j \in s : j # k
    BY <2>1, <2>7, ControlsAssumption
  <2>10. j \in Excl(k) \intersect scene.controls
    BY <2>1, <2>2, <2>7, <2>9 DEF Excl
  <2>11. ~device[j].on
    BY <2>5, <2>7, <2>8, <2>10 DEF Inv, Undisturbed, UndisturbedCall, Checks
  <2> QED
    BY <2>1, <2>2, <2>6, <2>9, <2>11
<1> QED
  BY <1>1, Invariance, PTL DEF Spec, ExclusiveByOverlap

(* A call nobody got in the way of changes nothing but its own switch, and *)
(* when it ends after its write the device is as was asked, and a holiday  *)
(* that was turned on covers today: what it wrote back is what it had      *)
(* read, and what it has written is still there.                           *)
THEOREM UndisturbedEffective == Spec => CallEffective
<1> DEFINE Effect(c) ==
             LET k == call[c].control
             IN  /\ Puts(c) => device'[k].rest = device[k].rest
                 /\ Returns(c) /\ call[c].at = "answer" =>
                       /\ device[k].on = call[c].want
                       /\ Kind[k] = "holiday" /\ call[c].want => device[k].dated
<1>1. ASSUME Inv, Next, NEW c \in Callers, Active(c), ~call[c].stale
      PROVE  Effect(c)
  <2> DEFINE k == call[c].control
  <2>1. UndisturbedCall(c) /\ k \in scene.controls /\ call[c] \in Calls
    BY <1>1, CallType DEF Inv, Undisturbed, Bounded
  <2>2. ASSUME Puts(c)
        PROVE  device'[k].rest = device[k].rest
    <3>1. call[c].at = "put" /\ call'[c].at = "answer"
      BY <2>2 DEF Puts
    <3>2. CASE UNCHANGED device
      BY <3>2
    <3>3. ASSUME NEW j \in scene.controls, DeviceChanges(j)
          PROVE  FALSE
      <4>1. call'[c].at = call[c].at
        BY <1>1, <3>3, DisturbedCalls DEF DeviceChanges, Inv
      <4> QED
        BY <3>1, <4>1
    <3>4. ASSUME NEW d \in Callers, PutArrives(d)
          PROVE  device'[k].rest = device[k].rest
      <4>1. CASE d = c
        <5>1. device'[k] = Written(c)
          BY <1>1, <2>1, <3>4, <4>1, PutStep
        <5>2. Written(c).rest = device[k].rest
          BY <1>1, <2>1, <3>1, WrittenDocument DEF UndisturbedCall
        <5> QED
          BY <5>1, <5>2
      <4>2. CASE d # c
        <5>1. call'[c] = Disturbed(Callers \ {d}, call[d].control)[c]
          BY <3>4, <4>2 DEF PutArrives, Disturbed
        <5>2. call'[c].at = call[c].at
          BY <1>1, <5>1, DisturbedCalls DEF Inv
        <5> QED
          BY <3>1, <5>2
      <4> QED
        BY <4>1, <4>2
    <3>5. \/ UNCHANGED device
          \/ \E j \in scene.controls : DeviceChanges(j)
          \/ \E d \in Callers : PutArrives(d)
      <4>1. CASE Refreshing
        BY <4>1 DEF Refreshing, RefreshBegins, StateRead, RefreshEnds
      <4>2. ASSUME NEW d \in Callers, Calling(d)
            PROVE  UNCHANGED device \/ PutArrives(d)
        <5>1. CASE \E j \in scene.controls, want \in BOOLEAN : TurnOnOff(d, j, want)
          BY <5>1 DEF TurnOnOff
        <5>2. CASE MutexChecked(d) \/ DocumentRead(d) \/ Answered(d) \/ RequestFails(d)
          BY <5>2 DEF MutexChecked, DocumentRead, Answered, RequestFails, Return
        <5> QED
          BY <4>2, <5>1, <5>2 DEF Calling
      <4> QED
        BY <1>1, <4>1, <4>2 DEF Next
    <3> QED
      BY <3>2, <3>3, <3>4, <3>5
  <2> QED
    BY <2>1, <2>2 DEF UndisturbedCall
<1>2. Inv /\ [Next]_vars =>
         [\A c \in Callers : Active(c) /\ ~call[c].stale => Effect(c)]_vars
  BY <1>1
<1> QED
  BY <1>2, Invariance, PTL DEF Spec, CallEffective
=============================================================================
