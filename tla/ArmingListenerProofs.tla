------------------------ MODULE ArmingListenerProofs ------------------------
(***************************************************************************)
(* Proofs about ArmingListener, for every delay, every set of kinds and    *)
(* every number of parts and starts: it is type-correct, nothing happens   *)
(* after async_stop has returned, and an event is lost only to a           *)
(* cancellation or to an earlier part that raised.                         *)
(***************************************************************************)
EXTENDS ArmingListener, FiniteSetTheorems, TLAPS

USE DEF AllKinds

-----------------------------------------------------------------------------
(* The operators the model is built from.                                  *)

(* The doubled delay stays between the two bounds.                         *)
LEMMA DoubledInRange ==
    ASSUME NEW d \in BaseDelay .. MaxDelay
    PROVE  Doubled(d) \in BaseDelay .. MaxDelay
BY DelayAssumption DEF Doubled

(* The parts of a kind within an interval form a finite set.               *)
LEMMA OfKindFinite ==
    ASSUME NEW i \in Nat, NEW j \in Nat, NEW K, NEW S \in SUBSET (i .. j)
    PROVE  IsFiniteSet(OfKind(S, K)) /\ Cardinality(OfKind(S, K)) \in Nat
<1>1. IsFiniteSet(i .. j)
  BY FS_Interval
<1>2. OfKind(S, K) \subseteq i .. j
  BY DEF OfKind
<1> QED
  BY <1>1, <1>2, FS_Subset, FS_CardinalityType

-----------------------------------------------------------------------------

(* What every chunk of a type-correct state satisfies: it lies on the      *)
(* wire, and so do the parts of it that are handled.                       *)
LEMMA ChunkOnWire ==
    ASSUME TypeOK, NEW last \in Wire
    PROVE  /\ read \in Nat /\ Sent \in Nat /\ last \in Nat
           /\ read < last /\ last =< Sent
           /\ (read + 1) .. last \subseteq 1 .. Sent
           /\ Handled((read + 1) .. last) \subseteq (read + 1) .. last
<1>1. Sent \in Nat
  BY DEF TypeOK, Sent
<1>2. read \in Nat /\ last \in Nat /\ read < last /\ last =< Sent
  BY <1>1 DEF TypeOK, Wire
<1>3. (read + 1) .. last \subseteq 1 .. Sent
  BY <1>1, <1>2
<1> QED
  BY <1>1, <1>2, <1>3 DEF Handled

(* The initial state is type-correct.                                      *)
LEMMA TypeInit == Init => TypeOK
<1> SUFFICES ASSUME Init
             PROVE  TypeOK
  OBVIOUS
<1>1. parts \in Seq(AllKinds) /\ Sent = 0
  BY DEF Init, Sent
<1>2. delay \in BaseDelay .. MaxDelay
  BY DelayAssumption DEF Init
<1>3. read \in 0 .. Sent /\ fired \in SUBSET (1 .. Sent) /\ followups \in SUBSET (1 .. Sent)
  BY <1>1 DEF Init
<1> QED
  BY <1>1, <1>2, <1>3 DEF Init, TypeOK

(* A chunk keeps the types.                                                *)
LEMMA TypeReadChunk ==
    ASSUME TypeOK, NEW last \in Wire, ReadChunk(last)
    PROVE  TypeOK'
<1> DEFINE chunk == (read + 1) .. last
           handled == Handled(chunk)
           asked == OfKind(handled, Refreshing)
<1> USE DelayAssumption
<1>1. /\ read \in Nat /\ Sent \in Nat /\ last \in 0 .. Sent
      /\ handled \subseteq 1 .. Sent /\ parts' = parts
  BY ChunkOnWire DEF ReadChunk
<1>2. Cardinality(asked) \in Nat
  <2>1. handled \in SUBSET (1 .. Sent)
    BY <1>1
  <2>2. 1 \in Nat
    OBVIOUS
  <2> HIDE DEF handled
  <2> QED
    BY <1>1, <2>1, <2>2, OfKindFinite
<1>3. requests' \in Nat
  BY <1>2 DEF ReadChunk, TypeOK
<1>4. fired' \in SUBSET (1 .. Sent) /\ followups' \in SUBSET (1 .. Sent)
  BY <1>1 DEF ReadChunk, TypeOK, OfKind
<1>5. delay' \in BaseDelay .. MaxDelay
  BY DEF ReadChunk, TypeOK
<1>6. read' \in 0 .. Sent /\ conn' \in {"none", "open", "eof", "dead"}
      /\ phase' \in {"none", "opening", "reading", "sleeping", "ended"}
  BY <1>1 DEF ReadChunk, TypeOK, Abandon, AfterConnection, Continue
<1>7. Sent' = Sent
  BY <1>1 DEF Sent
<1> QED
  BY <1>1, <1>3, <1>4, <1>5, <1>6, <1>7 DEF ReadChunk, TypeOK

(* The panel keeps the types: what it pushes is a part of a known kind.    *)
LEMMA TypePanel ==
    ASSUME TypeOK, Panel
    PROVE  TypeOK'
<1>1. CASE \E k \in Kinds : Push(k)
  <2>1. PICK k \in Kinds : Push(k)
    BY <1>1
  <2>2. parts' \in Seq(AllKinds) /\ Sent' = Sent + 1 /\ Sent \in Nat
    BY <2>1, KindsAssumption DEF Push, TypeOK, Sent
  <2>3. 1 .. Sent \subseteq 1 .. Sent' /\ 0 .. Sent \subseteq 0 .. Sent'
    BY <2>2
  <2> QED
    BY <2>1, <2>2, <2>3 DEF Push, PanelUnchanged, eventVars, TypeOK
<1>2. CASE \E how \in {"eof", "dead"} : Leave(how)
  BY <1>2 DEF Leave, PanelUnchanged, eventVars, TypeOK, Sent
<1> QED
  BY <1>1, <1>2 DEF Panel

(* Every step keeps the types.                                             *)
LEMMA TypeStep == TypeOK /\ [Next]_vars => TypeOK'
<1> SUFFICES ASSUME TypeOK, [Next]_vars
             PROVE  TypeOK'
  OBVIOUS
<1> USE DelayAssumption DEF panelVars, eventVars
<1>1. Sent \in Nat
  BY DEF TypeOK, Sent
<1>2. CASE Owner
  <2>1. CASE Start
    <3>1. delay' \in BaseDelay .. MaxDelay
      BY <2>1, DelayAssumption DEF Start
    <3>2. starts' \in Nat
      BY <2>1 DEF Start, TypeOK
    <3> QED
      BY <2>1, <3>1, <3>2 DEF Start, TypeOK, Sent
  <2>2. CASE Stop
    <3>1. cancelling' \in BOOLEAN /\ stopped' \in BOOLEAN
      BY <2>2 DEF Stop
    <3> QED
      BY <2>2, <3>1 DEF Stop, TypeOK, Sent
  <2>3. CASE StopReturns
    BY <2>3 DEF StopReturns, TypeOK, Sent
  <2> QED
    BY <1>2, <2>1, <2>2, <2>3 DEF Owner
<1>3. CASE OpenSucceeds \/ OpenFails \/ StreamEnds
  BY <1>3 DEF OpenSucceeds, OpenFails, StreamEnds, AfterConnection, Continue, TypeOK, Sent
<1>4. CASE \E last \in Wire : ReadChunk(last)
  BY <1>4, TypeReadChunk
<1>5. CASE WakeUp
  <2>1. delay' \in BaseDelay .. MaxDelay
    BY <1>5, DoubledInRange DEF WakeUp, TypeOK
  <2> QED
    BY <1>5, <2>1 DEF WakeUp, Continue, TypeOK, Sent
<1>6. CASE Cancelled \/ CancelReplaced
  <2>1. read' = Sent /\ conn' = "none" /\ parts' = parts /\ Sent' = Sent
    BY <1>6 DEF Cancelled, CancelReplaced, Abandon, Sent
  <2>2. read' \in 0 .. Sent
    BY <1>1, <2>1
  <2>3. cancelling' \in BOOLEAN
        /\ phase' \in {"none", "opening", "reading", "sleeping", "ended"}
    BY <1>6 DEF Cancelled, CancelReplaced, AfterConnection, Continue
  <2> QED
    BY <1>6, <2>1, <2>2, <2>3 DEF Cancelled, CancelReplaced, TypeOK
<1>7. CASE \E n \in 1 .. Sent : FollowUp(n)
  BY <1>7 DEF FollowUp, TypeOK, Sent
<1>8. CASE Panel
  BY <1>8, TypePanel
<1>9. CASE UNCHANGED vars
  BY <1>9 DEF vars, TypeOK, Sent
<1> QED
  BY <1>2, <1>3, <1>4, <1>5, <1>6, <1>7, <1>8, <1>9 DEF Next, Task

(* The listener is type-correct: in particular the delay never leaves      *)
(* BaseDelay .. MaxDelay and the task never reads past what was pushed.    *)
THEOREM TypeCorrect == Spec => []TypeOK
<1>1. Init => TypeOK
  BY TypeInit
<1>2. TypeOK /\ [Next]_vars => TypeOK'
  BY TypeStep
<1> QED
  BY <1>1, <1>2, PTL DEF Spec

-----------------------------------------------------------------------------
(* Once async_stop has returned the task is over: the inductive invariant. *)

(* A connection is open only under a task that reads it; a cancellation is *)
(* pending only while async_stop awaits it; a stop is over when the task   *)
(* is.                                                                     *)
TaskInv ==
    /\ conn # "none" => phase = "reading"
    /\ phase = "none" => stopper = "idle"
    /\ cancelling => stopper = "awaiting" /\ phase # "ended"
    /\ stopper = "done" => phase = "ended"

LEMMA TaskInit == Init => TaskInv
BY DEF Init, TaskInv

(* Every step of a type-correct state keeps TaskInv.                       *)
LEMMA TaskStep == TypeOK /\ TaskInv /\ [Next]_vars => TaskInv'
<1> SUFFICES ASSUME TypeOK, TaskInv, [Next]_vars
             PROVE  TaskInv'
  OBVIOUS
<1> USE DEF TaskInv, TypeOK, panelVars, eventVars
<1>1. CASE Owner
  BY <1>1 DEF Owner, Start, Stop, StopReturns
<1>2. CASE OpenSucceeds \/ OpenFails \/ StreamEnds \/ WakeUp
  BY <1>2 DEF OpenSucceeds, OpenFails, StreamEnds, WakeUp, AfterConnection, Continue
<1>3. CASE \E last \in Wire : ReadChunk(last)
  BY <1>3 DEF ReadChunk, Abandon, AfterConnection, Continue
<1>4. CASE Cancelled \/ CancelReplaced
  BY <1>4 DEF Cancelled, CancelReplaced, Abandon, AfterConnection, Continue
<1>5. CASE \E n \in 1 .. Sent : FollowUp(n)
  BY <1>5 DEF FollowUp
<1>6. CASE Panel
  BY <1>6 DEF Panel, Push, Leave, PanelUnchanged
<1>7. CASE UNCHANGED vars
  BY <1>7 DEF vars
<1> QED
  BY <1>1, <1>2, <1>3, <1>4, <1>5, <1>6, <1>7 DEF Next, Task

(* A step taken after async_stop has returned, other than a new start,     *)
(* fires nothing and leaves the connection alone.                          *)
LEMMA QuietStep ==
    TaskInv /\ [Next]_vars /\ stopper = "done" /\ stopper' = "done"
        => fired' = fired /\ conn' = conn
<1> SUFFICES ASSUME TaskInv, [Next]_vars, stopper = "done", stopper' = "done"
             PROVE  fired' = fired /\ conn' = conn
  OBVIOUS
<1>1. phase = "ended" /\ ~cancelling /\ conn = "none"
  BY DEF TaskInv
<1> USE <1>1 DEF panelVars, eventVars
<1>2. CASE Owner
  BY <1>2 DEF Owner, Start, Stop, StopReturns
<1>3. CASE Task
  BY <1>3 DEF Task, OpenSucceeds, OpenFails, ReadChunk, StreamEnds, WakeUp,
              Cancelled, CancelReplaced
<1>4. CASE \E n \in 1 .. Sent : FollowUp(n)
  BY <1>4 DEF FollowUp
<1>5. CASE Panel
  BY <1>5 DEF Panel, Push, Leave
<1>6. CASE UNCHANGED vars
  BY <1>6 DEF vars
<1> QED
  BY <1>2, <1>3, <1>4, <1>5, <1>6 DEF Next

(* After async_stop no event fires and no connection is opened.            *)
THEOREM StopIsQuiet == Spec => QuietAfterStop
<1>1. Init => TypeOK /\ TaskInv
  BY TypeInit, TaskInit
<1>2. TypeOK /\ TaskInv /\ [Next]_vars => (TypeOK /\ TaskInv)'
  BY TypeStep, TaskStep
<1>3. TaskInv /\ [Next]_vars
        => [stopper = "done" /\ stopper' = "done" => fired' = fired /\ conn' = conn]_vars
  BY QuietStep
<1> QED
  BY <1>1, <1>2, <1>3, PTL DEF Spec, QuietAfterStop

-----------------------------------------------------------------------------
(* No event is dropped silently.                                           *)

(* What LostOnlyToStopOrRaise says of one step.                            *)
LostExplained ==
    \A n \in OfKind(Wire, {"event"}) :
        n =< read' /\ n \notin fired'
            => cancelling \/ \E p \in OfKind(Wire, Raising) : p < n

(* An event that a chunk goes past without firing it comes after a part of *)
(* the chunk that raises.                                                  *)
LEMMA LostInChunk ==
    ASSUME TypeOK, NEW last \in Wire, ReadChunk(last),
           NEW n \in OfKind(Wire, {"event"}), n =< read', n \notin fired'
    PROVE  \E p \in OfKind(Wire, Raising) : p < n
<1> DEFINE chunk == (read + 1) .. last
<1>1. /\ read \in Nat /\ Sent \in Nat /\ last \in Nat
      /\ read < last /\ last =< Sent
  BY ChunkOnWire
<1>2. n \in Nat /\ read < n /\ n =< Sent /\ parts[n] \in {"event"}
  BY <1>1 DEF OfKind, Wire
<1>3. OfKind(chunk, Raising) \subseteq OfKind(Wire, Raising)
  BY <1>1 DEF OfKind, Wire
<1>4. CASE last < n
  <2>1. OfKind(chunk, Raising) # {}
    BY <1>1, <1>2, <1>4 DEF ReadChunk
  <2>2. PICK p \in OfKind(chunk, Raising) : TRUE
    BY <2>1
  <2>3. p < n
    BY <1>1, <1>2, <1>4, <2>2 DEF OfKind
  <2> QED
    BY <1>3, <2>2, <2>3
<1>5. CASE n =< last
  <2>1. n \in chunk /\ n \notin Handled(chunk)
    BY <1>1, <1>2, <1>5 DEF ReadChunk, OfKind
  <2>2. PICK p \in OfKind(chunk, Raising) : ~(n =< p)
    BY <2>1 DEF Handled
  <2>3. p < n
    BY <1>1, <1>2, <2>2 DEF OfKind
  <2> QED
    BY <1>3, <2>2, <2>3
<1> QED
  BY <1>1, <1>2, <1>4, <1>5

LEMMA LostStep == TypeOK /\ [Next]_vars => LostExplained
<1> SUFFICES ASSUME TypeOK, [Next]_vars,
                    NEW n \in OfKind(Wire, {"event"}), n =< read', n \notin fired'
             PROVE  cancelling \/ \E p \in OfKind(Wire, Raising) : p < n
  BY DEF LostExplained
<1>1. read \in Nat /\ Sent \in Nat
  BY DEF TypeOK, Sent
<1>2. n \in Nat /\ read < n /\ n \in Wire
  BY <1>1 DEF OfKind, Wire
<1>3. CASE read' = read
  BY <1>1, <1>2, <1>3
<1>4. CASE \E last \in Wire : ReadChunk(last)
  BY <1>4, LostInChunk
<1>5. CASE Cancelled \/ CancelReplaced
  BY <1>5 DEF Cancelled, CancelReplaced
<1>6. Owner \/ OpenSucceeds \/ OpenFails \/ StreamEnds \/ WakeUp
        \/ (\E m \in 1 .. Sent : FollowUp(m)) \/ Panel \/ UNCHANGED vars
        => read' = read
  BY DEF Owner, Start, Stop, StopReturns, OpenSucceeds, OpenFails, StreamEnds, WakeUp,
         FollowUp, Panel, Push, Leave, PanelUnchanged, vars
<1> QED
  BY <1>3, <1>4, <1>5, <1>6 DEF Next, Task

(* An event that reached the connection is lost only when the task is      *)
(* cancelled or an earlier part makes _handle_event raise.                 *)
THEOREM NothingLostSilently == Spec => LostOnlyToStopOrRaise
<1>1. Init => TypeOK
  BY TypeInit
<1>2. TypeOK /\ [Next]_vars => TypeOK'
  BY TypeStep
<1>3. TypeOK /\ [Next]_vars => [LostExplained]_vars
  BY LostStep
<1> QED
  BY <1>1, <1>2, <1>3, PTL DEF Spec, LostOnlyToStopOrRaise, LostExplained
-----------------------------------------------------------------------------
(* Keep-alives cost no request.                                            *)

(* The parts already taken that asked for refreshes.                       *)
Asked(n) == OfKind(1 .. n, {"event", "null"})

(* They form a finite set, as do the follow-ups.                           *)
LEMMA AskedFinite ==
    ASSUME NEW n \in Nat
    PROVE  IsFiniteSet(Asked(n)) /\ Cardinality(Asked(n)) \in Nat
BY OfKindFinite, 1 \in Nat DEF Asked

LEMMA FollowUpsFinite ==
    ASSUME TypeOK
    PROVE  IsFiniteSet(followups) /\ Cardinality(followups) \in Nat
<1>1. Sent \in Nat /\ followups \in SUBSET (1 .. Sent)
  BY DEF TypeOK, Sent
<1>2. IsFiniteSet(1 .. Sent)
  BY <1>1, FS_Interval
<1> QED
  BY <1>1, <1>2, FS_Subset, FS_CardinalityType

(* A set that grows by a disjoint one grows by its cardinality.            *)
LEMMA DisjointUnion ==
    ASSUME NEW S, NEW T, IsFiniteSet(S), IsFiniteSet(T), S \intersect T = {}
    PROVE  Cardinality(S \union T) = Cardinality(S) + Cardinality(T)
<1>1. Cardinality(S) \in Nat /\ Cardinality(T) \in Nat
  BY FS_CardinalityType
<1>2. Cardinality(S \union T) = Cardinality(S) + Cardinality(T) - Cardinality(S \intersect T)
  BY FS_Union
<1>3. Cardinality(S \intersect T) = 0
  BY FS_EmptySet
<1> QED
  BY <1>1, <1>2, <1>3

(* Going on to a later part loses nothing of what asked.                   *)
LEMMA AskedGrows ==
    ASSUME NEW m \in Nat, NEW n \in Nat, m =< n
    PROVE  Cardinality(Asked(m)) =< Cardinality(Asked(n))
<1>1. Asked(m) \subseteq Asked(n)
  BY DEF Asked, OfKind
<1> QED
  BY <1>1, AskedFinite, FS_Subset

(* A chunk asks once for each of its events, and those are new.            *)
LEMMA KeepAliveReadChunk ==
    ASSUME TypeOK, KeepAlivesAreFree, NEW last \in Wire, ReadChunk(last)
    PROVE  KeepAlivesAreFree'
<1> DEFINE chunk == (read + 1) .. last
           asked == OfKind(Handled(chunk), Refreshing)
<1>1. /\ read \in Nat /\ Sent \in Nat /\ last \in Nat
      /\ read < last /\ last =< Sent
      /\ Handled(chunk) \subseteq chunk
  BY ChunkOnWire
<1>2. IsFiniteSet(asked) /\ Cardinality(asked) \in Nat
  <2>1. Handled(chunk) \in SUBSET ((read + 1) .. last) /\ read + 1 \in Nat
    BY <1>1
  <2> QED
    BY <1>1, <2>1, OfKindFinite
<1>3. Cardinality(Asked(read)) + Cardinality(asked) =< Cardinality(Asked(last))
  <2>1. Asked(read) \intersect asked = {}
    BY <1>1 DEF Asked, OfKind
  <2>2. Asked(read) \union asked \subseteq Asked(last)
    BY <1>1 DEF Asked, OfKind, Refreshing
  <2>3. Cardinality(Asked(read) \union asked) =< Cardinality(Asked(last))
    BY <1>1, <2>2, AskedFinite, FS_Subset
  <2>4. Cardinality(Asked(read) \union asked) = Cardinality(Asked(read)) + Cardinality(asked)
    BY <1>1, <1>2, <2>1, AskedFinite, DisjointUnion
  <2> QED
    BY <2>3, <2>4
<1>4. read' \in Nat /\ last =< read'
  BY <1>1 DEF ReadChunk, Abandon
<1>5. Cardinality(Asked(last)) =< Cardinality(Asked(read'))
  BY <1>1, <1>4, AskedGrows
<1>6. /\ IsFiniteSet(followups) /\ Cardinality(followups) \in Nat
      /\ followups' = followups \union asked /\ requests' = requests + Cardinality(asked)
      /\ parts' = parts
  BY FollowUpsFinite DEF ReadChunk
<1>7. Cardinality(followups \union asked) =< Cardinality(followups) + Cardinality(asked)
  <2>1. Cardinality(followups \union asked)
          = Cardinality(followups) + Cardinality(asked) - Cardinality(followups \intersect asked)
    BY <1>2, <1>6, FS_Union
  <2>2. IsFiniteSet(followups \intersect asked)
    BY <1>2, FS_Subset
  <2>3. Cardinality(followups \intersect asked) \in Nat
    BY <2>2, FS_CardinalityType
  <2> QED
    BY <1>2, <1>6, <2>1, <2>3
<1>8. IsFiniteSet(followups \union asked) /\ Cardinality(followups \union asked) \in Nat
  BY <1>2, <1>6, FS_Union, FS_CardinalityType
<1>9. /\ Cardinality(Asked(read)) \in Nat /\ Cardinality(Asked(last)) \in Nat
      /\ Cardinality(Asked(read')) \in Nat /\ requests \in Nat
  BY <1>1, <1>4, AskedFinite DEF TypeOK
<1>10. requests + Cardinality(followups) =< 2 * Cardinality(Asked(read))
  BY DEF KeepAlivesAreFree, Asked
<1>11. requests' + Cardinality(followups') =< 2 * Cardinality(Asked(read'))
  <2> HIDE DEF asked
  <2> QED
    BY <1>2, <1>3, <1>5, <1>6, <1>7, <1>8, <1>9, <1>10
<1> QED
  BY <1>6, <1>11 DEF KeepAlivesAreFree, Asked, OfKind

(* The second request of a task was counted when the task was created.     *)
LEMMA KeepAliveFollowUp ==
    ASSUME TypeOK, KeepAlivesAreFree, NEW n \in 1 .. Sent, FollowUp(n)
    PROVE  KeepAlivesAreFree'
<1>1. Cardinality(followups') = Cardinality(followups) - 1
  BY FollowUpsFinite, FS_RemoveElement DEF FollowUp
<1>2. requests' + Cardinality(followups') = requests + Cardinality(followups)
  BY <1>1, FollowUpsFinite DEF FollowUp, TypeOK
<1>3. read' = read /\ parts' = parts
  BY DEF FollowUp, panelVars
<1> QED
  BY <1>2, <1>3 DEF KeepAlivesAreFree, OfKind

(* A part that arrives changes nothing about those already taken.          *)
LEMMA KeepAlivePanel ==
    ASSUME TypeOK, KeepAlivesAreFree, Panel
    PROVE  KeepAlivesAreFree'
<1>1. requests' = requests /\ followups' = followups /\ read' = read
  BY DEF Panel, Push, Leave, PanelUnchanged, eventVars
<1>2. \A n \in 1 .. read : parts'[n] = parts[n]
  BY KindsAssumption DEF Panel, Push, Leave, TypeOK, Sent
<1>3. OfKind(1 .. read, {"event", "null"})' = OfKind(1 .. read, {"event", "null"})
  BY <1>1, <1>2 DEF OfKind
<1> QED
  BY <1>1, <1>3 DEF KeepAlivesAreFree

(* Giving a connection up takes parts without asking for anything.         *)
LEMMA KeepAliveOther ==
    ASSUME TypeOK, KeepAlivesAreFree,
           requests' = requests, followups' = followups, parts' = parts,
           read' \in {read, Sent}
    PROVE  KeepAlivesAreFree'
<1>1. read \in Nat /\ read' \in Nat /\ read =< read'
  BY DEF TypeOK, Sent
<1>2. Cardinality(Asked(read)) =< Cardinality(Asked(read'))
  BY <1>1, AskedGrows
<1>3. /\ Cardinality(Asked(read)) \in Nat /\ Cardinality(Asked(read')) \in Nat
      /\ requests \in Nat /\ Cardinality(followups) \in Nat
  BY <1>1, AskedFinite, FollowUpsFinite DEF TypeOK
<1>4. requests + Cardinality(followups) =< 2 * Cardinality(Asked(read'))
  BY <1>2, <1>3 DEF KeepAlivesAreFree, Asked
<1> QED
  BY <1>4 DEF KeepAlivesAreFree, Asked, OfKind

LEMMA KeepAliveStep == TypeOK /\ KeepAlivesAreFree /\ [Next]_vars => KeepAlivesAreFree'
<1> SUFFICES ASSUME TypeOK, KeepAlivesAreFree, [Next]_vars
             PROVE  KeepAlivesAreFree'
  OBVIOUS
<1>1. CASE \E last \in Wire : ReadChunk(last)
  BY <1>1, KeepAliveReadChunk
<1>2. CASE \E n \in 1 .. Sent : FollowUp(n)
  BY <1>2, KeepAliveFollowUp
<1>3. CASE Panel
  BY <1>3, KeepAlivePanel
<1>4. CASE \/ Owner \/ OpenSucceeds \/ OpenFails \/ StreamEnds \/ WakeUp
           \/ Cancelled \/ CancelReplaced \/ UNCHANGED vars
  <2>1. /\ requests' = requests /\ followups' = followups /\ parts' = parts
        /\ read' \in {read, Sent}
    BY <1>4 DEF Owner, Start, Stop, StopReturns, OpenSucceeds, OpenFails, StreamEnds,
                WakeUp, Cancelled, CancelReplaced, Abandon, panelVars, eventVars, vars
  <2> QED
    BY <2>1, KeepAliveOther
<1> QED
  BY <1>1, <1>2, <1>3, <1>4 DEF Next, Task

(* Acknowledgments, heartbeats and empty cidEvents never lead to a request *)
(* to the panel.                                                           *)
THEOREM NoRequestForKeepAlives == Spec => []KeepAlivesAreFree
<1>1. Init => TypeOK /\ KeepAlivesAreFree
  <2>1. Init => KeepAlivesAreFree
    <3> SUFFICES ASSUME Init PROVE KeepAlivesAreFree
      OBVIOUS
    <3>1. requests = 0 /\ Cardinality(followups) = 0 /\ read = 0
      BY FS_EmptySet DEF Init
    <3>2. Cardinality(Asked(0)) \in Nat
      BY AskedFinite, 0 \in Nat
    <3> QED
      BY <3>1, <3>2 DEF KeepAlivesAreFree, Asked
  <2> QED
    BY <2>1, TypeInit
<1>2. TypeOK /\ KeepAlivesAreFree /\ [Next]_vars => (TypeOK /\ KeepAlivesAreFree)'
  BY TypeStep, KeepAliveStep
<1> QED
  BY <1>1, <1>2, PTL DEF Spec
=============================================================================
