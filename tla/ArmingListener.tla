--------------------------- MODULE ArmingListener ---------------------------
(***************************************************************************)
(* SecurityArmingListener of coordinator.py together with the generator it *)
(* iterates, ISAPIClient.open_arming_stream of isapi/isapi.py: the         *)
(* background task that keeps one subscription connection to a security    *)
(* panel open, hands every part the panel pushes to _handle_event, and     *)
(* reconnects with a growing delay until async_stop ends it.               *)
(*                                                                         *)
(* The parts that have arrived from the panel in the life of the model are *)
(* numbered from 1 (`parts' holds their kinds).  `read' is the last one    *)
(* the task has taken, so read+1 .. Len(parts) wait in the connection.     *)
(* All the parts of one chunk are handled without an await between them: a *)
(* chunk is one step.  The response of a generator that is given up is     *)
(* closed by a task of asyncio's own; here it is closed at once.           *)
(*                                                                         *)
(* Kinds of part, by what the code does with them:                         *)
(*   "ack"     nothing is yielded: the subscription acknowledgment, a      *)
(*             picture, or a part that cannot be parsed                    *)
(*   "alive"   a heartBeat, or the empty cidEvent used as keep-alive       *)
(*   "event"   an event: a refresh task is created, the bus event fires    *)
(*   "null"    an event whose CIDEvent is null: the task is created, then  *)
(*             building the bus event raises                               *)
(*   "list"    JSON that is not an object: the first line of _handle_event *)
(*             raises                                                      *)
(*                                                                         *)
(* An operator marked "slip" is a plausible mistake in the definition that *)
(* follows it; it is not part of the specification.                        *)
(***************************************************************************)
EXTENDS Naturals, Sequences, FiniteSets

CONSTANTS
    BaseDelay,      \* ARMING_RECONNECT_DELAY (5 s)
    MaxDelay,       \* ARMING_MAX_RECONNECT_DELAY (60 s)
    Kinds,          \* the kinds of part the panel may push
    MaxParts,       \* bound: parts that arrive in a behaviour
    MaxStarts       \* bound: times the entry is set up again

AllKinds == {"ack", "alive", "event", "null", "list"}

ASSUME DelayAssumption ==
    BaseDelay \in Nat \ {0} /\ MaxDelay \in Nat /\ BaseDelay =< MaxDelay
ASSUME KindsAssumption == Kinds \subseteq AllKinds
ASSUME BoundsAssumption == MaxParts \in Nat /\ MaxStarts \in Nat

VARIABLES
    phase,      \* where the task is suspended
    stopped,    \* _stopped
    cancelling, \* the task has been cancelled and has not yet seen it
    stopper,    \* how far async_stop has come
    delay,      \* the local `delay' of _async_run
    conn,       \* the subscription connection, seen from the panel
    parts,      \* kinds of all the parts that ever arrived
    read,       \* number of the last part taken or abandoned
    fired,      \* parts whose bus event has fired
    followups,  \* parts whose refresh task sleeps before its second request
    requests,   \* refreshes asked of the coordinator so far
    starts      \* history: times async_start was called

vars == <<phase, stopped, cancelling, stopper, delay, conn, parts, read,
          fired, followups, requests, starts>>

panelVars == <<parts, conn>>
eventVars == <<fired, followups, requests>>

Yielded == {"alive", "event", "null", "list"}
\* slip: the empty cidEvent is not told apart from an event
RefreshingAll == {"alive", "event", "null"}

Refreshing == {"event", "null"}
Raising == {"null", "list"}

Sent == Len(parts)
Wire == (read + 1) .. Sent
OfKind(S, K) == {n \in S : parts[n] \in K}

TypeOK ==
    /\ phase \in {"none", "opening", "reading", "sleeping", "ended"}
    /\ stopped \in BOOLEAN
    /\ cancelling \in BOOLEAN
    /\ stopper \in {"idle", "awaiting", "done"}
    /\ delay \in BaseDelay .. MaxDelay
    /\ conn \in {"none", "open", "eof", "dead"}
    /\ parts \in Seq(AllKinds)
    /\ read \in 0 .. Sent
    /\ fired \in SUBSET (1 .. Sent)
    /\ followups \in SUBSET (1 .. Sent)
    /\ requests \in Nat
    /\ starts \in Nat

Init ==
    /\ phase = "none"
    /\ stopped = FALSE
    /\ cancelling = FALSE
    /\ stopper = "idle"
    /\ delay = BaseDelay
    /\ conn = "none"
    /\ parts = << >>
    /\ read = 0
    /\ fired = {}
    /\ followups = {}
    /\ requests = 0
    /\ starts = 0

-----------------------------------------------------------------------------
(* The owner of the listener: init_coordinators starts it, unloading the   *)
(* entry stops it.  A later setup makes a new listener, which is the old   *)
(* one with its fields at their initial values.                            *)

\* async_start; the task is started eagerly and runs to its first await
Start ==
    /\ phase = "none" \/ stopper = "done"
    /\ starts < MaxStarts
    /\ stopped' = FALSE
    /\ stopper' = "idle"
    /\ phase' = "opening"
    /\ delay' = BaseDelay
    /\ starts' = starts + 1
    /\ UNCHANGED <<cancelling, read, panelVars, eventVars>>

\* async_stop up to `await self._task'
Stop ==
    /\ stopper = "idle"
    /\ phase # "none"
    /\ stopped' = TRUE
    /\ cancelling' = (phase # "ended")
    /\ stopper' = "awaiting"
    /\ UNCHANGED <<phase, delay, read, starts, panelVars, eventVars>>

\* slip: the cancelled task is not awaited
StopReturnsAtOnce ==
    /\ stopper = "awaiting"
    /\ stopper' = "done"
    /\ UNCHANGED <<phase, stopped, cancelling, delay, read, starts, panelVars,
                   eventVars>>

\* the rest of async_stop: the awaited task has ended
StopReturns ==
    /\ stopper = "awaiting"
    /\ phase = "ended"
    /\ stopper' = "done"
    /\ UNCHANGED <<phase, stopped, cancelling, delay, read, starts,
                   panelVars, eventVars>>

-----------------------------------------------------------------------------
(* The task: _async_run and open_arming_stream.                            *)

\* slip: the flag is not tested, the cancellation alone is relied on
ContinueAlways(next) == phase' = next

\* the two tests of _stopped: after the try statement and in the while
Continue(next) == phase' = IF stopped THEN "ended" ELSE next

\* what follows the try statement: return, or sleep(delay)
AfterConnection == Continue("sleeping")

\* slip: the delay is not capped
DoubledForEver(d) == 2 * d

Doubled(d) == IF 2 * d < MaxDelay THEN 2 * d ELSE MaxDelay

\* the connection is given up with everything still unread on it
Abandon == conn' = "none" /\ read' = Sent

\* slip: the delay is reset as soon as the connection is accepted
OpenSucceedsAndResets ==
    /\ phase = "opening" /\ ~cancelling
    /\ phase' = "reading"
    /\ conn' = "open"
    /\ delay' = BaseDelay
    /\ UNCHANGED <<stopped, cancelling, stopper, parts, read, starts, eventVars>>

\* subscribeEvent answered 200 with a multipart boundary
OpenSucceeds ==
    /\ phase = "opening" /\ ~cancelling
    /\ phase' = "reading"
    /\ conn' = "open"
    /\ UNCHANGED <<stopped, cancelling, stopper, delay, parts, read, starts, eventVars>>

\* slip: an error of the opening request leaves the loop
OpenFailsForGood ==
    /\ phase = "opening" /\ ~cancelling
    /\ phase' = "ended"
    /\ UNCHANGED <<stopped, cancelling, stopper, delay, read, starts,
                   panelVars, eventVars>>

\* the probe or the POST fails, answers an error, or has no boundary
OpenFails ==
    /\ phase = "opening" /\ ~cancelling
    /\ AfterConnection
    /\ UNCHANGED <<stopped, cancelling, stopper, delay, read, starts,
                   panelVars, eventVars>>

\* slip: only the first part of a chunk is taken
HandledFirst(chunk) == {n \in chunk : \A p \in chunk : n =< p}

\* the parts of a chunk that are handled: those up to the first that raises
Handled(chunk) ==
    {n \in chunk : \A p \in OfKind(chunk, Raising) : n =< p}

\* _handle_event on every part of a chunk, the parts up to number `last'
ReadChunk(last) ==
    LET chunk == (read + 1) .. last
        handled == Handled(chunk)
        yielded == OfKind(handled, Yielded)
        asked == OfKind(handled, Refreshing)
        raised == OfKind(chunk, Raising) # {}
    IN
    /\ phase = "reading" /\ ~cancelling
    /\ delay' = IF yielded # {} THEN BaseDelay ELSE delay
    /\ fired' = fired \union OfKind(handled, {"event"})
    /\ followups' = followups \union asked
    /\ requests' = requests + Cardinality(asked)
    /\ IF raised THEN AfterConnection /\ Abandon
                 ELSE read' = last /\ UNCHANGED <<phase, conn>>
    /\ UNCHANGED <<stopped, cancelling, stopper, parts, starts>>

\* the end of the response, or no chunk within ARMING_IDLE_TIMEOUT
StreamEnds ==
    /\ phase = "reading" /\ ~cancelling
    /\ Wire = {}
    /\ AfterConnection
    /\ conn' = "none"
    /\ UNCHANGED <<stopped, cancelling, stopper, delay, parts, read, starts,
                   eventVars>>

\* the sleep is over: the delay doubles and the loop condition is tested
WakeUp ==
    /\ phase = "sleeping" /\ ~cancelling
    /\ delay' = Doubled(delay)
    /\ Continue("opening")
    /\ UNCHANGED <<stopped, cancelling, stopper, read, starts,
                   panelVars, eventVars>>

\* CancelledError reaches the task at its await and ends it
Cancelled ==
    /\ cancelling
    /\ phase \in {"opening", "reading", "sleeping"}
    /\ cancelling' = FALSE
    /\ phase' = "ended"
    /\ Abandon
    /\ UNCHANGED <<stopped, stopper, delay, parts, starts, eventVars>>

\* closing the response while it unwinds raises instead of CancelledError
CancelReplaced ==
    /\ cancelling
    /\ phase \in {"opening", "reading"}
    /\ cancelling' = FALSE
    /\ AfterConnection
    /\ Abandon
    /\ UNCHANGED <<stopped, stopper, delay, parts, starts, eventVars>>

\* the second request of _async_refresh_with_followup, after its sleep
FollowUp(n) ==
    /\ n \in followups
    /\ followups' = followups \ {n}
    /\ requests' = requests + 1
    /\ UNCHANGED <<phase, stopped, cancelling, stopper, delay, read, fired,
                   starts, panelVars>>

-----------------------------------------------------------------------------
(* The panel.                                                              *)

PanelUnchanged == UNCHANGED <<phase, stopped, cancelling, stopper, delay, read,
                              starts, eventVars>>

Push(k) ==
    /\ conn = "open" /\ Sent < MaxParts
    /\ parts' = Append(parts, k)
    /\ UNCHANGED conn
    /\ PanelUnchanged

\* the panel ends the response ("eof") or falls silent ("dead")
Leave(how) ==
    /\ conn = "open"
    /\ conn' = how
    /\ UNCHANGED parts
    /\ PanelUnchanged

Panel == (\E k \in Kinds : Push(k)) \/ (\E how \in {"eof", "dead"} : Leave(how))

Task == \/ OpenSucceeds \/ OpenFails
        \/ \E last \in Wire : ReadChunk(last)
        \/ StreamEnds \/ WakeUp \/ Cancelled \/ CancelReplaced

Owner == Start \/ Stop \/ StopReturns

Next == Owner \/ Task \/ (\E n \in 1 .. Sent : FollowUp(n)) \/ Panel

Spec == Init /\ [][Next]_vars

(* asyncio runs what is ready: a sleep ends, a cancelled task sees the      *)
(* cancellation, received bytes are read, a stream that ended or went      *)
(* silent is noticed (EOF, ARMING_IDLE_TIMEOUT).  An open is answered or   *)
(* times out, and a panel that is asked again and again is assumed to      *)
(* accept some day.                                                        *)
Fairness ==
    /\ WF_vars(WakeUp)
    /\ WF_vars(Cancelled \/ CancelReplaced)
    /\ WF_vars(StopReturns)
    /\ WF_vars(\E last \in Wire : ReadChunk(last))
    /\ WF_vars(conn \in {"eof", "dead"} /\ StreamEnds)
    /\ WF_vars(OpenSucceeds \/ OpenFails) /\ SF_vars(OpenSucceeds)
    /\ \A n \in 1 .. MaxParts : WF_vars(FollowUp(n))

FairSpec == Spec /\ Fairness

-----------------------------------------------------------------------------
(* After async_stop has returned, and until the entry is set up again, no  *)
(* bus event fires and no connection to the panel is opened: awaiting the  *)
(* cancelled task in async_stop is what makes this so.                     *)
QuietAfterStop ==
    [][stopper = "done" /\ stopper' = "done" => fired' = fired /\ conn' = conn]_vars

(* An event that reached the connection is never dropped silently: when    *)
(* the task goes past it without firing it, the task was being cancelled   *)
(* or an earlier part of the same chunk made _handle_event raise.          *)
LostOnlyToStopOrRaise ==
    [][\A n \in OfKind(Wire, {"event"}) :
         n =< read' /\ n \notin fired'
             => cancelling \/ \E p \in OfKind(Wire, Raising) : p < n]_vars

(* Only events make the integration poll the panel (the immediate refresh  *)
(* and one follow-up each): acknowledgments, heartbeats and the empty      *)
(* cidEvent keep-alives cost no request.                                   *)
KeepAlivesAreFree ==
    requests + Cardinality(followups)
        =< 2 * Cardinality(OfKind(1 .. read, {"event", "null"}))

(* async_stop returns, also when the CancelledError it caused is replaced  *)
(* by an error of the closing connection.                                  *)
StopCompletes == stopper = "awaiting" ~> stopper = "done"

(* A listener that is not stopped gets its connection back.                *)
Reconnects == phase \in {"opening", "sleeping"} ~> phase = "reading" \/ stopped

(* A panel that keeps closing its connections without sending an event is  *)
(* retried ever more slowly until the delay is MaxDelay (the behaviours    *)
(* push at most MaxParts parts, so the events do end): accepting the       *)
(* connection alone does not reset the delay.                              *)
BacksOff == []<>(phase = "sleeping") => <>[](delay = MaxDelay)
=============================================================================
