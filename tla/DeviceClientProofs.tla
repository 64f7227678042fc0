------------------------- MODULE DeviceClientProofs -------------------------
(***************************************************************************)
(* Proofs about the parts of DeviceClient, each for every value of its     *)
(* constants: the notification host document, the snapshots, the entries   *)
(* with their flows, the units of a panel, the cameras of a recorder, and  *)
(* what the parser of the stream returns.                                  *)
(***************************************************************************)
EXTENDS DeviceClient, FiniteSetTheorems, SequenceTheorems, WellFoundedInduction, TLAPS

(* The parts do not touch each other's state.                              *)
LEMMA Apart ==
    /\ [Next]_vars => [AlarmNext]_alarmVars
    /\ [Next]_vars => [SnapshotNext]_snapshotVars
    /\ [Next]_vars => [ConfigNext]_configVars
    /\ [Next]_vars => [UnitsNext]_unitVars
    /\ [Next]_vars => [CamerasNext]_cameraVars
    /\ [Next]_vars => [StreamNext]_streamVars
BY DEF Next, vars, StreamStep, AlarmServerStep, SnapshotStep, EntriesStep, UnitsStep, CamerasStep

-----------------------------------------------------------------------------
(* The notification host.                                                  *)

Others == FirstHosts \union {OtherHost}

(* The other host of a document, as somebody else left it.                 *)
Untouched(g) == g \in Others /\ (~crossed => g = meant)

(* The document is missing, or its first host is the integration's; a call *)
(* writes back the document it read, with that host rewritten.             *)
AlarmInv ==
    /\ meant \in Others /\ crossed \in BOOLEAN
    /\ hosts = <<>> \/ \E h \in HostRecords, g \in Others : hosts = <<h, g>> /\ Untouched(g)
    /\ hosts = <<>> => meant = OtherHost
    /\ setting = NoSetting \/
         \E a \in Addresses, h \in HostRecords, g \in Others :
            /\ setting = [at |-> "put", address |-> a, hosts |-> <<Rewritten(h, a), g>>]
            /\ Untouched(g)
            /\ hosts # <<>>
    /\ configured \subseteq Addresses
    /\ hosts = <<>> => configured = {}
    /\ HostReadsBack

LEMMA RewrittenReadsBack ==
    ASSUME NEW a \in Addresses, NEW h \in HostRecords
    PROVE  LET r == Rewritten(h, a)
           IN  /\ r \in HostRecords
               /\ r.protocolType = Upper(a.scheme) /\ r.portNo = PortOf(a) /\ r.url = a.path
               /\ (IF r.ipAddress # "none" THEN r.ipAddress ELSE r.hostName) = a.hostname
<1>1. /\ a.hostname \in Names /\ a.hostname # "none" /\ a.path \in Paths /\ "none" \in Names
      /\ PortOf(a) \in Texts \ {"none"} /\ Upper(a.scheme) \in {"HTTP", "HTTPS"}
  BY AddressesAssumption DEF PortOf, Upper, Texts, Names, Paths
<1> DEFINE With(format, ipAddress, hostName) ==
             [h EXCEPT !.url = a.path, !.protocolType = Upper(a.scheme), !.portNo = PortOf(a),
                       !.format = format, !.ipAddress = ipAddress, !.hostName = hostName]
<1>2. ASSUME NEW format \in {"ipaddress", "hostname"}, NEW ip \in Names, NEW name \in Names
      PROVE  LET r == With(format, ip, name)
             IN  /\ r \in HostRecords
                 /\ r.protocolType = Upper(a.scheme) /\ r.portNo = PortOf(a) /\ r.url = a.path
                 /\ r.ipAddress = ip /\ r.hostName = name
  BY <1>1 DEF HostRecords
<1>3. CASE a.ip
  <2>1. Rewritten(h, a) = With("ipaddress", a.hostname, "none")
    BY <1>3, Zenon DEF Rewritten
  <2> HIDE DEF With
  <2> QED
    BY <1>1, <1>2, <2>1
<1>4. CASE ~a.ip
  <2>1. Rewritten(h, a) = With("hostname", "none", a.hostname)
    BY <1>4, Zenon DEF Rewritten
  <2> HIDE DEF With
  <2> QED
    BY <1>1, <1>2, <2>1
<1> QED
  BY <1>3, <1>4

LEMMA AlarmStep == AlarmInv /\ [AlarmNext]_alarmVars => AlarmInv'
<1> SUFFICES ASSUME AlarmInv, [AlarmNext]_alarmVars
             PROVE  AlarmInv'
  OBVIOUS
<1>1. CASE DeviceFound
  <2>1. PICK h \in HostRecords : hosts' = <<h, OtherHost>>
    BY <1>1, FirstHostsAssumption DEF DeviceFound
  <2>2. /\ UNCHANGED <<setting, configured, meant, crossed>>
        /\ setting = NoSetting /\ configured = {} /\ meant = OtherHost
        /\ hosts' # <<>> /\ hosts'[2] = OtherHost
    BY <1>1, <2>1 DEF DeviceFound, AlarmInv
  <2>3. Untouched(OtherHost)'
    BY <2>2 DEF Untouched, Others
  <2> QED
    BY <2>1, <2>2, <2>3 DEF AlarmInv, HostReadsBack, Untouched, Others
<1>2. CASE HostEdited
  <2>1. PICK f \in HostRecords, g \in Others : hosts = <<f, g>> /\ Untouched(g)
    BY <1>2 DEF HostEdited, AlarmInv
  <2>2. CASE \E h \in FirstHosts : /\ hosts' = [hosts EXCEPT ![1] = h]
                                  /\ configured' = {} /\ UNCHANGED <<meant, crossed>>
    <3>1. PICK h \in FirstHosts : hosts' = [hosts EXCEPT ![1] = h]
      BY <2>2
    <3>2. hosts' = <<h, g>> /\ h \in HostRecords /\ setting' = setting
      BY <1>2, <2>1, <3>1, FirstHostsAssumption DEF HostEdited
    <3>3. Untouched(g)' /\ hosts'[2] = g /\ hosts' # <<>>
      BY <2>1, <2>2, <3>2 DEF Untouched
    <3> QED
      BY <2>2, <3>2, <3>3 DEF AlarmInv, HostReadsBack, Untouched
  <2>3. CASE \E h \in FirstHosts : /\ hosts' = [hosts EXCEPT ![2] = h] /\ meant' = h
                                  /\ crossed' = (setting # NoSetting) /\ UNCHANGED configured
    <3>1. PICK h \in FirstHosts : hosts' = [hosts EXCEPT ![2] = h] /\ meant' = h
      BY <2>3
    <3>2. hosts' = <<f, h>> /\ h \in Others /\ setting' = setting /\ crossed' = (setting # NoSetting)
      BY <1>2, <2>1, <2>3, <3>1 DEF HostEdited, Others
    <3>3. /\ Untouched(h)' /\ hosts'[2] = h /\ hosts' # <<>> /\ hosts'[1] = hosts[1]
      BY <2>1, <3>1, <3>2 DEF Untouched
    <3>4. setting' = NoSetting \/
            \E a \in Addresses, h1 \in HostRecords, g1 \in Others :
               /\ setting' = [at |-> "put", address |-> a, hosts |-> <<Rewritten(h1, a), g1>>]
               /\ Untouched(g1)' /\ hosts' # <<>>
      BY <3>2, <3>3 DEF AlarmInv, Untouched
    <3>5. HostReadsBack'
      BY <2>3, <3>1, <3>3 DEF AlarmInv, HostReadsBack, GetAlarmServer
    <3> QED
      BY <2>3, <3>1, <3>2, <3>3, <3>4, <3>5 DEF AlarmInv
  <2> QED
    BY <1>2, <2>2, <2>3 DEF HostEdited
<1>3. CASE HostsRead
  <2>1. PICK g \in HostRecords, o \in Others : hosts = <<g, o>> /\ Untouched(o)
    BY <1>3 DEF HostsRead, AlarmInv
  <2>2. /\ hosts[1] = g /\ hosts[2] = o /\ hosts' = hosts /\ hosts # <<>>
        /\ UNCHANGED <<meant, crossed>> /\ Untouched(o)'
    BY <1>3, <2>1 DEF HostsRead, Untouched
  <2>3. PICK a \in Addresses :
           IF Same(g, a) THEN setting' = setting /\ configured' = {a}
           ELSE /\ setting' = [at |-> "put", address |-> a,
                               hosts |-> [hosts EXCEPT ![1] = Rewritten(@, a)]]
                /\ configured' = configured
    BY <1>3, <2>2 DEF HostsRead
  <2>4. CASE Same(g, a)
    <3>1. /\ g.protocolType = Upper(a.scheme) /\ g.portNo = a.port /\ g.url = a.path
          /\ g.ipAddress = a.hostname /\ a.hostname # "none" /\ a.port # "none"
      BY <2>4, AddressesAssumption DEF Same, OldAddress, HostRecords
    <3>2. GetAlarmServer = [protocol |-> Upper(a.scheme), address |-> a.hostname,
                            port |-> PortOf(a), path |-> a.path]
      <4>1. PortOf(a) = a.port
        BY <3>1 DEF PortOf
      <4>2. (IF hosts[1].ipAddress # "none" THEN hosts[1].ipAddress ELSE hosts[1].hostName)
               = a.hostname
        BY <2>2, <3>1
      <4> QED
        BY <2>2, <3>1, <4>1, <4>2, Zenon DEF GetAlarmServer
    <3> QED
      BY <2>1, <2>2, <2>3, <2>4, <3>2 DEF AlarmInv, HostReadsBack, GetAlarmServer, Untouched
  <2>5. CASE ~Same(g, a)
    <3>1. [hosts EXCEPT ![1] = Rewritten(@, a)] = <<Rewritten(g, a), o>>
      BY <2>1
    <3>2. setting' = [at |-> "put", address |-> a, hosts |-> <<Rewritten(g, a), o>>]
          /\ configured' = configured
      BY <2>3, <2>5, <3>1
    <3> QED
      BY <2>1, <2>2, <3>2 DEF AlarmInv, HostReadsBack, GetAlarmServer, Untouched
  <2> QED
    BY <2>4, <2>5
<1>4. CASE HostsPut
  <2>1. PICK a \in Addresses, h \in HostRecords, g \in Others :
           /\ setting = [at |-> "put", address |-> a, hosts |-> <<Rewritten(h, a), g>>]
           /\ Untouched(g)
    BY <1>4 DEF HostsPut, AlarmInv
  <2> DEFINE r == Rewritten(h, a)
  <2>2. /\ hosts' = <<r, g>> /\ configured' = {a} /\ setting' = NoSetting
        /\ hosts'[1] = r /\ hosts'[2] = g /\ hosts' # <<>> /\ Untouched(g)'
        /\ UNCHANGED <<meant, crossed>>
    BY <1>4, <2>1 DEF HostsPut, Untouched
  <2>3. GetAlarmServer' = [protocol |-> Upper(a.scheme), address |-> a.hostname,
                           port |-> PortOf(a), path |-> a.path]
    BY <2>2, RewrittenReadsBack DEF GetAlarmServer
  <2>4. r \in HostRecords
    BY RewrittenReadsBack
  <2> QED
    BY <2>2, <2>3, <2>4 DEF AlarmInv, HostReadsBack, Untouched
<1>5. CASE HostsPutFails \/ HostsReadFails \/ UNCHANGED alarmVars
  <2>1. UNCHANGED <<hosts, configured, meant, crossed>> /\ (setting' = setting \/ setting' = NoSetting)
    BY <1>5 DEF HostsPutFails, HostsReadFails, alarmVars
  <2> QED
    BY <2>1 DEF AlarmInv, HostReadsBack, GetAlarmServer, Untouched
<1> QED
  BY <1>1, <1>2, <1>3, <1>4, <1>5 DEF AlarmNext

LEMMA AlarmStarts == Init => AlarmInv
BY DEF Init, AlarmInit, AlarmInv, HostReadsBack, Others

(* After a call of set_alarm_server whose document the device took, and    *)
(* until somebody edits the host, reading the document back gives the      *)
(* address that was asked for; the other host is as somebody else left it, *)
(* unless that crossed a call.                                             *)
THEOREM HostsReadBack == Spec => []HostReadsBack
<1>1. Init => AlarmInv
  BY AlarmStarts
<1>2. AlarmInv /\ [Next]_vars => AlarmInv'
  BY AlarmStep, Apart
<1>3. AlarmInv => HostReadsBack
  BY DEF AlarmInv
<1> QED
  BY <1>1, <1>2, <1>3, PTL DEF Spec

-----------------------------------------------------------------------------
(* The snapshots.                                                          *)

(* The requests of a call are bounded by its attempts, and by those before *)
(* its switch if it made the one there can be; a call still asked at the   *)
(* first url when the stream is switched has been passed.                  *)
SnapshotInv ==
    /\ SnapshotTypeOK
    /\ \A v \in Viewers :
          /\ \/ shot[v].requests =< shot[v].attempt + 1
             \/ useAlternate /\ shot[v].requests =< shot[v].attempt + 4
          /\ shot[v].at = "asked" /\ shot[v].url = "picture" /\ useAlternate => shot[v].passed
    /\ SnapshotHonest

Shots == [at : {"idle", "asked", "done"}, attempt : 0 .. 2, url : Urls,
          requests : 0 .. 6, passed : BOOLEAN, result : Answers \union {"none"}]

LEMMA Asking ==
    ASSUME NEW s \in Shots, NEW attempt \in 0 .. 2, NEW alternate \in BOOLEAN, s.requests < 6
    PROVE  LET t == Ask(s, attempt, alternate)
           IN  /\ t \in Shots /\ t.at = "asked" /\ t.attempt = attempt
               /\ t.requests = s.requests + 1
               /\ t.url = "picture" => ~alternate
<1>1. s.requests \in 0 .. 6 /\ s.requests + 1 \in 0 .. 6
  BY DEF Shots
<1>2. (IF alternate THEN "proxy" ELSE "picture") \in Urls
  BY DEF Urls
<1> QED
  BY <1>1, <1>2 DEF Ask, Shots

LEMMA SnapshotStepKeeps == SnapshotInv /\ [SnapshotNext]_snapshotVars => SnapshotInv'
<1> SUFFICES ASSUME SnapshotInv, [SnapshotNext]_snapshotVars
             PROVE  SnapshotInv'
  OBVIOUS
<1>1. useAlternate \in BOOLEAN /\ shot \in [Viewers -> Shots]
  BY DEF SnapshotInv, SnapshotTypeOK, Shots
<1>2. ASSUME NEW v \in Viewers, GetCameraImage(v)
      PROVE  SnapshotInv'
  <2> DEFINE t == Ask(NoShot, 0, useAlternate)
  <2>1. NoShot \in Shots /\ NoShot.requests = 0
    BY DEF NoShot, Urls, Shots
  <2>2. /\ t \in Shots /\ t.at = "asked" /\ t.attempt = 0 /\ t.requests = 1
        /\ t.url = "picture" => ~useAlternate
    BY <1>1, <2>1, Asking
  <2>3. /\ shot' = [shot EXCEPT ![v] = t] /\ useAlternate' = useAlternate
        /\ shot'[v] = t /\ \A w \in Viewers \ {v} : shot'[w] = shot[w]
    BY <1>1, <1>2 DEF GetCameraImage
  <2> HIDE DEF t
  <2>4. SnapshotTypeOK'
    BY <1>1, <2>2, <2>3 DEF SnapshotTypeOK, Shots
  <2> QED
    BY <2>2, <2>3, <2>4 DEF SnapshotInv, SnapshotHonest
<1>3. ASSUME NEW v \in Viewers, AnswerComes(v)
      PROVE  SnapshotInv'
  <2>1. PICK answer \in Answers :
          \/ /\ Switches6(v, answer)
             /\ useAlternate' = TRUE
             /\ shot' = [w \in Viewers |->
                           IF w = v THEN Ask(shot[v], 0, TRUE)
                           ELSE [shot[w] EXCEPT !.passed = @ \/ (shot[w].at = "asked")]]
          \/ /\ ~Switches6(v, answer) /\ Retries(v, answer)
             /\ shot' = [shot EXCEPT ![v] = Ask(@, shot[v].attempt + 1, useAlternate)]
             /\ UNCHANGED useAlternate
          \/ /\ ~Switches6(v, answer) /\ ~Retries(v, answer)
             /\ shot' = [shot EXCEPT ![v].at = "done", ![v].result = answer]
             /\ UNCHANGED useAlternate
    BY <1>3 DEF AnswerComes
  <2>2. /\ shot[v] \in Shots /\ shot[v].at = "asked"
        /\ shot[v].attempt \in 0 .. 2 /\ shot[v].requests \in 0 .. 6
    BY <1>1, <1>3 DEF AnswerComes, Shots
  <2>3. CASE /\ Switches6(v, answer)
             /\ useAlternate' = TRUE
             /\ shot' = [w \in Viewers |->
                           IF w = v THEN Ask(shot[v], 0, TRUE)
                           ELSE [shot[w] EXCEPT !.passed = @ \/ (shot[w].at = "asked")]]
    <3> DEFINE t == Ask(shot[v], 0, TRUE)
               passed(w) == [shot[w] EXCEPT !.passed = @ \/ (shot[w].at = "asked")]
    <3>1. ~useAlternate
      BY <2>3 DEF Switches6
    <3>2. shot[v].requests =< 3
      BY <2>2, <3>1 DEF SnapshotInv
    <3>3. /\ t \in Shots /\ t.at = "asked" /\ t.attempt = 0 /\ t.requests = shot[v].requests + 1
          /\ t.url # "picture"
      <4>1. shot[v].requests < 6 /\ shot[v].requests + 1 \in 0 .. 6
        BY <2>2, <3>2
      <4>2. PICK s \in Shots, n \in 0 .. 6 : s = shot[v] /\ n = s.requests + 1
        BY <2>2, <4>1
      <4>3. t = [s EXCEPT !.at = "asked", !.attempt = 0, !.url = "proxy",
                          !.requests = n, !.passed = FALSE]
        BY <4>2 DEF Ask
      <4> HIDE DEF t
      <4>4. t \in Shots
        <5>1. PICK a \in 0 .. 2, u \in Urls : a = 0 /\ u = "proxy"
          BY DEF Urls
        <5>2. t = [s EXCEPT !.at = "asked", !.attempt = a, !.url = u,
                            !.requests = n, !.passed = FALSE]
          BY <4>3, <5>1
        <5> QED
          BY <5>2 DEF Shots
      <4>5. /\ t.at = "asked" /\ t.attempt = 0 /\ t.requests = n /\ t.url = "proxy"
        BY <4>3 DEF Shots
      <4> QED
        BY <4>2, <4>4, <4>5
    <3>4. ASSUME NEW w \in Viewers
          PROVE  /\ passed(w) \in Shots
                 /\ passed(w).at = shot[w].at /\ passed(w).attempt = shot[w].attempt
                 /\ passed(w).url = shot[w].url /\ passed(w).requests = shot[w].requests
                 /\ passed(w).result = shot[w].result
                 /\ shot[w].passed \/ shot[w].at = "asked" => passed(w).passed
      <4>1. PICK s \in Shots : shot[w] = s
        BY <1>1
      <4>2. PICK p \in BOOLEAN : p = (s.passed \/ (s.at = "asked"))
        OBVIOUS
      <4>3. passed(w) = [s EXCEPT !.passed = p]
        BY <4>1, <4>2, Zenon
      <4> QED
        BY <4>1, <4>2, <4>3 DEF Shots
    <3>5. shot'[v] = t /\ \A w \in Viewers \ {v} : shot'[w] = passed(w)
      BY <2>3
    <3> HIDE DEF t, passed
    <3>6. SnapshotTypeOK'
      <4>1. shot' \in [Viewers -> Shots]
        BY <2>3, <3>3, <3>4 DEF t, passed
      <4> QED
        BY <2>3, <4>1 DEF SnapshotTypeOK, Shots
    <3>7. t.requests =< t.attempt + 4 /\ t.requests =< 6
      BY <2>2, <3>2, <3>3
    <3>8. ASSUME NEW w \in Viewers
          PROVE  /\ \/ shot'[w].requests =< shot'[w].attempt + 1
                    \/ shot'[w].requests =< shot'[w].attempt + 4
                 /\ shot'[w].requests =< 6
                 /\ shot'[w].at = "asked" /\ shot'[w].url = "picture" => shot'[w].passed
                 /\ shot'[w].at = "done" /\ shot'[w].result = "status6" =>
                       shot'[w].url = "proxy" \/ shot'[w].passed
                 /\ shot'[w].at = "done" /\ shot'[w].result = "status3" => shot'[w].attempt = 2
      <4>1. CASE w = v
        BY <3>3, <3>5, <3>7, <4>1
      <4>2. CASE w # v
        <5>1. shot'[w] = passed(w)
          BY <3>5, <4>2
        <5>2. /\ shot[w].requests =< 6
              /\ shot[w].requests =< shot[w].attempt + 1
              /\ shot[w].at = "done" /\ shot[w].result = "status6" =>
                    shot[w].url = "proxy" \/ shot[w].passed
              /\ shot[w].at = "done" /\ shot[w].result = "status3" => shot[w].attempt = 2
          BY <3>1 DEF SnapshotInv, SnapshotHonest
        <5> QED
          BY <3>4, <5>1, <5>2
      <4> QED
        BY <4>1, <4>2
    <3> QED
      BY <2>3, <3>6, <3>8 DEF SnapshotInv, SnapshotHonest
  <2>4. CASE /\ ~Switches6(v, answer) /\ Retries(v, answer)
             /\ shot' = [shot EXCEPT ![v] = Ask(@, shot[v].attempt + 1, useAlternate)]
             /\ UNCHANGED useAlternate
    <3> DEFINE t == Ask(shot[v], shot[v].attempt + 1, useAlternate)
    <3>1. shot[v].attempt + 1 \in 0 .. 2
      BY <2>2, <2>4 DEF Retries
    <3>2. shot[v].requests < 6
      BY <2>2, <3>1 DEF SnapshotInv
    <3>3. /\ t \in Shots /\ t.at = "asked" /\ t.attempt = shot[v].attempt + 1
          /\ t.requests = shot[v].requests + 1 /\ (t.url = "picture" => ~useAlternate)
      BY <1>1, <2>2, <3>1, <3>2, Asking
    <3>4. /\ shot' = [shot EXCEPT ![v] = t] /\ useAlternate' = useAlternate
          /\ shot'[v] = t /\ \A w \in Viewers \ {v} : shot'[w] = shot[w]
      BY <1>1, <2>4
    <3> HIDE DEF t
    <3>5. SnapshotTypeOK'
      BY <1>1, <3>3, <3>4 DEF SnapshotTypeOK, Shots
    <3>6. /\ \/ t.requests =< t.attempt + 1
             \/ useAlternate /\ t.requests =< t.attempt + 4
          /\ t.requests =< 6
      BY <2>2, <3>1, <3>3 DEF SnapshotInv
    <3> QED
      BY <3>3, <3>4, <3>5, <3>6 DEF SnapshotInv, SnapshotHonest
  <2>5. CASE /\ ~Switches6(v, answer) /\ ~Retries(v, answer)
             /\ shot' = [shot EXCEPT ![v].at = "done", ![v].result = answer]
             /\ UNCHANGED useAlternate
    <3> DEFINE t == [shot[v] EXCEPT !.at = "done", !.result = answer]
    <3>1. /\ t \in Shots /\ t.at = "done" /\ t.result = answer
          /\ t.attempt = shot[v].attempt /\ t.url = shot[v].url
          /\ t.requests = shot[v].requests /\ t.passed = shot[v].passed
      BY <2>2 DEF Shots
    <3>2. /\ shot' = [shot EXCEPT ![v] = t] /\ useAlternate' = useAlternate
          /\ shot'[v] = t /\ \A w \in Viewers \ {v} : shot'[w] = shot[w]
      BY <1>1, <2>5
    <3> HIDE DEF t
    <3>3. SnapshotTypeOK'
      BY <1>1, <3>1, <3>2 DEF SnapshotTypeOK, Shots
    <3>4. answer = "status6" => t.url = "proxy" \/ t.passed
      <4>1. answer = "status6" => useAlternate
        BY <1>1, <2>5 DEF Switches6
      <4>2. shot[v].url \in Urls
        BY <2>2 DEF Shots
      <4> QED
        BY <2>2, <3>1, <4>1, <4>2 DEF SnapshotInv, Urls
    <3>5. answer = "status3" => t.attempt = 2
      BY <2>2, <2>5, <3>1 DEF Retries
    <3> QED
      BY <3>1, <3>2, <3>3, <3>4, <3>5 DEF SnapshotInv, SnapshotHonest
  <2> QED
    BY <2>1, <2>3, <2>4, <2>5
<1>4. CASE UNCHANGED snapshotVars
  BY <1>4 DEF snapshotVars, SnapshotInv, SnapshotTypeOK, SnapshotHonest
<1> QED
  BY <1>2, <1>3, <1>4 DEF SnapshotNext

LEMMA SnapshotStarts == Init => SnapshotInv
<1>1. NoShot \in Shots
  BY DEF NoShot, Shots, Urls
<1>2. SUFFICES ASSUME Init PROVE SnapshotInv
  OBVIOUS
<1>3. useAlternate = FALSE /\ \A v \in Viewers : shot[v] = NoShot
  BY <1>2 DEF Init, SnapshotInit
<1>4. SnapshotTypeOK
  BY <1>1, <1>2 DEF Init, SnapshotInit, SnapshotTypeOK, Shots
<1> QED
  BY <1>3, <1>4 DEF SnapshotInv, SnapshotHonest, NoShot

(* A call of get_camera_image ends after six requests at most, and hands   *)
(* out an error document only for a reason.                                *)
THEOREM SnapshotsHonest == Spec => []SnapshotHonest
<1>1. Init => SnapshotInv
  BY SnapshotStarts
<1>2. SnapshotInv /\ [Next]_vars => SnapshotInv'
  BY SnapshotStepKeeps, Apart
<1>3. SnapshotInv => SnapshotHonest
  BY DEF SnapshotInv
<1> QED
  BY <1>1, <1>2, <1>3, PTL DEF Spec

-----------------------------------------------------------------------------
(* The entries and their flows.                                            *)

(* From version 2 an entry has its serial: the migration of an older one   *)
(* ends before it gets there.                                              *)
Sound(entry) ==
    /\ entry \in EntryRecords
    /\ entry.version >= 2 => ~entry.uid.legacy
    /\ entry.version = 4 => entry.old = {}

ConfigInv ==
    /\ ConfigTypeOK
    /\ \A e \in DOMAIN entries : Sound(entries[e])
    /\ EntryKeepsDevice

(* A step that changes one entry, and neither its serial nor its being a   *)
(* twin, has only to care for that entry.                                  *)
LEMMA EntryChanged ==
    ASSUME ConfigInv,
           NEW e \in DOMAIN entries, NEW r, Sound(r),
           entries' = [entries EXCEPT ![e] = r],
           r.uid.serial = entries[e].uid.serial,
           "twin" \in entries[e].excuse => "twin" \in r.excuse,
           r.excuse \intersect {"moved", "reauth"} = {} => behind[r.host] = r.uid.serial,
           behind' = behind, flows' = flows, swaps' = swaps,
           flow' \in [FlowIds -> Flows \union {NoFlow}]
    PROVE  ConfigInv'
<1>1. /\ DOMAIN entries' = DOMAIN entries /\ entries'[e] = r
      /\ \A d \in DOMAIN entries \ {e} : entries'[d] = entries[d]
  OBVIOUS
<1>2. ConfigTypeOK'
  BY <1>1 DEF ConfigInv, ConfigTypeOK, Sound
<1>3. \A d \in DOMAIN entries' : Sound(entries'[d])
  BY <1>1 DEF ConfigInv
<1>4. ASSUME NEW d \in DOMAIN entries', entries'[d].excuse \intersect {"moved", "reauth"} = {}
      PROVE  behind'[entries'[d].host] = entries'[d].uid.serial
  BY <1>1, <1>4 DEF ConfigInv, EntryKeepsDevice
<1>5. ASSUME NEW d \in DOMAIN entries'
      PROVE  /\ entries'[d].uid.serial = entries[d].uid.serial
             /\ "twin" \in entries[d].excuse => "twin" \in entries'[d].excuse
  BY <1>1
<1>6. EntryKeepsDevice'
  BY <1>1, <1>3, <1>4, <1>5 DEF ConfigInv, EntryKeepsDevice, Sound
<1> QED
  BY <1>2, <1>3, <1>6 DEF ConfigInv

LEMMA MigratedSound ==
    ASSUME NEW entry, Sound(entry), entry.version < 4
    PROVE  /\ Sound(Migrated(entry))
           /\ Migrated(entry).uid.serial = entry.uid.serial
           /\ Migrated(entry).host = entry.host /\ Migrated(entry).excuse = entry.excuse
<1>1. ASSUME NEW r, Sound(r), r.version = 1
      PROVE  /\ Sound(UniqueIdMigrated(r))
             /\ UniqueIdMigrated(r).uid.serial = r.uid.serial
             /\ UniqueIdMigrated(r).host = r.host /\ UniqueIdMigrated(r).excuse = r.excuse
  <2> DEFINE uid == [r.uid EXCEPT !.legacy = FALSE]
  <2>1. r \in EntryRecords /\ r.uid \in Uids
    BY <1>1 DEF Sound, EntryRecords
  <2>2. uid \in Uids /\ uid.serial = r.uid.serial
    BY <2>1 DEF Uids
  <2>3. UniqueIdMigrated(r) = [r EXCEPT !.uid = uid]
    BY <2>1 DEF UniqueIdMigrated, EntryRecords
  <2> HIDE DEF uid
  <2>4. UniqueIdMigrated(r) \in EntryRecords
    BY <2>1, <2>2, <2>3 DEF EntryRecords
  <2> QED
    BY <1>1, <2>1, <2>2, <2>3, <2>4 DEF Sound, EntryRecords
<1>2. ASSUME NEW r, Sound(r), r.version = 2
      PROVE  /\ Sound(AlarmSensorsRemoved(r)) /\ AlarmSensorsRemoved(r).version = 3
             /\ AlarmSensorsRemoved(r).uid = r.uid
             /\ AlarmSensorsRemoved(r).host = r.host /\ AlarmSensorsRemoved(r).excuse = r.excuse
  <2>1. PICK old \in SUBSET {"alarm_server", "plain"} : old = r.old \ {"alarm_server"}
    BY <1>2 DEF Sound, EntryRecords
  <2>2. AlarmSensorsRemoved(r) = [r EXCEPT !.version = 3, !.old = old]
    BY <2>1 DEF AlarmSensorsRemoved
  <2>3. PICK n \in 1 .. 4 : n = 3
    OBVIOUS
  <2>4. AlarmSensorsRemoved(r) = [r EXCEPT !.version = n, !.old = old]
    BY <2>2, <2>3
  <2>5. AlarmSensorsRemoved(r) \in EntryRecords
    BY <1>2, <2>4 DEF Sound, EntryRecords
  <2> QED
    BY <1>2, <2>3, <2>4, <2>5 DEF Sound, EntryRecords
<1>3. ASSUME NEW r, Sound(r), r.version = 3
      PROVE  /\ Sound(SensorsRemoved(r)) /\ SensorsRemoved(r).uid = r.uid
             /\ SensorsRemoved(r).host = r.host /\ SensorsRemoved(r).excuse = r.excuse
  <2>1. PICK n \in 1 .. 4 : n = 4
    OBVIOUS
  <2>2. PICK old \in SUBSET {"alarm_server", "plain"} : old = {}
    OBVIOUS
  <2>3. SensorsRemoved(r) = [r EXCEPT !.version = n, !.old = old]
    BY <2>1, <2>2 DEF SensorsRemoved
  <2>4. SensorsRemoved(r) \in EntryRecords
    BY <1>3, <2>3 DEF Sound, EntryRecords
  <2> QED
    BY <1>3, <2>1, <2>2, <2>3, <2>4 DEF Sound, EntryRecords
<1> DEFINE three == IF entry.version = 2 THEN AlarmSensorsRemoved(entry) ELSE entry
<1>4. CASE entry.version = 1
  BY <1>1, <1>4 DEF Migrated
<1>5. CASE entry.version \in {2, 3}
  <2>1. /\ Sound(three) /\ three.uid = entry.uid /\ three.version = 3
        /\ three.host = entry.host /\ three.excuse = entry.excuse
    BY <1>2, <1>5
  <2> HIDE DEF three
  <2>2. entry.version # 1
    BY <1>5
  <2>3. Migrated(entry) = SensorsRemoved(three)
    BY <2>2, Zenon DEF Migrated, three
  <2> QED
    BY <1>3, <2>1, <2>3
<1> QED
  BY <1>4, <1>5 DEF Sound, EntryRecords

LEMMA ConfigStep == ConfigInv /\ [ConfigNext]_configVars => ConfigInv'
<1> SUFFICES ASSUME ConfigInv, [ConfigNext]_configVars
             PROVE  ConfigInv'
  OBVIOUS
<1>1. CASE EntriesLoaded
  <2>1. PICK first \in FirstEntries :
          /\ \A e \in DOMAIN first : behind'[first[e].host] = first[e].uid.serial
          /\ entries' = first
    BY <1>1 DEF EntriesLoaded
  <2>2. /\ DOMAIN first \subseteq Slots
        /\ \A e \in DOMAIN first : Sound(first[e])
        /\ \A d, e \in DOMAIN first : first[d].uid.serial = first[e].uid.serial => d = e
    BY FirstEntriesAssumption DEF Sound, EntryRecords
  <2>3. ConfigTypeOK'
    BY <1>1, <2>1, <2>2, ConfigAssumption DEF EntriesLoaded, ConfigInv, ConfigTypeOK, Sound
  <2> QED
    BY <2>1, <2>2, <2>3 DEF ConfigInv, EntryKeepsDevice, Sound
<1>2. ASSUME NEW h \in HostNames, Swap(h)
      PROVE  ConfigInv'
  <2> DEFINE Moved(r) == [r EXCEPT !.excuse = @ \union {"moved"}]
  <2>1. ASSUME NEW r, Sound(r)
        PROVE  /\ Sound(Moved(r)) /\ Moved(r).uid = r.uid /\ Moved(r).host = r.host
               /\ Moved(r).version = r.version /\ Moved(r).old = r.old
               /\ "moved" \in Moved(r).excuse /\ r.excuse \subseteq Moved(r).excuse
    BY <2>1 DEF Sound, EntryRecords
  <2>2. /\ DOMAIN entries' = DOMAIN entries
        /\ \A e \in DOMAIN entries :
              entries'[e] = IF entries[e].host = h THEN Moved(entries[e]) ELSE entries[e]
    BY <1>2 DEF Swap
  <2> HIDE DEF Moved
  <2>3. \A e \in DOMAIN entries' : Sound(entries'[e])
    BY <2>1, <2>2 DEF ConfigInv
  <2>4. /\ behind' \in [HostNames -> Serials]
        /\ \A g \in HostNames \ {h} : behind'[g] = behind[g]
    BY <1>2 DEF Swap, ConfigInv, ConfigTypeOK
  <2>5. ConfigTypeOK'
    BY <1>2, <2>2, <2>3, <2>4, ConfigAssumption DEF Swap, ConfigInv, ConfigTypeOK, Sound
  <2>6. ASSUME NEW e \in DOMAIN entries', entries'[e].excuse \intersect {"moved", "reauth"} = {}
        PROVE  behind'[entries'[e].host] = entries'[e].uid.serial
    <3>1. entries[e].host # h /\ entries'[e] = entries[e]
      BY <2>1, <2>2, <2>6 DEF ConfigInv
    <3>2. entries[e].host \in HostNames
      BY <2>2 DEF ConfigInv, Sound, EntryRecords
    <3> QED
      BY <2>2, <2>4, <2>6, <3>1, <3>2 DEF ConfigInv, EntryKeepsDevice
  <2>7. ASSUME NEW e \in DOMAIN entries'
        PROVE  /\ entries'[e].uid.serial = entries[e].uid.serial
               /\ entries[e].excuse \subseteq entries'[e].excuse
    BY <2>1, <2>2 DEF ConfigInv
  <2>8. EntryKeepsDevice'
    BY <2>2, <2>3, <2>6, <2>7 DEF ConfigInv, EntryKeepsDevice, Sound
  <2> QED
    BY <2>3, <2>5, <2>8 DEF ConfigInv
<1>3. ASSUME NEW e \in DOMAIN entries, EnableEntry(e)
      PROVE  ConfigInv'
  <2> DEFINE r == [entries[e] EXCEPT !.disabled = FALSE]
  <2>1. /\ Sound(r) /\ r.uid = entries[e].uid /\ r.host = entries[e].host
        /\ r.excuse = entries[e].excuse
    BY DEF ConfigInv, Sound, EntryRecords
  <2>2. entries' = [entries EXCEPT ![e] = r]
    BY <1>3 DEF EnableEntry
  <2> HIDE DEF r
  <2>3. /\ behind' = behind /\ flows' = flows /\ swaps' = swaps
        /\ flow' \in [FlowIds -> Flows \union {NoFlow}]
    BY <1>3 DEF EnableEntry, ConfigInv, ConfigTypeOK
  <2>4. r.excuse \intersect {"moved", "reauth"} = {} => behind[r.host] = r.uid.serial
    BY <2>1 DEF ConfigInv, EntryKeepsDevice
  <2> QED
    BY <2>1, <2>2, <2>3, <2>4, EntryChanged
<1>4. ASSUME NEW e \in DOMAIN entries, MigrateEntry(e)
      PROVE  ConfigInv'
  <2>1. entries' = [entries EXCEPT ![e] = Migrated(entries[e])]
    BY <1>4 DEF MigrateEntry
  <2>2. Sound(entries[e]) /\ entries[e].version < 4
    BY <1>4 DEF ConfigInv, MigrateEntry
  <2> DEFINE r == Migrated(entries[e])
  <2>3. /\ Sound(r) /\ r.uid.serial = entries[e].uid.serial
        /\ r.host = entries[e].host /\ r.excuse = entries[e].excuse
    BY <2>2, MigratedSound
  <2>4. /\ behind' = behind /\ flows' = flows /\ swaps' = swaps
        /\ flow' \in [FlowIds -> Flows \union {NoFlow}]
    BY <1>4 DEF MigrateEntry, ConfigInv, ConfigTypeOK
  <2>5. r.excuse \intersect {"moved", "reauth"} = {} => behind[r.host] = r.uid.serial
    BY <2>3 DEF ConfigInv, EntryKeepsDevice
  <2> HIDE DEF r
  <2>6. entries' = [entries EXCEPT ![e] = r]
    BY <2>1 DEF r
  <2> QED
    BY <2>3, <2>4, <2>5, <2>6, EntryChanged
<1>5. ASSUME NEW f \in FlowIds, OpenFlow(f) \/ Submit(f) \/ ReadingFails(f)
      PROVE  ConfigInv'
  <2>1. entries' = entries /\ behind' = behind /\ swaps' = swaps
    BY <1>5 DEF OpenFlow, Submit, ReadingFails
  <2>2. flows' \in 0 .. MaxFlows
    BY <1>5, ConfigAssumption DEF OpenFlow, Submit, ReadingFails, ConfigInv, ConfigTypeOK
  <2>3. flow' \in [FlowIds -> Flows \union {NoFlow}]
    <3>1. CASE OpenFlow(f)
      <4>1. PICK source \in {"user", "reconfigure", "reauth"}, e \in Slots, h \in HostNames :
              /\ source # "user" => e \in DOMAIN entries
              /\ flow' = [flow EXCEPT ![f] =
                        [at |-> "form", source |-> source, entry |-> e,
                         uid |-> IF source = "user" THEN Uid(CHOOSE s \in Serials : TRUE)
                                 ELSE entries[e].uid,
                         host |-> h]]
        BY <3>1 DEF OpenFlow
      <4>2. (IF source = "user" THEN Uid(CHOOSE s \in Serials : TRUE) ELSE entries[e].uid) \in Uids
        BY <4>1, ConfigAssumption DEF Uid, Uids, ConfigInv, ConfigTypeOK, EntryRecords
      <4> QED
        BY <4>1, <4>2 DEF ConfigInv, ConfigTypeOK, Flows
    <3>2. CASE Submit(f)
      <4>1. PICK h \in HostNames : flow' = [flow EXCEPT ![f].at = "reading", ![f].host = h]
        BY <3>2 DEF Submit
      <4>2. flow[f] \in Flows
        BY <3>2 DEF Submit, ConfigInv, ConfigTypeOK, NoFlow
      <4>3. [flow[f] EXCEPT !.at = "reading", !.host = h] \in Flows
        BY <4>2 DEF Flows
      <4>4. flow' = [flow EXCEPT ![f] = [flow[f] EXCEPT !.at = "reading", !.host = h]]
        BY <4>1 DEF ConfigInv, ConfigTypeOK
      <4> QED
        BY <4>3, <4>4 DEF ConfigInv, ConfigTypeOK
    <3>3. CASE ReadingFails(f)
      <4>1. flow[f] \in Flows
        BY <3>3 DEF ReadingFails, ConfigInv, ConfigTypeOK, NoFlow
      <4>2. [flow[f] EXCEPT !.at = "form"] \in Flows
        BY <4>1 DEF Flows
      <4>3. flow' = [flow EXCEPT ![f] = [flow[f] EXCEPT !.at = "form"]]
        BY <3>3 DEF ReadingFails
      <4> QED
        BY <4>2, <4>3 DEF ConfigInv, ConfigTypeOK
    <3> QED
      BY <1>5, <3>1, <3>2, <3>3
  <2> QED
    BY <2>1, <2>2, <2>3 DEF ConfigInv, ConfigTypeOK, EntryKeepsDevice
<1>6. ASSUME NEW f \in FlowIds, DeviceAnswers(f)
      PROVE  ConfigInv'
  <2> DEFINE h == flow[f].host
             s == behind[h]
  <2>1. h \in HostNames /\ s \in Serials
    BY <1>6 DEF DeviceAnswers, ConfigInv, ConfigTypeOK, NoFlow, Flows
  <2>2. /\ flow' \in [FlowIds -> Flows \union {NoFlow}]
        /\ behind' = behind /\ flows' = flows /\ swaps' = swaps
    BY <1>6 DEF DeviceAnswers, ConfigInv, ConfigTypeOK
  <2>3. CASE /\ flow[f].source = "user" /\ ~Configured(s)
             /\ \E e \in Slots \ DOMAIN entries :
                    entries' = [x \in DOMAIN entries \union {e} |->
                        IF x = e
                        THEN [version |-> 4, uid |-> Uid(s), host |-> h, disabled |-> FALSE, old |-> {},
                              excuse |-> IF \E d \in DOMAIN entries : entries[d].uid.serial = s
                                         THEN {"twin"} ELSE {}]
                        ELSE entries[x]]
    <3> DEFINE New == [version |-> 4, uid |-> Uid(s), host |-> h, disabled |-> FALSE, old |-> {},
                       excuse |-> IF \E d \in DOMAIN entries : entries[d].uid.serial = s
                                  THEN {"twin"} ELSE {}]
    <3>1. PICK e \in Slots \ DOMAIN entries :
            entries' = [x \in DOMAIN entries \union {e} |-> IF x = e THEN New ELSE entries[x]]
      BY <2>3
    <3>2. /\ Sound(New) /\ New.uid.serial = s /\ New.host = h
          /\ \A d \in DOMAIN entries : entries[d].uid.serial = s => "twin" \in New.excuse
      BY <2>1 DEF Sound, EntryRecords, Uid, Uids
    <3> HIDE DEF New
    <3>3. /\ DOMAIN entries' = DOMAIN entries \union {e} /\ entries'[e] = New
          /\ \A d \in DOMAIN entries : d # e /\ entries'[d] = entries[d]
      BY <3>1
    <3>4. \A d \in DOMAIN entries' : Sound(entries'[d])
      BY <3>2, <3>3 DEF ConfigInv
    <3>5. ConfigTypeOK'
      BY <2>2, <3>3, <3>4 DEF ConfigInv, ConfigTypeOK, Sound
    <3>6. ASSUME NEW c \in DOMAIN entries', NEW d \in DOMAIN entries', c # d,
                 entries'[c].uid.serial = entries'[d].uid.serial
          PROVE  "twin" \in entries'[c].excuse \union entries'[d].excuse
      BY <3>2, <3>3, <3>6 DEF ConfigInv, EntryKeepsDevice
    <3>7. ASSUME NEW d \in DOMAIN entries', entries'[d].excuse \intersect {"moved", "reauth"} = {}
          PROVE  behind'[entries'[d].host] = entries'[d].uid.serial
      BY <2>2, <3>2, <3>3, <3>7 DEF ConfigInv, EntryKeepsDevice
    <3>8. EntryKeepsDevice'
      BY <3>4, <3>6, <3>7 DEF EntryKeepsDevice, Sound
    <3> QED
      BY <3>4, <3>5, <3>8 DEF ConfigInv
  <2>4. CASE /\ flow[f].source # "user" /\ Matches(f, s)
             /\ entries' = [entries EXCEPT
                               ![flow[f].entry].host = h,
                               ![flow[f].entry].excuse =
                                   IF flow[f].source = "reconfigure" THEN @ \ {"moved", "reauth"}
                                   ELSE IF h # entries[flow[f].entry].host THEN @ \union {"reauth"}
                                   ELSE @]
    <3>1. PICK e \in DOMAIN entries : e = flow[f].entry
      BY <2>4 DEF Matches
    <3> DEFINE excuse ==
                 IF flow[f].source = "reconfigure" THEN entries[e].excuse \ {"moved", "reauth"}
                 ELSE IF h # entries[e].host THEN entries[e].excuse \union {"reauth"}
                 ELSE entries[e].excuse
               r == [entries[e] EXCEPT !.host = h, !.excuse = excuse]
    <3>2. entries' = [entries EXCEPT ![e] = r]
      BY <2>4, <3>1
    <3>3. excuse \in SUBSET {"moved", "reauth", "twin"}
          /\ ("twin" \in entries[e].excuse => "twin" \in excuse)
      BY DEF ConfigInv, Sound, EntryRecords
    <3>4. /\ excuse \intersect {"moved", "reauth"} = {} => behind[h] = entries[e].uid.serial
      <4>1. CASE flow[f].source = "reconfigure"
        <5>1. entries[e].uid = Uid(s)
          BY <2>4, <3>1, <4>1 DEF Matches
        <5> QED
          BY <5>1 DEF Uid
      <4>2. CASE flow[f].source # "reconfigure" /\ h # entries[e].host
        BY <4>2
      <4>3. CASE flow[f].source # "reconfigure" /\ h = entries[e].host
        BY <4>3 DEF ConfigInv, EntryKeepsDevice
      <4> QED
        BY <4>1, <4>2, <4>3
    <3> HIDE DEF excuse
    <3>5. Sound(r) /\ r.uid = entries[e].uid /\ r.host = h /\ r.excuse = excuse
      BY <2>1, <3>3 DEF ConfigInv, Sound, EntryRecords
    <3> HIDE DEF r
    <3> QED
      BY <2>2, <3>2, <3>3, <3>4, <3>5, EntryChanged
  <2>5. CASE UNCHANGED entries
    BY <2>2, <2>5 DEF ConfigInv, ConfigTypeOK, EntryKeepsDevice
  <2> QED
    BY <1>6, <2>3, <2>4, <2>5 DEF DeviceAnswers
<1>7. CASE UNCHANGED configVars
  BY <1>7 DEF configVars, ConfigInv, ConfigTypeOK, EntryKeepsDevice
<1> QED
  BY <1>1, <1>2, <1>3, <1>4, <1>5, <1>6, <1>7 DEF ConfigNext

LEMMA ConfigStarts == Init => ConfigInv
BY ConfigAssumption DEF Init, ConfigInit, ConfigInv, ConfigTypeOK, EntryKeepsDevice

(* However flows, migrations and changes of address interleave, no two     *)
(* entries are for one device but for a twin, an entry's address leads to  *)
(* its device unless it is known why not, and an entry at the version of   *)
(* the integration has its serial and none of its old sensors.             *)
THEOREM EntriesKept == Spec => []EntryKeepsDevice
<1>1. Init => ConfigInv
  BY ConfigStarts
<1>2. ConfigInv /\ [Next]_vars => ConfigInv'
  BY ConfigStep, Apart
<1>3. ConfigInv => EntryKeepsDevice
  BY DEF ConfigInv
<1> QED
  BY <1>1, <1>2, <1>3, PTL DEF Spec

-----------------------------------------------------------------------------
(* The units of a panel.                                                   *)

(* A value is kept for a unit that is known exactly if the last refresh    *)
(* heard of it, and it is what that refresh heard.                         *)
UnitsInv ==
    /\ DOMAIN paired \subseteq Units
    /\ DOMAIN known \subseteq Units
    /\ DOMAIN heard \subseteq Units
    /\ \A u \in DOMAIN known :
          /\ UnitUid(u) \in DOMAIN values <=> u \in DOMAIN heard
          /\ u \in DOMAIN heard => values[UnitUid(u)] = heard[u]
    /\ ~ready => known = Nothing /\ values = Nothing /\ heard = Nothing

(* The kind and the number tell the units apart.                           *)
LEMMA UidsApart == \A u, v \in Units : UnitUid(u) = UnitUid(v) => u = v
BY UnitsAssumption DEF UnitUid

(* What is fetched of a unit is filed under its own id.                    *)
LEMMA FetchedOwn ==
    ASSUME NEW read \in SUBSET Units
    PROVE  /\ DOMAIN Fetched(read) = {UnitUid(u) : u \in read}
           /\ \A u \in read : Fetched(read)[UnitUid(u)] = paired[u]
<1>1. DOMAIN Fetched(read) = {UnitUid(u) : u \in read}
  BY DEF Fetched
<1>2. ASSUME NEW u \in read
      PROVE  Fetched(read)[UnitUid(u)] = paired[u]
  <2>1. (CHOOSE v \in read : UnitUid(v) = UnitUid(u)) = u
    BY UidsApart
  <2>2. UnitUid(u) \in {UnitUid(v) : v \in read}
    OBVIOUS
  <2> QED
    BY <2>1, <2>2, Zenon DEF Fetched
<1> QED
  BY <1>1, <1>2

LEMMA UnitsStepKeeps == UnitsInv /\ [UnitsNext]_unitVars => UnitsInv'
<1> SUFFICES ASSUME UnitsInv, [UnitsNext]_unitVars
             PROVE  UnitsInv'
  OBVIOUS
<1>1. ASSUME NEW u \in Units, PanelChanges(u)
      PROVE  UnitsInv'
  <2>1. DOMAIN paired' \subseteq Units
    BY <1>1 DEF PanelChanges, UnitsInv
  <2> QED
    BY <1>1, <2>1 DEF PanelChanges, UnitsInv
<1>2. CASE PanelSetUp
  <2>1. DOMAIN known' \subseteq Units
    BY <1>2 DEF PanelSetUp, UnitsInv, ZonesOf, PeripheralsRead
  <2>2. /\ values' = Nothing /\ heard' = Nothing /\ paired' = paired /\ ready' = TRUE
    BY <1>2 DEF PanelSetUp, UnitsInv
  <2>3. DOMAIN Nothing = {}
    BY DEF Nothing
  <2> QED
    BY <2>1, <2>2, <2>3 DEF UnitsInv
<1>3. CASE PanelRefresh
  <2>1. PICK failed \in SUBSET (Requests \ {"configuration"}) :
          LET read == (IF "zone" \in failed THEN {} ELSE ZonesOf(paired)) \union PeripheralsRead(failed)
          IN  /\ values' = Fetched({u \in read : IsKnown(u)})
              /\ heard' = [u \in read |-> paired[u]]
    BY <1>3 DEF PanelRefresh
  <2> DEFINE read == (IF "zone" \in failed THEN {} ELSE ZonesOf(paired)) \union PeripheralsRead(failed)
             kept == {u \in read : IsKnown(u)}
  <2>2. read \subseteq Units /\ kept \subseteq Units
    BY DEF UnitsInv, ZonesOf, PeripheralsRead
  <2>3. values' = Fetched(kept) /\ heard' = [u \in read |-> paired[u]]
    BY <2>1
  <2>4. /\ paired' = paired /\ known' = known /\ ready' = TRUE
    BY <1>3 DEF PanelRefresh
  <2>5. \A u \in DOMAIN known : u \in read <=> u \in kept
    BY DEF IsKnown
  <2> HIDE DEF read
  <2>6. \A u \in kept : IsKnown(u) /\ u \in read
    OBVIOUS
  <2> HIDE DEF kept
  <2>7. ASSUME NEW u \in DOMAIN known
        PROVE  /\ UnitUid(u) \in DOMAIN values' <=> u \in DOMAIN heard'
               /\ u \in DOMAIN heard' => values'[UnitUid(u)] = heard'[u]
    <3>1. UnitUid(u) \in {UnitUid(v) : v \in kept} <=> u \in kept
      BY <2>2, UidsApart DEF UnitsInv
    <3> QED
      BY <2>2, <2>3, <2>5, <3>1, FetchedOwn
  <2> QED
    BY <2>2, <2>3, <2>4, <2>7 DEF UnitsInv
<1>4. CASE PanelReload
  BY <1>4 DEF PanelReload, UnitsInv, Nothing
<1>5. CASE UNCHANGED unitVars
  BY <1>5 DEF unitVars, UnitsInv
<1> QED
  BY <1>1, <1>2, <1>3, <1>4, <1>5 DEF UnitsNext

(* Every entity of a panel shows what the panel said of its own unit in    *)
(* the last refresh, and nothing, or closed, if it said nothing.           *)
THEOREM UnitsShown == Spec => []ShownIsHeard
<1>1. Init => UnitsInv
  BY DEF Init, UnitsInit, UnitsInv, Nothing
<1>2. UnitsInv /\ [Next]_vars => UnitsInv'
  BY UnitsStepKeeps, Apart
<1>3. UnitsInv => ShownIsHeard
  <2> SUFFICES ASSUME UnitsInv, NEW x \in UnitEntities
               PROVE  ShownBy(x[1], x[2]) =
                        IF x[1] \in DOMAIN heard THEN Reported(x[1], heard[x[1]], x[2])
                        ELSE IF x[2] = "triggered" THEN {FALSE} ELSE {}
    BY DEF ShownIsHeard
  <2>1. x[1] \in DOMAIN known
    BY DEF UnitEntities, ZoneEntities, ReportedEntities, ZonesOf
  <2> QED
    BY <2>1 DEF UnitsInv, ShownBy
<1> QED
  BY <1>1, <1>2, <1>3, PTL DEF Spec

-----------------------------------------------------------------------------
(* The cameras.                                                            *)

(* Induction, for a set in place of a predicate.                           *)
LEMMA Induction ==
    ASSUME NEW S, 0 \in S, \A n \in Nat : n \in S => n + 1 \in S
    PROVE  Nat \subseteq S
<1> SUFFICES ASSUME Nat \ S # {}
             PROVE  FALSE
  OBVIOUS
<1> DEFINE Below(n) == 0 .. n
           T == {Below(n) : n \in Nat \ S}
<1>1. T \subseteq FiniteSubsetsOf(Nat) /\ T # {}
  <2>1. \A n \in Nat : Below(n) \subseteq Nat /\ IsFiniteSet(Below(n))
    BY FS_Interval
  <2> QED
    BY <2>1 DEF FiniteSubsetsOf
<1>2. PICK x \in T : \A y \in T : <<y, x>> \notin StrictSubsetOrdering(Nat)
  <2>1. IsWellFoundedOn(StrictSubsetOrdering(Nat), FiniteSubsetsOf(Nat))
    BY FS_StrictSubsetOrderingWellFounded
  <2> HIDE DEF T
  <2> QED
    BY <1>1, <2>1, WFMin
<1>3. PICK n \in Nat \ S : x = Below(n)
  BY <1>2
<1>4. n # 0 /\ n - 1 \in Nat /\ (n - 1) + 1 = n
  BY <1>3
<1>5. n - 1 \notin S
  BY <1>4
<1>6. Below(n - 1) \in T
  BY <1>4, <1>5
<1>7. Below(n - 1) \subseteq Below(n) /\ Below(n - 1) # Below(n)
  <2>1. n \in Below(n) /\ n \notin Below(n - 1)
    BY <1>4
  <2> QED
    BY <1>4, <2>1
<1>8. Below(n - 1) \in SUBSET Nat /\ Below(n) \in SUBSET Nat
  BY <1>4
<1> HIDE DEF Below, T
<1> QED
  BY <1>2, <1>3, <1>6, <1>7, <1>8 DEF StrictSubsetOrdering

(* One turn of the loop over the network cameras, and n of them.           *)
Looked(digital, answered, found, k) ==
    IF ~digital[k].source THEN found
    ELSE Append(found, [id |-> digital[k].id, serial |-> SerialFor(found, digital[k]),
                        streams |-> StreamsOf(digital[k].id, answered)])

Looping(digital, answered, n, f) ==
    [k \in 0 .. n |-> IF k = 0 THEN <<>> ELSE Looked(digital, answered, f[k - 1], k)]

LEMMA LoopDefined ==
    ASSUME NEW digital, NEW answered, NEW n \in Nat
    PROVE  \E f : f = Looping(digital, answered, n, f)
<1> DEFINE Loop(m, f) == Looping(digital, answered, m, f)
           S == {m \in Nat : \E f : f = Loop(m, f)}
<1>1. 0 \in S
  <2>1. \A f : Loop(0, f) = [k \in 0 .. 0 |-> <<>>]
    BY DEF Looping
  <2> QED
    BY <2>1
<1>2. ASSUME NEW m \in Nat, m \in S
      PROVE  m + 1 \in S
  <2>1. PICK f : f = Loop(m, f)
    BY <1>2
  <2> DEFINE g == [k \in 0 .. m + 1 |->
                     IF k =< m THEN f[k] ELSE Looked(digital, answered, f[m], m + 1)]
  <2>2. \A k \in 0 .. m : f[k] = IF k = 0 THEN <<>> ELSE Looked(digital, answered, f[k - 1], k)
    BY <2>1, Zenon DEF Looping
  <2>3. ASSUME NEW k \in 0 .. m + 1
        PROVE  g[k] = IF k = 0 THEN <<>> ELSE Looked(digital, answered, g[k - 1], k)
    <3>1. CASE k = 0
      BY <2>2, <3>1
    <3>2. CASE k # 0 /\ k =< m
      <4>1. k - 1 \in 0 .. m /\ k - 1 \in 0 .. m + 1 /\ k \in 0 .. m /\ k - 1 =< m
        BY <3>2
      <4>2. g[k - 1] = f[k - 1] /\ g[k] = f[k]
        BY <3>2, <4>1
      <4> HIDE DEF g
      <4> QED
        BY <2>2, <3>2, <4>1, <4>2
    <3>3. CASE k = m + 1
      <4>1. m \in 0 .. m + 1 /\ ~(m + 1 =< m) /\ k # 0 /\ k - 1 = m
        BY <3>3
      <4>2. g[m] = f[m] /\ g[k] = Looked(digital, answered, f[m], m + 1)
        BY <3>3, <4>1
      <4> HIDE DEF g
      <4> QED
        BY <3>3, <4>1, <4>2
    <3> QED
      BY <3>1, <3>2, <3>3
  <2>4. Loop(m + 1, g) = [k \in 0 .. m + 1 |->
                            IF k = 0 THEN <<>> ELSE Looked(digital, answered, g[k - 1], k)]
    BY Zenon DEF Looping
  <2>5. g = [k \in 0 .. m + 1 |-> g[k]]
    OBVIOUS
  <2> HIDE DEF g
  <2>6. g = Loop(m + 1, g)
    BY <2>3, <2>4, <2>5
  <2> QED
    BY <2>6
<1> HIDE DEF S
<1>3. Nat \subseteq S
  BY <1>1, <1>2, Induction
<1> QED
  BY <1>3 DEF S

LEMMA LoopUnfolds ==
    ASSUME NEW digital, NEW answered, Len(digital) \in Nat
    PROVE  \E f : /\ NetworkCameras(digital, answered) = f[Len(digital)]
                  /\ f[0] = <<>>
                  /\ \A k \in 1 .. Len(digital) : f[k] = Looked(digital, answered, f[k - 1], k)
<1> DEFINE f == CHOOSE g : g = Looping(digital, answered, Len(digital), g)
<1>1. NetworkCameras(digital, answered) = f[Len(digital)]
  BY Zenon DEF NetworkCameras, Looping, Looked
<1>2. f = Looping(digital, answered, Len(digital), f)
  BY LoopDefined, Zenon
<1> HIDE DEF f
<1>3. \A k \in 0 .. Len(digital) :
         f[k] = IF k = 0 THEN <<>> ELSE Looked(digital, answered, f[k - 1], k)
  BY <1>2, Zenon DEF Looping
<1>4. /\ 0 \in 0 .. Len(digital)
      /\ \A k \in 1 .. Len(digital) : k \in 0 .. Len(digital) /\ k # 0
  OBVIOUS
<1> QED
  BY <1>1, <1>3, <1>4

(* A number that is made up says which camera it was made up for, and is   *)
(* none that a camera has.                                                 *)
LEMMA SerialsTell ==
    /\ \A h, k, m, n : MadeUp(h, m) = MadeUp(k, n) => m = n
    /\ \A s, k, n : <<s>> # MadeUp(k, n)
    /\ \A k, n : MadeUp(k, n) # Own
    /\ \A s : <<s>> = Own => s = "own"
    /\ \A s, t : <<s>> = <<t>> => s = t
<1>1. ASSUME NEW h, NEW k, NEW m, NEW n, MadeUp(h, m) = MadeUp(k, n)
      PROVE  m = n
  <2>1. MadeUp(h, m)[3] = m /\ MadeUp(k, n)[3] = n
    BY DEF MadeUp
  <2> QED
    BY <1>1, <2>1
<1>2. ASSUME NEW s, NEW k, NEW n
      PROVE  <<s>> # MadeUp(k, n)
  <2>1. Len(<<s>>) = 1 /\ Len(MadeUp(k, n)) = 3
    BY DEF MadeUp
  <2> QED
    BY <2>1
<1>3. ASSUME NEW s, NEW t, <<s>> = <<t>>
      PROVE  s = t
  <2>1. <<s>>[1] = s /\ <<t>>[1] = t
    OBVIOUS
  <2> QED
    BY <1>3, <2>1
<1> QED
  BY <1>1, <1>2, <1>3, Zenon DEF Own

(* A camera: its serial was taken from what the device reports or made up. *)
Made(c) ==
    /\ c.streams \subseteq 1 .. 4
    /\ \/ \E s \in CameraSerials : c.serial = <<s>>
       \/ \E how : c.serial = MadeUp(how, c.id)

Distinct(found) ==
    \A i, j \in DOMAIN found :
        i # j => found[i].id # found[j].id /\ found[i].serial # found[j].serial

Listed(digital) ==
    /\ Len(digital) = Len(DigitalIds)
    /\ DOMAIN digital = 1 .. Len(DigitalIds)
    /\ \A k \in 1 .. Len(DigitalIds) : digital[k] \in DigitalChannels(DigitalIds[k])

(* The recorder reports its own serial number for the camera it lists at k.*)
ItsOwn(c, digital, k) == c.serial = Own => digital[k].serial = "own"

(* What the loop has found after k network cameras.                        *)
Found(found, digital, k) ==
    /\ found = [i \in 1 .. Len(found) |-> found[i]] /\ Len(found) \in Nat
    /\ \A i \in 1 .. Len(found) :
          /\ Made(found[i])
          /\ \E j \in 1 .. k : found[i].id = DigitalIds[j] /\ ItsOwn(found[i], digital, j)
    /\ Distinct(found)

LEMMA LookedKeeps ==
    ASSUME NEW digital, Listed(digital), NEW answered,
           NEW k \in 1 .. Len(DigitalIds), NEW found, Found(found, digital, k - 1)
    PROVE  Found(Looked(digital, answered, found, k), digital, k)
<1> DEFINE c == digital[k]
           new == [id |-> c.id, serial |-> SerialFor(found, c), streams |-> StreamsOf(c.id, answered)]
           longer == Append(found, new)
<1>1. c.id = DigitalIds[k] /\ c.serial \in CameraSerials \union {"none"}
  BY DEF Listed, DigitalChannels
<1>2. /\ Len(DigitalIds) \in Nat /\ DOMAIN DigitalIds = 1 .. Len(DigitalIds)
      /\ \A i, j \in 1 .. Len(DigitalIds) : DigitalIds[i] = DigitalIds[j] => i = j
  BY CamerasAssumption
<1>3. ASSUME NEW i \in 1 .. Len(found)
      PROVE  found[i].id # c.id
  <2>1. PICK j \in 1 .. k - 1 : found[i].id = DigitalIds[j]
    BY DEF Found
  <2>2. j # k /\ j \in 1 .. Len(DigitalIds)
    BY <1>2
  <2> QED
    BY <1>1, <1>2, <2>1, <2>2
<1>4. CASE ~c.source
  <2>1. Looked(digital, answered, found, k) = found
    BY <1>4 DEF Looked
  <2>2. 1 .. k - 1 \subseteq 1 .. k
    BY <1>2
  <2>3. Found(found, digital, k)
    BY <2>2 DEF Found
  <2> QED
    BY <2>1, <2>3
<1>5. CASE c.source
  <2>1. Looked(digital, answered, found, k) = longer
    BY <1>5, Zenon DEF Looked
  <2>2. new.id = c.id /\ new.serial = SerialFor(found, c) /\ new.streams \subseteq 1 .. 4
    BY DEF StreamsOf
  <2>3. /\ Made(new) /\ ItsOwn(new, digital, k)
        /\ \A i \in 1 .. Len(found) : found[i].serial # new.serial
    <3>1. CASE c.serial = "none" \/ \E i \in DOMAIN found : found[i].serial = <<c.serial>>
      <4>1. new.serial = MadeUp(c.protocol, c.id)
        BY <2>2, <3>1, Zenon DEF SerialFor
      <4> HIDE DEF new
      <4>2. ASSUME NEW i \in 1 .. Len(found)
            PROVE  found[i].serial # new.serial
        <5>1. CASE \E s \in CameraSerials : found[i].serial = <<s>>
          <6>1. PICK s \in CameraSerials : found[i].serial = <<s>>
            BY <5>1
          <6>2. <<s>> # MadeUp(c.protocol, c.id)
            BY SerialsTell
          <6> QED
            BY <4>1, <6>1, <6>2
        <5>2. CASE \E how : found[i].serial = MadeUp(how, found[i].id)
          <6>1. PICK how : found[i].serial = MadeUp(how, found[i].id)
            BY <5>2
          <6>2. MadeUp(how, found[i].id) = MadeUp(c.protocol, c.id) => found[i].id = c.id
            BY SerialsTell
          <6> QED
            BY <1>3, <4>1, <6>1, <6>2
        <5> QED
          BY <5>1, <5>2 DEF Found, Made
      <4>3. MadeUp(c.protocol, c.id) # Own
        BY SerialsTell
      <4>4. ItsOwn(new, digital, k)
        BY <4>1, <4>3 DEF ItsOwn
      <4> QED
        BY <2>2, <4>1, <4>2, <4>4, Zenon DEF Made
    <3>2. CASE ~(c.serial = "none" \/ \E i \in DOMAIN found : found[i].serial = <<c.serial>>)
      <4>1. new.serial = <<c.serial>> /\ c.serial \in CameraSerials
        BY <1>1, <2>2, <3>2, Zenon DEF SerialFor
      <4>2. DOMAIN found = 1 .. Len(found)
        BY DEF Found
      <4> HIDE DEF new
      <4>3. ItsOwn(new, digital, k)
        BY <4>1, SerialsTell, Zenon DEF ItsOwn
      <4> QED
        BY <2>2, <3>2, <4>1, <4>2, <4>3, Zenon DEF Made
    <3> QED
      BY <3>1, <3>2
  <2> HIDE DEF new
  <2>4. /\ longer = [i \in 1 .. Len(longer) |-> longer[i]] /\ Len(longer) = Len(found) + 1
        /\ longer[Len(found) + 1] = new
        /\ \A i \in 1 .. Len(found) : longer[i] = found[i]
    <3> DEFINE T == {found[i] : i \in 1 .. Len(found)} \union {new}
    <3>1. found \in Seq(T) /\ new \in T
      <4>1. found = [i \in 1 .. Len(found) |-> found[i]] /\ Len(found) \in Nat
        BY DEF Found
      <4>2. found \in [1 .. Len(found) -> T]
        BY <4>1
      <4> QED
        BY <4>1, <4>2
    <3> HIDE DEF T
    <3>2. longer \in Seq(T) /\ Len(longer) = Len(found) + 1
      BY <3>1
    <3>3. longer = [i \in 1 .. Len(longer) |-> longer[i]]
      <4> HIDE DEF longer
      <4>1. longer \in [1 .. Len(longer) -> T]
        BY <3>2
      <4> QED
        BY <4>1
    <3>4. /\ longer[Len(found) + 1] = new
          /\ \A i \in 1 .. Len(found) : longer[i] = found[i]
      BY <3>1
    <3> QED
      BY <3>2, <3>3, <3>4
  <2> HIDE DEF longer
  <2>5. Len(found) \in Nat /\ Len(longer) \in Nat
    BY <2>4 DEF Found
  <2>6. \A i \in 1 .. Len(longer) : i \in 1 .. Len(found) \/ i = Len(found) + 1
    BY <2>4, <2>5
  <2>7. ASSUME NEW i \in 1 .. Len(longer)
        PROVE  /\ Made(longer[i])
               /\ \E j \in 1 .. k : longer[i].id = DigitalIds[j] /\ ItsOwn(longer[i], digital, j)
    <3>1. CASE i \in 1 .. Len(found)
      <4>1. longer[i] = found[i] /\ Made(found[i])
        BY <2>4, <3>1 DEF Found
      <4>2. PICK j \in 1 .. k - 1 : found[i].id = DigitalIds[j] /\ ItsOwn(found[i], digital, j)
        BY <3>1 DEF Found
      <4>3. j \in 1 .. k
        BY <1>2
      <4> QED
        BY <4>1, <4>2, <4>3
    <3>2. CASE i = Len(found) + 1
      <4>1. k \in 1 .. k
        BY <1>2
      <4> QED
        BY <1>1, <2>2, <2>3, <2>4, <3>2, <4>1
    <3> QED
      BY <2>6, <3>1, <3>2
  <2>8. ASSUME NEW i \in 1 .. Len(longer), NEW j \in 1 .. Len(longer), i # j
        PROVE  longer[i].id # longer[j].id /\ longer[i].serial # longer[j].serial
    <3>1. CASE i \in 1 .. Len(found) /\ j \in 1 .. Len(found)
      <4>1. found[i].id # found[j].id /\ found[i].serial # found[j].serial
        BY <2>8, <3>1 DEF Found, Distinct
      <4> QED
        BY <2>4, <3>1, <4>1
    <3>2. CASE i = Len(found) + 1 /\ j \in 1 .. Len(found)
      BY <1>3, <2>2, <2>3, <2>4, <3>2
    <3>3. CASE i \in 1 .. Len(found) /\ j = Len(found) + 1
      BY <1>3, <2>2, <2>3, <2>4, <3>3
    <3> QED
      BY <2>6, <2>8, <3>1, <3>2, <3>3
  <2>9. DOMAIN longer = 1 .. Len(longer)
    BY <2>4
  <2>10. Found(longer, digital, k)
    BY <2>4, <2>5, <2>7, <2>8, <2>9 DEF Found, Distinct
  <2> QED
    BY <2>1, <2>10
<1> QED
  BY <1>4, <1>5

(* So the loop keeps the cameras apart to its end.                         *)
LEMMA NetworkFound ==
    ASSUME NEW digital, Listed(digital), NEW answered
    PROVE  Found(NetworkCameras(digital, answered), digital, Len(DigitalIds))
<1>1. Len(DigitalIds) \in Nat /\ Len(digital) = Len(DigitalIds)
  BY CamerasAssumption DEF Listed
<1>2. PICK f : /\ NetworkCameras(digital, answered) = f[Len(digital)]
               /\ f[0] = <<>>
               /\ \A k \in 1 .. Len(digital) : f[k] = Looked(digital, answered, f[k - 1], k)
  BY <1>1, LoopUnfolds
<1> DEFINE S == {n \in Nat : n =< Len(DigitalIds) => Found(f[n], digital, n)}
<1>3. 0 \in S
  <2>1. Found(<<>>, digital, 0)
    BY DEF Found, Distinct
  <2> QED
    BY <1>2, <2>1
<1>4. ASSUME NEW n \in Nat, n \in S
      PROVE  n + 1 \in S
  <2> SUFFICES ASSUME n + 1 =< Len(DigitalIds)
               PROVE  Found(f[n + 1], digital, n + 1)
    OBVIOUS
  <2>1. n + 1 \in 1 .. Len(DigitalIds) /\ (n + 1) - 1 = n /\ n =< Len(DigitalIds)
    BY <1>1
  <2>2. Found(f[(n + 1) - 1], digital, (n + 1) - 1)
    BY <1>4, <2>1
  <2> HIDE DEF S
  <2>3. f[n + 1] = Looked(digital, answered, f[(n + 1) - 1], n + 1)
    BY <1>1, <1>2, <2>1
  <2> QED
    BY <2>1, <2>2, <2>3, LookedKeeps
<1> HIDE DEF S
<1>5. Len(DigitalIds) \in S
  BY <1>1, <1>3, <1>4, Induction
<1> QED
  BY <1>1, <1>2, <1>5 DEF S

LEMMA AnalogFound ==
    ASSUME NEW inputs \in SUBSET AnalogIds, NEW answered
    PROVE  LET found == AnalogCameras(inputs, answered)
           IN  /\ found = [i \in 1 .. Len(found) |-> found[i]] /\ Len(found) \in Nat
               /\ \A i \in 1 .. Len(found) :
                     /\ found[i].streams \subseteq 1 .. 4 /\ found[i].id \in AnalogIds
                     /\ found[i].serial = MadeUp("VI", found[i].id)
               /\ Distinct(found)
<1> DEFINE found == AnalogCameras(inputs, answered)
           analog == SetToSeq(inputs)
           n == Cardinality(inputs)
<1>1. n \in Nat /\ ExistsBijection(1 .. n, inputs)
  <2>1. IsFiniteSet(inputs)
    BY CamerasAssumption, FS_Subset
  <2> QED
    BY <2>1, FS_CardinalityType
<1>2. analog \in [1 .. n -> inputs] /\ IsInjective(analog)
  <2>1. \E f \in [1 .. n -> inputs] : IsInjective(f)
    BY <1>1 DEF ExistsBijection, Bijection, Injection
  <2> QED
    BY <2>1, Zenon DEF SetToSeq
<1> HIDE DEF n, analog
<1>3. /\ found = [i \in 1 .. n |-> found[i]]
      /\ \A i \in 1 .. n : /\ found[i].id = analog[i]
                           /\ found[i].serial = MadeUp("VI", analog[i])
                           /\ found[i].streams = StreamsOf(analog[i], answered)
  <2>1. found = [i \in DOMAIN analog |->
                   [id |-> analog[i], serial |-> MadeUp("VI", analog[i]),
                    streams |-> StreamsOf(analog[i], answered)]]
    BY Zenon DEF AnalogCameras, analog
  <2> HIDE DEF found
  <2> QED
    BY <1>2, <2>1
<1> HIDE DEF found
<1>4. Len(found) = n /\ DOMAIN found = 1 .. n
  BY <1>1, <1>3
<1>5. ASSUME NEW i \in 1 .. n
      PROVE  /\ found[i].streams \subseteq 1 .. 4 /\ found[i].id \in AnalogIds
             /\ found[i].serial = MadeUp("VI", found[i].id)
  BY <1>2, <1>3 DEF StreamsOf
<1>6. ASSUME NEW i \in 1 .. n, NEW j \in 1 .. n, i # j
      PROVE  found[i].id # found[j].id /\ found[i].serial # found[j].serial
  <2>1. analog[i] # analog[j]
    BY <1>2, <1>6 DEF IsInjective
  <2>2. MadeUp("VI", analog[i]) # MadeUp("VI", analog[j])
    BY <2>1, SerialsTell
  <2> QED
    BY <1>3, <2>1, <2>2
<1> QED
  BY <1>1, <1>3, <1>4, <1>5, <1>6 DEF Distinct, found

(* A camera is the recorder itself only if the recorder reports so.        *)
ReportedOwn(c, digital) ==
    c.serial = Own => \E k \in DOMAIN digital : digital[k].id = c.id /\ digital[k].serial = "own"

(* The numbers of the network cameras are not those of the inputs, so      *)
(* neither are the serials: those of the inputs are all made up.           *)
LEMMA RecorderFound ==
    ASSUME NEW digital, Listed(digital), NEW inputs \in SUBSET AnalogIds, NEW answered
    PROVE  LET found == NetworkCameras(digital, answered) \o AnalogCameras(inputs, answered)
           IN  /\ Distinct(found)
               /\ \A i \in DOMAIN found : /\ Made(found[i]) /\ found[i].id \in Nat
                                       /\ ReportedOwn(found[i], digital)
<1> DEFINE first == NetworkCameras(digital, answered)
           second == AnalogCameras(inputs, answered)
           found == first \o second
<1>1. Found(first, digital, Len(DigitalIds))
  BY NetworkFound
<1>2. /\ second = [i \in 1 .. Len(second) |-> second[i]] /\ Len(second) \in Nat
      /\ \A i \in 1 .. Len(second) :
            /\ second[i].streams \subseteq 1 .. 4 /\ second[i].id \in AnalogIds
            /\ second[i].serial = MadeUp("VI", second[i].id)
      /\ Distinct(second)
  BY AnalogFound
<1>3. first = [i \in 1 .. Len(first) |-> first[i]] /\ Len(first) \in Nat
  BY <1>1 DEF Found
<1> HIDE DEF first, second
<1>4. /\ DOMAIN found = 1 .. Len(first) + Len(second)
      /\ \A i \in 1 .. Len(first) : found[i] = first[i]
      /\ \A i \in 1 .. Len(second) : found[Len(first) + i] = second[i]
  <2> DEFINE T == {first[i] : i \in 1 .. Len(first)} \union {second[i] : i \in 1 .. Len(second)}
  <2>1. first \in [1 .. Len(first) -> T] /\ second \in [1 .. Len(second) -> T]
    BY <1>2, <1>3
  <2> HIDE DEF T
  <2>2. first \in Seq(T) /\ second \in Seq(T)
    BY <1>2, <1>3, <2>1
  <2> QED
    BY <2>2
<1> HIDE DEF found
<1>5. \A i \in DOMAIN found : \/ i \in 1 .. Len(first)
                              \/ \E j \in 1 .. Len(second) : i = Len(first) + j
  <2> SUFFICES ASSUME NEW i \in DOMAIN found, i \notin 1 .. Len(first)
               PROVE  \E j \in 1 .. Len(second) : i = Len(first) + j
    OBVIOUS
  <2>1. i - Len(first) \in 1 .. Len(second) /\ i = Len(first) + (i - Len(first))
    BY <1>2, <1>3, <1>4
  <2> QED
    BY <2>1
<1>6. ASSUME NEW i \in 1 .. Len(first), NEW j \in 1 .. Len(second)
      PROVE  first[i].id # second[j].id /\ first[i].serial # second[j].serial
  <2>1. first[i].id # second[j].id
    <3>1. PICK k \in 1 .. Len(DigitalIds) : first[i].id = DigitalIds[k]
      BY <1>1 DEF Found
    <3> QED
      BY <1>2, <3>1, CamerasAssumption
  <2>2. second[j].serial = MadeUp("VI", second[j].id)
    BY <1>2
  <2>3. CASE \E s \in CameraSerials : first[i].serial = <<s>>
    <3>1. PICK s \in CameraSerials : first[i].serial = <<s>>
      BY <2>3
    <3>2. <<s>> # MadeUp("VI", second[j].id)
      BY SerialsTell
    <3> QED
      BY <2>1, <2>2, <3>1, <3>2
  <2>4. CASE \E how : first[i].serial = MadeUp(how, first[i].id)
    <3>1. PICK how : first[i].serial = MadeUp(how, first[i].id)
      BY <2>4
    <3>2. MadeUp(how, first[i].id) = MadeUp("VI", second[j].id) => first[i].id = second[j].id
      BY SerialsTell
    <3> QED
      BY <2>1, <2>2, <3>1, <3>2
  <2> QED
    BY <1>1, <2>3, <2>4 DEF Found, Made
<1>7. ASSUME NEW i \in DOMAIN found, NEW j \in DOMAIN found, i # j
      PROVE  found[i].id # found[j].id /\ found[i].serial # found[j].serial
  <2>1. CASE i \in 1 .. Len(first) /\ j \in 1 .. Len(first)
    <3>1. first[i].id # first[j].id /\ first[i].serial # first[j].serial
      BY <1>1, <1>7, <2>1 DEF Found, Distinct
    <3> QED
      BY <1>4, <2>1, <3>1
  <2>2. ASSUME NEW k \in 1 .. Len(second), j = Len(first) + k, i \in 1 .. Len(first)
        PROVE  found[i].id # found[j].id /\ found[i].serial # found[j].serial
    BY <1>4, <1>6, <2>2
  <2>3. ASSUME NEW k \in 1 .. Len(second), i = Len(first) + k, j \in 1 .. Len(first)
        PROVE  found[i].id # found[j].id /\ found[i].serial # found[j].serial
    <3>1. first[j].id # second[k].id /\ first[j].serial # second[k].serial
      BY <1>6, <2>3
    <3> QED
      BY <1>4, <2>3, <3>1
  <2>4. ASSUME NEW k \in 1 .. Len(second), NEW l \in 1 .. Len(second),
               i = Len(first) + k, j = Len(first) + l
        PROVE  found[i].id # found[j].id /\ found[i].serial # found[j].serial
    <3>1. k # l /\ DOMAIN second = 1 .. Len(second)
      BY <1>2, <1>7, <2>4
    <3>2. second[k].id # second[l].id /\ second[k].serial # second[l].serial
      BY <1>2, <3>1 DEF Distinct
    <3> QED
      BY <1>4, <2>4, <3>2
  <2> QED
    BY <1>5, <2>1, <2>2, <2>3, <2>4
<1>8. ASSUME NEW i \in DOMAIN found
      PROVE  Made(found[i]) /\ found[i].id \in Nat
  <2>1. CASE i \in 1 .. Len(first)
    <3>1. Made(first[i]) /\ \E j \in 1 .. Len(DigitalIds) : first[i].id = DigitalIds[j]
      BY <1>1, <2>1 DEF Found
    <3>2. first[i].id \in Nat
      BY <3>1, CamerasAssumption
    <3> QED
      BY <1>4, <2>1, <3>1, <3>2
  <2>2. ASSUME NEW j \in 1 .. Len(second), i = Len(first) + j
        PROVE  Made(found[i]) /\ found[i].id \in Nat
    <3>1. found[i] = second[j] /\ second[j].id \in Nat
      BY <1>2, <1>4, <2>2, CamerasAssumption
    <3>2. Made(second[j])
      BY <1>2, Zenon DEF Made
    <3> QED
      BY <3>1, <3>2
  <2> QED
    BY <1>5, <2>1, <2>2
<1>9. ASSUME NEW i \in DOMAIN found
      PROVE  ReportedOwn(found[i], digital)
  <2>1. CASE i \in 1 .. Len(first)
    <3>1. PICK j \in 1 .. Len(DigitalIds) : first[i].id = DigitalIds[j] /\ ItsOwn(first[i], digital, j)
      BY <1>1, <2>1 DEF Found
    <3>2. j \in DOMAIN digital /\ digital[j].id = DigitalIds[j]
      BY DEF Listed, DigitalChannels
    <3> QED
      BY <1>4, <2>1, <3>1, <3>2 DEF ReportedOwn, ItsOwn
  <2>2. ASSUME NEW j \in 1 .. Len(second), i = Len(first) + j
        PROVE  ReportedOwn(found[i], digital)
    <3>1. found[i] = second[j] /\ second[j].serial = MadeUp("VI", second[j].id)
      BY <1>2, <1>4, <2>2
    <3>2. MadeUp("VI", second[j].id) # Own
      BY SerialsTell, Zenon
    <3> QED
      BY <3>1, <3>2 DEF ReportedOwn
  <2> QED
    BY <1>5, <2>1, <2>2
<1> QED
  BY <1>7, <1>8, <1>9 DEF Distinct, found, first, second

(* What a recorder reports is a list of its channels; nothing was set up   *)
(* before the first report.                                                *)
CamerasInv ==
    /\ listing.nvr => Listed(listing.digital) /\ listing.analog \in SUBSET AnalogIds
    /\ CamerasApart

(* An entity is found at its camera, as two cameras have no stream in      *)
(* common.                                                                 *)
LEMMA SetUpApart ==
    ASSUME CamerasInv, CamerasSetUp
    PROVE  CamerasInv'
<1>1. listing' = listing /\ told' = listing
  BY DEF CamerasSetUp
<1>2. PICK answered : cameras' = GetCameras(answered)
  BY DEF CamerasSetUp
<1>3. /\ listing.nvr =>
            /\ \A i, j \in DOMAIN cameras' : i # j => cameras'[i].serial # cameras'[j].serial
            /\ \A i \in DOMAIN cameras' : ReportedOwn(cameras'[i], listing.digital)
      /\ ~listing.nvr => \A i \in DOMAIN cameras' : cameras'[i].serial = Own
      /\ \A i, j \in DOMAIN cameras' : i # j => cameras'[i].id # cameras'[j].id
      /\ \A i \in DOMAIN cameras' : cameras'[i].streams \subseteq 1 .. 4
  <2>1. CASE listing.nvr
    <3> DEFINE found == NetworkCameras(listing.digital, answered)
                          \o AnalogCameras(listing.analog, answered)
    <3>1. cameras' = found
      BY <1>2, <2>1 DEF GetCameras
    <3>2. /\ Distinct(found)
          /\ \A i \in DOMAIN found : Made(found[i]) /\ ReportedOwn(found[i], listing.digital)
      BY <2>1, RecorderFound DEF CamerasInv
    <3> HIDE DEF found
    <3> QED
      BY <2>1, <3>1, <3>2 DEF Distinct, Made
  <2>2. CASE ~listing.nvr
    <3> DEFINE n == Cardinality(listing.channels)
    <3>1. cameras' = [i \in 1 .. n |-> [id |-> i, serial |-> Own, streams |-> StreamsOf(i, answered)]]
      BY <1>2, <2>2 DEF GetCameras
    <3> HIDE DEF n
    <3>2. \A i \in DOMAIN cameras' : /\ cameras'[i].id = i /\ cameras'[i].serial = Own
                                     /\ cameras'[i].streams = StreamsOf(i, answered)
      BY <3>1
    <3>3. \A i : StreamsOf(i, answered) \subseteq 1 .. 4
      BY DEF StreamsOf
    <3> QED
      BY <2>2, <3>2, <3>3
  <2> QED
    BY <2>1, <2>2
<1>4. ASSUME NEW i \in DOMAIN cameras', NEW n \in cameras'[i].streams
      PROVE  registered'[<<Own, <<cameras'[i].id, n>>>>] = cameras'[i].serial
  <2> DEFINE entities == {x \in (DOMAIN cameras') \X (1 .. 4) : x[2] \in cameras'[x[1]].streams}
             uid(x) == <<Own, <<cameras'[x[1]].id, x[2]>>>>
             u == <<Own, <<cameras'[i].id, n>>>>
             y == <<i, n>>
  <2>1. registered' = [v \in DOMAIN registered \union {uid(x) : x \in entities} |->
                         IF \E x \in entities : uid(x) = v
                         THEN cameras'[(CHOOSE x \in entities : uid(x) = v)[1]].serial
                         ELSE registered[v]]
    BY Zenon DEF CamerasSetUp
  <2>2. y \in entities /\ uid(y) = u
    BY <1>3, <1>4
  <2>3. ASSUME NEW x \in entities, uid(x) = u
        PROVE  x[1] = i
    <3>1. cameras'[x[1]].id = cameras'[i].id
      <4>1. uid(x)[2] = <<cameras'[x[1]].id, x[2]>> /\ u[2] = <<cameras'[i].id, n>>
        BY Zenon
      <4>2. <<cameras'[x[1]].id, x[2]>> = <<cameras'[i].id, n>>
        BY <2>3, <4>1
      <4> QED
        BY <4>2
    <3>2. x[1] \in DOMAIN cameras'
      OBVIOUS
    <3> QED
      BY <1>3, <1>4, <3>1, <3>2
  <2> HIDE DEF entities, uid, u, y
  <2>4. \E x \in entities : uid(x) = u
    BY <2>2
  <2>5. (CHOOSE x \in entities : uid(x) = u) \in {x \in entities : uid(x) = u}
    BY <2>4
  <2>6. (CHOOSE x \in entities : uid(x) = u)[1] = i
    BY <2>3, <2>5
  <2>7. u \in {uid(x) : x \in entities}
    BY <2>4
  <2>8. registered'[u] = cameras'[(CHOOSE x \in entities : uid(x) = u)[1]].serial
    BY <2>1, <2>4, <2>7
  <2> QED
    BY <2>6, <2>8 DEF u
<1>5. \A i \in DOMAIN cameras' : told'.nvr /\ cameras'[i].serial = Own =>
         \E k \in DOMAIN told'.digital :
            told'.digital[k].id = cameras'[i].id /\ told'.digital[k].serial = "own"
  BY <1>1, <1>3 DEF ReportedOwn
<1> QED
  BY <1>1, <1>3, <1>4, <1>5 DEF CamerasInv, CamerasApart

LEMMA ReportApart ==
    ASSUME CamerasInv, DeviceReports
    PROVE  CamerasInv'
<1>1. cameras' = cameras /\ registered' = registered /\ told' = told
  BY DEF DeviceReports
<1>2. CASE \E ds \in [DOMAIN DigitalIds -> UNION {DigitalChannels(DigitalIds[i]) : i \in DOMAIN DigitalIds}],
              as \in SUBSET AnalogIds :
             /\ listing.nvr \/ listing = NoListing
             /\ \A i \in DOMAIN ds : ds[i].id = DigitalIds[i]
             /\ listing' = [nvr |-> TRUE, digital |-> ds, analog |-> as, channels |-> {}]
  <2>1. PICK ds \in [DOMAIN DigitalIds -> UNION {DigitalChannels(DigitalIds[i]) : i \in DOMAIN DigitalIds}],
             as \in SUBSET AnalogIds :
             /\ listing.nvr \/ listing = NoListing
             /\ \A i \in DOMAIN ds : ds[i].id = DigitalIds[i]
             /\ listing' = [nvr |-> TRUE, digital |-> ds, analog |-> as, channels |-> {}]
    BY <1>2
  <2>2. Listed(ds)
    <3>1. DOMAIN ds = DOMAIN DigitalIds /\ DOMAIN DigitalIds = 1 .. Len(DigitalIds) /\ Len(DigitalIds) \in Nat
      BY CamerasAssumption
    <3>2. Len(ds) = Len(DigitalIds)
      BY <3>1
    <3>3. ASSUME NEW k \in 1 .. Len(DigitalIds)
          PROVE  ds[k] \in DigitalChannels(DigitalIds[k])
      <4>1. PICK j \in DOMAIN DigitalIds : ds[k] \in DigitalChannels(DigitalIds[j])
        BY <3>1
      <4>2. ds[k].id = DigitalIds[k]
        BY <2>1, <3>1
      <4> QED
        BY <4>1, <4>2 DEF DigitalChannels
    <3> QED
      BY <3>1, <3>2, <3>3 DEF Listed
  <2>3. listing'.nvr /\ listing'.digital = ds /\ listing'.analog = as
    BY <2>1
  <2> QED
    BY <1>1, <2>2, <2>3 DEF CamerasInv, CamerasApart
<1>3. CASE \E cs \in {{1}, {1, 2}} : ~listing.nvr /\ listing' = [NoListing EXCEPT !.channels = cs]
  <2>1. ~listing'.nvr
    BY <1>3 DEF NoListing
  <2> QED
    BY <1>1, <2>1 DEF CamerasInv, CamerasApart
<1> QED
  BY <1>2, <1>3, Zenon DEF DeviceReports

LEMMA CamerasStart == Init => CamerasInv
<1> SUFFICES ASSUME Init
             PROVE  CamerasInv
  OBVIOUS
<1>1. ~listing.nvr /\ ~told.nvr /\ cameras = <<>>
  BY DEF Init, CamerasInit, NoListing
<1> QED
  BY <1>1 DEF CamerasInv, CamerasApart

(* Whatever serial numbers a recorder reports for whichever cameras, and   *)
(* however often what it reports changes between setups, no two of its     *)
(* cameras are one device in Home Assistant, and none is the recorder but  *)
(* one for which it reports its own number.                                *)
THEOREM CamerasKeptApart == Spec => []CamerasApart
<1>1. Init => CamerasInv
  BY CamerasStart
<1>2. CamerasInv /\ [Next]_vars => CamerasInv'
  <2>1. CASE UNCHANGED cameraVars
    BY <2>1 DEF cameraVars, CamerasInv, CamerasApart
  <2> QED
    BY <2>1, Apart, SetUpApart, ReportApart DEF CamerasNext
<1>3. CamerasInv => CamerasApart
  BY DEF CamerasInv
<1> QED
  BY <1>1, <1>2, <1>3, PTL DEF Spec

-----------------------------------------------------------------------------
(* The stream: where its parts lie.                                        *)

\* the encodings of the parts, what is returned for them, and the first k in a row
Encodings(s) == [i \in DOMAIN s |-> Encoded(s[i])]
Pieces(s) == [i \in DOMAIN s |-> Returned(s[i])]
Upto(q, k) == FlattenSeq(SubSeq(q, 1, k))

\* the tokens of a stream, those from a + 1 to b, and where part k ends
Text(s) == Upto(Encodings(s), Len(s))
Cut(t, a, b) == SubSeq(t, a + 1, b)
Off(s, k) == Len(Upto(Encodings(s), k))

\* where the body of part k starts, and where the part has arrived
Start(s, k) == Off(s, k - 1) + (IF s[k].kind = "sized" THEN 11 ELSE 8)
End(s, k) == Off(s, k) + (IF s[k].kind = "sized" THEN 0 ELSE 3) - 2

(* What a stretch of a sequence holds, and what is left and right of it.   *)
LEMMA CutHolds ==
    ASSUME NEW T, NEW t \in Seq(T), NEW a \in 0 .. Len(t), NEW b \in a .. Len(t)
    PROVE  /\ Cut(t, a, b) \in Seq(T) /\ Len(Cut(t, a, b)) = b - a
           /\ \A i \in 1 .. b - a : Cut(t, a, b)[i] = t[a + i]
<1>1. /\ Len(t) \in Nat /\ a \in Int /\ b \in Int /\ a + 1 \in Int
      /\ \A i \in a + 1 .. b : t[i] \in T
  BY LenProperties, ElementOfSeq
<1>2. /\ SubSeq(t, a + 1, b) \in Seq(T)
      /\ Len(SubSeq(t, a + 1, b)) = IF a + 1 <= b THEN b - (a + 1) + 1 ELSE 0
      /\ \A i \in 1 .. b - (a + 1) + 1 : SubSeq(t, a + 1, b)[i] = t[(a + 1) + i - 1]
  BY <1>1, SubSeqProperties
<1>3. /\ (IF a + 1 <= b THEN b - (a + 1) + 1 ELSE 0) = b - a
      /\ b - (a + 1) + 1 = b - a
      /\ \A i \in 1 .. b - a : (a + 1) + i - 1 = a + i
  BY <1>1
<1> QED
  BY <1>2, <1>3 DEF Cut

LEMMA CutSub ==
    ASSUME NEW T, NEW t \in Seq(T), NEW a \in 0 .. Len(t), NEW b \in a .. Len(t),
           NEW i \in 1 .. b - a + 1, NEW j \in i - 1 .. b - a
    PROVE  SubSeq(Cut(t, a, b), i, j) = Cut(t, a + i - 1, a + j)
<1> DEFINE u == Cut(t, a, b)
           v == Cut(t, a + i - 1, a + j)
           m == i - 1
<1>1. /\ Len(t) \in Nat /\ a \in Nat /\ b \in Nat /\ i \in Nat /\ m \in Nat
      /\ a + i - 1 \in 0 .. Len(t) /\ a + j \in a + i - 1 .. Len(t)
  BY LenProperties
<1>2. /\ u \in Seq(T) /\ Len(u) = b - a
      /\ \A h \in 1 .. b - a : u[h] = t[a + h]
  BY CutHolds
<1>3. /\ v \in Seq(T) /\ Len(v) = (a + j) - (a + i - 1)
      /\ \A h \in 1 .. (a + j) - (a + i - 1) : v[h] = t[(a + i - 1) + h]
  BY <1>1, CutHolds
<1> HIDE DEF u, v
<1>4. m + 1 = i /\ m \in 0 .. Len(u) /\ j \in m .. Len(u) /\ (a + j) - (a + i - 1) = j - m
  BY <1>1, <1>2
<1> HIDE DEF m
<1>5. /\ Cut(u, m, j) \in Seq(T) /\ Len(Cut(u, m, j)) = j - m
      /\ \A h \in 1 .. j - m : Cut(u, m, j)[h] = u[m + h]
  <2>1. u \in Seq(T)
    BY <1>2
  <2> QED
    BY <1>4, <2>1, CutHolds
<1>6. SubSeq(u, i, j) = Cut(u, m, j)
  BY <1>4 DEF Cut
<1>7. ASSUME NEW h \in 1 .. j - m
      PROVE  u[m + h] = v[h]
  <2>1. m + h \in 1 .. b - a /\ a + (m + h) = (a + i - 1) + h
    BY <1>1, <1>4
  <2> QED
    BY <1>2, <1>3, <1>4, <2>1
<1>8. Cut(u, m, j) = v
  BY <1>3, <1>4, <1>5, <1>7, SeqEqual
<1> QED
  BY <1>6, <1>8 DEF u, v

LEMMA CutFrom ==
    ASSUME NEW T, NEW t \in Seq(T), NEW a \in 0 .. Len(t), NEW b \in a .. Len(t),
           NEW i \in 1 .. b - a + 1
    PROVE  From(Cut(t, a, b), i) = Cut(t, a + i - 1, b)
<1>1. Len(Cut(t, a, b)) = b - a
  BY CutHolds
<1>2. a \in Nat /\ b \in Nat /\ b - a \in i - 1 .. b - a /\ a + (b - a) = b
  BY LenProperties
<1>3. SubSeq(Cut(t, a, b), i, b - a) = Cut(t, a + i - 1, a + (b - a))
  BY <1>2, CutSub
<1> QED
  BY <1>1, <1>2, <1>3 DEF From

LEMMA CutFirst ==
    ASSUME NEW T, NEW t \in Seq(T), NEW a \in 0 .. Len(t), NEW b \in a .. Len(t),
           NEW i \in 0 .. b - a
    PROVE  SubSeq(Cut(t, a, b), 1, i) = Cut(t, a, a + i)
<1>1. a \in Nat /\ b \in Nat /\ 1 \in 1 .. b - a + 1 /\ i \in 1 - 1 .. b - a /\ a + 1 - 1 = a
  BY LenProperties
<1>2. SubSeq(Cut(t, a, b), 1, i) = Cut(t, a + 1 - 1, a + i)
  BY <1>1, CutSub
<1> QED
  BY <1>1, <1>2

LEMMA CutJoins ==
    ASSUME NEW T, NEW t \in Seq(T), NEW a \in 0 .. Len(t), NEW b \in a .. Len(t),
           NEW c \in b .. Len(t)
    PROVE  Cut(t, a, b) \o Cut(t, b, c) = Cut(t, a, c)
<1> DEFINE u == Cut(t, a, b)
           v == Cut(t, b, c)
           w == Cut(t, a, c)
<1>1. /\ Len(t) \in Nat /\ a \in Nat /\ b \in Nat /\ c \in Nat
      /\ b \in 0 .. Len(t) /\ c \in a .. Len(t)
  BY LenProperties
<1>2. /\ u \in Seq(T) /\ Len(u) = b - a
      /\ \A j \in 1 .. b - a : u[j] = t[a + j]
  BY CutHolds
<1>3. /\ v \in Seq(T) /\ Len(v) = c - b
      /\ \A j \in 1 .. c - b : v[j] = t[b + j]
  BY <1>1, CutHolds
<1>4. /\ w \in Seq(T) /\ Len(w) = c - a
      /\ \A j \in 1 .. c - a : w[j] = t[a + j]
  BY <1>1, CutHolds
<1> HIDE DEF u, v, w
<1>5. /\ u \o v \in Seq(T) /\ Len(u \o v) = Len(u) + Len(v)
      /\ \A i \in 1 .. Len(u) + Len(v) : (u \o v)[i] = IF i <= Len(u) THEN u[i] ELSE v[i - Len(u)]
  BY <1>2, <1>3, ConcatProperties
<1>6. ASSUME NEW i \in 1 .. c - a
      PROVE  (u \o v)[i] = w[i]
  <2>1. CASE i <= b - a
    BY <1>1, <1>2, <1>3, <1>4, <1>5, <2>1
  <2>2. CASE ~(i <= b - a)
    <3>1. i - (b - a) \in 1 .. c - b /\ b + (i - (b - a)) = a + i /\ i \in 1 .. Len(u) + Len(v)
      BY <1>1, <1>2, <1>3, <2>2, SMTT(30)
    <3> QED
      BY <1>2, <1>3, <1>4, <1>5, <2>2, <3>1, SMTT(30)
  <2> QED
    BY <2>1, <2>2
<1>7. Len(u) + Len(v) = c - a
  BY <1>1, <1>2, <1>3
<1> QED
  BY <1>4, <1>5, <1>6, <1>7, SeqEqual, ZenonT(30) DEF u, v, w

(* A stretch starts with u when u is there.                                *)
There(t, a, b, u) == a + Len(u) =< b /\ \A i \in 1 .. Len(u) : t[a + i] = u[i]

LEMMA CutStarts ==
    ASSUME NEW T, NEW t \in Seq(T), NEW a \in 0 .. Len(t), NEW b \in a .. Len(t),
           NEW u \in Seq(T)
    PROVE  Starts(Cut(t, a, b), u) <=> There(t, a, b, u)
<1> DEFINE v == Cut(t, a, b)
<1>1. /\ Len(t) \in Nat /\ a \in Nat /\ b \in Nat /\ Len(u) \in Nat
      /\ v \in Seq(T) /\ Len(v) = b - a
      /\ \A j \in 1 .. b - a : v[j] = t[a + j]
  BY CutHolds, LenProperties
<1>2. Starts(v, u) <=> Len(u) <= b - a /\ SubSeq(u, 1, Len(u)) = SubSeq(v, 1, Len(u))
  BY <1>1 DEF Starts, IsPrefix
<1>3. SubSeq(u, 1, Len(u)) = u
  BY SubSeqFull
<1>4. CASE Len(u) <= b - a
  <2> DEFINE w == Cut(t, a, a + Len(u))
  <2>1. Len(u) \in 0 .. b - a /\ a + Len(u) \in a .. Len(t) /\ (a + Len(u)) - a = Len(u)
    BY <1>1, <1>4
  <2>2. SubSeq(v, 1, Len(u)) = w
    BY <2>1, CutFirst
  <2>3. w \in Seq(T) /\ Len(w) = Len(u) /\ \A j \in 1 .. Len(u) : w[j] = t[a + j]
    BY <2>1, CutHolds, ZenonT(30)
  <2> HIDE DEF w, v
  <2>4. u = w <=> \A i \in 1 .. Len(u) : t[a + i] = u[i]
    BY <2>3, SeqEqual
  <2> QED
    <3>1. Starts(v, u) <=> \A i \in 1 .. Len(u) : t[a + i] = u[i]
      BY <1>2, <1>3, <1>4, <2>2, <2>4
    <3>2. a + Len(u) =< b
      BY <1>1, <1>4
    <3> QED
      BY <3>1, <3>2 DEF There, v
<1>5. CASE ~(Len(u) <= b - a)
  BY <1>1, <1>2, <1>5 DEF There
<1> QED
  BY <1>4, <1>5

(* find gives the first place from position i on where u is, or 0.         *)
LEMMA FindsFirst ==
    ASSUME NEW t \in Seq(Tokens), NEW a \in 0 .. Len(t), NEW b \in a .. Len(t),
           NEW u \in Seq(Tokens), NEW i \in Nat \ {0}, NEW j \in i .. b - a,
           There(t, a + j - 1, b, u),
           \A h \in i .. j - 1 : ~There(t, a + h - 1, b, u)
    PROVE  Find(Cut(t, a, b), u, i) = j
<1> DEFINE v == Cut(t, a, b)
           found == {h \in i .. Len(v) : Starts(From(v, h), u)}
<1>1. Len(t) \in Nat /\ a \in Nat /\ b \in Nat /\ v \in Seq(Tokens) /\ Len(v) = b - a
  <2>1. v \in Seq(Tokens) /\ Len(v) = b - a
    BY CutHolds
  <2>2. Len(t) \in Nat
    BY LenProperties
  <2> QED
    BY <2>1, <2>2
<1>2. ASSUME NEW h \in i .. Len(v)
      PROVE  Starts(From(v, h), u) <=> There(t, a + h - 1, b, u)
  <2>1. /\ h \in 1 .. b - a + 1 /\ a + h - 1 \in 0 .. Len(t) /\ b \in a + h - 1 .. Len(t)
    BY <1>1
  <2>2. From(v, h) = Cut(t, a + h - 1, b)
    BY <2>1, CutFrom
  <2> QED
    BY <2>1, <2>2, CutStarts
<1> HIDE DEF v
<1>3. j \in found /\ \A h \in found : j =< h
  <2>1. j \in i .. Len(v) /\ \A h \in i .. Len(v) : h \in i .. j - 1 \/ j =< h
    BY <1>1
  <2> QED
    BY <1>2, <2>1
<1>4. \A h \in found : h \in Int
  BY <1>1
<1>5. Min(found) = j
  <2>1. \A x \in found : (\A y \in found : x =< y) => x = j
    BY <1>3, <1>4
  <2> HIDE DEF found
  <2> QED
    BY <1>3, <2>1 DEF Min
<1> QED
  BY <1>3, <1>5, Zenon DEF Find, found, v

LEMMA FindsNone ==
    ASSUME NEW t \in Seq(Tokens), NEW a \in 0 .. Len(t), NEW b \in a .. Len(t),
           NEW u \in Seq(Tokens), NEW i \in Nat \ {0},
           \A h \in i .. b - a : ~There(t, a + h - 1, b, u)
    PROVE  Find(Cut(t, a, b), u, i) = 0
<1> DEFINE v == Cut(t, a, b)
           found == {h \in i .. Len(v) : Starts(From(v, h), u)}
<1>1. Len(t) \in Nat /\ a \in Nat /\ b \in Nat /\ v \in Seq(Tokens) /\ Len(v) = b - a
  <2>1. v \in Seq(Tokens) /\ Len(v) = b - a
    BY CutHolds
  <2>2. Len(t) \in Nat
    BY LenProperties
  <2> QED
    BY <2>1, <2>2
<1>2. ASSUME NEW h \in i .. Len(v)
      PROVE  ~Starts(From(v, h), u)
  <2>1. /\ h \in 1 .. b - a + 1 /\ a + h - 1 \in 0 .. Len(t) /\ b \in a + h - 1 .. Len(t)
    BY <1>1
  <2>2. From(v, h) = Cut(t, a + h - 1, b)
    BY <2>1, CutFrom
  <2> QED
    BY <1>1, <2>1, <2>2, CutStarts
<1>3. found = {}
  BY <1>2
<1> QED
  BY <1>3, Zenon DEF Find, found, v

(* What it is for the tokens the parser looks for to be there.             *)
LEMMA Theres ==
    ASSUME NEW t, NEW a \in Int, NEW b \in Int
    PROVE  /\ There(t, a, b, <<"D">>) <=> a + 1 =< b /\ t[a + 1] = "D"
           /\ There(t, a, b, <<"dash", "dash">>) <=>
                a + 2 =< b /\ t[a + 1] = "dash" /\ t[a + 2] = "dash"
           /\ There(t, a, b, CRLF) <=> a + 2 =< b /\ t[a + 1] = "cr" /\ t[a + 2] = "lf"
           /\ There(t, a, b, CRLF \o CRLF) <=>
                /\ a + 4 =< b /\ t[a + 1] = "cr" /\ t[a + 2] = "lf"
                /\ t[a + 3] = "cr" /\ t[a + 4] = "lf"
<1>1. /\ Len(<<"D">>) = 1 /\ <<"D">>[1] = "D" /\ 1 .. 1 = {1}
      /\ Len(<<"dash", "dash">>) = 2 /\ <<"dash", "dash">>[1] = "dash" /\ <<"dash", "dash">>[2] = "dash"
      /\ Len(CRLF) = 2 /\ CRLF[1] = "cr" /\ CRLF[2] = "lf" /\ 1 .. 2 = {1, 2}
  BY DEF CRLF
<1>3. /\ Len(CRLF \o CRLF) = 4 /\ 1 .. 4 = {1, 2, 3, 4}
      /\ (CRLF \o CRLF)[1] = "cr" /\ (CRLF \o CRLF)[2] = "lf"
      /\ (CRLF \o CRLF)[3] = "cr" /\ (CRLF \o CRLF)[4] = "lf"
  <2>1. CRLF \in Seq({"cr", "lf"})
    BY DEF CRLF
  <2>2. /\ Len(CRLF \o CRLF) = Len(CRLF) + Len(CRLF)
        /\ \A i \in 1 .. Len(CRLF) + Len(CRLF) :
              (CRLF \o CRLF)[i] = IF i <= Len(CRLF) THEN CRLF[i] ELSE CRLF[i - Len(CRLF)]
    BY <2>1, ConcatProperties
  <2>3. \A i \in 1 .. 4 : (CRLF \o CRLF)[i] = IF i <= 2 THEN CRLF[i] ELSE CRLF[i - 2]
    BY <1>1, <2>2
  <2> QED
    BY <1>1, <2>2, <2>3
<1> QED
  BY <1>1, <1>3 DEF There

(* FlattenSeq, of which the library gives the definition only: what is put *)
(* together of k sequences, and of one more.                               *)
Flattening(q, n, f) == [i \in 1 .. n |-> IF i = 1 THEN q[i] ELSE f[i - 1] \o q[i]]

LEMMA FlatteningDefined ==
    ASSUME NEW q, NEW n \in Nat
    PROVE  \E f : f = Flattening(q, n, f)
<1> DEFINE S == {m \in Nat : \E f : f = Flattening(q, m, f)}
<1>1. 0 \in S
  <2>1. \A f : Flattening(q, 0, f) = [i \in 1 .. 0 |-> 0]
    BY DEF Flattening
  <2> QED
    BY <2>1
<1>2. ASSUME NEW m \in Nat, m \in S
      PROVE  m + 1 \in S
  <2>1. PICK f : f = Flattening(q, m, f)
    BY <1>2
  <2> DEFINE h(i) == IF i =< m THEN f[i] ELSE IF i = 1 THEN q[i] ELSE f[i - 1] \o q[i]
             g == [i \in 1 .. m + 1 |-> h(i)]
  <2>2. \A i \in 1 .. m : f[i] = IF i = 1 THEN q[i] ELSE f[i - 1] \o q[i]
    BY <2>1, Zenon DEF Flattening
  <2>3. ASSUME NEW i \in 1 .. m + 1
        PROVE  h(i) = IF i = 1 THEN q[i] ELSE g[i - 1] \o q[i]
    <3>1. CASE i = 1
      BY <2>2, <3>1
    <3>2. CASE i # 1
      <4>1. i - 1 \in 1 .. m + 1 /\ i - 1 =< m /\ (i =< m => i \in 1 .. m)
        BY <3>2
      <4>2. g[i - 1] = f[i - 1]
        BY <4>1
      <4> HIDE DEF g
      <4> QED
        BY <2>2, <3>2, <4>1, <4>2
    <3> QED
      BY <3>1, <3>2
  <2>4. Flattening(q, m + 1, g) = [i \in 1 .. m + 1 |-> IF i = 1 THEN q[i] ELSE g[i - 1] \o q[i]]
    BY DEF Flattening
  <2> HIDE DEF h
  <2>5. g = [i \in 1 .. m + 1 |-> IF i = 1 THEN q[i] ELSE g[i - 1] \o q[i]]
    <3> DEFINE e(i) == IF i = 1 THEN q[i] ELSE g[i - 1] \o q[i]
    <3>1. \A i \in 1 .. m + 1 : h(i) = e(i)
      BY <2>3
    <3> HIDE DEF e
    <3>2. [i \in 1 .. m + 1 |-> h(i)] = [i \in 1 .. m + 1 |-> e(i)]
      BY <3>1
    <3> QED
      BY <3>2 DEF e
  <2>6. g = Flattening(q, m + 1, g)
    BY <2>4, <2>5, Zenon
  <2> HIDE DEF g
  <2> QED
    BY <2>6
<1> HIDE DEF S
<1>3. Nat \subseteq S
  BY <1>1, <1>2, Induction
<1> QED
  BY <1>3 DEF S

LEMMA FlattenUnfolds ==
    ASSUME NEW q, Len(q) \in Nat \ {0}
    PROVE  \E f : /\ FlattenSeq(q) = f[Len(q)] /\ f[1] = q[1]
                  /\ \A i \in 2 .. Len(q) : f[i] = f[i - 1] \o q[i]
<1> DEFINE f == CHOOSE g : g = Flattening(q, Len(q), g)
<1>1. FlattenSeq(q) = f[Len(q)]
  <2>1. Len(q) # 0
    OBVIOUS
  <2> QED
    BY <2>1, Zenon DEF FlattenSeq, Flattening
<1>2. f = Flattening(q, Len(q), f)
  BY FlatteningDefined, Zenon
<1> HIDE DEF f
<1>3. \A i \in 1 .. Len(q) : f[i] = IF i = 1 THEN q[i] ELSE f[i - 1] \o q[i]
  BY <1>2, Zenon DEF Flattening
<1>4. 1 \in 1 .. Len(q) /\ \A i \in 2 .. Len(q) : i \in 1 .. Len(q) /\ i # 1
  OBVIOUS
<1> QED
  BY <1>1, <1>3, <1>4

LEMMA FlattenLast ==
    ASSUME NEW T, NEW q \in Seq(Seq(T)), Len(q) > 0
    PROVE  FlattenSeq(q) = FlattenSeq(Cut(q, 0, Len(q) - 1)) \o q[Len(q)]
<1> DEFINE n == Len(q)
           r == Cut(q, 0, n - 1)
<1>1. n \in Nat \ {0} /\ 0 \in 0 .. n /\ n - 1 \in 0 .. n
  BY LenProperties
<1>2. r \in Seq(Seq(T)) /\ Len(r) = n - 1 /\ \A i \in 1 .. n - 1 : r[i] = q[i]
  <2>1. /\ r \in Seq(Seq(T)) /\ Len(r) = (n - 1) - 0
        /\ \A i \in 1 .. (n - 1) - 0 : r[i] = q[0 + i]
    BY <1>1, CutHolds
  <2> QED
    BY <1>1, <2>1
<1>3. PICK f : /\ FlattenSeq(q) = f[n] /\ f[1] = q[1]
               /\ \A i \in 2 .. n : f[i] = f[i - 1] \o q[i]
  BY <1>1, FlattenUnfolds
<1> HIDE DEF r
<1>4. CASE n = 1
  <2>1. Len(r) = 0
    BY <1>2, <1>4
  <2>2. FlattenSeq(r) = r /\ r = <<>>
    BY <1>2, <2>1, EmptySeq DEF FlattenSeq
  <2>3. q[1] \in Seq(T)
    BY <1>4, ElementOfSeq
  <2>4. <<>> \o q[1] = q[1]
    BY <2>3, ConcatEmptySeq
  <2> QED
    BY <1>3, <1>4, <2>2, <2>4 DEF r
<1>5. CASE n # 1
  <2>1. n - 1 \in Nat \ {0} /\ Len(r) \in Nat \ {0} /\ n \in 2 .. n
    BY <1>1, <1>2, <1>5
  <2>2. PICK g : /\ FlattenSeq(r) = g[n - 1] /\ g[1] = r[1]
                 /\ \A i \in 2 .. n - 1 : g[i] = g[i - 1] \o r[i]
    <3>1. PICK g : /\ FlattenSeq(r) = g[Len(r)] /\ g[1] = r[1]
                   /\ \A i \in 2 .. Len(r) : g[i] = g[i - 1] \o r[i]
      BY <2>1, FlattenUnfolds
    <3> QED
      BY <1>2, <3>1
  <2> DEFINE S == {m \in Nat : m \in 1 .. n - 1 => f[m] = g[m]}
  <2>3. 0 \in S
    OBVIOUS
  <2>4. ASSUME NEW m \in Nat, m \in S
        PROVE  m + 1 \in S
    <3>1. CASE m = 0
      <4>1. 1 \in 1 .. n - 1
        BY <2>1
      <4> QED
        BY <1>2, <1>3, <2>2, <3>1, <4>1
    <3>2. CASE m + 1 \in 2 .. n - 1
      <4>1. m \in 1 .. n - 1 /\ m + 1 \in 2 .. n /\ m + 1 \in 1 .. n - 1 /\ (m + 1) - 1 = m
        BY <1>1, <3>2
      <4>2. f[m + 1] = f[m] \o q[m + 1] /\ g[m + 1] = g[m] \o r[m + 1]
        BY <1>3, <2>2, <3>2, <4>1
      <4> QED
        <5>1. f[m] = g[m]
          BY <2>4, <4>1
        <5>2. r[m + 1] = q[m + 1]
          BY <1>2, <4>1
        <5> QED
          <6>1. f[m + 1] = g[m + 1]
            BY <4>2, <5>1, <5>2, Zenon
          <6> QED
            BY <6>1
    <3>3. CASE ~(m + 1 \in 1 .. n - 1)
      BY <3>3
    <3> QED
      BY <3>1, <3>2, <3>3, <2>1
  <2> HIDE DEF S
  <2>5. n - 1 \in S
    BY <2>1, <2>3, <2>4, Induction
  <2>6. f[n - 1] = g[n - 1]
    BY <2>1, <2>5 DEF S
  <2>7. f[n] = f[n - 1] \o q[n]
    BY <1>3, <2>1
  <2> QED
    BY <1>3, <2>2, <2>6, <2>7 DEF r
<1> QED
  BY <1>4, <1>5

LEMMA UptoGrows ==
    ASSUME NEW T, NEW q \in Seq(Seq(T))
    PROVE  /\ Upto(q, 0) = <<>> /\ Upto(q, Len(q)) = FlattenSeq(q)
           /\ \A k \in 1 .. Len(q) : Upto(q, k) = Upto(q, k - 1) \o q[k]
           /\ \A k \in 0 .. Len(q) : Upto(q, k) \in Seq(T)
<1>1. Len(q) \in Nat
  BY LenProperties
<1>2. Upto(q, 0) = <<>>
  <2>1. SubSeq(q, 1, 0) = <<>>
    BY SubSeqEmpty
  <2> QED
    BY <2>1 DEF Upto, FlattenSeq
<1>3. Upto(q, Len(q)) = FlattenSeq(q)
  BY SubSeqFull DEF Upto
<1>4. ASSUME NEW k \in 1 .. Len(q)
      PROVE  Upto(q, k) = Upto(q, k - 1) \o q[k]
  <2> DEFINE r == Cut(q, 0, k)
  <2>1. 0 \in 0 .. Len(q) /\ k \in 0 .. Len(q) /\ k - 1 \in 0 .. k - 0 /\ k - 1 \in Nat
    BY <1>1
  <2>2. r \in Seq(Seq(T)) /\ Len(r) = k /\ r[k] = q[k]
    <3>1. /\ r \in Seq(Seq(T)) /\ Len(r) = k - 0
          /\ \A i \in 1 .. k - 0 : r[i] = q[0 + i]
      BY <2>1, CutHolds
    <3> QED
      BY <1>1, <2>1, <3>1
  <2>3. SubSeq(r, 1, k - 1) = Cut(q, 0, 0 + (k - 1))
    BY <2>1, CutFirst
  <2>4. Upto(q, k) = FlattenSeq(r) /\ Upto(q, k - 1) = FlattenSeq(SubSeq(r, 1, k - 1))
    <3>1. 0 + 1 = 1 /\ 0 + (k - 1) = k - 1
      BY <2>1
    <3> QED
      BY <2>3, <3>1 DEF Upto, Cut
  <2>5. SubSeq(r, 1, k - 1) = Cut(r, 0, Len(r) - 1)
    BY <2>2 DEF Cut
  <2> HIDE DEF r
  <2>6. FlattenSeq(r) = FlattenSeq(Cut(r, 0, Len(r) - 1)) \o r[Len(r)]
    <3>1. r \in Seq(Seq(T)) /\ Len(r) > 0
      BY <1>1, <2>2
    <3> QED
      BY <3>1, FlattenLast
  <2> QED
    BY <2>2, <2>4, <2>5, <2>6
<1>5. \A k \in 0 .. Len(q) : Upto(q, k) \in Seq(T)
  <2> DEFINE S == {m \in Nat : m \in 0 .. Len(q) => Upto(q, m) \in Seq(T)}
  <2>1. 0 \in S
    BY <1>2, EmptySeq
  <2>2. ASSUME NEW m \in Nat, m \in S
        PROVE  m + 1 \in S
    <3> SUFFICES ASSUME m + 1 \in 0 .. Len(q)
                 PROVE  Upto(q, m + 1) \in Seq(T)
      OBVIOUS
    <3>1. m \in 0 .. Len(q) /\ m + 1 \in 1 .. Len(q) /\ (m + 1) - 1 = m
      BY <1>1
    <3>2. Upto(q, m) \in Seq(T) /\ q[m + 1] \in Seq(T)
      BY <2>2, <3>1, ElementOfSeq
    <3>3. Upto(q, m) \o q[m + 1] \in Seq(T)
      BY <3>2, ConcatProperties
    <3>4. Upto(q, m + 1) = Upto(q, m) \o q[m + 1]
      BY <1>4, <3>1
    <3> QED
      BY <3>3, <3>4
  <2> HIDE DEF S
  <2>3. Nat \subseteq S
    BY <2>1, <2>2, Induction
  <2> QED
    BY <1>1, <2>3 DEF S
<1> QED
  BY <1>2, <1>3, <1>4, <1>5

(* Two sequences in a row.                                                 *)
LEMMA Joined ==
    ASSUME NEW T, NEW u \in Seq(T), NEW v \in Seq(T)
    PROVE  /\ u \o v \in Seq(T) /\ Len(u \o v) = Len(u) + Len(v)
           /\ \A i \in 1 .. Len(u) : (u \o v)[i] = u[i]
           /\ \A i \in 1 .. Len(v) : (u \o v)[Len(u) + i] = v[i]
<1>1. /\ u \o v \in Seq(T) /\ Len(u \o v) = Len(u) + Len(v)
      /\ \A i \in 1 .. Len(u) + Len(v) : (u \o v)[i] = IF i <= Len(u) THEN u[i] ELSE v[i - Len(u)]
  BY ConcatProperties
<1>2. Len(u) \in Nat /\ Len(v) \in Nat
  BY LenProperties
<1>3. /\ \A i \in 1 .. Len(u) : i \in 1 .. Len(u) + Len(v) /\ i <= Len(u)
      /\ \A i \in 1 .. Len(v) : /\ Len(u) + i \in 1 .. Len(u) + Len(v) /\ ~(Len(u) + i <= Len(u))
                               /\ (Len(u) + i) - Len(u) = i
  BY <1>2
<1> QED
  BY <1>1, <1>3

(* What the device sends for a part, token by token.                       *)
LEMMA Enclosed ==
    ASSUME NEW h \in Seq(Tokens), NEW u \in Seq(Tokens)
    PROVE  LET e == h \o u \o CRLF
               m == Len(h)
               n == Len(u)
           IN  /\ e \in Seq(Tokens) /\ Len(e) = m + n + 2
               /\ \A i \in 1 .. m : e[i] = h[i]
               /\ \A i \in 1 .. n : e[m + i] = u[i]
               /\ e[m + n + 1] = "cr" /\ e[m + n + 2] = "lf"
<1> DEFINE m == Len(h)
           n == Len(u)
           v == h \o u
           e == v \o CRLF
<1>1. CRLF \in Seq(Tokens)
  BY DEF CRLF, Tokens, Bytes
<1>2. m \in Nat /\ n \in Nat
  BY LenProperties
<1>3. /\ v \in Seq(Tokens) /\ Len(v) = m + n
      /\ \A i \in 1 .. m : v[i] = h[i]
      /\ \A i \in 1 .. n : v[m + i] = u[i]
  BY Joined
<1> HIDE DEF v
<1>4. /\ e \in Seq(Tokens) /\ Len(e) = Len(v) + Len(CRLF)
      /\ \A i \in 1 .. Len(v) : e[i] = v[i]
      /\ \A i \in 1 .. Len(CRLF) : e[Len(v) + i] = CRLF[i]
  <2>1. v \in Seq(Tokens)
    BY <1>3
  <2> QED
    BY <1>1, <2>1, Joined
<1>5. Len(CRLF) = 2 /\ CRLF[1] = "cr" /\ CRLF[2] = "lf"
  BY DEF CRLF
<1> HIDE DEF e, m, n
<1>6. e \in Seq(Tokens) /\ Len(e) = m + n + 2
  BY <1>2, <1>3, <1>4, <1>5
<1>7. \A i \in 1 .. m : e[i] = h[i]
  <2>1. \A i \in 1 .. m : i \in 1 .. Len(v)
    BY <1>2, <1>3
  <2> QED
    BY <1>3, <1>4, <2>1
<1>8. \A i \in 1 .. n : e[m + i] = u[i]
  <2>1. \A i \in 1 .. n : m + i \in 1 .. Len(v)
    BY <1>2, <1>3
  <2> QED
    BY <1>3, <1>4, <2>1
<1>9. e[m + n + 1] = "cr" /\ e[m + n + 2] = "lf"
  <2>1. 1 \in 1 .. Len(CRLF) /\ 2 \in 1 .. Len(CRLF)
    BY <1>5
  <2>2. e[Len(v) + 1] = CRLF[1] /\ e[Len(v) + 2] = CRLF[2]
    BY <1>4, <2>1
  <2> QED
    BY <1>3, <1>5, <2>2
<1> QED
  BY <1>6, <1>7, <1>8, <1>9 DEF e, m, n, v

LEMMA PartEncoded ==
    ASSUME NEW p \in StreamParts
    PROVE  LET e == Encoded(p)
               n == Len(p.body)
           IN  /\ e \in Seq(Tokens) /\ n \in Nat
               /\ e[1] = "D"
               /\ p.kind = "close" =>
                    /\ Len(e) = 5
                    /\ e[2] = "dash" /\ e[3] = "dash" /\ e[4] = "cr" /\ e[5] = "lf"
               /\ p.kind # "close" =>
                    e[2] = "cr" /\ e[3] = "lf" /\ e[4] = "type" /\ e[5] = "cr" /\ e[6] = "lf"
               /\ p.kind = "sized" =>
                    /\ Len(e) = 11 + n + 2
                    /\ e[7] = LengthLine[n] /\ e[8] = "cr" /\ e[9] = "lf"
                    /\ e[10] = "cr" /\ e[11] = "lf"
                    /\ \A i \in 1 .. n : e[11 + i] = p.body[i]
                    /\ e[11 + n + 1] = "cr" /\ e[11 + n + 2] = "lf"
               /\ p.kind = "bare" =>
                    /\ Len(e) = 8 + n + 2
                    /\ e[7] = "cr" /\ e[8] = "lf"
                    /\ \A i \in 1 .. n : e[8 + i] = p.body[i]
                    /\ e[8 + n + 1] = "cr" /\ e[8 + n + 2] = "lf"
<1> DEFINE e == Encoded(p)
           n == Len(p.body)
<1>1. /\ p.kind \in {"sized", "bare", "close"} /\ p.body \in Seq(Tokens)
      /\ p.kind = "sized" => n \in Lengths
  BY PartsAssumption
<1>2. n \in Nat
  BY <1>1, LenProperties
<1>3. CASE p.kind = "close"
  <2> DEFINE c == <<"D", "dash", "dash", "cr", "lf">>
  <2>1. /\ c \in Seq(Tokens) /\ Len(c) = 5 /\ c[1] = "D" /\ c[2] = "dash" /\ c[3] = "dash"
        /\ c[4] = "cr" /\ c[5] = "lf"
    BY DEF Tokens, Bytes
  <2>2. e = c
    BY <1>3 DEF Encoded
  <2> HIDE DEF c, e
  <2> QED
    BY <1>2, <1>3, <2>1, <2>2 DEF e
<1>4. CASE p.kind = "sized"
  <2> DEFINE l == LengthLine[n]
             h == <<"D", "cr", "lf", "type", "cr", "lf", l, "cr", "lf", "cr", "lf">>
  <2>1. l \in Tokens
    BY <1>1, <1>4 DEF Tokens
  <2>2. e = h \o p.body \o CRLF
    BY <1>4 DEF Encoded
  <2> HIDE DEF l, e
  <2>3. h \in Seq(Tokens)
    BY <2>1 DEF Tokens, Bytes
  <2>4. /\ Len(h) = 11 /\ h[1] = "D" /\ h[2] = "cr" /\ h[3] = "lf" /\ h[4] = "type"
        /\ h[5] = "cr" /\ h[6] = "lf" /\ h[7] = l /\ h[8] = "cr" /\ h[9] = "lf"
        /\ h[10] = "cr" /\ h[11] = "lf"
    OBVIOUS
  <2> HIDE DEF h
  <2>5. /\ e \in Seq(Tokens) /\ Len(e) = 11 + n + 2
        /\ \A i \in 1 .. 11 : e[i] = h[i]
        /\ \A i \in 1 .. n : e[11 + i] = p.body[i]
        /\ e[11 + n + 1] = "cr" /\ e[11 + n + 2] = "lf"
    <3> DEFINE x == h \o p.body \o CRLF
    <3>1. p.body \in Seq(Tokens)
      BY <1>1
    <3>2. /\ x \in Seq(Tokens) /\ Len(x) = Len(h) + n + 2
          /\ \A i \in 1 .. Len(h) : x[i] = h[i]
          /\ \A i \in 1 .. n : x[Len(h) + i] = p.body[i]
          /\ x[Len(h) + n + 1] = "cr" /\ x[Len(h) + n + 2] = "lf"
      BY <2>3, <3>1, Enclosed, ZenonT(30)
    <3>3. e = x
      BY <2>2
    <3> HIDE DEF x
    <3> QED
      BY <2>4, <3>2, <3>3
  <2>6. /\ e[1] = "D" /\ e[2] = "cr" /\ e[3] = "lf" /\ e[4] = "type"
        /\ e[5] = "cr" /\ e[6] = "lf" /\ e[7] = l /\ e[8] = "cr" /\ e[9] = "lf"
        /\ e[10] = "cr" /\ e[11] = "lf"
    BY <2>4, <2>5
  <2> QED
    BY <1>2, <1>4, <2>5, <2>6 DEF e, l
<1>5. CASE p.kind = "bare"
  <2> DEFINE h == <<"D", "cr", "lf", "type", "cr", "lf", "cr", "lf">>
  <2>1. e = h \o p.body \o CRLF
    BY <1>5 DEF Encoded
  <2> HIDE DEF e
  <2>2. h \in Seq(Tokens)
    BY DEF Tokens, Bytes
  <2>3. /\ Len(h) = 8 /\ h[1] = "D" /\ h[2] = "cr" /\ h[3] = "lf" /\ h[4] = "type"
        /\ h[5] = "cr" /\ h[6] = "lf" /\ h[7] = "cr" /\ h[8] = "lf"
    OBVIOUS
  <2> HIDE DEF h
  <2>4. /\ e \in Seq(Tokens) /\ Len(e) = 8 + n + 2
        /\ \A i \in 1 .. 8 : e[i] = h[i]
        /\ \A i \in 1 .. n : e[8 + i] = p.body[i]
        /\ e[8 + n + 1] = "cr" /\ e[8 + n + 2] = "lf"
    <3> DEFINE x == h \o p.body \o CRLF
    <3>1. p.body \in Seq(Tokens)
      BY <1>1
    <3>2. /\ x \in Seq(Tokens) /\ Len(x) = Len(h) + n + 2
          /\ \A i \in 1 .. Len(h) : x[i] = h[i]
          /\ \A i \in 1 .. n : x[Len(h) + i] = p.body[i]
          /\ x[Len(h) + n + 1] = "cr" /\ x[Len(h) + n + 2] = "lf"
      BY <2>2, <3>1, Enclosed, ZenonT(30)
    <3>3. e = x
      BY <2>1
    <3> HIDE DEF x
    <3> QED
      BY <2>3, <3>2, <3>3
  <2>5. /\ e[1] = "D" /\ e[2] = "cr" /\ e[3] = "lf" /\ e[4] = "type"
        /\ e[5] = "cr" /\ e[6] = "lf" /\ e[7] = "cr" /\ e[8] = "lf"
    BY <2>3, <2>4
  <2> QED
    BY <1>2, <1>5, <2>4, <2>5 DEF e
<1> QED
  BY <1>1, <1>3, <1>4, <1>5

(* The stream is the encodings in a row.                                   *)
LEMMA TextLaid ==
    ASSUME NEW s \in Seq(StreamParts)
    PROVE  /\ Text(s) \in Seq(Tokens) /\ Len(Text(s)) = Off(s, Len(s)) /\ Off(s, 0) = 0
           /\ \A k \in 0 .. Len(s) : Off(s, k) \in Nat
           /\ \A k \in 1 .. Len(s) :
                /\ Off(s, k) = Off(s, k - 1) + Len(Encoded(s[k]))
                /\ \A j \in 1 .. Len(Encoded(s[k])) : Text(s)[Off(s, k - 1) + j] = Encoded(s[k])[j]
           /\ \A k \in 0 .. Len(s) : Off(s, k) =< Len(Text(s))
           /\ \A m \in 0 .. Len(s) : \A k \in 0 .. m : Off(s, k) =< Off(s, m)
           /\ Text(s) = FlattenSeq(Encodings(s))
<1> DEFINE q == Encodings(s)
           n == Len(s)
           P(m) == /\ \A k \in 0 .. m : Off(s, k) =< Off(s, m)
                   /\ \A k \in 1 .. m : \A j \in 1 .. Len(q[k]) : Upto(q, m)[Off(s, k - 1) + j] = q[k][j]
           S == {m \in Nat : m \in 0 .. n => P(m)}
<1>1. n \in Nat /\ DOMAIN s = 1 .. n
  BY LenProperties
<1>2. /\ q \in Seq(Seq(Tokens)) /\ Len(q) = n
      /\ \A k \in 1 .. n : q[k] = Encoded(s[k]) /\ q[k] \in Seq(Tokens)
  <2>1. \A k \in 1 .. n : s[k] \in StreamParts /\ Encoded(s[k]) \in Seq(Tokens)
    BY ElementOfSeq, PartEncoded
  <2>2. q = [k \in 1 .. n |-> Encoded(s[k])]
    BY <1>1 DEF Encodings
  <2>3. q \in [1 .. n -> Seq(Tokens)]
    BY <2>1, <2>2
  <2>4. q \in Seq(Seq(Tokens))
    BY <1>1, <2>3, SeqDef
  <2>5. Len(q) = n
    BY <1>1, <2>2, <2>4, LenProperties
  <2> QED
    BY <2>1, <2>2, <2>4, <2>5
<1> HIDE DEF q
<1>3. /\ Upto(q, 0) = <<>> /\ Upto(q, n) = FlattenSeq(q)
      /\ \A k \in 1 .. n : Upto(q, k) = Upto(q, k - 1) \o q[k]
      /\ \A k \in 0 .. n : Upto(q, k) \in Seq(Tokens)
  BY <1>2, UptoGrows
<1>4. \A k : Off(s, k) = Len(Upto(q, k))
  BY DEF Off, q
<1>5. Text(s) = Upto(q, n)
  BY DEF Text, q
<1>6. Off(s, 0) = 0
  BY <1>3, <1>4, EmptySeq
<1>7. \A k \in 0 .. n : Off(s, k) \in Nat
  BY <1>3, <1>4, LenProperties
<1>8. ASSUME NEW k \in 1 .. n
      PROVE  /\ Off(s, k) = Off(s, k - 1) + Len(q[k]) /\ Len(q[k]) \in Nat
             /\ \A j \in 1 .. Off(s, k - 1) : Upto(q, k)[j] = Upto(q, k - 1)[j]
             /\ \A j \in 1 .. Len(q[k]) : Upto(q, k)[Off(s, k - 1) + j] = q[k][j]
  <2>1. k - 1 \in 0 .. n
    BY <1>1
  <2> DEFINE u == Upto(q, k - 1)
             v == q[k]
  <2>2. u \in Seq(Tokens) /\ v \in Seq(Tokens)
    BY <1>2, <1>3, <2>1
  <2>3. Upto(q, k) = u \o v /\ Len(u) = Off(s, k - 1) /\ Len(Upto(q, k)) = Off(s, k)
    BY <1>3, <1>4
  <2>4. Len(v) \in Nat
    BY <2>2, LenProperties
  <2> HIDE DEF u, v
  <2>5. /\ Len(u \o v) = Len(u) + Len(v)
        /\ \A i \in 1 .. Len(u) : (u \o v)[i] = u[i]
        /\ \A i \in 1 .. Len(v) : (u \o v)[Len(u) + i] = v[i]
    BY <2>2, Joined
  <2> QED
    BY <2>3, <2>4, <2>5 DEF u, v
<1>9. 0 \in S
  BY <1>6
<1>10. ASSUME NEW m \in Nat, m \in S
       PROVE  m + 1 \in S
  <2> SUFFICES ASSUME m + 1 \in 0 .. n
               PROVE  P(m + 1)
    OBVIOUS
  <2>1. m \in 0 .. n /\ m + 1 \in 1 .. n /\ (m + 1) - 1 = m
    BY <1>1
  <2>2. P(m)
    BY <1>10, <2>1
  <2>3. /\ Off(s, m + 1) = Off(s, m) + Len(q[m + 1]) /\ Len(q[m + 1]) \in Nat
        /\ \A j \in 1 .. Off(s, m) : Upto(q, m + 1)[j] = Upto(q, m)[j]
        /\ \A j \in 1 .. Len(q[m + 1]) : Upto(q, m + 1)[Off(s, m) + j] = q[m + 1][j]
    BY <1>8, <2>1
  <2>4. Off(s, m) \in Nat /\ Off(s, m + 1) \in Nat
    BY <1>7, <2>1
  <2>5. ASSUME NEW k \in 0 .. m + 1
        PROVE  Off(s, k) =< Off(s, m + 1)
    <3>1. CASE k = m + 1
      BY <2>4, <3>1
    <3>2. CASE k \in 0 .. m
      <4>1. Off(s, k) =< Off(s, m) /\ Off(s, k) \in Nat
        BY <1>7, <2>1, <2>2, <3>2
      <4> QED
        BY <2>3, <2>4, <4>1
    <3> QED
      BY <3>1, <3>2
  <2>6. ASSUME NEW k \in 1 .. m + 1, NEW j \in 1 .. Len(q[k])
        PROVE  Upto(q, m + 1)[Off(s, k - 1) + j] = q[k][j]
    <3>1. CASE k = m + 1
      BY <2>1, <2>3, <3>1
    <3>2. CASE k \in 1 .. m
      <4>1. k \in 1 .. n /\ k \in 0 .. m /\ k - 1 \in 0 .. n
        BY <2>1, <3>2
      <4>2. /\ Off(s, k) = Off(s, k - 1) + Len(q[k]) /\ Len(q[k]) \in Nat
            /\ Off(s, k) =< Off(s, m) /\ Off(s, k - 1) \in Nat
        BY <1>7, <1>8, <2>2, <4>1
      <4>3. Off(s, k - 1) + j \in 1 .. Off(s, m)
        BY <2>4, <4>2
      <4> QED
        BY <2>2, <2>3, <3>2, <4>3
    <3> QED
      BY <3>1, <3>2
  <2> QED
    BY <2>5, <2>6
<1> HIDE DEF S
<1>11. Nat \subseteq S
  BY <1>9, <1>10, Induction
<1>12. P(n) /\ \A m \in 0 .. n : P(m)
  BY <1>1, <1>11, SMTT(30) DEF S
<1>13. /\ Text(s) \in Seq(Tokens) /\ Len(Text(s)) = Off(s, n)
       /\ Text(s) = FlattenSeq(Encodings(s))
  BY <1>1, <1>3, <1>4, <1>5 DEF q
<1>14. ASSUME NEW k \in 1 .. n
       PROVE  /\ Off(s, k) = Off(s, k - 1) + Len(Encoded(s[k]))
              /\ \A j \in 1 .. Len(Encoded(s[k])) : Text(s)[Off(s, k - 1) + j] = Encoded(s[k])[j]
  <2>1. q[k] = Encoded(s[k])
    BY <1>2
  <2>2. /\ Off(s, k) = Off(s, k - 1) + Len(q[k])
        /\ \A j \in 1 .. Len(q[k]) : Upto(q, n)[Off(s, k - 1) + j] = q[k][j]
    BY <1>8, <1>12
  <2> QED
    BY <1>5, <2>1, <2>2
<1> QED
  BY <1>6, <1>7, <1>12, <1>13, <1>14

LEMMA Layout ==
    ASSUME NEW s \in Seq(StreamParts), NEW k \in 1 .. Len(s)
    PROVE  LET t == Text(s)
               o == Off(s, k - 1)
               n == Len(s[k].body)
               c == Start(s, k)
           IN  /\ s[k] \in StreamParts /\ s[k].kind \in {"sized", "bare", "close"}
               /\ o \in Nat /\ n \in Nat /\ Off(s, k) \in Nat /\ Off(s, k) =< Len(t)
               /\ t[o + 1] = "D"
               /\ s[k].kind = "close" =>
                    /\ Off(s, k) = o + 5
                    /\ t[o + 2] = "dash" /\ t[o + 3] = "dash" /\ t[o + 4] = "cr" /\ t[o + 5] = "lf"
               /\ s[k].kind # "close" =>
                    /\ t[o + 2] = "cr" /\ t[o + 3] = "lf" /\ t[o + 4] = "type"
                    /\ t[o + 5] = "cr" /\ t[o + 6] = "lf"
                    /\ Off(s, k) = c + n + 2
                    /\ \A i \in 1 .. n : t[c + i] = s[k].body[i]
                    /\ t[c + n + 1] = "cr" /\ t[c + n + 2] = "lf"
               /\ s[k].kind = "sized" =>
                    /\ c = o + 11
                    /\ t[o + 7] = LengthLine[n] /\ t[o + 8] = "cr" /\ t[o + 9] = "lf"
                    /\ t[o + 10] = "cr" /\ t[o + 11] = "lf"
               /\ s[k].kind = "bare" =>
                    c = o + 8 /\ t[o + 7] = "cr" /\ t[o + 8] = "lf"
<1> DEFINE t == Text(s)
           o == Off(s, k - 1)
           p == s[k]
           n == Len(p.body)
           e == Encoded(p)
           c == Start(s, k)
<1>1. p \in StreamParts /\ p.kind \in {"sized", "bare", "close"}
  BY ElementOfSeq, PartsAssumption
<1>2. /\ k \in 0 .. Len(s) /\ k - 1 \in 0 .. Len(s)
  BY LenProperties
<1>3. /\ o \in Nat /\ Off(s, k) \in Nat /\ Off(s, k) =< Len(t)
      /\ Off(s, k) = o + Len(e)
      /\ \A j \in 1 .. Len(e) : t[o + j] = e[j]
  BY <1>2, TextLaid
<1>4. /\ p.kind = "sized" => c = o + 11
      /\ p.kind = "bare" => c = o + 8
  BY DEF Start
<1> HIDE DEF t, o, n, e, c
<1>5. CASE p.kind = "close"
  <2>1. Len(e) = 5 /\ e[1] = "D" /\ e[2] = "dash" /\ e[3] = "dash" /\ e[4] = "cr" /\ e[5] = "lf"
        /\ n \in Nat
    BY <1>1, <1>5, PartEncoded DEF e, n
  <2>2. t[o + 1] = e[1] /\ t[o + 2] = e[2] /\ t[o + 3] = e[3] /\ t[o + 4] = e[4] /\ t[o + 5] = e[5]
    BY <1>3, <2>1
  <2> QED
    BY <1>1, <1>3, <1>5, <2>1, <2>2 DEF t, o, n, c
<1>6. CASE p.kind = "sized"
  <2>1. /\ n \in Nat /\ Len(e) = 11 + n + 2 /\ e[1] = "D"
        /\ e[2] = "cr" /\ e[3] = "lf" /\ e[4] = "type" /\ e[5] = "cr" /\ e[6] = "lf"
        /\ e[7] = LengthLine[n] /\ e[8] = "cr" /\ e[9] = "lf" /\ e[10] = "cr" /\ e[11] = "lf"
        /\ \A i \in 1 .. n : e[11 + i] = p.body[i]
        /\ e[11 + n + 1] = "cr" /\ e[11 + n + 2] = "lf"
    BY <1>1, <1>6, PartEncoded, ZenonT(30) DEF e, n
  <2>2. \A j \in 1 .. 11 : t[o + j] = e[j]
    <3>1. \A j \in 1 .. 11 : j \in 1 .. Len(e)
      BY <2>1
    <3> QED
      BY <1>3, <3>1
  <2>3. /\ t[o + 1] = e[1] /\ t[o + 2] = e[2] /\ t[o + 3] = e[3] /\ t[o + 4] = e[4]
        /\ t[o + 5] = e[5] /\ t[o + 6] = e[6] /\ t[o + 7] = e[7] /\ t[o + 8] = e[8]
        /\ t[o + 9] = e[9] /\ t[o + 10] = e[10] /\ t[o + 11] = e[11]
    BY <2>2
  <2>4. \A i \in 1 .. n + 2 : t[c + i] = e[11 + i]
    <3>1. \A i \in 1 .. n + 2 : 11 + i \in 1 .. Len(e) /\ c + i = o + (11 + i)
      BY <1>3, <1>4, <1>6, <2>1
    <3> QED
      BY <1>3, <3>1
  <2>5. /\ \A i \in 1 .. n : t[c + i] = p.body[i]
        /\ t[c + n + 1] = "cr" /\ t[c + n + 2] = "lf"
    <3>1. /\ \A i \in 1 .. n : i \in 1 .. n + 2
          /\ n + 1 \in 1 .. n + 2 /\ n + 2 \in 1 .. n + 2
          /\ c + n + 1 = c + (n + 1) /\ c + n + 2 = c + (n + 2)
          /\ 11 + n + 1 = 11 + (n + 1) /\ 11 + n + 2 = 11 + (n + 2)
      BY <1>3, <1>4, <1>6, <2>1
    <3> QED
      BY <2>1, <2>4, <3>1
  <2>6. Off(s, k) = c + n + 2
    BY <1>3, <1>4, <1>6, <2>1
  <2> QED
    BY <1>1, <1>3, <1>4, <1>6, <2>1, <2>3, <2>5, <2>6 DEF t, o, n, c
<1>7. CASE p.kind = "bare"
  <2>1. /\ n \in Nat /\ Len(e) = 8 + n + 2 /\ e[1] = "D"
        /\ e[2] = "cr" /\ e[3] = "lf" /\ e[4] = "type" /\ e[5] = "cr" /\ e[6] = "lf"
        /\ e[7] = "cr" /\ e[8] = "lf"
        /\ \A i \in 1 .. n : e[8 + i] = p.body[i]
        /\ e[8 + n + 1] = "cr" /\ e[8 + n + 2] = "lf"
    BY <1>1, <1>7, PartEncoded DEF e, n
  <2>2. \A j \in 1 .. 8 : t[o + j] = e[j]
    <3>1. \A j \in 1 .. 8 : j \in 1 .. Len(e)
      BY <2>1
    <3> QED
      BY <1>3, <3>1
  <2>3. /\ t[o + 1] = e[1] /\ t[o + 2] = e[2] /\ t[o + 3] = e[3] /\ t[o + 4] = e[4]
        /\ t[o + 5] = e[5] /\ t[o + 6] = e[6] /\ t[o + 7] = e[7] /\ t[o + 8] = e[8]
    BY <2>2
  <2>4. \A i \in 1 .. n + 2 : t[c + i] = e[8 + i]
    <3>1. \A i \in 1 .. n + 2 : 8 + i \in 1 .. Len(e) /\ c + i = o + (8 + i)
      BY <1>3, <1>4, <1>7, <2>1
    <3> QED
      BY <1>3, <3>1
  <2>5. /\ \A i \in 1 .. n : t[c + i] = p.body[i]
        /\ t[c + n + 1] = "cr" /\ t[c + n + 2] = "lf"
    <3>1. /\ \A i \in 1 .. n : i \in 1 .. n + 2
          /\ n + 1 \in 1 .. n + 2 /\ n + 2 \in 1 .. n + 2
          /\ c + n + 1 = c + (n + 1) /\ c + n + 2 = c + (n + 2)
          /\ 8 + n + 1 = 8 + (n + 1) /\ 8 + n + 2 = 8 + (n + 2)
      BY <1>3, <1>4, <1>7, <2>1
    <3> QED
      BY <2>1, <2>4, <3>1
  <2>6. Off(s, k) = c + n + 2
    BY <1>3, <1>4, <1>7, <2>1
  <2> QED
    BY <1>1, <1>3, <1>4, <1>7, <2>1, <2>3, <2>5, <2>6 DEF t, o, n, c
<1> QED
  BY <1>1, <1>5, <1>6, <1>7

-----------------------------------------------------------------------------
(* The parser of the stream.                                               *)

\* After b tokens part k is next: its headers are to be read, and at most the
\* line end of the part before is still there; or they are read, and the
\* buffer starts with the body.
Before(s, p, k, b) ==
    \E a \in 0 .. b :
        /\ a = Off(s, k - 1) \/ (k > 1 /\ a = Off(s, k - 1) - 2)
        /\ p = [NewParser EXCEPT !.buffer = Cut(Text(s), a, b)]

Inside(s, p, k, b) ==
    /\ k =< Len(s) /\ s[k].kind # "close" /\ Start(s, k) =< b
    /\ p = [buffer |-> Cut(Text(s), Start(s, k), b), headers |-> TRUE,
            length |-> IF s[k].kind = "sized" THEN Len(s[k].body) ELSE None]

Reads(s, p, k, b) ==
    /\ k \in 1 .. Len(s) + 1 /\ b \in 0 .. Len(Text(s))
    /\ Before(s, p, k, b) \/ Inside(s, p, k, b)
    /\ \A i \in 1 .. k - 1 : s[i].kind # "close" => End(s, i) =< b

\* no part from k on has arrived
Waits(s, k, b) == \A i \in k .. Len(s) : s[i].kind # "close" => End(s, i) > b

StreamInv ==
    IF sent = <<>> THEN StreamInit
    ELSE /\ sent \in Streams /\ closed \in BOOLEAN
         /\ \E k \in 1 .. Len(sent) + 1, b \in 0 .. Len(Text(sent)) :
               /\ wire = Cut(Text(sent), b, Len(Text(sent)))
               /\ Reads(sent, parser, k, b)
               /\ got = Upto(Pieces(sent), k - 1)
               /\ ~closed => Waits(sent, k, b)

\* what the loop has read and returned after some turns, when g was returned before
Looped(s, b, g, x) ==
    /\ x.bodies \in Seq(Seq(Tokens)) /\ x.going \in BOOLEAN /\ x.closing \in BOOLEAN
    /\ \E k \in 1 .. Len(s) + 1 :
          /\ Reads(s, x.parser, k, b)
          /\ g \o x.bodies = Upto(Pieces(s), k - 1)
          /\ ~x.going /\ ~x.closing => Waits(s, k, b)

\* the parser once it has read the headers of part k
Headed(s, k, b) ==
    [buffer |-> Cut(Text(s), Start(s, k), b), headers |-> TRUE,
     length |-> IF s[k].kind = "sized" THEN Len(s[k].body) ELSE None]

(* A part ends with the end of a line.                                     *)
LEMMA LineEnds ==
    ASSUME NEW s \in Seq(StreamParts), NEW k \in 1 .. Len(s) + 1, k > 1
    PROVE  /\ Off(s, k - 1) - 2 \in Nat
           /\ Text(s)[Off(s, k - 1) - 1] = "cr" /\ Text(s)[Off(s, k - 1)] = "lf"
<1> DEFINE j == k - 1
           o == Off(s, j - 1)
           n == Len(s[j].body)
           c == Start(s, j)
           t == Text(s)
<1>1. j \in 1 .. Len(s)
  BY LenProperties
<1>2. /\ s[j].kind \in {"sized", "bare", "close"} /\ o \in Nat /\ n \in Nat
      /\ s[j].kind = "close" => Off(s, j) = o + 5 /\ t[o + 4] = "cr" /\ t[o + 5] = "lf"
      /\ s[j].kind # "close" =>
           Off(s, j) = c + n + 2 /\ t[c + n + 1] = "cr" /\ t[c + n + 2] = "lf"
      /\ s[j].kind = "sized" => c = o + 11
      /\ s[j].kind = "bare" => c = o + 8
  BY <1>1, Layout, ZenonT(30)
<1> HIDE DEF j, o, n, c, t
<1>3. CASE s[j].kind = "close"
  <2>1. Off(s, j) - 2 \in Nat /\ Off(s, j) - 1 = o + 4
    BY <1>2, <1>3
  <2> QED
    BY <1>2, <1>3, <2>1 DEF j, t
<1>4. CASE s[j].kind # "close"
  <2>1. c \in Nat
    BY <1>2, <1>4
  <2>2. Off(s, j) - 2 \in Nat /\ Off(s, j) - 1 = c + n + 1
    BY <1>2, <1>4, <2>1
  <2> QED
    BY <1>2, <1>4, <2>2 DEF j, t
<1> QED
  BY <1>3, <1>4

(* The parts after the next one end later.                                 *)
LEMMA WaitsFor ==
    ASSUME NEW s \in Seq(StreamParts), NEW k \in 1 .. Len(s) + 1, NEW b \in Nat,
           k \in 1 .. Len(s) => IF s[k].kind = "close" THEN b =< Off(s, k) ELSE End(s, k) > b
    PROVE  Waits(s, k, b)
<1> SUFFICES ASSUME NEW i \in k .. Len(s), s[i].kind # "close"
             PROVE  End(s, i) > b
  BY DEF Waits
<1>1. i \in 1 .. Len(s) /\ k \in 1 .. Len(s)
  BY LenProperties
<1>2. CASE i = k
  BY <1>1, <1>2
<1>3. CASE i # k
  <2>1. k \in 0 .. i - 1 /\ i - 1 \in 0 .. Len(s) /\ k \in 0 .. Len(s)
    BY <1>1, <1>3
  <2>2. Off(s, k) =< Off(s, i - 1) /\ Off(s, k) \in Nat /\ Off(s, i - 1) \in Nat
    BY <2>1, TextLaid
  <2>3. b =< Off(s, k)
    <3>1. CASE s[k].kind = "close"
      BY <1>1, <3>1
    <3>2. CASE s[k].kind # "close"
      <4>1. End(s, k) > b
        BY <1>1, <3>2
      <4> QED
        BY <2>2, <4>1 DEF End
    <3> QED
      BY <3>1, <3>2
  <2>4. Off(s, i) = Start(s, i) + Len(s[i].body) + 2 /\ Len(s[i].body) \in Nat
    BY <1>1, Layout
  <2>5. Start(s, i) >= Off(s, i - 1) + 8 /\ Start(s, i) \in Nat
    BY <2>2 DEF Start
  <2>6. Off(s, i) >= Off(s, k) + 10 /\ Off(s, i) \in Nat
    <3>1. PICK x \in Nat, y \in Nat, z \in Nat :
            /\ x = Start(s, i) /\ y = Off(s, i - 1) /\ z = Len(s[i].body)
            /\ x >= y + 8 /\ y >= Off(s, k)
      BY <2>2, <2>4, <2>5
    <3>2. PICK w \in Nat, y1 \in Nat : w = Off(s, k) /\ y1 = x + z + 2
      BY <2>2
    <3>3. Off(s, i) = y1
      BY <2>4, <3>1, <3>2
    <3>4. y >= w
      BY <3>1, <3>2
    <3>5. y1 >= w + 10
      <4>1. y1 = x + z + 2 /\ x >= y + 8 /\ x \in Nat /\ y \in Nat /\ z \in Nat /\ w \in Nat
        BY <3>1, <3>2
      <4>2. x + z >= w + 8
        BY <3>4, <4>1
      <4> QED
        BY <4>1, <4>2
    <3> QED
      BY <3>2, <3>3, <3>5
  <2>7. End(s, i) = Off(s, i) - 2 \/ End(s, i) = Off(s, i) + 1
    BY <2>6 DEF End
  <2> QED
    BY <2>2, <2>3, <2>6, <2>7
<1> QED
  BY <1>2, <1>3

(* After b tokens, of which the parser has left those from a + 1 on, the   *)
(* headers of part k are to be read: only the end of a line may precede    *)
(* them.                                                                   *)
LEMMA HeadersConsumed ==
    ASSUME NEW s \in Seq(StreamParts), NEW k \in 1 .. Len(s) + 1,
           NEW b \in 0 .. Len(Text(s)), NEW a \in 0 .. b,
           a = Off(s, k - 1) \/ (k > 1 /\ a = Off(s, k - 1) - 2)
    PROVE  LET p == [NewParser EXCEPT !.buffer = Cut(Text(s), a, b)]
               c == ConsumePartHeaders(p)
           IN  \/ c = [parser |-> p, closing |-> FALSE] /\ Waits(s, k, b)
               \/ /\ k \in 1 .. Len(s) /\ s[k].kind = "close" /\ Off(s, k) - 2 =< b
                  /\ c = [parser |-> [NewParser EXCEPT !.buffer = Cut(Text(s), Off(s, k) - 2, b)],
                          closing |-> TRUE]
               \/ /\ k \in 1 .. Len(s) /\ s[k].kind # "close" /\ Start(s, k) =< b
                  /\ c = [parser |-> [buffer |-> Cut(Text(s), Start(s, k), b), headers |-> TRUE,
                                      length |-> IF s[k].kind = "sized" THEN Len(s[k].body) ELSE None],
                          closing |-> FALSE]
<1> DEFINE t == Text(s)
           o == Off(s, k - 1)
           p == [NewParser EXCEPT !.buffer = Cut(t, a, b)]
           c == ConsumePartHeaders(p)
           idx == Find(p.buffer, <<"D">>, 1)
           rest == From(p.buffer, idx + 1)
           after == idx + 1 + (IF Starts(rest, CRLF) THEN 2 ELSE 0)
           end == Find(p.buffer, CRLF \o CRLF, after)
           lengths == {n \in Lengths : Contains(SubSeq(p.buffer, after, end), LengthLine[n])}
<1>1. p.buffer = Cut(t, a, b)
  BY DEF NewParser
<1>2. c = IF idx = 0 THEN [parser |-> p, closing |-> FALSE]
          ELSE IF Starts(rest, <<"dash", "dash">>)
          THEN [parser |-> [p EXCEPT !.buffer = From(rest, 3)], closing |-> TRUE]
          ELSE IF end = 0 THEN [parser |-> p, closing |-> FALSE]
          ELSE [parser |-> [buffer |-> From(p.buffer, end + 4), headers |-> TRUE,
                            length |-> IF lengths = {} THEN None ELSE CHOOSE n \in lengths : TRUE],
                closing |-> FALSE]
  BY Zenon DEF ConsumePartHeaders
<1>3. \A x : [p EXCEPT !.buffer = x] = [NewParser EXCEPT !.buffer = x]
  BY DEF NewParser
<1>4. /\ t \in Seq(Tokens) /\ Len(t) \in Nat /\ a \in Nat /\ b \in Nat /\ a =< b
      /\ a \in 0 .. Len(t) /\ b \in a .. Len(t) /\ b =< Len(t)
  BY TextLaid, LenProperties
<1>11. t \in Seq(Tokens) /\ a \in 0 .. Len(t) /\ b \in a .. Len(t)
  BY <1>4
<1>5. /\ o \in Nat /\ k \in Nat /\ Len(s) \in Nat
      /\ k = Len(s) + 1 => b =< o
  <2>1. Len(s) \in Nat
    BY LenProperties
  <2>2. k - 1 \in 0 .. Len(s)
    BY <2>1
  <2>3. o \in Nat
    BY <2>2, TextLaid
  <2>4. k = Len(s) + 1 => k - 1 = Len(s)
    BY <2>1
  <2>5. k = Len(s) + 1 => o = Len(t)
    BY <2>4, TextLaid
  <2> QED
    BY <1>4, <2>1, <2>3, <2>5
<1>6. a = o \/ (a = o - 2 /\ t[o - 1] = "cr" /\ t[o] = "lf")
  BY LineEnds
<1>12. 1 \in Nat \ {0}
  OBVIOUS
<1>13. <<"D">> \in Seq(Tokens)
  BY DEF Tokens, Bytes
<1>7. /\ <<"D">> \in Seq(Tokens) /\ CRLF \in Seq(Tokens)
      /\ <<"dash", "dash">> \in Seq(Tokens) /\ CRLF \o CRLF \in Seq(Tokens)
  <2>1. /\ <<"D">> \in Seq(Tokens) /\ CRLF \in Seq(Tokens)
        /\ <<"dash", "dash">> \in Seq(Tokens)
    BY DEF CRLF, Tokens, Bytes
  <2> QED
    BY <2>1, ConcatProperties
<1> HIDE DEF t, o, p, c, idx, rest, after, end, lengths
<1>8. ASSUME NEW h \in 1 .. b - a, a + h =< o
      PROVE  ~There(t, a + h - 1, b, <<"D">>)
  <2>1. a + h - 1 \in Int /\ (a + h - 1) + 1 = a + h /\ (a + h = o - 1 \/ a + h = o)
    BY <1>4, <1>5, <1>6, <1>8
  <2>2. t[a + h] # "D"
    BY <1>4, <1>5, <1>6, <1>8, <2>1
  <2> QED
    BY <1>4, <2>1, <2>2, Theres
<1>9. CASE b =< o
  <2>1. \A h \in 1 .. b - a : ~There(t, a + h - 1, b, <<"D">>)
    <3>1. \A h \in 1 .. b - a : a + h =< o
      BY <1>4, <1>5, <1>9
    <3> QED
      BY <1>8, <3>1
  <2>2. idx = 0
    <3>1. Find(Cut(t, a, b), <<"D">>, 1) = 0
      BY <1>11, <1>12, <1>13, <2>1, FindsNone
    <3> QED
      BY <1>1, <3>1 DEF idx
  <2>3. c = [parser |-> p, closing |-> FALSE]
    BY <1>2, <2>2
  <2>4. Waits(s, k, b)
    <3>1. ASSUME k \in 1 .. Len(s)
          PROVE  IF s[k].kind = "close" THEN b =< Off(s, k) ELSE End(s, k) > b
      <4>1. /\ s[k].kind \in {"sized", "bare", "close"} /\ Len(s[k].body) \in Nat /\ Off(s, k) \in Nat
            /\ s[k].kind = "close" => Off(s, k) = o + 5
            /\ s[k].kind # "close" => Off(s, k) = Start(s, k) + Len(s[k].body) + 2
            /\ s[k].kind = "sized" => Start(s, k) = o + 11
            /\ s[k].kind = "bare" => Start(s, k) = o + 8
        BY <3>1, Layout DEF o
      <4>2. s[k].kind = "close" => b =< Off(s, k)
        BY <1>4, <1>5, <1>9, <4>1
      <4>3. s[k].kind # "close" => Off(s, k) >= o + 10
        <5>1. s[k].kind # "close" => Start(s, k) \in Nat /\ Start(s, k) >= o + 8
          BY <1>5, <4>1, SMTT(30)
        <5>2. PICK x \in Nat, y \in Nat : y = Len(s[k].body) /\ (s[k].kind # "close" => x = Start(s, k))
          BY <4>1, <5>1
        <5>3. s[k].kind # "close" => Off(s, k) = x + y + 2 /\ x >= o + 8
          BY <4>1, <5>1, <5>2
        <5>4. x >= o + 8 => x + y + 2 >= o + 10
          <6>1. o \in Nat
            BY <1>5
          <6>2. x \in Nat /\ y \in Nat
            BY <5>2
          <6> QED
            BY <6>1, <6>2
        <5> QED
          BY <5>3, <5>4
      <4>4. s[k].kind # "close" => End(s, k) > b
        BY <1>4, <1>5, <1>9, <4>1, <4>3 DEF End
      <4> QED
        BY <4>2, <4>4
    <3> QED
      BY <1>4, <3>1, WaitsFor
  <2> QED
    BY <2>3, <2>4 DEF p, c, t
<1>10. CASE o < b
  <2>1. k \in 1 .. Len(s)
    BY <1>4, <1>5, <1>10
  <2> DEFINE n == Len(s[k].body)
  <2>2. /\ s[k] \in StreamParts /\ s[k].kind \in {"sized", "bare", "close"}
        /\ n \in Nat /\ Off(s, k) \in Nat /\ Off(s, k) =< Len(t)
        /\ t[o + 1] = "D"
        /\ s[k].kind = "close" =>
             /\ Off(s, k) = o + 5
             /\ t[o + 2] = "dash" /\ t[o + 3] = "dash" /\ t[o + 4] = "cr" /\ t[o + 5] = "lf"
        /\ s[k].kind # "close" =>
             /\ t[o + 2] = "cr" /\ t[o + 3] = "lf" /\ t[o + 4] = "type"
             /\ t[o + 5] = "cr" /\ t[o + 6] = "lf"
             /\ Off(s, k) = Start(s, k) + n + 2
        /\ s[k].kind = "sized" =>
             /\ Start(s, k) = o + 11
             /\ t[o + 7] = LengthLine[n] /\ t[o + 8] = "cr" /\ t[o + 9] = "lf"
             /\ t[o + 10] = "cr" /\ t[o + 11] = "lf"
        /\ s[k].kind = "bare" =>
             Start(s, k) = o + 8 /\ t[o + 7] = "cr" /\ t[o + 8] = "lf"
    BY <2>1, Layout DEF t, o
  <2>3. idx = o + 1 - a /\ idx \in 1 .. b - a /\ a + idx = o + 1
    <3>1. PICK j \in 1 .. b - a : j = o + 1 - a
      BY <1>4, <1>5, <1>6, <1>10
    <3>2. There(t, a + j - 1, b, <<"D">>)
      <4>1. a + j - 1 = o
        BY <1>4, <1>5, <3>1
      <4> QED
        BY <1>4, <1>5, <1>10, <2>2, <4>1, Theres
    <3>3. \A h \in 1 .. j - 1 : ~There(t, a + h - 1, b, <<"D">>)
      <4>1. \A h \in 1 .. j - 1 : h \in 1 .. b - a /\ a + h =< o
        BY <1>4, <1>5, <3>1
      <4> QED
        BY <1>8, <4>1
    <3>4. idx = j
      <4>1. Find(Cut(t, a, b), <<"D">>, 1) = j
        BY <1>11, <1>12, <1>13, <3>1, <3>2, <3>3, FindsFirst
      <4> QED
        BY <1>1, <4>1 DEF idx
    <3> QED
      BY <1>4, <1>5, <3>1, <3>4
  <2>4. rest = Cut(t, o + 1, b) /\ o + 1 \in 0 .. Len(t) /\ b \in o + 1 .. Len(t)
    <3>1. idx + 1 \in 1 .. b - a + 1 /\ a + (idx + 1) - 1 = o + 1
      BY <1>4, <1>5, <2>3
    <3>2. rest = Cut(t, a + (idx + 1) - 1, b)
      BY <1>1, <1>11, <3>1, CutFrom DEF rest
    <3> QED
      BY <1>4, <1>5, <1>10, <3>1, <3>2
  <2>5. /\ Starts(rest, CRLF) <=> o + 3 =< b /\ t[o + 2] = "cr" /\ t[o + 3] = "lf"
        /\ Starts(rest, <<"dash", "dash">>) <=> o + 3 =< b /\ t[o + 2] = "dash" /\ t[o + 3] = "dash"
    <3>1. /\ Starts(rest, CRLF) <=> There(t, o + 1, b, CRLF)
          /\ Starts(rest, <<"dash", "dash">>) <=> There(t, o + 1, b, <<"dash", "dash">>)
      BY <1>4, <1>7, <2>4, CutStarts
    <3>2. /\ (o + 1) + 1 = o + 2 /\ (o + 1) + 2 = o + 3 /\ o + 1 \in Int /\ b \in Int
      BY <1>4, <1>5
    <3> QED
      BY <3>1, <3>2, Theres
  <2>6. /\ after \in Nat \ {0} /\ a + after = IF Starts(rest, CRLF) THEN o + 4 ELSE o + 2
    BY <1>4, <1>5, <2>3 DEF after
  <2>7. \A h \in Nat : There(t, a + h - 1, b, CRLF \o CRLF) <=>
           /\ a + h + 3 =< b /\ t[a + h] = "cr" /\ t[a + h + 1] = "lf"
           /\ t[a + h + 2] = "cr" /\ t[a + h + 3] = "lf"
    <3> TAKE h \in Nat
    <3>1. /\ a + h - 1 \in Int /\ (a + h - 1) + 1 = a + h /\ (a + h - 1) + 2 = a + h + 1
          /\ (a + h - 1) + 3 = a + h + 2 /\ (a + h - 1) + 4 = a + h + 3 /\ b \in Int
      BY <1>4
    <3> QED
      BY <3>1, Theres
  (* nothing more before the headers have ended *)
  <2>8. ASSUME \A h \in after .. b - a : ~There(t, a + h - 1, b, CRLF \o CRLF)
        PROVE  end = 0
    <3>1. Find(Cut(t, a, b), CRLF \o CRLF, after) = 0
      BY <1>7, <1>11, <2>6, <2>8, FindsNone
    <3> QED
      BY <1>1, <3>1 DEF end
  <2>9. ASSUME b < o + 3
        PROVE  end = 0
    <3>1. ASSUME NEW h \in after .. b - a
          PROVE  ~There(t, a + h - 1, b, CRLF \o CRLF)
      <4>1. h \in Nat /\ ~(a + h + 3 =< b)
        BY <1>4, <1>5, <2>5, <2>6, <2>9
      <4> QED
        BY <2>7, <4>1
    <3> QED
      BY <2>8, <3>1
  <2>10. CASE s[k].kind = "close"
    <3>1. CASE o + 3 =< b
      <4>1. From(rest, 3) = Cut(t, Off(s, k) - 2, b)
        <5>1. 3 \in 1 .. b - (o + 1) + 1 /\ (o + 1) + 3 - 1 = Off(s, k) - 2
          BY <1>4, <1>5, <2>2, <2>10, <3>1
        <5>2. From(rest, 3) = Cut(t, (o + 1) + 3 - 1, b)
          BY <1>4, <2>4, <5>1, CutFrom
        <5> QED
          BY <5>1, <5>2
      <4>2. c = [parser |-> [NewParser EXCEPT !.buffer = Cut(t, Off(s, k) - 2, b)], closing |-> TRUE]
        <5>1. idx # 0 /\ Starts(rest, <<"dash", "dash">>)
          BY <2>2, <2>3, <2>5, <2>10, <3>1
        <5> QED
          BY <1>2, <1>3, <4>1, <5>1
      <4>3. Off(s, k) - 2 =< b
        BY <1>5, <2>2, <2>10, <3>1
      <4> QED
        BY <2>1, <2>10, <4>2, <4>3 DEF c, p, t
    <3>2. CASE b < o + 3
      <4>1. idx # 0 /\ ~Starts(rest, <<"dash", "dash">>)
        BY <1>4, <1>5, <2>3, <2>5, <3>2
      <4>2. c = [parser |-> p, closing |-> FALSE]
        BY <1>2, <2>9, <3>2, <4>1
      <4>3. b =< Off(s, k)
        BY <1>4, <1>5, <2>2, <2>10, <3>2
      <4>4. Waits(s, k, b)
        BY <1>4, <2>10, <4>3, WaitsFor
      <4> QED
        BY <4>2, <4>4 DEF c, p, t
    <3> QED
      BY <1>4, <1>5, <3>1, <3>2
  <2>11. CASE s[k].kind # "close"
    <3>1. idx # 0 /\ ~Starts(rest, <<"dash", "dash">>)
      <4>1. t[o + 2] = "cr"
        BY <2>2, <2>11
      <4>2. idx # 0
        BY <2>3
      <4> QED
        BY <2>5, <4>1, <4>2
    <3>2. c = IF end = 0 THEN [parser |-> p, closing |-> FALSE]
              ELSE [parser |-> [buffer |-> From(p.buffer, end + 4), headers |-> TRUE,
                                length |-> IF lengths = {} THEN None
                                           ELSE CHOOSE n_1 \in lengths : TRUE],
                    closing |-> FALSE]
      BY <1>2, <3>1
    <3>6. Start(s, k) \in Nat /\ Start(s, k) >= o + 8
      <4>1. Start(s, k) = o + 11 \/ Start(s, k) = o + 8
        BY <2>2, <2>11
      <4>2. o \in Nat
        BY <1>5
      <4> QED
        BY <4>1, <4>2
    <3>7. Off(s, k) - 2 >= Start(s, k)
      <4>1. PICK x \in Nat, y \in Nat : x = Start(s, k) /\ y = n
        BY <2>2, <3>6
      <4>2. Off(s, k) = x + y + 2
        BY <2>2, <2>11, <4>1
      <4>3. (x + y + 2) - 2 >= x
        OBVIOUS
      <4> QED
        BY <4>1, <4>2, <4>3
    <3>3. ASSUME end = 0, b < Start(s, k)
          PROVE  c = [parser |-> p, closing |-> FALSE] /\ Waits(s, k, b)
      <4>1. End(s, k) > b
        BY <1>4, <2>2, <3>3, <3>6, <3>7, SMTT(30) DEF End
      <4>2. Waits(s, k, b)
        BY <1>4, <2>11, <4>1, WaitsFor
      <4> QED
        BY <3>2, <3>3, <4>2
    <3>4. CASE b < o + 3
      <4>1. b < Start(s, k)
        BY <1>4, <1>5, <3>4, <3>6
      <4> QED
        BY <2>9, <3>3, <3>4, <4>1 DEF c, p, t
    <3>5. CASE o + 3 =< b /\ b < Start(s, k)
      <4>1. a + after = o + 4
        BY <2>2, <2>5, <2>6, <2>11, <3>5
      <4>2. ASSUME NEW h \in after .. b - a
            PROVE  ~There(t, a + h - 1, b, CRLF \o CRLF)
        <5>1. h \in Nat /\ a + h >= o + 4 /\ a + h \in Nat
          BY <1>4, <1>5, <2>6, <4>1
        <5> SUFFICES ASSUME a + h + 3 =< b
                     PROVE  ~(t[a + h] = "cr" /\ t[a + h + 1] = "lf" /\ t[a + h + 2] = "cr")
          BY <2>7, <5>1
        <5>2. CASE s[k].kind = "sized"
          <6>1. a + h \in o + 4 .. o + 7
            BY <1>4, <1>5, <2>2, <3>5, <5>1, <5>2
          <6>2. LengthLine[n] # "cr" /\ LengthLine[n] # "lf"
            BY <2>2, <5>2, LinesAssumption, PartsAssumption DEF Bytes
          <6>3. /\ a + h = o + 4 \/ a + h = o + 5 \/ a + h = o + 6 \/ a + h = o + 7
                /\ (o + 5) + 1 = o + 6 /\ (o + 4) + 1 = o + 5
                /\ (o + 6) + 1 = o + 7
            BY <1>5, <6>1
          <6>4. CASE a + h = o + 4
            BY <2>2, <2>11, <6>4
          <6>5. CASE a + h = o + 5
            <7>1. a + h + 2 = o + 7
              BY <1>5, <6>5
            <7>2. t[o + 7] # "cr"
              BY <2>2, <5>2, <6>2
            <7> QED
              BY <7>1, <7>2
          <6>6. CASE a + h = o + 6
            BY <2>2, <2>11, <6>6
          <6>7. CASE a + h = o + 7
            BY <2>2, <5>2, <6>2, <6>7
          <6> QED
            BY <6>3, <6>4, <6>5, <6>6, <6>7
        <5>3. CASE s[k].kind = "bare"
          <6>1. a + h = o + 4
            BY <1>4, <1>5, <2>2, <3>5, <5>1, <5>3
          <6> QED
            BY <2>2, <2>11, <6>1
        <5> QED
          BY <2>2, <2>11, <5>2, <5>3
      <4> QED
        BY <2>8, <3>3, <3>5, <4>2 DEF c, p, t
    <3>8. CASE Start(s, k) =< b
      <4>1. a + after = o + 4
        BY <1>4, <1>5, <2>2, <2>5, <2>6, <2>11, <3>6, <3>8
      (* the headers end with the line before the body *)
      <4>2. PICK j \in after .. b - a : a + j + 4 = Start(s, k) + 1
        <5>1. Start(s, k) - 3 - a \in after .. b - a
          BY <1>4, <1>5, <2>6, <3>6, <3>8, <4>1
        <5>2. a + (Start(s, k) - 3 - a) + 4 = Start(s, k) + 1
          BY <1>4, <3>6
        <5> QED
          BY <5>1, <5>2
      <4>3. There(t, a + j - 1, b, CRLF \o CRLF)
        <5>1. j \in Nat /\ a + j + 3 =< b
          BY <1>4, <2>6, <3>6, <3>8, <4>2
        <5>2. CASE s[k].kind = "sized"
          <6>1. Start(s, k) = o + 11
            BY <2>2, <5>2
          <6>2. a \in Nat /\ o \in Nat /\ j \in Nat /\ a + j + 4 = (o + 11) + 1
            BY <1>4, <1>5, <4>2, <5>1, <6>1
          <6>3. a + j = o + 8 /\ a + j + 1 = o + 9 /\ a + j + 2 = o + 10 /\ a + j + 3 = o + 11
            BY <6>2
          <6>4. t[o + 8] = "cr" /\ t[o + 9] = "lf" /\ t[o + 10] = "cr" /\ t[o + 11] = "lf"
            BY <2>2, <5>2
          <6>5. t[a + j] = "cr" /\ t[a + j + 1] = "lf" /\ t[a + j + 2] = "cr" /\ t[a + j + 3] = "lf"
            BY <6>3, <6>4, Zenon
          <6> QED
            BY <2>7, <5>1, <6>5, Zenon
        <5>3. CASE s[k].kind = "bare"
          <6>1. Start(s, k) = o + 8
            BY <2>2, <5>3
          <6>2. a \in Nat /\ o \in Nat /\ j \in Nat /\ a + j + 4 = (o + 8) + 1
            BY <1>4, <1>5, <4>2, <5>1, <6>1
          <6>3. a + j = o + 5 /\ a + j + 1 = o + 6 /\ a + j + 2 = o + 7 /\ a + j + 3 = o + 8
            BY <6>2
          <6>4. t[o + 5] = "cr" /\ t[o + 6] = "lf" /\ t[o + 7] = "cr" /\ t[o + 8] = "lf"
            BY <2>2, <2>11, <5>3
          <6>5. t[a + j] = "cr" /\ t[a + j + 1] = "lf" /\ t[a + j + 2] = "cr" /\ t[a + j + 3] = "lf"
            BY <6>3, <6>4, Zenon
          <6> QED
            BY <2>7, <5>1, <6>5, Zenon
        <5> QED
          BY <2>2, <2>11, <5>2, <5>3
      <4>4. ASSUME NEW h \in after .. j - 1
            PROVE  ~There(t, a + h - 1, b, CRLF \o CRLF)
        <5>1. h \in Nat /\ a + h >= o + 4 /\ a + h + 4 =< Start(s, k)
          BY <1>4, <1>5, <2>6, <3>6, <4>1, <4>2
        <5> SUFFICES ~(t[a + h] = "cr" /\ t[a + h + 1] = "lf" /\ t[a + h + 2] = "cr")
          BY <2>7, <5>1
        <5>2. CASE s[k].kind = "sized"
          <6>1. LengthLine[n] # "cr" /\ LengthLine[n] # "lf"
            BY <2>2, <5>2, LinesAssumption, PartsAssumption DEF Bytes
          <6>2. a + h = o + 4 \/ a + h + 2 = o + 7 \/ a + h = o + 6 \/ a + h = o + 7
            BY <1>4, <1>5, <2>2, <5>1, <5>2
          <6>3. CASE a + h = o + 4
            BY <2>2, <2>11, <6>3
          <6>4. CASE a + h + 2 = o + 7
            BY <2>2, <5>2, <6>1, <6>4
          <6>5. CASE a + h = o + 6
            BY <2>2, <2>11, <6>5
          <6>6. CASE a + h = o + 7
            BY <2>2, <5>2, <6>1, <6>6
          <6> QED
            BY <6>2, <6>3, <6>4, <6>5, <6>6
        <5>3. CASE s[k].kind = "bare"
          <6>1. a + h = o + 4
            BY <1>4, <1>5, <2>2, <5>1, <5>3
          <6> QED
            BY <2>2, <2>11, <6>1
        <5> QED
          BY <2>2, <2>11, <5>2, <5>3
      <4>5. end = j
        <5>1. Find(Cut(t, a, b), CRLF \o CRLF, after) = j
          <6>1. CRLF \o CRLF \in Seq(Tokens)
            BY <1>7
          <6>2. after \in Nat \ {0}
            BY <2>6
          <6> QED
            BY <1>11, <4>2, <4>3, <4>4, <6>1, <6>2, FindsFirst
        <5> QED
          BY <1>1, <5>1 DEF end
      <4>6. From(p.buffer, end + 4) = Cut(t, Start(s, k), b)
        <5>1. j + 4 \in 1 .. b - a + 1 /\ a + (j + 4) - 1 = Start(s, k)
          BY <1>4, <2>6, <3>6, <3>8, <4>2, SMTT(30)
        <5>2. From(Cut(t, a, b), j + 4) = Cut(t, a + (j + 4) - 1, b)
          BY <1>11, <5>1, CutFrom
        <5> QED
          BY <1>1, <4>5, <5>1, <5>2
      (* of which one line says a length, or none *)
      <4>7. SubSeq(p.buffer, after, end) = Cut(t, o + 3, Start(s, k) - 3)
        <5>1. after \in 1 .. b - a + 1 /\ j \in after - 1 .. b - a
          BY <1>4, <2>6, <4>2
        <5>2. SubSeq(Cut(t, a, b), after, j) = Cut(t, a + after - 1, a + j)
          BY <1>11, <5>1, CutSub
        <5>3. a + after - 1 = o + 3 /\ a + j = Start(s, k) - 3
          BY <1>4, <1>5, <2>6, <3>6, <4>1, <4>2
        <5> QED
          BY <1>1, <4>5, <5>2, <5>3
      <4>8. \A x : Contains(SubSeq(p.buffer, after, end), x) <=>
                     \E i \in o + 4 .. Start(s, k) - 3 : t[i] = x
        <5> DEFINE m == Start(s, k) - 3
        <5>1. o + 3 \in 0 .. Len(t) /\ m \in o + 3 .. Len(t) /\ o + 3 \in Nat /\ m \in Nat
          BY <1>4, <1>5, <3>6, <3>8
        <5>2. /\ Cut(t, o + 3, m) \in Seq(Tokens) /\ Len(Cut(t, o + 3, m)) = m - (o + 3)
              /\ \A i \in 1 .. m - (o + 3) : Cut(t, o + 3, m)[i] = t[(o + 3) + i]
          BY <1>11, <5>1, CutHolds, ZenonT(30)
        <5>3. ASSUME NEW x
              PROVE  Contains(SubSeq(p.buffer, after, end), x) <=>
                       \E i \in 1 .. m - (o + 3) : t[(o + 3) + i] = x
          BY <4>7, <5>2 DEF Contains
        <5>4. /\ \A i \in 1 .. m - (o + 3) : (o + 3) + i \in o + 4 .. m
              /\ \A i \in o + 4 .. m : i - (o + 3) \in 1 .. m - (o + 3) /\ (o + 3) + (i - (o + 3)) = i
          BY <1>5, <5>1, SMTT(30)
        <5> HIDE DEF m
        <5>5. ASSUME NEW x
              PROVE  (\E i \in 1 .. m - (o + 3) : t[(o + 3) + i] = x) <=> \E i \in o + 4 .. m : t[i] = x
          BY <5>4
        <5> QED
          BY <5>3, <5>5 DEF m
      <4>9. IF s[k].kind = "sized" THEN lengths = {n} ELSE lengths = {}
        <5>1. \A l \in Lengths : LengthLine[l] \notin {"cr", "lf", "type"}
          BY LinesAssumption DEF Bytes
        <5>2. CASE s[k].kind = "sized"
          <6>1. n \in Lengths
            BY <2>2, <5>2, PartsAssumption
          <6>2. \A i \in o + 4 .. Start(s, k) - 3 :
                   i = o + 4 \/ i = o + 5 \/ i = o + 6 \/ i = o + 7 \/ i = o + 8
            BY <1>5, <2>2, <5>2
          <6>3. o + 7 \in o + 4 .. Start(s, k) - 3
            BY <1>5, <2>2, <5>2
          <6>4. /\ t[o + 4] = "type" /\ t[o + 5] = "cr" /\ t[o + 6] = "lf"
                /\ t[o + 7] = LengthLine[n] /\ t[o + 8] = "cr"
            BY <2>2, <2>11, <5>2
          <6>5. ASSUME NEW l \in Lengths
                PROVE  (\E i \in o + 4 .. Start(s, k) - 3 : t[i] = LengthLine[l]) <=> l = n
            <7>1. ASSUME NEW i \in o + 4 .. Start(s, k) - 3, t[i] = LengthLine[l]
                  PROVE  l = n
              <8>1. LengthLine[l] = LengthLine[n]
                BY <5>1, <6>2, <6>4, <7>1
              <8> QED
                BY <6>1, <8>1, LinesAssumption
            <7> QED
              BY <6>3, <6>4, <7>1
          <6>6. lengths = {l \in Lengths : l = n}
            BY <4>8, <6>5 DEF lengths
          <6>7. lengths = {n}
            BY <6>1, <6>6
          <6> QED
            BY <5>2, <6>7
        <5>3. CASE s[k].kind = "bare"
          <6>1. \A i \in o + 4 .. Start(s, k) - 3 : i = o + 4 \/ i = o + 5
            BY <1>5, <2>2, <5>3
          <6>2. t[o + 4] = "type" /\ t[o + 5] = "cr"
            BY <2>2, <2>11
          <6>3. \A l \in Lengths : ~(\E i \in o + 4 .. Start(s, k) - 3 : t[i] = LengthLine[l])
            BY <5>1, <6>1, <6>2
          <6>4. lengths = {}
            BY <4>8, <6>3 DEF lengths
          <6> QED
            BY <5>3, <6>4
        <5> QED
          BY <2>2, <2>11, <5>2, <5>3
      <4>10. (IF lengths = {} THEN None ELSE CHOOSE n_1 \in lengths : TRUE)
               = IF s[k].kind = "sized" THEN n ELSE None
        <5>1. (CHOOSE n_1 \in {n} : TRUE) = n
          OBVIOUS
        <5>2. {n} # {}
          OBVIOUS
        <5> QED
          BY <4>9, <5>1, <5>2
      <4>11. end # 0
        BY <2>6, <4>2, <4>5
      <4>12. c = [parser |-> [buffer |-> Cut(t, Start(s, k), b), headers |-> TRUE,
                              length |-> IF s[k].kind = "sized" THEN n ELSE None],
                  closing |-> FALSE]
        BY <3>2, <4>6, <4>10, <4>11
      <4> QED
        BY <2>1, <2>11, <3>8, <4>12 DEF c, p, t
    <3> QED
      <4>1. b \in Nat /\ o \in Nat /\ Start(s, k) \in Nat
        BY <1>4, <1>5, <3>6
      <4> QED
        BY <3>4, <3>5, <3>8, <4>1
  <2> QED
    BY <2>10, <2>11
<1> QED
  BY <1>4, <1>5, <1>9, <1>10

(* A set of numbers that is bounded has a greatest one.                    *)
LEMMA Greatest ==
    ASSUME NEW n \in Nat, NEW S \in SUBSET (0 .. n), S # {}
    PROVE  Max(S) \in S /\ \A x \in S : x =< Max(S)
<1> DEFINE G(X) == \E m \in X : \A x \in X : m >= x
           N == {m \in Nat : \A X \in SUBSET (0 .. m) : X # {} => G(X)}
<1>1. 0 \in N
  <2>1. ASSUME NEW X \in SUBSET (0 .. 0), X # {}
        PROVE  G(X)
    <3>1. \A x \in X : x = 0
      BY <2>1
    <3>2. 0 \in X
      BY <2>1, <3>1
    <3> QED
      BY <3>1, <3>2
  <2>2. 0 \in Nat
    OBVIOUS
  <2> HIDE DEF G
  <2> QED
    BY <2>1, <2>2, Zenon
<1>2. ASSUME NEW m \in Nat, m \in N
      PROVE  m + 1 \in N
  <2>1. ASSUME NEW X \in SUBSET (0 .. m + 1), X # {}
        PROVE  G(X)
    <3>1. CASE m + 1 \in X
      <4>1. \A x \in X : m + 1 >= x
        BY <2>1
      <4> QED
        BY <3>1, <4>1
    <3>2. CASE m + 1 \notin X
      <4>1. X \in SUBSET (0 .. m)
        BY <2>1, <3>2
      <4> QED
        BY <1>2, <2>1, <4>1
    <3> QED
      BY <3>1, <3>2
  <2> QED
    BY <2>1
<1>3. n \in N
  <2> HIDE DEF N
  <2> QED
    BY <1>1, <1>2, Induction
<1>4. G(S)
  BY <1>3
<1>5. Max(S) \in S /\ \A x \in S : Max(S) >= x
  <2>1. Max(S) = CHOOSE x \in S : \A y \in S : x >= y
    BY DEF Max
  <2> QED
    BY <1>4, <2>1
<1> QED
  BY <1>5

(* rstrip drops one more line end.                                         *)
LEMMA RstripLine ==
    ASSUME NEW u \in Seq(Tokens)
    PROVE  Rstrip(u \o CRLF) = Rstrip(u)
<1> DEFINE n == Len(u)
           v == u \o CRLF
           S == {0} \union {i \in DOMAIN u : u[i] \notin {"cr", "lf"}}
           R == {0} \union {i \in DOMAIN v : v[i] \notin {"cr", "lf"}}
           m == Max(S)
<1>1. CRLF \in Seq(Tokens)
  BY DEF CRLF, Tokens, Bytes
<1>2. Len(CRLF) = 2 /\ CRLF[1] = "cr" /\ CRLF[2] = "lf"
  BY DEF CRLF
<1>3. n \in Nat /\ DOMAIN u = 1 .. n
  BY LenProperties
<1>4. /\ v \in Seq(Tokens) /\ Len(v) = n + Len(CRLF)
      /\ \A i \in 1 .. n : v[i] = u[i]
      /\ \A i \in 1 .. Len(CRLF) : v[n + i] = CRLF[i]
  BY <1>1, Joined
<1>5. DOMAIN v = 1 .. n + 2 /\ v[n + 1] = "cr" /\ v[n + 2] = "lf"
  <2>1. DOMAIN v = 1 .. Len(v)
    BY <1>4, LenProperties
  <2>2. 1 \in 1 .. Len(CRLF) /\ 2 \in 1 .. Len(CRLF)
    BY <1>2
  <2> QED
    BY <1>2, <1>4, <2>1, <2>2
<1> HIDE DEF v, n
<1>6. R = S
  <2>1. ASSUME NEW i
        PROVE  i \in DOMAIN v /\ v[i] \notin {"cr", "lf"} <=> i \in DOMAIN u /\ u[i] \notin {"cr", "lf"}
    <3>1. i \in 1 .. n + 2 <=> i \in 1 .. n \/ i = n + 1 \/ i = n + 2
      BY <1>3
    <3> QED
      BY <1>3, <1>4, <1>5, <3>1
  <2> QED
    BY <2>1
<1>7. m \in 0 .. n
  <2>1. S \in SUBSET (0 .. n) /\ S # {}
    BY <1>3
  <2> HIDE DEF S
  <2>2. m \in S
    BY <1>3, <2>1, Greatest
  <2> QED
    BY <2>1, <2>2
<1> HIDE DEF S, R, m
<1>8. SubSeq(v, 1, m) = SubSeq(u, 1, m)
  <2>1. \A i \in 1 .. m : i \in 1 .. n
    BY <1>3, <1>7
  <2>2. \A i \in 1 .. m : v[i] = u[i]
    BY <1>4, <2>1
  <2>3. m \in Nat /\ m =< n /\ m =< n + 2 /\ Len(v) = n + 2 /\ Len(u) = n
    BY <1>2, <1>3, <1>4, <1>7 DEF n
  <2>4. /\ SubSeq(v, 1, m) = [i \in 1 .. m |-> v[i]]
        /\ SubSeq(u, 1, m) = [i \in 1 .. m |-> u[i]]
    <3>1. /\ Cut(v, 0, m) \in Seq(Tokens) /\ Len(Cut(v, 0, m)) = m - 0
          /\ \A i \in 1 .. m - 0 : Cut(v, 0, m)[i] = v[0 + i]
      <4>1. 0 \in 0 .. Len(v) /\ m \in 0 .. Len(v)
        BY <1>3, <2>3
      <4> QED
        BY <1>4, <4>1, CutHolds
    <3>2. /\ Cut(u, 0, m) \in Seq(Tokens) /\ Len(Cut(u, 0, m)) = m - 0
          /\ \A i \in 1 .. m - 0 : Cut(u, 0, m)[i] = u[0 + i]
      <4>1. 0 \in 0 .. Len(u) /\ m \in 0 .. Len(u)
        BY <1>3, <2>3
      <4> QED
        BY <4>1, CutHolds
    <3>3. SubSeq(v, 1, m) = Cut(v, 0, m) /\ SubSeq(u, 1, m) = Cut(u, 0, m) /\ m - 0 = m
      BY <2>3 DEF Cut
    <3>4. \A w \in Seq(Tokens) : Len(w) = m => w = [i \in 1 .. m |-> w[i]]
      BY LenProperties
    <3>5. \A i \in 1 .. m : 0 + i = i
      BY <2>3
    <3>6. Cut(v, 0, m) = [i \in 1 .. m |-> Cut(v, 0, m)[i]] /\ Cut(u, 0, m) = [i \in 1 .. m |-> Cut(u, 0, m)[i]]
      BY <3>1, <3>2, <3>3, <3>4
    <3> QED
      BY <3>1, <3>2, <3>3, <3>5, <3>6
  <2> QED
    BY <2>2, <2>4
<1>9. Rstrip(v) = SubSeq(v, 1, Max(R)) /\ Rstrip(u) = SubSeq(u, 1, m)
  BY DEF Rstrip, R, S, m
<1> QED
  BY <1>6, <1>8, <1>9 DEF v, m

(* Once the headers of part k are read, its body is returned with the      *)
(* token that ends it, and at most the end of a line is left before the    *)
(* next part.                                                              *)
LEMMA BodyConsumed ==
    ASSUME NEW s \in Seq(StreamParts), NEW k \in 1 .. Len(s),
           NEW b \in 0 .. Len(Text(s)), s[k].kind # "close", Start(s, k) =< b
    PROVE  LET p == [buffer |-> Cut(Text(s), Start(s, k), b), headers |-> TRUE,
                     length |-> IF s[k].kind = "sized" THEN Len(s[k].body) ELSE None]
               c == ConsumePartBody(p)
           IN  \/ c.bodies = <<>> /\ Waits(s, k, b)
               \/ /\ c.bodies = Returned(s[k]) /\ c.bodies # <<>> /\ End(s, k) =< b
                  /\ Start(s, k) =< Off(s, k) - 2
                  /\ \/ c.buffer = Cut(Text(s), Off(s, k), b) /\ Off(s, k) =< b
                     \/ c.buffer = Cut(Text(s), Off(s, k) - 2, b) /\ Off(s, k) - 2 =< b
<1> DEFINE t == Text(s)
           o == Start(s, k)
           n == Len(s[k].body)
           e == Off(s, k)
           p == [buffer |-> Cut(t, o, b), headers |-> TRUE,
                 length |-> IF s[k].kind = "sized" THEN n ELSE None]
           c == ConsumePartBody(p)
           rest == From(p.buffer, p.length + 1)
           idx == Find(p.buffer, <<"D">>, 1)
<1>1. /\ p.buffer = Cut(t, o, b)
      /\ p.length = IF s[k].kind = "sized" THEN n ELSE None
  OBVIOUS
<1>2. c = IF p.length # None
          THEN IF Len(p.buffer) < p.length THEN [bodies |-> <<>>, buffer |-> p.buffer]
               ELSE [bodies |-> <<SubSeq(p.buffer, 1, p.length)>>,
                     buffer |-> IF Starts(rest, CRLF) THEN From(rest, 3) ELSE rest]
          ELSE IF idx = 0 THEN [bodies |-> <<>>, buffer |-> p.buffer]
          ELSE [bodies |-> <<Rstrip(SubSeq(p.buffer, 1, idx - 1))>>, buffer |-> From(p.buffer, idx)]
  BY Zenon DEF ConsumePartBody
<1>3. /\ s[k] \in StreamParts /\ s[k].kind \in {"sized", "bare", "close"}
      /\ n \in Nat /\ e \in Nat /\ e =< Len(t)
      /\ e = o + n + 2
      /\ \A i \in 1 .. n : t[o + i] = s[k].body[i]
      /\ t[o + n + 1] = "cr" /\ t[o + n + 2] = "lf"
  BY Layout
<1>4. o \in Nat
  <2>1. /\ s[k].kind = "sized" => o = Off(s, k - 1) + 11
        /\ s[k].kind = "bare" => o = Off(s, k - 1) + 8
        /\ Off(s, k - 1) \in Nat
    BY Layout
  <2>2. o = Off(s, k - 1) + 11 \/ o = Off(s, k - 1) + 8
    BY <1>3, <2>1
  <2>3. Off(s, k - 1) \in Nat
    BY <2>1
  <2> HIDE DEF o
  <2> QED
    BY <2>2, <2>3
<1>5. t \in Seq(Tokens) /\ Len(t) \in Nat /\ s[k].body \in Seq(Tokens)
  BY <1>3, TextLaid, LenProperties, PartsAssumption
<1>6. Returned(s[k]) = IF s[k].kind = "sized" THEN <<s[k].body>> ELSE <<Rstrip(s[k].body)>>
  BY <1>3 DEF Returned
<1>7. b \in Nat /\ o =< b /\ b =< Len(t) /\ k \in Nat /\ Len(s) \in Nat /\ k =< Len(s)
  <2>1. Len(s) \in Nat
    BY LenProperties
  <2> HIDE DEF t, o
  <2> QED
    BY <1>5, <2>1 DEF t, o
<1>8. End(s, k) = IF s[k].kind = "sized" THEN e - 2 ELSE e + 1
  <2>1. e \in Nat
    BY <1>3
  <2>2. End(s, k) = e + (IF s[k].kind = "sized" THEN 0 ELSE 3) - 2
    BY DEF End
  <2> HIDE DEF e
  <2> QED
    BY <2>1, <2>2
<1> HIDE DEF t, o, e, c, rest, idx
<1>9. t \in Seq(Tokens) /\ o \in 0 .. Len(t) /\ b \in o .. Len(t)
  BY <1>4, <1>5, <1>7
<1>10. e - 2 = o + n /\ o =< e - 2
  BY <1>3, <1>4
<1>11. ASSUME End(s, k) > b
       PROVE  Waits(s, k, b)
  <2>1. k \in 1 .. Len(s) + 1
    BY <1>7
  <2> QED
    BY <1>7, <1>11, <2>1, WaitsFor
<1>12. /\ Cut(t, o, b) \in Seq(Tokens) /\ Len(Cut(t, o, b)) = b - o
       /\ \A i \in 1 .. b - o : Cut(t, o, b)[i] = t[o + i]
  BY <1>9, CutHolds
<1>13. CASE s[k].kind = "sized"
  <2>1. p.length = n /\ p.length # None /\ None = -1
    BY <1>1, <1>3, <1>13 DEF None
  <2>2. CASE b - o < n
    <3>1. c = [bodies |-> <<>>, buffer |-> p.buffer]
      BY <1>1, <1>2, <1>12, <2>1, <2>2
    <3>2. End(s, k) > b
      BY <1>3, <1>4, <1>7, <1>8, <1>10, <1>13, <2>2
    <3> QED
      BY <1>11, <3>1, <3>2 DEF c, t, o
  <2>3. CASE n =< b - o
    <3>1. c = [bodies |-> <<SubSeq(p.buffer, 1, n)>>,
               buffer |-> IF Starts(rest, CRLF) THEN From(rest, 3) ELSE rest]
      <4>1. ~(Len(p.buffer) < p.length)
        BY <1>1, <1>3, <1>4, <1>7, <1>12, <2>1, <2>3
      <4> QED
        BY <1>2, <2>1, <4>1
    <3>2. SubSeq(p.buffer, 1, n) = s[k].body
      <4>1. n \in 0 .. b - o /\ o + n \in o .. Len(t)
        BY <1>3, <1>4, <1>7, <2>3, SMTT(30)
      <4>2. SubSeq(p.buffer, 1, n) = Cut(t, o, o + n)
        BY <1>1, <1>9, <4>1, CutFirst
      <4>3. /\ Cut(t, o, o + n) \in Seq(Tokens) /\ Len(Cut(t, o, o + n)) = (o + n) - o
            /\ \A i \in 1 .. (o + n) - o : Cut(t, o, o + n)[i] = t[o + i]
        BY <1>9, <4>1, CutHolds
      <4>4. (o + n) - o = n
        BY <1>3, <1>4
      <4>5. \A i \in 1 .. n : Cut(t, o, o + n)[i] = s[k].body[i]
        BY <1>3, <4>3, <4>4
      <4> QED
        BY <1>5, <4>2, <4>3, <4>4, <4>5, SeqEqual
    <3>3. rest = Cut(t, e - 2, b) /\ e - 2 \in 0 .. Len(t) /\ b \in e - 2 .. Len(t)
      <4>1. n + 1 \in 1 .. b - o + 1 /\ o + (n + 1) - 1 = e - 2
        BY <1>3, <1>4, <1>7, <1>10, <2>3, SMTT(30)
      <4>2. From(Cut(t, o, b), n + 1) = Cut(t, o + (n + 1) - 1, b)
        BY <1>9, <4>1, CutFrom
      <4>3. e - 2 \in 0 .. Len(t) /\ b \in e - 2 .. Len(t)
        BY <1>3, <1>4, <1>7, <1>10, <2>3, SMTT(30)
      <4> QED
        BY <1>1, <2>1, <4>1, <4>2, <4>3 DEF rest
    <3>4. Starts(rest, CRLF) <=> e =< b
      <4>1. CRLF \in Seq(Tokens)
        BY DEF CRLF, Tokens, Bytes
      <4>2. Starts(rest, CRLF) <=> There(t, e - 2, b, CRLF)
        BY <1>5, <3>3, <4>1, CutStarts
      <4>3. (e - 2) + 1 = o + n + 1 /\ (e - 2) + 2 = o + n + 2 /\ (e - 2) + 2 = e /\ e - 2 \in Int /\ b \in Int
        BY <1>3, <1>4, <1>7
      <4> QED
        BY <1>3, <4>2, <4>3, Theres, SMTT(30)
    <3>5. e =< b => From(rest, 3) = Cut(t, e, b)
      <4> SUFFICES ASSUME e =< b
                   PROVE  From(rest, 3) = Cut(t, e, b)
        OBVIOUS
      <4>1. 3 \in 1 .. b - (e - 2) + 1 /\ (e - 2) + 3 - 1 = e
        BY <1>3, <1>7
      <4>2. From(rest, 3) = Cut(t, (e - 2) + 3 - 1, b)
        BY <1>5, <3>3, <4>1, CutFrom
      <4> QED
        BY <4>1, <4>2
    <3>6. c.bodies = Returned(s[k]) /\ c.bodies # <<>>
      <4>1. c.bodies = <<s[k].body>>
        BY <3>1, <3>2
      <4> QED
        BY <1>6, <1>13, <4>1
    <3>7. c.buffer = IF e =< b THEN Cut(t, e, b) ELSE Cut(t, e - 2, b)
      BY <3>1, <3>3, <3>4, <3>5
    <3>8. e - 2 =< b /\ End(s, k) =< b
      BY <1>3, <1>7, <1>8, <1>13, <3>3
    <3> QED
      BY <1>10, <3>6, <3>7, <3>8 DEF c, t, o, e
  <2> QED
    BY <1>3, <1>4, <1>7, <2>2, <2>3
<1>14. CASE s[k].kind = "bare"
  <2>1. p.length = None
    BY <1>1, <1>14
  <2>2. \A h \in 1 .. n + 2 : t[o + h] # "D"
    <3>1. \A i \in 1 .. n : s[k].body[i] # "D"
      <4>1. DOMAIN s[k].body = 1 .. n
        BY <1>5, LenProperties
      <4> QED
        BY <1>3, <1>14, <4>1, PartsAssumption
    <3>2. \A h \in 1 .. n + 2 : h \in 1 .. n \/ (h = n + 1 /\ o + h = o + n + 1) \/ (h = n + 2 /\ o + h = o + n + 2)
      <4>1. o \in Nat /\ n \in Nat
        BY <1>3, <1>4
      <4> HIDE DEF n
      <4> QED
        BY <4>1
    <3> QED
      BY <1>3, <3>1, <3>2
  <2>3. ASSUME NEW h \in 1 .. b - o, h =< n + 2
        PROVE  ~There(t, o + h - 1, b, <<"D">>)
    <3>1. /\ o + h - 1 \in Int /\ (o + h - 1) + 1 = o + h /\ b \in Int /\ h \in 1 .. n + 2
      BY <1>3, <1>4, <1>7, <2>3, SMTT(30)
    <3> QED
      BY <2>2, <3>1, Theres
  <2>4. 1 \in Nat \ {0} /\ <<"D">> \in Seq(Tokens)
    BY DEF Tokens, Bytes
  <2>5. CASE b =< e
    <3>1. \A h \in 1 .. b - o : h =< n + 2
      BY <1>3, <1>4, <1>7, <2>5
    <3>2. \A h \in 1 .. b - o : ~There(t, o + h - 1, b, <<"D">>)
      BY <2>3, <3>1
    <3>3. idx = 0
      <4>1. Find(Cut(t, o, b), <<"D">>, 1) = 0
        BY <1>9, <2>4, <3>2, FindsNone
      <4> QED
        BY <1>1, <4>1 DEF idx
    <3>4. c = [bodies |-> <<>>, buffer |-> p.buffer]
      BY <1>2, <2>1, <3>3
    <3>5. End(s, k) > b
      BY <1>3, <1>7, <1>8, <1>14, <2>5
    <3> QED
      BY <1>11, <3>4, <3>5 DEF c, t, o
  <2>6. CASE e < b
    <3>1. t[e + 1] = "D"
      <4>1. k # Len(s)
        <5>1. k = Len(s) => e = Len(t)
          BY TextLaid DEF e, t
        <5> QED
          BY <1>5, <1>7, <2>6, <5>1
      <4>2. k + 1 \in 1 .. Len(s) /\ (k + 1) - 1 = k
        BY <1>7, <4>1
      <4>3. Text(s)[Off(s, (k + 1) - 1) + 1] = "D"
        BY <4>2, Layout
      <4> QED
        BY <4>2, <4>3 DEF e, t
    <3>2. PICK j \in 1 .. b - o : j = n + 3
      BY <1>3, <1>4, <1>7, <2>6
    <3>3. There(t, o + j - 1, b, <<"D">>)
      <4>1. o + j - 1 = e /\ e + 1 =< b /\ e \in Int /\ b \in Int
        <5>1. j = n + 3 /\ e = o + n + 2 /\ o \in Nat /\ n \in Nat /\ b \in Nat /\ e < b
          BY <1>3, <1>4, <1>7, <2>6, <3>2
        <5> HIDE DEF n
        <5> QED
          BY <5>1
      <4> QED
        BY <3>1, <4>1, Theres
    <3>4. \A h \in 1 .. j - 1 : ~There(t, o + h - 1, b, <<"D">>)
      <4>1. \A h \in 1 .. j - 1 : h \in 1 .. b - o /\ h =< n + 2
        BY <1>3, <1>4, <1>7, <3>2
      <4> QED
        BY <2>3, <4>1
    <3>5. idx = j
      <4>1. Find(Cut(t, o, b), <<"D">>, 1) = j
        BY <1>9, <2>4, <3>2, <3>3, <3>4, FindsFirst
      <4> QED
        BY <1>1, <4>1 DEF idx
    <3>6. idx # 0 /\ idx - 1 = n + 2
      BY <1>3, <3>2, <3>5
    <3>7. c = [bodies |-> <<Rstrip(SubSeq(p.buffer, 1, n + 2))>>, buffer |-> From(p.buffer, idx)]
      BY <1>2, <2>1, <3>6
    <3>8. SubSeq(p.buffer, 1, n + 2) = s[k].body \o CRLF
      <4>1. n + 2 \in 0 .. b - o /\ o + (n + 2) \in o .. Len(t)
        <5>1. e = o + n + 2 /\ e < b /\ b =< Len(t) /\ o \in Nat /\ n \in Nat
              /\ b \in Nat /\ Len(t) \in Nat
          BY <1>3, <1>4, <1>7, <2>6
        <5> HIDE DEF n, t, e, o
        <5> QED
          BY <5>1
      <4>2. SubSeq(p.buffer, 1, n + 2) = Cut(t, o, o + (n + 2))
        BY <1>1, <1>9, <4>1, CutFirst
      <4>3. /\ Cut(t, o, o + (n + 2)) \in Seq(Tokens) /\ Len(Cut(t, o, o + (n + 2))) = (o + (n + 2)) - o
            /\ \A i \in 1 .. (o + (n + 2)) - o : Cut(t, o, o + (n + 2))[i] = t[o + i]
        BY <1>9, <4>1, CutHolds
      <4>4. (o + (n + 2)) - o = n + 2
        BY <1>3, <1>4, SMTT(30)
      <4>5. CRLF \in Seq(Tokens) /\ Len(CRLF) = 2 /\ CRLF[1] = "cr" /\ CRLF[2] = "lf"
        BY DEF CRLF, Tokens, Bytes
      <4> DEFINE u == s[k].body \o CRLF
      <4>6. CRLF \in Seq(Tokens)
        BY <4>5
      <4>7. /\ u \in Seq(Tokens) /\ Len(u) = n + Len(CRLF)
            /\ \A i \in 1 .. n : u[i] = s[k].body[i]
            /\ \A i \in 1 .. Len(CRLF) : u[n + i] = CRLF[i]
        BY <1>5, <4>6, Joined
      <4>8. Len(u) = n + 2 /\ u[n + 1] = "cr" /\ u[n + 2] = "lf"
        <5>1. 1 \in 1 .. Len(CRLF) /\ 2 \in 1 .. Len(CRLF)
          BY <4>5
        <5> HIDE DEF u
        <5> QED
          BY <4>5, <4>7, <5>1
      <4> HIDE DEF u
      <4>9. ASSUME NEW i \in 1 .. n + 2
            PROVE  t[o + i] = u[i]
        <5>1. i \in 1 .. n \/ (i = n + 1 /\ o + i = o + n + 1) \/ (i = n + 2 /\ o + i = o + n + 2)
          <6>1. o \in Nat /\ n \in Nat
            BY <1>3, <1>4
          <6> HIDE DEF n
          <6> QED
            BY <6>1
        <5> QED
          BY <1>3, <4>7, <4>8, <5>1
      <4>10. \A i \in 1 .. n + 2 : Cut(t, o, o + (n + 2))[i] = u[i]
        BY <4>3, <4>4, <4>9
      <4>11. Cut(t, o, o + (n + 2)) = u
        BY <4>3, <4>4, <4>7, <4>8, <4>10, SeqEqual, SMTT(30)
      <4> QED
        BY <4>2, <4>11 DEF u
    <3>9. c.bodies = Returned(s[k]) /\ c.bodies # <<>>
      <4>1. c.bodies = <<Rstrip(s[k].body)>>
        BY <1>5, <3>7, <3>8, RstripLine
      <4> QED
        BY <1>6, <1>14, <4>1
    <3>10. c.buffer = Cut(t, e, b)
      <4>1. j \in 1 .. b - o + 1 /\ o + j - 1 = e
        BY <1>3, <1>4, <1>7, <3>2
      <4>2. From(Cut(t, o, b), j) = Cut(t, o + j - 1, b)
        BY <1>9, <4>1, CutFrom
      <4> QED
        BY <1>1, <3>5, <3>7, <4>1, <4>2
    <3>11. e =< b /\ End(s, k) =< b
      BY <1>3, <1>7, <1>8, <1>14, <2>6
    <3> QED
      BY <1>10, <3>9, <3>10, <3>11 DEF c, t, o, e
  <2> QED
    BY <1>3, <1>7, <2>5, <2>6
<1> QED
  BY <1>3, <1>13, <1>14

(* What is returned for the parts, one part after another.                 *)
LEMMA PiecesLaid ==
    ASSUME NEW s \in Seq(StreamParts)
    PROVE  /\ Upto(Pieces(s), 0) = <<>>
           /\ \A k \in 0 .. Len(s) : Upto(Pieces(s), k) \in Seq(Seq(Tokens))
           /\ \A k \in 1 .. Len(s) :
                /\ Returned(s[k]) \in Seq(Seq(Tokens))
                /\ Upto(Pieces(s), k) = Upto(Pieces(s), k - 1) \o Returned(s[k])
           /\ Upto(Pieces(s), Len(s)) = FlattenSeq(Pieces(s))
<1>1. Len(s) \in Nat /\ DOMAIN s = 1 .. Len(s)
  BY LenProperties
<1>2. ASSUME NEW k \in 1 .. Len(s)
      PROVE  Returned(s[k]) \in Seq(Seq(Tokens))
  <2>1. s[k] \in StreamParts
    BY ElementOfSeq
  <2>2. s[k].kind \in {"sized", "bare", "close"} /\ s[k].body \in Seq(Tokens)
    BY <2>1, PartsAssumption
  <2>3. Rstrip(s[k].body) \in Seq(Tokens)
    <3> DEFINE u == s[k].body
               S == {0} \union {i \in DOMAIN u : u[i] \notin {"cr", "lf"}}
               m == Max(S)
    <3>1. Len(u) \in Nat /\ DOMAIN u = 1 .. Len(u)
      BY <2>2, LenProperties
    <3>2. S \in SUBSET (0 .. Len(u)) /\ S # {}
      BY <3>1
    <3> HIDE DEF S
    <3>3. m \in 0 .. Len(u)
      <4>1. m \in S
        BY <3>1, <3>2, Greatest
      <4> QED
        BY <3>2, <4>1
    <3>4. Rstrip(u) = Cut(u, 0, m)
      BY DEF Rstrip, Cut, S
    <3>5. 0 \in 0 .. Len(u) /\ u \in Seq(Tokens)
      BY <2>2, <3>1
    <3> HIDE DEF m, u
    <3>6. Cut(u, 0, m) \in Seq(Tokens)
      BY <3>3, <3>5, CutHolds
    <3> QED
      BY <3>4, <3>6 DEF u
  <2>4. s[k].kind = "sized" => Returned(s[k]) = <<s[k].body>>
    BY DEF Returned
  <2>5. s[k].kind = "bare" => Returned(s[k]) = <<Rstrip(s[k].body)>>
    BY DEF Returned
  <2>6. s[k].kind = "close" => Returned(s[k]) = <<>>
    BY DEF Returned
  <2>7. \A x \in Seq(Tokens) : <<x>> \in Seq(Seq(Tokens))
    OBVIOUS
  <2>8. <<>> \in Seq(Seq(Tokens))
    OBVIOUS
  <2> QED
    BY <2>2, <2>3, <2>4, <2>5, <2>6, <2>7, <2>8
<1>3. /\ Pieces(s) = [k \in 1 .. Len(s) |-> Returned(s[k])]
      /\ \A k \in 1 .. Len(s) : Pieces(s)[k] = Returned(s[k])
  BY <1>1 DEF Pieces
<1>4. Pieces(s) \in Seq(Seq(Seq(Tokens))) /\ Len(Pieces(s)) = Len(s)
  BY <1>1, <1>2, <1>3
<1>5. /\ Upto(Pieces(s), 0) = <<>> /\ Upto(Pieces(s), Len(Pieces(s))) = FlattenSeq(Pieces(s))
      /\ \A k \in 1 .. Len(Pieces(s)) : Upto(Pieces(s), k) = Upto(Pieces(s), k - 1) \o Pieces(s)[k]
      /\ \A k \in 0 .. Len(Pieces(s)) : Upto(Pieces(s), k) \in Seq(Seq(Tokens))
  BY <1>4, UptoGrows
<1> QED
  BY <1>2, <1>3, <1>4, <1>5

(* One part further.                                                       *)
LEMMA ReadsOn ==
    ASSUME NEW s \in Seq(StreamParts), NEW k \in 1 .. Len(s), NEW b \in 0 .. Len(Text(s)),
           NEW a, a = Off(s, k) \/ a = Off(s, k) - 2, 0 =< Off(s, k) - 2, a =< b,
           \A i \in 1 .. k - 1 : s[i].kind # "close" => End(s, i) =< b,
           s[k].kind # "close" => End(s, k) =< b
    PROVE  Reads(s, [NewParser EXCEPT !.buffer = Cut(Text(s), a, b)], k + 1, b)
<1>1. Len(s) \in Nat /\ k \in Nat
  BY LenProperties
<1>2. (k + 1) - 1 = k /\ k + 1 > 1 /\ k + 1 \in 1 .. Len(s) + 1 /\ Off(s, k) \in Nat
  <2>1. k \in 0 .. Len(s)
    BY <1>1
  <2>2. \A i \in 0 .. Len(s) : Off(s, i) \in Nat
    BY TextLaid
  <2>3. Off(s, k) \in Nat
    BY <2>1, <2>2
  <2> QED
    BY <1>1, <2>3
<1>3. a \in 0 .. b
  <2>1. Off(s, k) - 2 \in Nat /\ b \in Int
    <3>1. b \in Int
      OBVIOUS
    <3> QED
      BY <1>2, <3>1
  <2>2. a \in Nat
    BY <1>2, <2>1
  <2> QED
    BY <2>1, <2>2
<1>4. Before(s, [NewParser EXCEPT !.buffer = Cut(Text(s), a, b)], k + 1, b)
  BY <1>2, <1>3 DEF Before
<1>5. \A i \in 1 .. (k + 1) - 1 : s[i].kind # "close" => End(s, i) =< b
  <2>1. \A i \in 1 .. k : i = k \/ i \in 1 .. k - 1
    BY <1>1
  <2> QED
    BY <1>2, <2>1
<1> QED
  BY <1>2, <1>4, <1>5 DEF Reads

(* Three sequences of bodies in a row.                                     *)
LEMMA Associative ==
    \A u, v, w \in Seq(Seq(Tokens)) : (u \o v) \o w = u \o (v \o w)
<1> DEFINE T == Seq(Tokens)
<1> HIDE DEF T
<1>1. \A u, v, w \in Seq(T) : (u \o v) \o w = u \o (v \o w)
  BY ConcatAssociative
<1> QED
  BY <1>1, Zenon DEF T

(* The turn of a loop that has read the headers of part k: either the body *)
(* is still to come and the loop stops, or it is returned and the loop     *)
(* goes on with the next part.                                             *)
LEMMA BodyTurn ==
    ASSUME NEW s \in Seq(StreamParts), NEW k \in 1 .. Len(s),
           NEW b \in 0 .. Len(Text(s)), s[k].kind # "close", Start(s, k) =< b,
           \A i \in 1 .. k - 1 : s[i].kind # "close" => End(s, i) =< b,
           NEW g \in Seq(Seq(Tokens)), NEW f \in Seq(Seq(Tokens)), g \o f = Upto(Pieces(s), k - 1)
    PROVE  LET c == ConsumePartBody(Headed(s, k, b))
               y == IF c.bodies = <<>>
                    THEN [parser |-> Headed(s, k, b), bodies |-> f, closing |-> FALSE, going |-> FALSE]
                    ELSE [parser |-> [NewParser EXCEPT !.buffer = c.buffer], bodies |-> f \o c.bodies,
                          closing |-> FALSE, going |-> TRUE]
           IN  /\ Looped(s, b, g, y)
               /\ y.going => ~y.parser.headers /\ Len(y.parser.buffer) \in 0 .. b - Start(s, k)
<1> DEFINE t == Text(s)
           o == Start(s, k)
           e == Off(s, k)
           p == Headed(s, k, b)
           c == ConsumePartBody(p)
           stopped == [parser |-> p, bodies |-> f, closing |-> FALSE, going |-> FALSE]
           gone == [parser |-> [NewParser EXCEPT !.buffer = c.buffer], bodies |-> f \o c.bodies,
                    closing |-> FALSE, going |-> TRUE]
<1>1. /\ Len(s) \in Nat /\ k \in Nat /\ k \in 1 .. Len(s) + 1 /\ b \in Int
  BY LenProperties
<1>2. /\ e \in Nat /\ e =< Len(t) /\ t \in Seq(Tokens) /\ Len(t) \in Nat
      /\ s[k].kind \in {"sized", "bare", "close"}
      /\ s[k].kind = "sized" => o = Off(s, k - 1) + 11
      /\ s[k].kind = "bare" => o = Off(s, k - 1) + 8
      /\ Off(s, k - 1) \in Nat
  BY Layout, TextLaid, LenProperties, SMTT(30)
<1>3. o \in Nat
  <2>1. o = Off(s, k - 1) + 11 \/ o = Off(s, k - 1) + 8
    BY <1>2
  <2>2. Off(s, k - 1) \in Nat
    BY <1>2
  <2> HIDE DEF o
  <2> QED
    BY <2>1, <2>2
<1>4. \/ c.bodies = <<>> /\ Waits(s, k, b)
      \/ /\ c.bodies = Returned(s[k]) /\ c.bodies # <<>> /\ End(s, k) =< b
         /\ o =< e - 2
         /\ \/ c.buffer = Cut(t, e, b) /\ e =< b
            \/ c.buffer = Cut(t, e - 2, b) /\ e - 2 =< b
  BY BodyConsumed DEF Headed
<1>5. Inside(s, p, k, b) /\ Reads(s, p, k, b)
  <2>1. Inside(s, p, k, b)
    BY <1>1 DEF Inside, Headed
  <2> QED
    BY <1>1, <2>1 DEF Reads
<1>6. f \in Seq(Seq(Tokens))
  OBVIOUS
<1> HIDE DEF t, o, e, p, c
<1>7. CASE c.bodies = <<>> /\ Waits(s, k, b)
  <2>1. Looped(s, b, g, stopped)
    BY <1>1, <1>5, <1>6, <1>7 DEF Looped
  <2> QED
    BY <1>7, <2>1 DEF c, p
<1>8. CASE /\ c.bodies = Returned(s[k]) /\ c.bodies # <<>> /\ End(s, k) =< b
           /\ o =< e - 2
           /\ \/ c.buffer = Cut(t, e, b) /\ e =< b
              \/ c.buffer = Cut(t, e - 2, b) /\ e - 2 =< b
  <2>1. PICK a \in Int : (a = e \/ a = e - 2) /\ c.buffer = Cut(t, a, b) /\ a =< b
    <3>1. e \in Int /\ e - 2 \in Int
      BY <1>2
    <3> QED
      BY <1>8, <3>1
  <2>2. o =< a /\ 0 =< e - 2 /\ a \in Nat
    BY <1>2, <1>3, <1>8, <2>1
  <2>3. Reads(s, [NewParser EXCEPT !.buffer = Cut(t, a, b)], k + 1, b)
    BY <1>8, <2>1, <2>2, ReadsOn DEF e, t
  <2>4. /\ f \o c.bodies \in Seq(Seq(Tokens))
        /\ g \o (f \o c.bodies) = Upto(Pieces(s), (k + 1) - 1)
    <3>1. /\ Returned(s[k]) \in Seq(Seq(Tokens))
          /\ Upto(Pieces(s), k) = Upto(Pieces(s), k - 1) \o Returned(s[k])
      BY PiecesLaid
    <3>2. c.bodies \in Seq(Seq(Tokens))
      BY <1>8, <3>1
    <3>3. (g \o f) \o c.bodies = g \o (f \o c.bodies)
      <4>1. g \in Seq(Seq(Tokens)) /\ f \in Seq(Seq(Tokens))
        OBVIOUS
      <4> QED
        BY <3>2, <4>1, Associative, Zenon
    <3>4. f \o c.bodies \in Seq(Seq(Tokens))
      BY <3>2, ConcatProperties
    <3>5. (k + 1) - 1 = k
      BY <1>1
    <3> QED
      BY <1>8, <3>1, <3>3, <3>4, <3>5
  <2>5. k + 1 \in 1 .. Len(s) + 1
    BY <1>1
  <2>6. gone.parser = [NewParser EXCEPT !.buffer = Cut(t, a, b)]
    BY <2>1
  <2>7. Looped(s, b, g, gone)
    <3>1. gone.bodies \in Seq(Seq(Tokens)) /\ gone.going = TRUE /\ gone.closing = FALSE
      BY <2>4
    <3>2. Reads(s, gone.parser, k + 1, b) /\ g \o gone.bodies = Upto(Pieces(s), (k + 1) - 1)
      BY <2>3, <2>4, <2>6
    <3> HIDE DEF gone
    <3> QED
      BY <2>5, <3>1, <3>2 DEF Looped
  <2>8. ~gone.parser.headers /\ Len(gone.parser.buffer) \in 0 .. b - o
    <3>1. a \in 0 .. Len(t) /\ b \in a .. Len(t)
      BY <1>1, <1>2, <2>1, <2>2 DEF t
    <3>2. Len(Cut(t, a, b)) = b - a
      BY <1>2, <3>1, CutHolds
    <3>3. b - a \in 0 .. b - o
      BY <1>1, <1>3, <2>1, <2>2
    <3>4. gone.parser.buffer = Cut(t, a, b) /\ gone.parser.headers = FALSE
      BY <2>6 DEF NewParser
    <3> QED
      BY <3>2, <3>3, <3>4
  <2> QED
    BY <1>8, <2>7, <2>8 DEF c, p, o
<1> QED
  BY <1>4, <1>7, <1>8

(* A turn of the loop keeps what it has read and returned, and goes on only *)
(* with fewer tokens - but that of a loop that starts with the headers of  *)
(* a part read may leave as many.                                          *)
LEMMA TurnKeeps ==
    ASSUME NEW s \in Seq(StreamParts), NEW b \in 0 .. Len(Text(s)),
           NEW g \in Seq(Seq(Tokens)), NEW x, Looped(s, b, g, x), x.going
    PROVE  /\ Looped(s, b, g, Turn(x))
           /\ Turn(x).going =>
                /\ ~Turn(x).parser.headers
                /\ Len(Turn(x).parser.buffer) \in 0 .. Len(x.parser.buffer)
                /\ ~x.parser.headers => Len(Turn(x).parser.buffer) # Len(x.parser.buffer)
<1> DEFINE t == Text(s)
           h == IF x.parser.headers THEN [parser |-> x.parser, closing |-> FALSE]
                ELSE ConsumePartHeaders(x.parser)
           c == ConsumePartBody(h.parser)
           stopped == [parser |-> h.parser, bodies |-> x.bodies, closing |-> h.closing, going |-> FALSE]
           gone == [parser |-> [NewParser EXCEPT !.buffer = c.buffer], bodies |-> x.bodies \o c.bodies,
                    closing |-> FALSE, going |-> TRUE]
<1>1. Turn(x) = IF ~h.parser.headers \/ c.bodies = <<>> THEN stopped ELSE gone
  BY Zenon DEF Turn
<1>2. PICK k \in 1 .. Len(s) + 1 :
        /\ Reads(s, x.parser, k, b)
        /\ g \o x.bodies = Upto(Pieces(s), k - 1)
  BY DEF Looped
<1>3. x.bodies \in Seq(Seq(Tokens))
  BY DEF Looped
<1>4. /\ Before(s, x.parser, k, b) \/ Inside(s, x.parser, k, b)
      /\ \A i \in 1 .. k - 1 : s[i].kind # "close" => End(s, i) =< b
  BY <1>2 DEF Reads
<1>5. t \in Seq(Tokens) /\ Len(t) \in Nat /\ b \in Nat /\ b =< Len(t) /\ Len(s) \in Nat /\ k \in Nat
  <2>1. t \in Seq(Tokens) /\ Len(t) \in Nat /\ Len(s) \in Nat
    BY TextLaid, LenProperties
  <2> QED
    BY <2>1
<1> HIDE DEF h, c, t
<1>6. ASSUME k \in 1 .. Len(s), s[k].kind # "close", Start(s, k) =< b,
             h = [parser |-> Headed(s, k, b), closing |-> FALSE]
      PROVE  /\ Looped(s, b, g, Turn(x))
             /\ Turn(x).going =>
                  ~Turn(x).parser.headers /\ Len(Turn(x).parser.buffer) \in 0 .. b - Start(s, k)
  <2> DEFINE d == ConsumePartBody(Headed(s, k, b))
             y == IF d.bodies = <<>>
                  THEN [parser |-> Headed(s, k, b), bodies |-> x.bodies, closing |-> FALSE, going |-> FALSE]
                  ELSE [parser |-> [NewParser EXCEPT !.buffer = d.buffer], bodies |-> x.bodies \o d.bodies,
                        closing |-> FALSE, going |-> TRUE]
  <2>1. h.parser = Headed(s, k, b) /\ h.closing = FALSE /\ h.parser.headers = TRUE
    BY <1>6 DEF Headed
  <2>2. c = d
    BY <2>1 DEF c
  <2>3. Turn(x) = y
    BY <1>1, <2>1, <2>2
  <2>4. /\ Looped(s, b, g, y)
        /\ y.going => ~y.parser.headers /\ Len(y.parser.buffer) \in 0 .. b - Start(s, k)
    BY <1>2, <1>3, <1>4, <1>6, BodyTurn
  <2> HIDE DEF y
  <2> QED
    BY <2>3, <2>4
<1>7. CASE Inside(s, x.parser, k, b)
  <2>1. k \in 1 .. Len(s) /\ s[k].kind # "close" /\ Start(s, k) =< b
    BY <1>5, <1>7 DEF Inside
  <2>2. x.parser = Headed(s, k, b)
    BY <1>7 DEF Inside, Headed
  <2>3. x.parser.headers = TRUE /\ x.parser.buffer = Cut(t, Start(s, k), b)
    BY <2>2 DEF Headed, t
  <2>4. h = [parser |-> Headed(s, k, b), closing |-> FALSE]
    BY <2>2, <2>3 DEF h
  <2>5. Len(x.parser.buffer) = b - Start(s, k)
    <3>1. Start(s, k) \in 0 .. Len(t) /\ b \in Start(s, k) .. Len(t)
      <4>1. /\ s[k].kind \in {"sized", "bare", "close"}
            /\ s[k].kind = "sized" => Start(s, k) = Off(s, k - 1) + 11
            /\ s[k].kind = "bare" => Start(s, k) = Off(s, k - 1) + 8
            /\ Off(s, k - 1) \in Nat
        BY <2>1, Layout, SMTT(30)
      <4>2. Start(s, k) = Off(s, k - 1) + 11 \/ Start(s, k) = Off(s, k - 1) + 8
        BY <2>1, <4>1
      <4>3. Off(s, k - 1) \in Nat
        BY <4>1
      <4>4. Start(s, k) \in Nat
        BY <4>2, <4>3
      <4> QED
        BY <1>5, <2>1, <4>4
    <3> QED
      BY <1>5, <2>3, <3>1, CutHolds, ZenonT(30)
  <2>6. Looped(s, b, g, Turn(x)) /\ (Turn(x).going =>
          ~Turn(x).parser.headers /\ Len(Turn(x).parser.buffer) \in 0 .. b - Start(s, k))
    BY <1>6, <2>1, <2>4
  <2> QED
    BY <2>3, <2>5, <2>6
<1>8. CASE Before(s, x.parser, k, b)
  <2>1. PICK a \in 0 .. b :
          /\ a = Off(s, k - 1) \/ (k > 1 /\ a = Off(s, k - 1) - 2)
          /\ x.parser = [NewParser EXCEPT !.buffer = Cut(t, a, b)]
    BY <1>8 DEF Before, t
  <2>2. x.parser.headers = FALSE /\ x.parser.buffer = Cut(t, a, b)
    BY <2>1 DEF NewParser
  <2>3. Len(x.parser.buffer) = b - a
    <3>1. a \in 0 .. Len(t) /\ b \in a .. Len(t)
      BY <1>5
    <3> QED
      BY <1>5, <2>2, <3>1, CutHolds
  <2>4. h = ConsumePartHeaders([NewParser EXCEPT !.buffer = Cut(t, a, b)])
    BY <2>1, <2>2 DEF h
  <2>5. \/ h = [parser |-> x.parser, closing |-> FALSE] /\ Waits(s, k, b)
        \/ /\ k \in 1 .. Len(s) /\ s[k].kind = "close" /\ Off(s, k) - 2 =< b
           /\ h = [parser |-> [NewParser EXCEPT !.buffer = Cut(t, Off(s, k) - 2, b)], closing |-> TRUE]
        \/ /\ k \in 1 .. Len(s) /\ s[k].kind # "close" /\ Start(s, k) =< b
           /\ h = [parser |-> Headed(s, k, b), closing |-> FALSE]
    <3> DEFINE p == [NewParser EXCEPT !.buffer = Cut(Text(s), a, b)]
               d == ConsumePartHeaders(p)
    <3>1. \/ d = [parser |-> p, closing |-> FALSE] /\ Waits(s, k, b)
          \/ /\ k \in 1 .. Len(s) /\ s[k].kind = "close" /\ Off(s, k) - 2 =< b
             /\ d = [parser |-> [NewParser EXCEPT !.buffer = Cut(Text(s), Off(s, k) - 2, b)], closing |-> TRUE]
          \/ /\ k \in 1 .. Len(s) /\ s[k].kind # "close" /\ Start(s, k) =< b
             /\ d = [parser |-> [buffer |-> Cut(Text(s), Start(s, k), b), headers |-> TRUE,
                                 length |-> IF s[k].kind = "sized" THEN Len(s[k].body) ELSE None],
                     closing |-> FALSE]
      <4>1. a = Off(s, k - 1) \/ (k > 1 /\ a = Off(s, k - 1) - 2)
        BY <2>1
      <4> QED
        BY <4>1, HeadersConsumed
    <3>2. x.parser = p /\ h = d
      BY <2>1, <2>4 DEF t
    <3> HIDE DEF p, d
    <3> QED
      BY <3>1, <3>2 DEF Headed, t
  <2>6. CASE h = [parser |-> x.parser, closing |-> FALSE] /\ Waits(s, k, b)
    <3>1. Turn(x) = [parser |-> x.parser, bodies |-> x.bodies, closing |-> FALSE, going |-> FALSE]
      BY <1>1, <2>2, <2>6
    <3>2. Looped(s, b, g, Turn(x))
      <4>1. Turn(x).parser = x.parser /\ Turn(x).bodies = x.bodies /\ Turn(x).closing = FALSE /\ Turn(x).going = FALSE
        BY <3>1
      <4> QED
        BY <1>2, <1>3, <2>6, <4>1 DEF Looped
    <3> QED
      BY <3>1, <3>2
  <2>7. CASE /\ k \in 1 .. Len(s) /\ s[k].kind = "close" /\ Off(s, k) - 2 =< b
             /\ h = [parser |-> [NewParser EXCEPT !.buffer = Cut(t, Off(s, k) - 2, b)], closing |-> TRUE]
    <3> DEFINE p == [NewParser EXCEPT !.buffer = Cut(t, Off(s, k) - 2, b)]
    <3>1. p.headers = FALSE
      BY DEF NewParser
    <3>2. Turn(x) = [parser |-> p, bodies |-> x.bodies, closing |-> TRUE, going |-> FALSE]
      BY <1>1, <2>7, <3>1
    <3>3. Turn(x).parser = p /\ Turn(x).bodies = x.bodies /\ Turn(x).closing = TRUE /\ Turn(x).going = FALSE
      BY <3>2
    <3>4. 0 =< Off(s, k) - 2
      <4>1. Off(s, k) = Off(s, k - 1) + 5 /\ Off(s, k - 1) \in Nat
        BY <2>7, Layout
      <4> QED
        BY <4>1
    <3>5. Reads(s, p, k + 1, b)
      BY <1>4, <2>7, <3>4, ReadsOn DEF t
    <3>6. g \o x.bodies = Upto(Pieces(s), (k + 1) - 1)
      <4>1. /\ Upto(Pieces(s), k) = Upto(Pieces(s), k - 1) \o Returned(s[k])
            /\ Upto(Pieces(s), k - 1) \in Seq(Seq(Tokens))
        <5>1. k - 1 \in 0 .. Len(s)
          BY <1>5, <2>7
        <5> QED
          BY <2>7, <5>1, PiecesLaid
      <4>2. Returned(s[k]) = <<>>
        BY <2>7 DEF Returned
      <4>3. Upto(Pieces(s), k) = Upto(Pieces(s), k - 1)
        BY <4>1, <4>2, ConcatEmptySeq
      <4>4. (k + 1) - 1 = k
        BY <1>5
      <4> QED
        BY <1>2, <4>3, <4>4
    <3>7. k + 1 \in 1 .. Len(s) + 1
      BY <1>5, <2>7
    <3>8. Looped(s, b, g, Turn(x))
      <4> HIDE DEF p
      <4> QED
        BY <1>3, <3>3, <3>5, <3>6, <3>7 DEF Looped
    <3> QED
      BY <3>3, <3>8
  <2>8. CASE /\ k \in 1 .. Len(s) /\ s[k].kind # "close" /\ Start(s, k) =< b
             /\ h = [parser |-> Headed(s, k, b), closing |-> FALSE]
    <3>1. Looped(s, b, g, Turn(x)) /\ (Turn(x).going =>
            ~Turn(x).parser.headers /\ Len(Turn(x).parser.buffer) \in 0 .. b - Start(s, k))
      BY <1>6, <2>8
    <3>2. Start(s, k) \in Nat /\ a < Start(s, k) /\ a \in Nat
      <4>1. /\ s[k].kind \in {"sized", "bare", "close"}
            /\ s[k].kind = "sized" => Start(s, k) = Off(s, k - 1) + 11
            /\ s[k].kind = "bare" => Start(s, k) = Off(s, k - 1) + 8
            /\ Off(s, k - 1) \in Nat
        BY <2>8, Layout, SMTT(30)
      <4>2. Start(s, k) = Off(s, k - 1) + 11 \/ Start(s, k) = Off(s, k - 1) + 8
        BY <2>8, <4>1
      <4>3. Off(s, k - 1) \in Nat /\ a \in Nat /\ (a = Off(s, k - 1) \/ a = Off(s, k - 1) - 2)
        BY <1>5, <2>1, <4>1
      <4> QED
        BY <4>2, <4>3, SMTT(30)
    <3>3. ASSUME NEW m \in 0 .. b - Start(s, k)
          PROVE  m \in 0 .. b - a /\ m # b - a
      BY <1>5, <2>8, <3>2
    <3> QED
      BY <2>3, <3>1, <3>3
  <2> QED
    BY <2>5, <2>6, <2>7, <2>8
<1> QED
  BY <1>4, <1>7, <1>8

(* The loop of feed: what it is after each turn.                           *)
Starting(p) == [parser |-> p, bodies |-> <<>>, closing |-> FALSE, going |-> TRUE]

Turning(p, n, f) == [k \in 0 .. n |-> IF k = 0 THEN Starting(p) ELSE Turn(f[k - 1])]

LEMMA TurningDefined ==
    ASSUME NEW p, NEW n \in Nat
    PROVE  \E f : f = Turning(p, n, f)
<1> DEFINE Go(m, f) == Turning(p, m, f)
           S == {m \in Nat : \E f : f = Go(m, f)}
<1>1. 0 \in S
  <2>1. \A f : Go(0, f) = [k \in 0 .. 0 |-> Starting(p)]
    BY DEF Turning
  <2> QED
    BY <2>1
<1>2. ASSUME NEW m \in Nat, m \in S
      PROVE  m + 1 \in S
  <2>1. PICK f : f = Go(m, f)
    BY <1>2
  <2> DEFINE g == [k \in 0 .. m + 1 |-> IF k =< m THEN f[k] ELSE Turn(f[m])]
  <2>2. \A k \in 0 .. m : f[k] = IF k = 0 THEN Starting(p) ELSE Turn(f[k - 1])
    BY <2>1, Zenon DEF Turning
  <2>3. ASSUME NEW k \in 0 .. m + 1
        PROVE  g[k] = IF k = 0 THEN Starting(p) ELSE Turn(g[k - 1])
    <3>1. CASE k = 0
      BY <2>2, <3>1
    <3>2. CASE k # 0 /\ k =< m
      <4>1. k - 1 \in 0 .. m /\ k - 1 \in 0 .. m + 1 /\ k \in 0 .. m /\ k - 1 =< m
        BY <3>2
      <4>2. g[k - 1] = f[k - 1] /\ g[k] = f[k]
        BY <3>2, <4>1
      <4> HIDE DEF g
      <4> QED
        BY <2>2, <3>2, <4>1, <4>2
    <3>3. CASE k = m + 1
      <4>1. m \in 0 .. m + 1 /\ ~(m + 1 =< m) /\ k # 0 /\ k - 1 = m
        BY <3>3
      <4>2. g[m] = f[m] /\ g[k] = Turn(f[m])
        BY <3>3, <4>1
      <4> HIDE DEF g
      <4> QED
        BY <3>3, <4>1, <4>2
    <3> QED
      BY <3>1, <3>2, <3>3
  <2>4. Go(m + 1, g) = [k \in 0 .. m + 1 |-> IF k = 0 THEN Starting(p) ELSE Turn(g[k - 1])]
    BY Zenon DEF Turning
  <2>5. g = [k \in 0 .. m + 1 |-> g[k]]
    OBVIOUS
  <2> HIDE DEF g
  <2>6. g = Go(m + 1, g)
    BY <2>3, <2>4, <2>5
  <2> QED
    BY <2>6
<1> HIDE DEF S
<1>3. Nat \subseteq S
  BY <1>1, <1>2, Induction
<1> QED
  BY <1>3 DEF S

LEMMA TurnsUnfold ==
    ASSUME NEW p, Len(p.buffer) \in Nat
    PROVE  \E f : /\ FeedLoop(p) = f[Len(p.buffer) + 2]
                  /\ f[0] = Starting(p)
                  /\ \A k \in 1 .. Len(p.buffer) + 2 : f[k] = Turn(f[k - 1])
<1> DEFINE n == Len(p.buffer) + 2
           f == CHOOSE g : g = Turning(p, n, g)
<1>1. FeedLoop(p) = f[n]
  BY Zenon DEF FeedLoop, Turning, Starting
<1>2. n \in Nat
  OBVIOUS
<1> HIDE DEF n
<1>3. f = Turning(p, n, f)
  BY <1>2, TurningDefined, Zenon
<1> HIDE DEF f
<1>4. \A k \in 0 .. n : f[k] = IF k = 0 THEN Starting(p) ELSE Turn(f[k - 1])
  BY <1>3, Zenon DEF Turning
<1>5. 0 \in 0 .. n /\ \A k \in 1 .. n : k \in 0 .. n /\ k # 0
  BY <1>2
<1>6. f[0] = Starting(p) /\ \A k \in 1 .. n : f[k] = Turn(f[k - 1])
  BY <1>4, <1>5
<1> QED
  BY <1>1, <1>6 DEF n

(* The parser is one, and knows no length before it has read the headers.  *)
LEMMA ReadsTyped ==
    ASSUME NEW s \in Seq(StreamParts), NEW b \in Nat, NEW k \in Nat, NEW p, Reads(s, p, k, b)
    PROVE  p \in Parsers /\ (~p.headers => p.length = None) /\ Len(p.buffer) \in Nat
<1> DEFINE t == Text(s)
<1>1. t \in Seq(Tokens) /\ Len(t) \in Nat /\ b =< Len(t)
  BY TextLaid, LenProperties DEF Reads
<1> HIDE DEF t
<1>2. CASE Before(s, p, k, b)
  <2>1. PICK a \in 0 .. b : p = [NewParser EXCEPT !.buffer = Cut(t, a, b)]
    BY <1>2 DEF Before, t
  <2>2. Cut(t, a, b) \in Seq(Tokens)
    <3>1. a \in 0 .. Len(t) /\ b \in a .. Len(t)
      BY <1>1
    <3> QED
      BY <1>1, <3>1, CutHolds
  <2>3. p = [buffer |-> Cut(t, a, b), headers |-> FALSE, length |-> None]
    BY <2>1 DEF NewParser
  <2>4. Len(Cut(t, a, b)) \in Nat
    BY <2>2, LenProperties
  <2> QED
    BY <2>2, <2>3, <2>4 DEF Parsers
<1>3. CASE Inside(s, p, k, b)
  <2>1. k \in 1 .. Len(s) /\ Start(s, k) =< b /\ s[k].kind # "close"
    <3>1. Len(s) \in Nat
      BY LenProperties
    <3> QED
      BY <1>3, <3>1 DEF Inside, Reads
  <2>2. /\ p = [buffer |-> Cut(t, Start(s, k), b), headers |-> TRUE,
                length |-> IF s[k].kind = "sized" THEN Len(s[k].body) ELSE None]
    BY <1>3 DEF Inside, t
  <2>3. /\ s[k] \in StreamParts /\ s[k].kind \in {"sized", "bare", "close"}
        /\ s[k].kind = "sized" => Start(s, k) = Off(s, k - 1) + 11
        /\ s[k].kind = "bare" => Start(s, k) = Off(s, k - 1) + 8
        /\ Off(s, k - 1) \in Nat
    BY <2>1, Layout, SMTT(30)
  <2>4. s[k].kind = "sized" => Len(s[k].body) \in Lengths
    BY <2>3, PartsAssumption
  <2>5. Start(s, k) \in Nat
    <3>1. Start(s, k) = Off(s, k - 1) + 11 \/ Start(s, k) = Off(s, k - 1) + 8
      BY <2>1, <2>3
    <3>2. Off(s, k - 1) \in Nat
      BY <2>3
    <3> QED
      BY <3>1, <3>2
  <2>6. Cut(t, Start(s, k), b) \in Seq(Tokens)
    <3>1. Start(s, k) \in 0 .. Len(t) /\ b \in Start(s, k) .. Len(t)
      BY <1>1, <2>1, <2>5
    <3> QED
      BY <1>1, <3>1, CutHolds
  <2>7. Len(Cut(t, Start(s, k), b)) \in Nat
    BY <2>6, LenProperties
  <2> QED
    BY <2>2, <2>4, <2>6, <2>7 DEF Parsers
<1> QED
  BY <1>2, <1>3 DEF Reads

(* The loop of feed ends: it has returned what has arrived, or it has met  *)
(* a closing delimiter.                                                    *)
LEMMA LoopReads ==
    ASSUME NEW s \in Seq(StreamParts), NEW b \in 0 .. Len(Text(s)),
           NEW k \in 1 .. Len(s) + 1, NEW p, Reads(s, p, k, b),
           NEW g, g = Upto(Pieces(s), k - 1)
    PROVE  Looped(s, b, g, FeedLoop(p)) /\ ~FeedLoop(p).going
<1> DEFINE L == Len(p.buffer)
           n == L + 2
<1>1. L \in Nat
  <2>1. b \in Nat /\ k \in Nat
    BY LenProperties, TextLaid
  <2> QED
    BY <2>1, ReadsTyped
<1>2. g \in Seq(Seq(Tokens))
  <2>1. k - 1 \in 0 .. Len(s)
    BY LenProperties
  <2> QED
    BY <2>1, PiecesLaid
<1>3. PICK f : /\ FeedLoop(p) = f[n] /\ f[0] = Starting(p)
               /\ \A j \in 1 .. n : f[j] = Turn(f[j - 1])
  BY <1>1, TurnsUnfold
<1> DEFINE Q(x, j) ==
             /\ Looped(s, b, g, x)
             /\ x.going => IF j = 0 THEN Len(x.parser.buffer) = L
                           ELSE ~x.parser.headers /\ Len(x.parser.buffer) \in 0 .. L - (j - 1)
           S == {j \in Nat : j =< n => Q(f[j], j)}
<1>4. Looped(s, b, g, Starting(p))
  <2> DEFINE x == Starting(p)
  <2>1. x.parser = p /\ x.bodies = <<>> /\ x.closing = FALSE /\ x.going = TRUE
    BY DEF Starting
  <2>2. g \o <<>> = g /\ <<>> \in Seq(Seq(Tokens))
    <3>1. <<>> \in Seq(Seq(Tokens))
      OBVIOUS
    <3> QED
      BY <1>2, <3>1, ConcatEmptySeq
  <2> HIDE DEF x
  <2>3. x.bodies \in Seq(Seq(Tokens)) /\ x.going \in BOOLEAN /\ x.closing \in BOOLEAN
    BY <2>1, <2>2
  <2>4. Reads(s, x.parser, k, b) /\ g \o x.bodies = Upto(Pieces(s), k - 1) /\ x.going
    BY <2>1, <2>2
  <2>5. \E j \in 1 .. Len(s) + 1 :
          /\ Reads(s, x.parser, j, b)
          /\ g \o x.bodies = Upto(Pieces(s), j - 1)
          /\ ~x.going /\ ~x.closing => Waits(s, j, b)
    BY <2>4, Zenon
  <2>6. Looped(s, b, g, x)
    BY <2>3, <2>5, Zenon DEF Looped
  <2> QED
    BY <2>6 DEF x
<1>5. 0 \in S
  <2>1. Starting(p).parser = p
    BY DEF Starting
  <2> QED
    BY <1>3, <1>4, <2>1
<1>6. ASSUME NEW j \in Nat, j \in S
      PROVE  j + 1 \in S
  <2> SUFFICES ASSUME j + 1 =< n
               PROVE  Q(f[j + 1], j + 1)
    OBVIOUS
  <2> DEFINE x == f[j]
  <2>1. j + 1 \in 1 .. n /\ (j + 1) - 1 = j /\ j =< n
    BY <1>1
  <2>2. f[j + 1] = Turn(x)
    BY <1>3, <2>1
  <2>3. Q(x, j)
    BY <1>6, <2>1
  <2> HIDE DEF x
  <2>4. CASE ~x.going
    <3>1. Turn(x) = x
      BY <2>4, Zenon DEF Turn
    <3> QED
      BY <2>2, <2>3, <2>4, <3>1
  <2>5. CASE x.going
    <3>1. /\ Looped(s, b, g, Turn(x))
          /\ Turn(x).going =>
               /\ ~Turn(x).parser.headers
               /\ Len(Turn(x).parser.buffer) \in 0 .. Len(x.parser.buffer)
               /\ ~x.parser.headers => Len(Turn(x).parser.buffer) # Len(x.parser.buffer)
      BY <1>2, <2>3, <2>5, TurnKeeps
    <3>2. j + 1 # 0
      OBVIOUS
    <3>3. ASSUME Turn(x).going
          PROVE  Len(Turn(x).parser.buffer) \in 0 .. L - j
      <4> DEFINE u == Len(Turn(x).parser.buffer)
                 v == Len(x.parser.buffer)
      <4>1. u \in 0 .. v /\ (~x.parser.headers => u # v)
        BY <3>1, <3>3
      <4>2. CASE j = 0
        <5>1. v = L
          BY <2>3, <2>5, <4>2
        <5> HIDE DEF u, v, L
        <5>2. L - j = L
          BY <1>1, <4>2
        <5> QED
          BY <4>1, <5>1, <5>2 DEF u
      <4>3. CASE j # 0
        <5>1. v \in 0 .. L - (j - 1) /\ ~x.parser.headers
          BY <2>3, <2>5, <4>3
        <5> HIDE DEF u, v, L
        <5>2. u \in 0 .. v /\ u # v
          BY <4>1, <5>1
        <5>3. u \in 0 .. L - j
          BY <1>1, <5>1, <5>2
        <5> QED
          BY <5>3 DEF u
      <4> QED
        BY <4>2, <4>3
    <3> QED
      BY <2>1, <2>2, <3>1, <3>2, <3>3
  <2> QED
    BY <2>4, <2>5
<1>7. Q(f[n], n)
  <2> HIDE DEF S, Q
  <2>1. Nat \subseteq S
    BY <1>5, <1>6, Induction
  <2>2. n \in Nat
    BY <1>1
  <2> QED
    BY <2>1, <2>2 DEF S
<1>8. ~f[n].going
  <2>1. L - (n - 1) = -1 /\ n # 0 /\ 0 .. -1 = {}
    BY <1>1
  <2> QED
    BY <1>7, <2>1
<1> QED
  BY <1>3, <1>7, <1>8

(* A chunk that arrives is read after what was left of those before.       *)
LEMMA ReadsMore ==
    ASSUME NEW s \in Seq(StreamParts), NEW k \in Nat, NEW b \in Nat, NEW p, Reads(s, p, k, b),
           NEW n \in Nat, b + n =< Len(Text(s))
    PROVE  Reads(s, [p EXCEPT !.buffer = p.buffer \o Cut(Text(s), b, b + n)], k, b + n)
<1> DEFINE t == Text(s)
           q == [p EXCEPT !.buffer = p.buffer \o Cut(t, b, b + n)]
<1>1. t \in Seq(Tokens) /\ Len(t) \in Nat /\ b + n =< Len(t) /\ Len(s) \in Nat
  BY TextLaid, LenProperties
<1>2. /\ k \in 1 .. Len(s) + 1
      /\ Before(s, p, k, b) \/ Inside(s, p, k, b)
      /\ \A i \in 1 .. k - 1 : s[i].kind # "close" => End(s, i) =< b
  BY DEF Reads
<1> HIDE DEF t
<1>3. ASSUME NEW a \in 0 .. b
      PROVE  Cut(t, a, b) \o Cut(t, b, b + n) = Cut(t, a, b + n)
  <2>1. a \in 0 .. Len(t) /\ b \in a .. Len(t) /\ b + n \in b .. Len(t)
    BY <1>1
  <2>2. t \in Seq(Tokens)
    BY <1>1
  <2> QED
    BY <2>1, <2>2, CutJoins
<1>4. Before(s, p, k, b) => Before(s, q, k, b + n)
  <2> SUFFICES ASSUME Before(s, p, k, b)
               PROVE  Before(s, q, k, b + n)
    OBVIOUS
  <2>1. PICK a \in 0 .. b :
          /\ a = Off(s, k - 1) \/ (k > 1 /\ a = Off(s, k - 1) - 2)
          /\ p = [NewParser EXCEPT !.buffer = Cut(t, a, b)]
    BY DEF Before, t
  <2>2. q = [NewParser EXCEPT !.buffer = Cut(t, a, b + n)]
    <3>1. p.buffer = Cut(t, a, b)
      BY <2>1 DEF NewParser
    <3>2. q = [p EXCEPT !.buffer = Cut(t, a, b + n)]
      BY <1>3, <3>1
    <3> QED
      BY <2>1, <3>2 DEF NewParser
  <2>3. a \in 0 .. b + n
    OBVIOUS
  <2> HIDE DEF q
  <2> QED
    BY <2>1, <2>2, <2>3 DEF Before, t
<1>5. Inside(s, p, k, b) => Inside(s, q, k, b + n)
  <2> SUFFICES ASSUME Inside(s, p, k, b)
               PROVE  Inside(s, q, k, b + n)
    OBVIOUS
  <2>1. /\ k =< Len(s) /\ s[k].kind # "close" /\ Start(s, k) =< b
        /\ p = [buffer |-> Cut(t, Start(s, k), b), headers |-> TRUE,
                length |-> IF s[k].kind = "sized" THEN Len(s[k].body) ELSE None]
    BY DEF Inside, t
  <2>2. Start(s, k) \in Nat
    <3>1. k \in 1 .. Len(s)
      BY <1>1, <1>2, <2>1
    <3>2. /\ s[k].kind \in {"sized", "bare", "close"}
          /\ s[k].kind = "sized" => Start(s, k) = Off(s, k - 1) + 11
          /\ s[k].kind = "bare" => Start(s, k) = Off(s, k - 1) + 8
          /\ Off(s, k - 1) \in Nat
      BY <3>1, Layout
    <3>3. Start(s, k) = Off(s, k - 1) + 11 \/ Start(s, k) = Off(s, k - 1) + 8
      BY <2>1, <3>2
    <3>4. Off(s, k - 1) \in Nat
      BY <3>2
    <3> QED
      BY <3>3, <3>4
  <2>3. Start(s, k) \in 0 .. b /\ Start(s, k) =< b + n
    BY <2>1, <2>2
  <2>4. p.buffer = Cut(t, Start(s, k), b)
    BY <2>1
  <2>5. p.buffer \o Cut(t, b, b + n) = Cut(t, Start(s, k), b + n)
    BY <1>3, <2>3, <2>4
  <2>6. q = [buffer |-> Cut(t, Start(s, k), b + n), headers |-> TRUE,
             length |-> IF s[k].kind = "sized" THEN Len(s[k].body) ELSE None]
    <3>1. q = [p EXCEPT !.buffer = Cut(t, Start(s, k), b + n)]
      BY <2>5
    <3>2. \A x, y, z, w : [[buffer |-> x, headers |-> y, length |-> z] EXCEPT !.buffer = w]
                             = [buffer |-> w, headers |-> y, length |-> z]
      OBVIOUS
    <3> HIDE DEF q
    <3> QED
      BY <2>1, <3>1, <3>2
  <2> HIDE DEF q
  <2> QED
    BY <2>1, <2>3, <2>6 DEF Inside, t
<1>6. \A i \in 1 .. k - 1 : s[i].kind # "close" => End(s, i) =< b + n
  <2> SUFFICES ASSUME NEW i \in 1 .. k - 1, s[i].kind # "close"
               PROVE  End(s, i) =< b + n
    OBVIOUS
  <2>1. End(s, i) =< b
    BY <1>2
  <2>2. End(s, i) \in Int
    <3>1. i \in 0 .. Len(s)
      BY <1>1, <1>2
    <3>2. Off(s, i) \in Nat
      BY <3>1, TextLaid
    <3>3. End(s, i) = Off(s, i) + 0 - 2 \/ End(s, i) = Off(s, i) + 3 - 2
      BY DEF End
    <3> QED
      BY <3>2, <3>3
  <2> QED
    BY <2>1, <2>2
<1>7. b + n \in 0 .. Len(t)
  BY <1>1
<1> QED
  BY <1>2, <1>4, <1>5, <1>6, <1>7 DEF Reads, t

LEMMA StreamsAreSeqs ==
    ASSUME NEW s \in Streams
    PROVE  s \in Seq(StreamParts) /\ Len(s) \in 1 .. MaxParts /\ s # <<>>
<1>1. PICK n \in 1 .. MaxParts : s \in [1 .. n -> StreamParts]
  BY DEF Streams
<1>2. n \in Nat \ {0}
  BY <1>1, PartsAssumption
<1>3. s \in Seq(StreamParts) /\ Len(s) = n
  BY <1>1, <1>2
<1> QED
  BY <1>1, <1>2, <1>3, EmptySeq

(* Nothing of a stream has arrived when it is decided on.                  *)
LEMMA TransmitKeeps ==
    ASSUME StreamInv, Transmit
    PROVE  StreamInv'
<1>1. PICK s \in Streams : sent' = s /\ wire' = FlattenSeq([i \in DOMAIN s |-> Encoded(s[i])])
  BY DEF Transmit
<1>2. /\ sent = <<>> /\ parser = NewParser /\ got = <<>> /\ closed = FALSE
      /\ parser' = parser /\ got' = got /\ closed' = closed
  BY DEF Transmit, StreamInv, StreamInit
<1>3. s \in Seq(StreamParts) /\ Len(s) \in Nat \ {0} /\ s # <<>>
  BY StreamsAreSeqs
<1>4. /\ Text(s) \in Seq(Tokens) /\ Off(s, 0) = 0 /\ Text(s) = FlattenSeq(Encodings(s))
      /\ Len(Text(s)) \in Nat
  BY <1>3, TextLaid, LenProperties
<1>5. wire' = Cut(Text(s), 0, Len(Text(s)))
  <2>1. wire' = Text(s)
    BY <1>1, <1>4 DEF Encodings
  <2>2. SubSeq(Text(s), 0 + 1, Len(Text(s))) = Text(s)
    BY <1>4, SubSeqFull
  <2> QED
    BY <2>1, <2>2 DEF Cut
<1>6. Before(s, parser', 1, 0)
  <2>1. Cut(Text(s), 0, 0) = <<>>
    BY SubSeqEmpty DEF Cut
  <2>2. parser' = [NewParser EXCEPT !.buffer = Cut(Text(s), 0, 0)]
    <3>1. [NewParser EXCEPT !.buffer = <<>>] = NewParser
      <4>1. \A x, y, z : [[buffer |-> x, headers |-> y, length |-> z] EXCEPT !.buffer = x]
                           = [buffer |-> x, headers |-> y, length |-> z]
        OBVIOUS
      <4> QED
        BY <4>1, Zenon DEF NewParser
    <3> QED
      BY <1>2, <2>1, <3>1
  <2>3. 0 \in 0 .. 0 /\ 0 = Off(s, 1 - 1)
    BY <1>4
  <2> QED
    BY <2>2, <2>3 DEF Before
<1>7. Reads(s, parser', 1, 0)
  <2>1. 1 \in 1 .. Len(s) + 1 /\ 0 \in 0 .. Len(Text(s)) /\ 1 .. 1 - 1 = {}
    BY <1>3, <1>4
  <2> QED
    BY <1>6, <2>1 DEF Reads
<1>8. got' = Upto(Pieces(s), 1 - 1)
  BY <1>2, <1>3, PiecesLaid
<1>9. Waits(s, 1, 0)
  <2>1. 1 \in 1 .. Len(s) + 1 /\ 1 \in 1 .. Len(s) /\ 0 \in Nat
    BY <1>3
  <2>2. /\ s[1].kind \in {"sized", "bare", "close"} /\ Off(s, 1) \in Nat /\ Len(s[1].body) \in Nat
        /\ s[1].kind # "close" => Off(s, 1) = Start(s, 1) + Len(s[1].body) + 2
        /\ s[1].kind = "sized" => Start(s, 1) = Off(s, 1 - 1) + 11
        /\ s[1].kind = "bare" => Start(s, 1) = Off(s, 1 - 1) + 8
    BY <1>3, <2>1, Layout
  <2>3. Off(s, 1 - 1) = 0
    BY <1>4
  <2>4. ASSUME s[1].kind # "close"
        PROVE  End(s, 1) > 0
    <3>1. Start(s, 1) = 11 \/ Start(s, 1) = 8
      BY <2>2, <2>3, <2>4
    <3>2. Off(s, 1) > 2
      BY <2>2, <2>4, <3>1, SMTT(30)
    <3>3. End(s, 1) = Off(s, 1) + 0 - 2 \/ End(s, 1) = Off(s, 1) + 3 - 2
      BY DEF End
    <3> QED
      BY <2>2, <3>2, <3>3
  <2> QED
    BY <1>3, <2>1, <2>2, <2>4, WaitsFor
<1>10. 1 \in 1 .. Len(s) + 1 /\ 0 \in 0 .. Len(Text(s))
  BY <1>3, <1>4
<1>11. sent' # <<>> /\ sent' \in Streams /\ closed' \in BOOLEAN
  BY <1>1, <1>2, <1>3
<1>12. \E k \in 1 .. Len(s) + 1, b \in 0 .. Len(Text(s)) :
         /\ wire' = Cut(Text(s), b, Len(Text(s))) /\ Reads(s, parser', k, b)
         /\ got' = Upto(Pieces(s), k - 1) /\ (~closed' => Waits(s, k, b))
  BY <1>5, <1>7, <1>8, <1>9, <1>10
<1> QED
  BY <1>1, <1>11, <1>12 DEF StreamInv

(* A chunk.                                                                *)
LEMMA FeedKeeps ==
    ASSUME StreamInv, Feed
    PROVE  StreamInv'
<1> DEFINE s == sent
           t == Text(s)
<1>1. PICK n \in 1 .. Len(wire) :
        LET fed == FeedLoop([parser EXCEPT !.buffer = parser.buffer \o SubSeq(wire, 1, n)])
        IN  /\ wire' = From(wire, n + 1)
            /\ parser' = fed.parser
            /\ got' = got \o fed.bodies
            /\ closed' = fed.closing
            /\ sent' = sent
  BY DEF Feed, Extended
<1>2. sent # <<>>
  <2> SUFFICES ASSUME sent = <<>>
               PROVE  FALSE
    OBVIOUS
  <2>1. wire = <<>>
    BY DEF StreamInv, StreamInit
  <2> QED
    BY <1>1, <2>1
<1>3. sent \in Streams /\ s \in Seq(StreamParts)
  BY <1>2, StreamsAreSeqs DEF StreamInv
<1>4. PICK k \in 1 .. Len(s) + 1, b \in 0 .. Len(t) :
        /\ wire = Cut(t, b, Len(t)) /\ Reads(s, parser, k, b) /\ got = Upto(Pieces(s), k - 1)
  BY <1>2 DEF StreamInv
<1>5. t \in Seq(Tokens) /\ Len(t) \in Nat /\ Len(s) \in Nat
  BY <1>3, TextLaid, LenProperties
<1> DEFINE p == [parser EXCEPT !.buffer = parser.buffer \o SubSeq(wire, 1, n)]
           fed == FeedLoop(p)
<1> HIDE DEF s, t, fed
<1>6. b \in Nat /\ k \in Nat /\ b \in 0 .. Len(t) /\ Len(t) \in b .. Len(t)
  BY <1>5
<1>7. Len(wire) = Len(t) - b
  <2>1. 0 =< b
    BY <1>6
  <2> QED
    BY <1>4, <1>5, <1>6, CutHolds
<1>8. n \in Nat \ {0} /\ n \in 0 .. Len(t) - b /\ b + n =< Len(t) /\ b + n \in 0 .. Len(t)
  BY <1>5, <1>6, <1>7
<1>9. SubSeq(wire, 1, n) = Cut(t, b, b + n)
  BY <1>4, <1>5, <1>6, <1>8, CutFirst
<1>10. wire' = Cut(t, b + n, Len(t))
  <2>1. n + 1 \in 1 .. Len(t) - b + 1 /\ b + (n + 1) - 1 = b + n
    BY <1>5, <1>6, <1>8
  <2>2. From(Cut(t, b, Len(t)), n + 1) = Cut(t, b + (n + 1) - 1, Len(t))
    BY <1>5, <1>6, <2>1, CutFrom
  <2> QED
    BY <1>1, <1>4, <2>1, <2>2
<1>11. Reads(s, p, k, b + n)
  <2>1. n \in Nat /\ b + n =< Len(Text(s))
    BY <1>8 DEF t
  <2>2. Reads(s, [parser EXCEPT !.buffer = parser.buffer \o Cut(Text(s), b, b + n)], k, b + n)
    BY <1>3, <1>4, <1>6, <2>1, ReadsMore
  <2> QED
    BY <1>9, <2>2 DEF t
<1>12. Looped(s, b + n, got, fed) /\ ~fed.going
  <2>1. b + n \in 0 .. Len(Text(s))
    BY <1>8 DEF t
  <2> HIDE DEF p
  <2> QED
    BY <1>3, <1>4, <1>11, <2>1, LoopReads DEF fed
<1>13. PICK j \in 1 .. Len(s) + 1 :
         /\ Reads(s, fed.parser, j, b + n)
         /\ got \o fed.bodies = Upto(Pieces(s), j - 1)
         /\ ~fed.closing => Waits(s, j, b + n)
  BY <1>12 DEF Looped
<1>14. /\ parser' = fed.parser /\ got' = got \o fed.bodies /\ closed' = fed.closing /\ sent' = sent
  BY <1>1 DEF fed
<1>15. closed' \in BOOLEAN
  BY <1>12, <1>14 DEF Looped
<1>16. \E i \in 1 .. Len(s) + 1, c \in 0 .. Len(t) :
         /\ wire' = Cut(t, c, Len(t)) /\ Reads(s, parser', i, c)
         /\ got' = Upto(Pieces(s), i - 1) /\ (~closed' => Waits(s, i, c))
  BY <1>8, <1>10, <1>13, <1>14
<1> QED
  BY <1>2, <1>3, <1>14, <1>15, <1>16 DEF StreamInv, s, t

LEMMA StreamStepKeeps == StreamInv /\ [StreamNext]_streamVars => StreamInv'
<1>1. ASSUME StreamInv, UNCHANGED streamVars
      PROVE  StreamInv'
  BY <1>1 DEF streamVars, StreamInv, StreamInit
<1> QED
  BY <1>1, TransmitKeeps, FeedKeeps DEF StreamNext

(* What was returned for the first parts is returned before the rest, and  *)
(* there is one body for every part but a closing delimiter.               *)
LEMMA PiecesCount ==
    ASSUME NEW s \in Seq(StreamParts), NEW k \in 0 .. Len(s)
    PROVE  /\ IsPrefix(Upto(Pieces(s), k), Upto(Pieces(s), Len(s)))
           /\ Len(Upto(Pieces(s), k)) = Cardinality({i \in 1 .. k : s[i].kind # "close"})
<1> DEFINE u(m) == Upto(Pieces(s), m)
           n == Len(s)
           C(m) == {i \in 1 .. m : s[i].kind # "close"}
           L(m) == Len(u(m))
           N(m) == Cardinality(C(m))
           S == {m \in Nat : k + m =< n => L(k) =< L(k + m) /\ \A i \in 1 .. L(k) : u(k + m)[i] = u(k)[i]}
           R == {m \in Nat : m =< n => IsFiniteSet(C(m)) /\ L(m) = N(m)}
<1>1. n \in Nat /\ k \in Nat /\ k =< n
  BY LenProperties
<1>2. /\ u(0) = <<>>
      /\ \A m \in 0 .. n : u(m) \in Seq(Seq(Tokens)) /\ L(m) \in Nat
      /\ \A m \in 1 .. n : /\ Returned(s[m]) \in Seq(Seq(Tokens))
                           /\ u(m) = u(m - 1) \o Returned(s[m])
  <2>1. /\ u(0) = <<>>
        /\ \A m \in 0 .. n : u(m) \in Seq(Seq(Tokens))
        /\ \A m \in 1 .. n : /\ Returned(s[m]) \in Seq(Seq(Tokens))
                             /\ u(m) = u(m - 1) \o Returned(s[m])
    BY PiecesLaid
  <2> HIDE DEF u
  <2>2. \A m \in 0 .. n : L(m) \in Nat
    BY <2>1, LenProperties
  <2> QED
    BY <2>1, <2>2
<1> HIDE DEF u
<1>3. ASSUME NEW m \in 1 .. n
      PROVE  /\ L(m) = L(m - 1) + Len(Returned(s[m])) /\ Len(Returned(s[m])) \in Nat
             /\ \A i \in 1 .. L(m - 1) : u(m)[i] = u(m - 1)[i]
  <2> DEFINE T == Seq(Tokens)
             v == u(m - 1)
             w == Returned(s[m])
  <2>1. v \in Seq(T) /\ w \in Seq(T) /\ u(m) = v \o w
    BY <1>1, <1>2
  <2> HIDE DEF T, v, w, n
  <2>2. /\ Len(v \o w) = Len(v) + Len(w)
        /\ \A i \in 1 .. Len(v) : (v \o w)[i] = v[i]
    BY <2>1, Joined
  <2>3. Len(w) \in Nat
    BY <2>1, LenProperties
  <2> QED
    BY <2>1, <2>2, <2>3 DEF v, w
<1>4. ASSUME NEW m \in 1 .. n
      PROVE  Len(Returned(s[m])) = IF s[m].kind = "close" THEN 0 ELSE 1
  <2>1. s[m].kind \in {"sized", "bare", "close"}
    BY Layout
  <2>2. /\ s[m].kind = "sized" => Returned(s[m]) = <<s[m].body>>
        /\ s[m].kind = "bare" => Returned(s[m]) = <<Rstrip(s[m].body)>>
        /\ s[m].kind = "close" => Returned(s[m]) = <<>>
    BY DEF Returned
  <2>3. Len(<<>>) = 0 /\ \A x : Len(<<x>>) = 1
    OBVIOUS
  <2> QED
    BY <2>1, <2>2, <2>3
<1>5. 0 \in S
  BY <1>1, <1>2
<1>6. ASSUME NEW m \in Nat, m \in S
      PROVE  m + 1 \in S
  <2> SUFFICES ASSUME k + (m + 1) =< n
               PROVE  L(k) =< L(k + (m + 1)) /\ \A i \in 1 .. L(k) : u(k + (m + 1))[i] = u(k)[i]
    OBVIOUS
  <2>1. /\ L(k) =< L(k + m) /\ \A i \in 1 .. L(k) : u(k + m)[i] = u(k)[i]
    BY <1>1, <1>6
  <2>2. k + (m + 1) \in 1 .. n /\ (k + (m + 1)) - 1 = k + m /\ k + m \in 0 .. n /\ k \in 0 .. n
    BY <1>1
  <2>3. /\ L(k + (m + 1)) = L(k + m) + Len(Returned(s[k + (m + 1)]))
        /\ Len(Returned(s[k + (m + 1)])) \in Nat
        /\ \A i \in 1 .. L(k + m) : u(k + (m + 1))[i] = u(k + m)[i]
    BY <1>3, <2>2
  <2>4. L(k) \in Nat /\ L(k + m) \in Nat
    BY <1>2, <2>2
  <2> HIDE DEF L
  <2>5. L(k) =< L(k + (m + 1))
    BY <2>1, <2>3, <2>4
  <2>6. \A i \in 1 .. L(k) : i \in 1 .. L(k + m)
    BY <2>1, <2>4
  <2> QED
    BY <2>1, <2>3, <2>5, <2>6
<1>7. 0 \in R
  <2>1. C(0) = {}
    OBVIOUS
  <2>2. IsFiniteSet(C(0)) /\ N(0) = 0
    BY <2>1, FS_EmptySet
  <2>3. L(0) = 0
    BY <1>2
  <2> QED
    BY <2>2, <2>3
<1>8. ASSUME NEW m \in Nat, m \in R
      PROVE  m + 1 \in R
  <2> SUFFICES ASSUME m + 1 =< n
               PROVE  IsFiniteSet(C(m + 1)) /\ L(m + 1) = N(m + 1)
    OBVIOUS
  <2>1. IsFiniteSet(C(m)) /\ L(m) = N(m)
    BY <1>1, <1>8
  <2>2. m + 1 \in 1 .. n /\ (m + 1) - 1 = m /\ m \in 0 .. n
    BY <1>1
  <2>3. L(m + 1) = L(m) + (IF s[m + 1].kind = "close" THEN 0 ELSE 1) /\ L(m) \in Nat
    BY <1>2, <1>3, <1>4, <2>2
  <2>4. C(m + 1) = IF s[m + 1].kind = "close" THEN C(m) ELSE C(m) \union {m + 1}
    <3>1. \A i : i \in 1 .. m + 1 <=> i \in 1 .. m \/ i = m + 1
      OBVIOUS
    <3> QED
      BY <3>1
  <2>5. m + 1 \notin C(m)
    OBVIOUS
  <2> HIDE DEF C, L
  <2>6. CASE s[m + 1].kind = "close"
    BY <2>1, <2>3, <2>4, <2>6
  <2>7. CASE s[m + 1].kind # "close"
    <3>1. IsFiniteSet(C(m) \union {m + 1}) /\ Cardinality(C(m) \union {m + 1}) = Cardinality(C(m)) + 1
      BY <2>1, <2>5, FS_AddElement
    <3> QED
      BY <2>1, <2>3, <2>4, <2>7, <3>1
  <2> QED
    BY <2>6, <2>7
<1> HIDE DEF S, R, L, C, n
<1>9. Nat \subseteq S
  BY <1>5, <1>6, Induction
<1>10. Nat \subseteq R
  BY <1>7, <1>8, Induction
<1>11. L(k) = N(k)
  BY <1>1, <1>10 DEF R
<1>12. IsPrefix(u(k), u(n))
  <2>1. n - k \in Nat /\ k + (n - k) = n /\ k \in 0 .. n /\ n \in 0 .. n
    BY <1>1
  <2>2. n - k \in S
    BY <1>9, <2>1
  <2>3. L(k) =< L(n) /\ \A i \in 1 .. L(k) : u(n)[i] = u(k)[i]
    BY <2>1, <2>2 DEF S
  <2>4. u(k) \in Seq(Seq(Tokens)) /\ u(n) \in Seq(Seq(Tokens)) /\ L(k) \in Nat /\ L(n) \in Nat
    BY <1>2, <2>1
  <2>5. SubSeq(u(k), 1, L(k)) = SubSeq(u(n), 1, L(k))
    <3> DEFINE T == Seq(Tokens)
               v == u(k)
               w == u(n)
    <3>1. v \in Seq(T) /\ w \in Seq(T) /\ 0 \in 0 .. Len(v) /\ Len(v) \in 0 .. Len(v)
          /\ 0 \in 0 .. Len(w) /\ Len(v) \in 0 .. Len(w) /\ Len(v) \in Nat
      BY <2>3, <2>4 DEF L
    <3>2. \A i \in 1 .. Len(v) : w[i] = v[i]
      BY <2>3 DEF L
    <3> HIDE DEF T, v, w
    <3>3. /\ Cut(v, 0, Len(v)) \in Seq(T) /\ Len(Cut(v, 0, Len(v))) = Len(v) - 0
          /\ \A i \in 1 .. Len(v) - 0 : Cut(v, 0, Len(v))[i] = v[0 + i]
      BY <3>1, CutHolds
    <3>4. /\ Cut(w, 0, Len(v)) \in Seq(T) /\ Len(Cut(w, 0, Len(v))) = Len(v) - 0
          /\ \A i \in 1 .. Len(v) - 0 : Cut(w, 0, Len(v))[i] = w[0 + i]
      BY <3>1, CutHolds
    <3>5. Len(v) - 0 = Len(v) /\ \A i \in 1 .. Len(v) : 0 + i = i
      BY <3>1
    <3>6. \A i \in 1 .. Len(v) : Cut(v, 0, Len(v))[i] = Cut(w, 0, Len(v))[i]
      BY <3>2, <3>3, <3>4, <3>5
    <3>7. Len(Cut(v, 0, Len(v))) = Len(v) /\ Len(Cut(w, 0, Len(v))) = Len(v)
      BY <3>3, <3>4, <3>5
    <3>8. Cut(v, 0, Len(v)) \in Seq(T) /\ Cut(w, 0, Len(v)) \in Seq(T)
      BY <3>3, <3>4
    <3>9. Cut(v, 0, Len(v)) = Cut(w, 0, Len(v))
      BY <3>6, <3>7, <3>8, SeqEqual
    <3>10. SubSeq(v, 1, Len(v)) = SubSeq(w, 1, Len(v))
      BY <3>9 DEF Cut
    <3> QED
      BY <3>10 DEF v, w, L
  <2> QED
    BY <2>3, <2>5 DEF IsPrefix, L
<1> QED
  BY <1>11, <1>12 DEF u, n, L, C

(* What has been returned is what was owed.                                *)
LEMMA StreamOwes == StreamInv => PartsInTime
<1> SUFFICES ASSUME StreamInv
             PROVE  PartsInTime
  OBVIOUS
<1> DEFINE s == sent
           t == Text(s)
           H(b) == {i \in DOMAIN s : s[i].kind # "close" /\ End(s, i) =< b}
<1>1. s \in Seq(StreamParts)
  <2>1. <<>> \in Seq(StreamParts)
    OBVIOUS
  <2> QED
    BY <2>1, StreamsAreSeqs DEF StreamInv, StreamInit
<1>2. /\ Len(s) \in Nat /\ DOMAIN s = 1 .. Len(s) /\ t \in Seq(Tokens) /\ Len(t) \in Nat
      /\ t = FlattenSeq(Encodings(s))
  BY <1>1, TextLaid, LenProperties
<1>3. Bodies = Upto(Pieces(s), Len(s))
  BY <1>1, PiecesLaid DEF Bodies, Pieces
<1>4. \A i : Len(FlattenSeq(SubSeq(Encodings(s), 1, i))) = Off(s, i)
  BY DEF Off, Upto
<1>5. ASSUME NEW b, Len(t) - Len(wire) = b
      PROVE  Arrived = Cardinality(H(b))
  <2>1. Encodings(s) = [i \in DOMAIN sent |-> Encoded(sent[i])]
    BY DEF Encodings
  <2> DEFINE E == [i \in DOMAIN sent |-> Encoded(sent[i])]
             Ends(i) == Len(FlattenSeq(SubSeq(E, 1, i))) + (IF sent[i].kind = "sized" THEN 0 ELSE 3) - 2
  <2>2. Arrived = Cardinality({i \in DOMAIN sent : sent[i].kind # "close"
                                                    /\ Ends(i) =< Len(FlattenSeq(E)) - Len(wire)})
    BY Zenon DEF Arrived
  <2>3. \A i : Ends(i) = End(s, i)
    BY <1>4, <2>1 DEF End
  <2>4. Len(FlattenSeq(E)) - Len(wire) = b
    BY <1>2, <1>5, <2>1
  <2> HIDE DEF Ends, E
  <2>5. {i \in DOMAIN sent : sent[i].kind # "close" /\ Ends(i) =< Len(FlattenSeq(E)) - Len(wire)} = H(b)
    BY <2>3, <2>4
  <2> QED
    BY <2>2, <2>5, Zenon
<1>6. CASE sent = <<>>
  <2>1. wire = <<>> /\ got = <<>> /\ Len(s) = 0
    BY <1>6 DEF StreamInv, StreamInit
  <2>2. Upto(Pieces(s), 0) = <<>> /\ Off(s, 0) = 0
    BY <1>1, PiecesLaid, TextLaid
  <2>3. IsPrefix(got, Bodies)
    <3>1. 0 \in 0 .. Len(s)
      BY <2>1
    <3>2. IsPrefix(Upto(Pieces(s), 0), Upto(Pieces(s), Len(s)))
      BY <1>1, <3>1, PiecesCount
    <3> QED
      BY <1>3, <2>1, <2>2, <3>2
  <2>4. Len(t) - Len(wire) = 0
    <3>1. Len(t) = Off(s, Len(s))
      BY <1>1, TextLaid
    <3>2. Len(t) = 0 /\ Len(wire) = 0
      BY <2>1, <2>2, <3>1
    <3> QED
      BY <3>2
  <2>5. H(0) = {}
    BY <1>2, <2>1
  <2>6. Arrived = Cardinality(H(0))
    BY <1>5, <2>4
  <2>7. Arrived = 0 /\ Len(got) = 0
    BY <2>1, <2>5, <2>6, FS_EmptySet
  <2> QED
    BY <2>3, <2>7 DEF PartsInTime
<1>7. CASE sent # <<>>
  <2>1. PICK k \in 1 .. Len(s) + 1, b \in 0 .. Len(t) :
          /\ wire = Cut(t, b, Len(t)) /\ Reads(s, parser, k, b) /\ got = Upto(Pieces(s), k - 1)
          /\ ~closed => Waits(s, k, b)
    BY <1>7 DEF StreamInv
  <2> HIDE DEF t, s
  <2>2. k - 1 \in 0 .. Len(s) /\ b \in Nat /\ b \in 0 .. Len(t) /\ Len(t) \in b .. Len(t)
    BY <1>2
  <2>3. IsPrefix(got, Bodies) /\ Len(got) = Cardinality({i \in 1 .. k - 1 : s[i].kind # "close"})
    BY <1>1, <1>3, <2>1, <2>2, PiecesCount
  <2>4. Len(t) - Len(wire) = b
    <3>1. Len(Cut(t, b, Len(t))) = Len(t) - b
      BY <1>2, <2>2, CutHolds
    <3> QED
      BY <1>2, <2>1, <2>2, <3>1
  <2>5. Arrived = Cardinality(H(b))
    BY <1>5, <2>4
  <2>6. ASSUME ~closed
        PROVE  H(b) = {i \in 1 .. k - 1 : s[i].kind # "close"}
    <3>1. \A i \in 1 .. k - 1 : s[i].kind # "close" => End(s, i) =< b
      BY <2>1 DEF Reads
    <3>2. \A i \in k .. Len(s) : s[i].kind # "close" => ~(End(s, i) =< b)
      <4> SUFFICES ASSUME NEW i \in k .. Len(s), s[i].kind # "close"
                   PROVE  ~(End(s, i) =< b)
        OBVIOUS
      <4>1. End(s, i) > b
        BY <2>1, <2>6 DEF Waits
      <4>2. End(s, i) \in Int
        <5>1. i \in 0 .. Len(s)
          BY <1>2
        <5>2. Off(s, i) \in Nat
          BY <1>1, <5>1, TextLaid
        <5>3. End(s, i) = Off(s, i) + 0 - 2 \/ End(s, i) = Off(s, i) + 3 - 2
          BY DEF End
        <5> QED
          BY <5>2, <5>3
      <4> QED
        BY <2>2, <4>1, <4>2
    <3>3. \A i : i \in 1 .. Len(s) <=> i \in 1 .. k - 1 \/ i \in k .. Len(s)
      BY <1>2
    <3> QED
      BY <1>2, <3>1, <3>2, <3>3
  <2> QED
    BY <2>3, <2>5, <2>6 DEF PartsInTime
<1> QED
  BY <1>6, <1>7

(* Its values are of their types.                                          *)
LEMMA StreamTyped == StreamInv => StreamTypeOK
<1> SUFFICES ASSUME StreamInv
             PROVE  StreamTypeOK
  OBVIOUS
<1>1. CASE sent = <<>>
  <2>1. sent = <<>> /\ wire = <<>> /\ parser = NewParser /\ got = <<>> /\ closed = FALSE
    BY <1>1 DEF StreamInv, StreamInit
  <2>2. /\ <<>> \in Seq(StreamParts) /\ Len(<<>>) = 0 /\ <<>> \in Seq(Tokens)
        /\ <<>> \in Seq(Seq(Tokens))
    OBVIOUS
  <2>3. 0 =< MaxParts
    BY PartsAssumption
  <2>4. parser \in Parsers /\ (~parser.headers => parser.length = None)
    BY <2>1, <2>2 DEF NewParser, Parsers
  <2> QED
    BY <2>1, <2>2, <2>3, <2>4 DEF StreamTypeOK
<1>2. CASE sent # <<>>
  <2> DEFINE t == Text(sent)
  <2>1. PICK k \in 1 .. Len(sent) + 1, b \in 0 .. Len(t) :
          /\ wire = Cut(t, b, Len(t)) /\ Reads(sent, parser, k, b) /\ got = Upto(Pieces(sent), k - 1)
    BY <1>2 DEF StreamInv
  <2>2. sent \in Seq(StreamParts) /\ Len(sent) \in 1 .. MaxParts /\ closed \in BOOLEAN
    BY <1>2, StreamsAreSeqs DEF StreamInv
  <2>3. t \in Seq(Tokens) /\ Len(t) \in Nat /\ Len(sent) \in Nat
    BY <2>2, TextLaid, LenProperties
  <2> HIDE DEF t
  <2>4. k \in Nat /\ b \in Nat /\ k - 1 \in 0 .. Len(sent) /\ b \in 0 .. Len(t) /\ Len(t) \in b .. Len(t)
    BY <2>3
  <2>5. wire \in Seq(Tokens)
    BY <2>1, <2>3, <2>4, CutHolds
  <2>6. parser \in Parsers /\ (~parser.headers => parser.length = None)
    BY <2>1, <2>2, <2>4, ReadsTyped
  <2>7. got \in Seq(Seq(Tokens))
    BY <2>1, <2>2, <2>4, PiecesLaid
  <2>8. Len(sent) =< MaxParts
    BY <2>2, PartsAssumption
  <2> QED
    BY <2>2, <2>5, <2>6, <2>7, <2>8 DEF StreamTypeOK
<1> QED
  BY <1>1, <1>2

LEMMA StreamStarts == Init => StreamInv
BY DEF Init, StreamInit, StreamInv

(* Whatever a device sends, and however it is cut into chunks, feed        *)
(* returns the bodies of the parts in order, each with the chunk that      *)
(* completes it - unless that chunk brought a closing delimiter.           *)
THEOREM PartsAreInTime == Spec => []PartsInTime
<1>1. Init => StreamInv
  BY StreamStarts
<1>2. StreamInv /\ [Next]_vars => StreamInv'
  BY StreamStepKeeps, Apart
<1>3. StreamInv => PartsInTime
  BY StreamOwes
<1> QED
  BY <1>1, <1>2, <1>3, PTL DEF Spec

-----------------------------------------------------------------------------
(* The types of the parts together.                                        *)

(* A host is given by exactly one of address and name: the other is taken  *)
(* out of the document that is written back.                               *)
OneAddress(h) == (h.ipAddress = "none") # (h.hostName = "none")

AlarmTyped ==
    /\ AlarmInv
    /\ hosts # <<>> => OneAddress(hosts[1])
    /\ setting # NoSetting => OneAddress(setting.hosts[1])
    /\ sets \in 0 .. MaxSets /\ edits \in 0 .. MaxEdits

LEMMA RewrittenOnce ==
    ASSUME NEW a \in Addresses, NEW h \in HostRecords
    PROVE  OneAddress(Rewritten(h, a))
<1> DEFINE r == Rewritten(h, a)
<1>1. a.hostname # "none"
  BY AddressesAssumption
<1>2. /\ r.ipAddress = IF a.ip THEN a.hostname ELSE "none"
      /\ r.hostName = IF a.ip THEN "none" ELSE a.hostname
  BY DEF Rewritten, HostRecords
<1> QED
  BY <1>1, <1>2 DEF OneAddress

LEMMA AlarmTypedKeeps == AlarmTyped /\ [AlarmNext]_alarmVars => AlarmTyped'
<1> SUFFICES ASSUME AlarmTyped, [AlarmNext]_alarmVars
             PROVE  AlarmTyped'
  OBVIOUS
<1>1. AlarmInv'
  BY AlarmStep DEF AlarmTyped
<1>2. \A h \in FirstHosts : OneAddress(h)
  BY FirstHostsAssumption DEF OneAddress
<1>3. CASE DeviceFound
  <2>1. PICK h \in FirstHosts : hosts' = <<h, OtherHost>>
    BY <1>3 DEF DeviceFound
  <2>2. hosts'[1] = h /\ UNCHANGED <<setting, sets, edits>>
    BY <1>3, <2>1 DEF DeviceFound
  <2> QED
    BY <1>1, <1>2, <2>2 DEF AlarmTyped
<1>4. CASE HostEdited
  <2>1. PICK f \in HostRecords, g \in Others : hosts = <<f, g>>
    BY <1>4 DEF HostEdited, AlarmTyped, AlarmInv
  <2>2. PICK h \in FirstHosts : hosts' = [hosts EXCEPT ![1] = h] \/ hosts' = [hosts EXCEPT ![2] = h]
    BY <1>4 DEF HostEdited
  <2>3. (hosts'[1] = h \/ hosts'[1] = hosts[1]) /\ hosts # <<>> /\ UNCHANGED <<setting, sets>>
    BY <1>4, <2>1, <2>2 DEF HostEdited
  <2>4. edits' \in 0 .. MaxEdits
    BY <1>4, AlarmBoundsAssumption DEF HostEdited, AlarmTyped
  <2>5. OneAddress(hosts'[1])
    BY <1>2, <2>3, Zenon DEF AlarmTyped
  <2> QED
    BY <1>1, <2>3, <2>4, <2>5 DEF AlarmTyped
<1>5. CASE HostsRead
  <2>1. sets' \in 0 .. MaxSets /\ UNCHANGED <<hosts, edits>>
    BY <1>5, AlarmBoundsAssumption DEF HostsRead, AlarmTyped
  <2>2. PICK g \in HostRecords, o \in Others : hosts = <<g, o>>
    BY <1>5 DEF HostsRead, AlarmTyped, AlarmInv
  <2>3. PICK a \in Addresses :
          \/ setting' = setting
          \/ setting' = [at |-> "put", address |-> a,
                         hosts |-> [hosts EXCEPT ![1] = Rewritten(@, a)]]
    BY <1>5 DEF HostsRead
  <2>4. [hosts EXCEPT ![1] = Rewritten(@, a)][1] = Rewritten(g, a)
    BY <2>2
  <2>5. setting' # NoSetting => OneAddress(setting'.hosts[1])
    BY <2>3, <2>4, RewrittenOnce DEF AlarmTyped
  <2> QED
    BY <1>1, <2>1, <2>5 DEF AlarmTyped
<1>6. CASE HostsPut
  BY <1>1, <1>6 DEF HostsPut, AlarmTyped
<1>7. CASE HostsPutFails
  BY <1>1, <1>7 DEF HostsPutFails, AlarmTyped
<1>8. CASE HostsReadFails
  <2>1. sets' \in 0 .. MaxSets
    BY <1>8, AlarmBoundsAssumption DEF HostsReadFails, AlarmTyped
  <2> QED
    BY <1>1, <1>8, <2>1 DEF HostsReadFails, AlarmTyped
<1>9. CASE UNCHANGED alarmVars
  BY <1>1, <1>9 DEF alarmVars, AlarmTyped
<1> QED
  BY <1>3, <1>4, <1>5, <1>6, <1>7, <1>8, <1>9 DEF AlarmNext

LEMMA AlarmIsTyped == AlarmTyped => AlarmTypeOK
<1> SUFFICES ASSUME AlarmTyped
             PROVE  AlarmTypeOK
  OBVIOUS
<1>1. ASSUME NEW i \in DOMAIN hosts
      PROVE  /\ hosts[i].format \in {"ipaddress", "hostname"}
             /\ hosts[i].protocolType \in {"HTTP", "HTTPS"}
             /\ hosts[i].portNo \in Texts \ {"none"}
             /\ OneAddress(hosts[i])
  <2>1. PICK h \in HostRecords, g \in Others : hosts = <<h, g>>
    BY <1>1 DEF AlarmTyped, AlarmInv
  <2>2. CASE i = 1
    BY <2>1, <2>2 DEF AlarmTyped, HostRecords
  <2>3. CASE i = 2
    <3>1. CASE g = OtherHost
      BY <2>1, <2>3, <3>1 DEF OtherHost, Texts, OneAddress
    <3>2. CASE g \in FirstHosts
      BY <2>1, <2>3, <3>2, FirstHostsAssumption DEF HostRecords, OneAddress
    <3> QED
      BY <3>1, <3>2 DEF Others
  <2> QED
    BY <2>1, <2>2, <2>3
<1>2. Len(hosts) \in {0, 2}
  BY DEF AlarmTyped, AlarmInv
<1>3. setting = NoSetting \/ setting.address \in Addresses
  BY DEF AlarmTyped, AlarmInv
<1> QED
  BY <1>1, <1>2, <1>3 DEF AlarmTypeOK, AlarmTyped, AlarmInv, OneAddress, Others

(* What is known, heard and kept of the units is what the panel had, so    *)
(* the types carry over by themselves.                                     *)
LEMMA LostBounded ==
    ASSUME UnitsTypeOK, NEW failed, Failing(failed)
    PROVE  lost' \in 0 .. MaxLost
<1>1. CASE failed = {}
  BY <1>1, FS_EmptySet, UnitsAssumption DEF Failing, UnitsTypeOK
<1>2. CASE \E r \in Requests : failed = {r}
  <2>1. PICK r : failed = {r}
    BY <1>2
  <2>2. Cardinality(failed) = 1
    BY <2>1, FS_Singleton
  <2> QED
    BY <2>2, UnitsAssumption DEF Failing, UnitsTypeOK
<1> QED
  BY <1>1, <1>2 DEF Failing

LEMMA UnitsTypedKeeps == UnitsTypeOK /\ [UnitsNext]_unitVars => UnitsTypeOK'
<1> SUFFICES ASSUME UnitsTypeOK, [UnitsNext]_unitVars
             PROVE  UnitsTypeOK'
  OBVIOUS
<1> DEFINE Fits(u, s) == s \in UnitStates /\ s.fields \subseteq FieldsOf[u.kind]
<1>1. DOMAIN Nothing = {}
  BY DEF Nothing
<1>2. ASSUME NEW u \in Units, PanelChanges(u)
      PROVE  UnitsTypeOK'
  <2>1. DOMAIN paired' \subseteq Units /\ \A v \in DOMAIN paired' : Fits(v, paired'[v])
    <3>1. CASE \E s \in UnitStates :
                 /\ s.fields \subseteq FieldsOf[u.kind]
                 /\ paired' = [x \in DOMAIN paired \union {u} |-> IF x = u THEN s ELSE paired[x]]
      <4>1. PICK s \in UnitStates :
                 /\ s.fields \subseteq FieldsOf[u.kind]
                 /\ paired' = [x \in DOMAIN paired \union {u} |-> IF x = u THEN s ELSE paired[x]]
        BY <3>1
      <4>2. \A x \in DOMAIN paired : Fits(x, paired[x])
        BY DEF UnitsTypeOK
      <4>3. Fits(u, s) /\ DOMAIN paired \subseteq Units
        BY <4>1 DEF UnitsTypeOK
      <4> HIDE DEF Fits
      <4> QED
        BY <4>1, <4>2, <4>3
    <3>2. CASE paired' = [x \in DOMAIN paired \ {u} |-> paired[x]]
      BY <3>2 DEF UnitsTypeOK
    <3> QED
      BY <1>2, <3>1, <3>2 DEF PanelChanges
  <2>2. panelChanges' \in 0 .. MaxPanel
    BY <1>2, UnitsAssumption DEF PanelChanges, UnitsTypeOK
  <2>3. UNCHANGED <<known, ready, values, heard, lost>>
    BY <1>2 DEF PanelChanges
  <2> QED
    BY <2>1, <2>2, <2>3 DEF UnitsTypeOK
<1>3. CASE PanelSetUp
  <2>1. PICK failed \in SUBSET Requests :
          /\ Failing(failed)
          /\ known' = [u \in (IF "configuration" \in failed THEN {} ELSE ZonesOf(paired))
                             \union PeripheralsRead(failed) |->
                         IF u.kind = "zone" /\ "zone" \in failed THEN {} ELSE paired[u].fields]
    BY <1>3 DEF PanelSetUp
  <2>2. lost' \in 0 .. MaxLost
    BY <2>1, LostBounded
  <2>3. ZonesOf(paired) \subseteq DOMAIN paired /\ PeripheralsRead(failed) \subseteq DOMAIN paired
    BY DEF ZonesOf, PeripheralsRead
  <2>4. /\ DOMAIN known' \subseteq DOMAIN paired
        /\ \A u \in DOMAIN known' : known'[u] \in {{}, paired[u].fields}
    BY <2>1, <2>3
  <2>5. DOMAIN known' \subseteq Units /\ \A u \in DOMAIN known' : known'[u] \subseteq FieldsOf[u.kind]
    BY <2>4 DEF UnitsTypeOK
  <2>6. ready' = TRUE /\ UNCHANGED <<paired, values, heard, panelChanges>>
    BY <1>3 DEF PanelSetUp
  <2> QED
    BY <2>2, <2>5, <2>6 DEF UnitsTypeOK
<1>4. CASE PanelRefresh
  <2>1. PICK failed \in SUBSET (Requests \ {"configuration"}) :
          LET read == (IF "zone" \in failed THEN {} ELSE ZonesOf(paired)) \union PeripheralsRead(failed)
          IN  /\ Failing(failed)
              /\ values' = Fetched({u \in read : IsKnown(u)})
              /\ heard' = [u \in read |-> paired[u]]
    BY <1>4 DEF PanelRefresh
  <2> DEFINE read == (IF "zone" \in failed THEN {} ELSE ZonesOf(paired)) \union PeripheralsRead(failed)
             kept == {u \in read : IsKnown(u)}
  <2>2. lost' \in 0 .. MaxLost
    BY <2>1, LostBounded
  <2>3. read \subseteq DOMAIN paired /\ kept \subseteq DOMAIN paired
    BY DEF ZonesOf, PeripheralsRead
  <2>4. values' = Fetched(kept) /\ heard' = [u \in read |-> paired[u]]
    BY <2>1
  <2> HIDE DEF read, kept
  <2>5. \A u \in DOMAIN paired : paired[u] \in UnitStates
    BY DEF UnitsTypeOK
  <2>6. \A u \in DOMAIN heard' : heard'[u] \in UnitStates
    BY <2>3, <2>4, <2>5
  <2>7. ASSUME NEW key \in DOMAIN values'
        PROVE  values'[key] \in UnitStates
    <3>1. key \in {UnitUid(u) : u \in kept}
          /\ values'[key] = paired[CHOOSE u \in kept : UnitUid(u) = key]
      BY <2>4 DEF Fetched
    <3>2. (CHOOSE u \in kept : UnitUid(u) = key) \in kept
      BY <3>1
    <3> QED
      BY <2>3, <2>5, <3>1, <3>2
  <2>8. UNCHANGED <<paired, known, ready, panelChanges>>
    BY <1>4 DEF PanelRefresh
  <2> QED
    BY <2>2, <2>6, <2>7, <2>8 DEF UnitsTypeOK
<1>5. CASE PanelReload
  BY <1>1, <1>5 DEF PanelReload, UnitsTypeOK
<1>6. CASE UNCHANGED unitVars
  BY <1>6 DEF unitVars, UnitsTypeOK
<1> QED
  BY <1>2, <1>3, <1>4, <1>5, <1>6 DEF UnitsNext

(* Of a camera, its channel and its streams; and of an entity, the channel *)
(* and the stream it is for.                                               *)
LEMMA SetUpTyped ==
    ASSUME CamerasInv, CamerasTypeOK, CamerasSetUp
    PROVE  CamerasTypeOK'
<1>1. PICK answered : cameras' = GetCameras(answered)
  BY DEF CamerasSetUp
<1>2. ASSUME NEW i \in DOMAIN cameras'
      PROVE  cameras'[i].id \in Nat /\ cameras'[i].streams \subseteq 1 .. 4
  <2>1. CASE listing.nvr
    <3> DEFINE found == NetworkCameras(listing.digital, answered)
                          \o AnalogCameras(listing.analog, answered)
    <3>1. cameras' = found
      BY <1>1, <2>1 DEF GetCameras
    <3>2. \A j \in DOMAIN found : Made(found[j]) /\ found[j].id \in Nat
      BY <2>1, RecorderFound DEF CamerasInv
    <3> HIDE DEF found
    <3> QED
      BY <1>2, <3>1, <3>2 DEF Made
  <2>2. CASE ~listing.nvr
    <3> DEFINE n == Cardinality(listing.channels)
    <3>1. cameras' = [j \in 1 .. n |-> [id |-> j, serial |-> Own, streams |-> StreamsOf(j, answered)]]
      BY <1>1, <2>2 DEF GetCameras
    <3> HIDE DEF n
    <3>2. i \in 1 .. n
      BY <1>2, <3>1
    <3>3. cameras'[i].id = i /\ cameras'[i].streams = StreamsOf(i, answered)
      BY <3>1, <3>2
    <3> QED
      BY <3>2, <3>3 DEF StreamsOf
  <2> QED
    BY <2>1, <2>2
<1>3. ASSUME NEW u \in DOMAIN registered'
      PROVE  u[1] = Own /\ u[2] \in Nat \X (1 .. 4)
  <2> DEFINE entities == {x \in (DOMAIN cameras') \X (1 .. 4) : x[2] \in cameras'[x[1]].streams}
             uid(x) == <<Own, <<cameras'[x[1]].id, x[2]>>>>
  <2>1. DOMAIN registered' = DOMAIN registered \union {uid(x) : x \in entities}
    BY Zenon DEF CamerasSetUp
  <2>2. ASSUME NEW x \in entities
        PROVE  uid(x)[1] = Own /\ uid(x)[2] \in Nat \X (1 .. 4)
    <3>1. x[1] \in DOMAIN cameras' /\ x[2] \in 1 .. 4
      OBVIOUS
    <3>2. cameras'[x[1]].id \in Nat
      BY <1>2, <3>1
    <3> QED
      BY <3>1, <3>2
  <2> HIDE DEF entities, uid
  <2>3. u \in DOMAIN registered \/ \E x \in entities : u = uid(x)
    BY <1>3, <2>1
  <2> QED
    BY <2>2, <2>3 DEF CamerasTypeOK
<1>4. UNCHANGED <<listing, listings>> /\ told' = listing
  BY DEF CamerasSetUp
<1> QED
  BY <1>2, <1>3, <1>4 DEF CamerasTypeOK, ChannelsListed

LEMMA ReportTyped ==
    ASSUME CamerasInv, CamerasTypeOK, DeviceReports
    PROVE  CamerasTypeOK'
<1>1. UNCHANGED <<cameras, registered, told>> /\ listings' \in 0 .. MaxListings
  BY CamerasAssumption DEF DeviceReports, CamerasTypeOK
<1>2. ASSUME NEW i \in DOMAIN listing'.digital
      PROVE  listing'.digital[i] \in DigitalChannels(DigitalIds[i])
  <2>1. CASE \E ds \in [DOMAIN DigitalIds -> UNION {DigitalChannels(DigitalIds[j]) : j \in DOMAIN DigitalIds}],
                as \in SUBSET AnalogIds :
               /\ \A j \in DOMAIN ds : ds[j].id = DigitalIds[j]
               /\ listing' = [nvr |-> TRUE, digital |-> ds, analog |-> as, channels |-> {}]
    <3>1. PICK ds \in [DOMAIN DigitalIds -> UNION {DigitalChannels(DigitalIds[j]) : j \in DOMAIN DigitalIds}] :
               /\ \A j \in DOMAIN ds : ds[j].id = DigitalIds[j]
               /\ listing'.digital = ds
      BY <2>1
    <3>2. PICK j \in DOMAIN DigitalIds : ds[i] \in DigitalChannels(DigitalIds[j])
      BY <1>2, <3>1
    <3>3. ds[i].id = DigitalIds[i]
      BY <1>2, <3>1
    <3> QED
      BY <3>1, <3>2, <3>3 DEF DigitalChannels
  <2>2. CASE \E cs \in {{1}, {1, 2}} : listing' = [NoListing EXCEPT !.channels = cs]
    <3>1. listing'.digital = <<>>
      BY <2>2 DEF NoListing
    <3> QED
      BY <1>2, <3>1
  <2> QED
    BY <2>1, <2>2, Zenon DEF DeviceReports
<1> QED
  BY <1>1, <1>2 DEF CamerasTypeOK, ChannelsListed

(* The state of each part is of its type: what a part takes over from the  *)
(* device or from another variable is of the type it had there.            *)
THEOREM ClientTyped == Spec => []TypeOK
<1> DEFINE Typed == /\ part \in Parts
                    /\ StreamInv /\ AlarmTyped /\ SnapshotInv
                    /\ ConfigInv /\ UnitsTypeOK /\ CamerasInv /\ CamerasTypeOK
<1>1. Init => Typed
  <2> SUFFICES ASSUME Init
               PROVE  Typed
    OBVIOUS
  <2>1. StreamInv /\ SnapshotInv /\ ConfigInv /\ CamerasInv /\ AlarmInv
    BY StreamStarts, SnapshotStarts, ConfigStarts, CamerasStart, AlarmStarts
  <2>2. AlarmTyped
    BY <2>1, AlarmBoundsAssumption DEF Init, AlarmInit, AlarmTyped
  <2>3. DOMAIN Nothing = {}
    BY DEF Nothing
  <2>4. UnitsTypeOK
    <3>1. DOMAIN paired = {} /\ DOMAIN known = {} /\ DOMAIN heard = {} /\ DOMAIN values = {}
      BY <2>3 DEF Init, UnitsInit
    <3>2. ready \in BOOLEAN /\ panelChanges = 0 /\ lost = 0
      BY DEF Init, UnitsInit
    <3> QED
      BY <3>1, <3>2, UnitsAssumption DEF UnitsTypeOK
  <2>5. listing.digital = <<>> /\ told.digital = <<>> /\ cameras = <<>> /\ registered = <<>> /\ listings = 0
    BY DEF Init, CamerasInit, NoListing
  <2>6. CamerasTypeOK
    BY <2>5, CamerasAssumption DEF CamerasTypeOK, ChannelsListed
  <2>7. part \in Parts
    BY DEF Init
  <2> QED
    BY <2>1, <2>2, <2>4, <2>6, <2>7
<1>2. Typed /\ [Next]_vars => Typed'
  <2> SUFFICES ASSUME Typed, [Next]_vars
               PROVE  Typed'
    OBVIOUS
  <2>1. part' = part
    BY DEF Next, vars, StreamStep, AlarmServerStep, SnapshotStep, EntriesStep, UnitsStep, CamerasStep
  <2>2. CamerasInv' /\ CamerasTypeOK'
    <3>1. CASE UNCHANGED cameraVars
      BY <3>1 DEF cameraVars, CamerasInv, CamerasApart, CamerasTypeOK, ChannelsListed
    <3> QED
      BY <3>1, Apart, SetUpApart, ReportApart, SetUpTyped, ReportTyped DEF CamerasNext
  <2>3. StreamInv' /\ AlarmTyped' /\ SnapshotInv' /\ ConfigInv' /\ UnitsTypeOK'
    BY Apart, StreamStepKeeps, AlarmTypedKeeps, SnapshotStepKeeps, ConfigStep, UnitsTypedKeeps
  <2> QED
    BY <2>1, <2>2, <2>3
<1>3. Typed => TypeOK
  BY StreamTyped, AlarmIsTyped DEF TypeOK, SnapshotInv, ConfigInv
<1> QED
  BY <1>1, <1>2, <1>3, PTL DEF Spec
=============================================================================
