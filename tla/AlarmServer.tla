----------------------------- MODULE AlarmServer -----------------------------
(***************************************************************************)
(* The document of a device that names the hosts it posts its events to:   *)
(* get_alarm_server and set_alarm_server (isapi.py), called by the setup   *)
(* of an entry with the address of the configuration and by its unload     *)
(* with http://0.0.0.0:80, and read by the SecondaryCoordinator.           *)
(*                                                                         *)
(* A document is a sequence of hosts; only the first is the integration's. *)
(* Everything a host may lack is "none".  A request that fails ends a call *)
(* early: it raises or, while pending_initialization is set, returns as if *)
(* it had done its work.                                                   *)
(***************************************************************************)
EXTENDS Naturals, Sequences

CONSTANTS
    Addresses,    \* what urlparse makes of a base url: [scheme, hostname, ip, port, path]
    FirstHosts,   \* hosts the device may start with
    MaxSets, MaxEdits   \* bounds: calls, and changes by somebody else

\* what a url or a host may give for a port
Texts == {"none", "80", "443", "8123"}
Names == {"none"} \union {a.hostname : a \in Addresses}
         \union {h.ipAddress : h \in FirstHosts} \union {h.hostName : h \in FirstHosts}
Paths == {a.path : a \in Addresses} \union {h.url : h \in FirstHosts}
HostRecords ==
    [format : {"ipaddress", "hostname"}, ipAddress : Names, hostName : Names,
     portNo : Texts \ {"none"}, url : Paths, protocolType : {"HTTP", "HTTPS"}]

ASSUME AddressesAssumption ==
    Addresses \subseteq [scheme : {"http", "https"}, hostname : Names \ {"none"},
                         ip : BOOLEAN, port : Texts, path : Paths]
ASSUME FirstHostsAssumption ==
    FirstHosts \subseteq {h \in HostRecords : (h.ipAddress = "none") # (h.hostName = "none")}
ASSUME AlarmBoundsAssumption == MaxSets \in Nat /\ MaxEdits \in Nat

VARIABLES
    hosts,     \* the document of the device
    setting,   \* the call of set_alarm_server under way
    configured,   \* history: the address of the last call whose document was written, or
                  \* needed no writing, if nobody edited the first host since
    meant,     \* history: what the other host was last given by somebody else
    crossed,   \* history: that was done while a call was between its requests
    sets, edits   \* counters, for the bounds

alarmVars == <<hosts, setting, configured, meant, crossed, sets, edits>>

NoSetting == [at |-> "idle"]
OtherHost == [format |-> "hostname", ipAddress |-> "none", hostName |-> "elsewhere",
              portNo |-> "80", url |-> "/", protocolType |-> "HTTP"]

AlarmInit ==
    /\ hosts = <<>>
    /\ setting = NoSetting
    /\ configured = {}
    /\ meant = OtherHost /\ crossed = FALSE
    /\ sets = 0 /\ edits = 0

AlarmTypeOK ==
    /\ Len(hosts) \in {0, 2}
    /\ \A i \in DOMAIN hosts :
          /\ hosts[i].format \in {"ipaddress", "hostname"}
          /\ hosts[i].protocolType \in {"HTTP", "HTTPS"}
          /\ hosts[i].portNo \in Texts \ {"none"}
          /\ (hosts[i].ipAddress = "none") # (hosts[i].hostName = "none")
    /\ setting = NoSetting \/ setting.address \in Addresses
    /\ configured \subseteq Addresses
    /\ meant \in FirstHosts \union {OtherHost} /\ crossed \in BOOLEAN
    /\ sets \in 0 .. MaxSets /\ edits \in 0 .. MaxEdits

\* str.upper
Upper(scheme) == IF scheme = "https" THEN "HTTPS" ELSE "HTTP"

-----------------------------------------------------------------------------
\* the device answers for the first time
DeviceFound ==
    /\ hosts = <<>>
    /\ \E h \in FirstHosts : hosts' = <<h, OtherHost>>
    /\ UNCHANGED <<setting, configured, meant, crossed, sets, edits>>

\* somebody changes a host on the device's pages
HostEdited ==
    /\ hosts # <<>>
    /\ edits < MaxEdits /\ edits' = edits + 1
    /\ \/ /\ \E h \in FirstHosts \ {hosts[1]} : hosts' = [hosts EXCEPT ![1] = h]
          /\ configured' = {}
          /\ UNCHANGED <<meant, crossed>>
       \/ /\ \E h \in FirstHosts \ {hosts[2]} : hosts' = [hosts EXCEPT ![2] = h] /\ meant' = h
          /\ crossed' = (setting # NoSetting)
          /\ UNCHANGED configured
    /\ UNCHANGED <<setting, sets>>

\* old_address: the host name is looked up under a key no document has
OldAddress(h) == IF h.format = "ipaddress" THEN h.ipAddress ELSE "none"

\* a port the url does not give is compared as "None"
Same(h, a) ==
    /\ h.protocolType = Upper(a.scheme)
    /\ OldAddress(h) = a.hostname
    /\ h.portNo = a.port
    /\ h.url = a.path

\* address.port or the default of the scheme
PortOf(a) == IF a.port # "none" THEN a.port ELSE IF a.scheme = "https" THEN "443" ELSE "80"

\* slip: the elements of the other form of address stay
KeepsBoth(h, a) ==
    [h EXCEPT !.url = a.path, !.protocolType = Upper(a.scheme), !.portNo = PortOf(a),
              !.format = IF a.ip THEN "ipaddress" ELSE "hostname",
              !.ipAddress = IF a.ip THEN a.hostname ELSE @,
              !.hostName = IF a.ip THEN @ ELSE a.hostname]

Rewritten(h, a) ==
    [h EXCEPT !.url = a.path, !.protocolType = Upper(a.scheme), !.portNo = PortOf(a),
              !.format = IF a.ip THEN "ipaddress" ELSE "hostname",
              !.ipAddress = IF a.ip THEN a.hostname ELSE "none",
              !.hostName = IF a.ip THEN "none" ELSE a.hostname]

\* set_alarm_server, up to the answer to its GET; a document that already
\* names the address ends it
HostsRead ==
    /\ setting = NoSetting /\ hosts # <<>>
    /\ sets < MaxSets /\ sets' = sets + 1
    /\ \E a \in Addresses :
          IF Same(hosts[1], a)
          THEN setting' = setting /\ configured' = {a}
          ELSE /\ setting' = [at |-> "put", address |-> a,
                              hosts |-> [hosts EXCEPT ![1] = Rewritten(@, a)]]
               /\ configured' = configured
    /\ UNCHANGED <<hosts, meant, crossed, edits>>

\* its GET fails: the call raises, or {} ends it
HostsReadFails ==
    /\ setting = NoSetting
    /\ sets < MaxSets /\ sets' = sets + 1
    /\ UNCHANGED <<hosts, setting, configured, meant, crossed, edits>>

\* the document is written back whole, with what was read of it; the call
\* ends whether the answer arrives or not
HostsPut ==
    /\ setting # NoSetting
    /\ hosts' = setting.hosts
    /\ configured' = {setting.address}
    /\ setting' = NoSetting
    /\ UNCHANGED <<meant, crossed, sets, edits>>

\* the device does not take the PUT: the call raises, or returns
HostsPutFails ==
    /\ setting # NoSetting
    /\ setting' = NoSetting
    /\ UNCHANGED <<hosts, configured, meant, crossed, sets, edits>>

AlarmNext ==
    \/ DeviceFound \/ HostEdited
    \/ HostsRead \/ HostsReadFails \/ HostsPut \/ HostsPutFails

-----------------------------------------------------------------------------
\* get_alarm_server, and what the sensors show of it
GetAlarmServer ==
    [protocol |-> hosts[1].protocolType,
     address |-> IF hosts[1].ipAddress # "none" THEN hosts[1].ipAddress ELSE hosts[1].hostName,
     port |-> hosts[1].portNo, path |-> hosts[1].url]

(* After a call of set_alarm_server both of whose requests the device took *)
(* (it may return without), and until somebody edits the host, the device  *)
(* posts to the address that was asked for, and reading the document back  *)
(* says so, whatever form of address, scheme and port it had before.  The  *)
(* other host is as somebody else left it, unless that was done while a    *)
(* call was between its requests: the call may then undo it.               *)
HostReadsBack ==
    /\ \A a \in configured :
          GetAlarmServer = [protocol |-> Upper(a.scheme), address |-> a.hostname,
                            port |-> PortOf(a), path |-> a.path]
    /\ hosts # <<>> /\ ~crossed => hosts[2] = meant
=============================================================================
