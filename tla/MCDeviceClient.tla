--------------------------- MODULE MCDeviceClient ---------------------------
(* Small instances of the six parts.                                       *)
EXTENDS DeviceClient, TLC

Part(k, b) == [kind |-> k, body |-> b]
MCStreamParts ==
    {Part("close", <<>>), Part("sized", <<>>), Part("sized", <<"D", "x", "cr", "lf">>),
     Part("bare", <<"x", "lf">>)}
MCLengthLine == 0 :> "length 0" @@ 4 :> "length 4"

Address(scheme, name, ip, port, path) ==
    [scheme |-> scheme, hostname |-> name, ip |-> ip, port |-> port, path |-> path]
MCAddresses ==
    {Address("http", "10.0.0.1", TRUE, "8123", "/api/hikvision"),
     Address("https", "ha.local", FALSE, "none", "/api/hikvision"),
     Address("http", "10.0.0.1", TRUE, "none", "/api/hikvision"),
     Address("http", "0.0.0.0", TRUE, "80", "/")}
Host(format, ip, name, port, url, protocol) ==
    [format |-> format, ipAddress |-> ip, hostName |-> name, portNo |-> port, url |-> url,
     protocolType |-> protocol]
MCFirstHosts ==
    {Host("ipaddress", "10.0.0.9", "none", "80", "/", "HTTP"),
     Host("ipaddress", "10.0.0.1", "none", "80", "/api/hikvision", "HTTP"),
     Host("hostname", "none", "ha.local", "443", "/api/hikvision", "HTTPS")}

Entry(version, legacy, serial, host, disabled) ==
    [version |-> version, uid |-> [legacy |-> legacy, serial |-> serial], host |-> host,
     disabled |-> disabled,
     old |-> IF version < 3 THEN {"alarm_server", "plain"} ELSE IF version < 4 THEN {"plain"} ELSE {},
     excuse |-> {}]
MCFirstEntries ==
    {"e1" :> Entry(1, TRUE, "s1", "h1", TRUE),
     "e1" :> Entry(1, TRUE, "s1", "h1", FALSE),
     "e1" :> Entry(2, FALSE, "s1", "h1", FALSE),
     "e1" :> Entry(3, FALSE, "s1", "h1", FALSE) @@ "e2" :> Entry(4, FALSE, "s2", "h2", FALSE)}

Unit(kind, id) == [kind |-> kind, id |-> id]
MCUnits == {Unit("zone", 1), Unit("zone", 2), Unit("keypad", 1), Unit("siren", 1)}
MCDigitalIds == <<1, 2>>
MCTamperZones == {Unit("zone", 2)}
MCFieldsOf == [zone |-> {"charge_value"}, keypad |-> {"status"}, siren |-> {"status"}]
=============================================================================
