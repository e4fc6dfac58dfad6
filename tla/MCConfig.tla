------------------------------ MODULE MCConfig ------------------------------
(***************************************************************************)
(* Small documents for module Config.  No check accepts Broken; Unbound is *)
(* accepted, but the process does not start from it, nor from a maximum of *)
(* calls below the environment's soft limit.  The sections handlers are    *)
(* sent include ones that must be refused.                                 *)
(***************************************************************************)
EXTENDS Config

Phone == [id |-> "phone", kind |-> "ddi"]
User(id, pin, devices) == [id |-> id, pin |-> pin, devices |-> devices]
Trunk(id) == [id |-> id, uri |-> "sip", via |-> ""]

Siprec(trunks, default, regions) ==
  [siprec |-> {[enabled |-> TRUE, trunks |-> trunks, default |-> default,
                regions |-> regions, uri |-> "", via |-> ""]}]
Recorder == Siprec(<<Trunk("t1"), Trunk("t2")>>, "t1",
                   [r \in {"eu"} |-> "t2"])
NoSuchTrunk == Siprec(<<Trunk("t1")>>, "t1", [r \in {"eu"} |-> "t2"])
MCRecordings == {Recorder, NoSuchTrunk}

Limit(max, soft, redirect, uri) ==
  [max |-> max, soft |-> soft, redirect |-> redirect, uri |-> uri]
MCClusterSpecs == {Limit({2}, {}, {}, {}), Limit({1}, {2}, {}, {}),
                   Limit({}, {}, {TRUE}, {})}
MCEnvLimits == Limit(0, 3, FALSE, "")

Sip(bind, port, proxy, proxyPort, transport) ==
  [bind |-> bind, port |-> port, proxy |-> proxy, proxyPort |-> proxyPort,
   transport |-> transport]
MCSipSpecs == {Sip({}, {5070}, {}, {}, {}), Sip({}, {}, {}, {}, {"tls"})}
MCEnvSip == Sip("ip", 5060, "", 0, "udp")

Console(id) == [id |-> id, name |-> "console", url |-> "https", weight |-> 0, sip |-> ""]
MCServerLists == {<<Console("s1")>>, <<Console("s1"), Console("s1")>>}
Stored(storage) == [storage |-> storage, postgres |-> {}]
MCDatabases == {Stored(""), Stored("postgres")}

Plain == [schemaOK |-> TRUE, links |-> {[user |-> "u1", device |-> "phone"]},
          cluster |-> {}, servers |-> <<>>, recording |-> {}, database |-> {},
          sip |-> {}]
Doc(users, versioned, rest) == [users |-> users, versioned |-> versioned, rest |-> rest]

MCFirstDoc == Doc(<<User("u1", "1", <<Phone>>), User("u2", "2", <<>>)>>, TRUE, Plain)
Recording == Doc(<<User("u1", "2", <<Phone>>)>>, TRUE,
                 [Plain EXCEPT !.recording = {Recorder}])
Legacy == Doc(<<>>, FALSE, [Plain EXCEPT !.links = {}])
Broken == Doc(<<>>, TRUE, Plain)
Unbound == Doc(<<>>, TRUE, [Plain EXCEPT !.links = {}, !.sip = {Sip({"name"}, {}, {}, {}, {})}])
MCDocs == {MCFirstDoc, Recording, Legacy, Broken, Unbound}
MCDeviceLists == {<<>>, <<Phone>>, <<Phone, Phone>>}
=============================================================================
