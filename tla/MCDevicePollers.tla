-------------------------- MODULE MCDevicePollers --------------------------
(* Instance of DevicePollers for TLC.                                      *)
EXTENDS DevicePollers, TLC

V(o, i, t, v) == [oid |-> o, idx |-> i, type |-> t, val |-> v]
NoConv == [kind |-> ""]
NoCond == [target |-> "", value |-> 0]
MCMib(name, conv, enumRev, cond, script, table, slow) ==
  [name |-> name, conv |-> conv, enum |-> <<>>, enumRev |-> enumRev, cond |-> cond, script |-> script,
   table |-> table, slow |-> slow]

\* A status that others depend on, a text with two numbers in it for a script,
\* and memory sizes that agree or not, one of them out of a walk of its table.
MCDevMibs ==
  "st" :> MCMib("status", NoConv, 1 :> 10, NoCond, "", FALSE, TRUE)
  @@ "ld" :> MCMib("load", [kind |-> "regexp", re |-> "two"], <<>>, [target |-> "status", value |-> 1], "score", FALSE, FALSE)
  @@ "mt" :> MCMib("MemoryTotal", NoConv, <<>>, NoCond, "", TRUE, FALSE)
  @@ "mf" :> [MCMib("MemoryFree", NoConv, <<>>, NoCond, "", FALSE, FALSE) EXCEPT !.enum = Raw(<<104>>) :> 1]
MCDevAnswers ==
  "st" :> {<<V("st", "1", "int", 1), V("st", "2", "int", 2), V("st", "3", "nil", 0)>>}
  @@ "ld" :> {<<V("ld", "1", "octets", <<53, 57>>), V("ld", "2", "octets", <<53>>)>>}
  @@ "mt" :> {<<V("mt", "1", "int", 4), V("mu", "1", "int", 9)>>}
  @@ "mf" :> {<<V("mf", "1", "int", 1)>>, <<V("mf", "1", "octets", <<72>>), V("mf", "2", "int", 6)>>}
MCSubmatch == "two" :> (<<53, 57>> :> <<[name |-> "one", bytes |-> <<53>>], [name |-> "two", bytes |-> <<57>>]>>
                        @@ <<53>> :> <<[name |-> "one", bytes |-> <<53>>], [name |-> "", bytes |-> <<53>>]>>)
MCIfMib(name, gauge, slow) == [name |-> name, counter |-> name \o "_counter", gauge |-> gauge, slow |-> slow]
MCIfMibs ==
  "up" :> MCIfMib("ifHCInUcastPkts", FALSE, FALSE) @@ "ie" :> MCIfMib("ifInErrors", FALSE, TRUE)
  @@ "os" :> MCIfMib("ifOperStatus", TRUE, FALSE)
MCIfAnswers ==
  "up" :> {<<V("up", "1", "counter", 2), V("up", "2", "counter", 1)>>, <<V("up", "1", "counter", 5), V("up", "", "counter", 1)>>}
  @@ "ie" :> {<<V("ie", "1", "counter", 3), V("ie", "2", "int", 1)>>}
  @@ "os" :> {<<V("os", "1", "counter", 1), V("os", "2", "int", 2)>>}
MCUptimes == {<<V("sysUpTime", "", "counter", 10)>>, <<V("sysUpTime", "", "counter", 40)>>}
MCUpsCodes == 0 :> [severity |-> 2, dep |-> 0] @@ 1 :> [severity |-> 3, dep |-> 2] @@ 2 :> [severity |-> 1, dep |-> 0]

\* The conversions, on the forms the tests of the util package use.
ASSUME ConversionsAssumption ==
  /\ GetFromConv(<<1, 2, 3, 4>>, [kind |-> "hextoip"]).s = Text("ip", <<1, 2, 3, 4>>)
  /\ GetFromConv(<<0, 1, 0, 2, 0, 3, 0, 4>>, [kind |-> "hextoip"]).s = Text("ip", <<1, 2, 3, 4>>)
  /\ GetFromConv(<<1, 2, 3>>, [kind |-> "hextoip"]) = Nothing0
  /\ GetFromConv(<<1, 2, 9>>, [kind |-> "hextoint", endian |-> "LittleEndian", width |-> 2]).s = Text("dec", <<513>>)
  /\ GetFromConv(<<1>>, [kind |-> "hextoint", endian |-> "BigEndian", width |-> 2]) = Nothing0
  /\ GetFromConv(<<7, 230, 1, 2, 3, 4, 5, 0>>, [kind |-> "hextodatetime"]).s = Text("date", <<2022, 1, 2, 3, 4, 5, 0>>)
  /\ GetFromConv(<<49>>, [kind |-> "to_one"]).i = 1

------------------------------------------------------------------------------
\* Metadata: interfaces with several addresses, one address on two interfaces,
\* addresses of unknown interfaces; rows of two tables; renumberings with and
\* without a clash.
VA(i, a, t, v) == [idx |-> i, addr |-> a, type |-> t, val |-> v]
MCIfWalks == <<"ifSpeed", "ipAdEntIfIndex", "ipAdEntNetMask", "ipv6AddrPrefix", "PhysAddress", "Type", "Descr">>
MCIfMetaAnswers ==
  "ifSpeed" :> {<<VA("1", "", "int", 10), VA("2", "", "int", 10)>>}
  @@ "ipAdEntIfIndex" :> {<<VA("", "a", "int", "1"), VA("", "b", "int", "1")>>,
                          <<VA("", "a", "int", "1"), VA("", "b", "int", "2"), VA("", "a", "int", "2"), VA("", "c", "int", "3")>>}
  @@ "ipAdEntNetMask" :> {<<VA("", "b", "ip", "m2"), VA("", "a", "ip", "m1"), VA("", "c", "ip", "m3")>>}
  @@ "ipv6AddrPrefix" :> {<<VA("2", "f", "int", "p1"), VA("9", "g", "int", "p2")>>}
  @@ "PhysAddress" :> {<<VA("1", "", "octets", <<1, 2>>), VA("2", "", "int", 0)>>}
  @@ "Type" :> {<<VA("1", "", "int", 6)>>}
  @@ "Descr" :> {<<VA("3", "", "octets", <<101>>)>>}
MCMetaMib(name, table, tables, conv, enumRev) ==
  [name |-> name, table |-> table, tables |-> tables, conv |-> conv, enumRev |-> enumRev]
MCMetaMibs ==
  "sn" :> MCMetaMib("SysName", "", {}, NoConv, <<>>)
  @@ "ser" :> MCMetaMib("serial", "fans", {"sensors"}, [kind |-> "powerset_status"], <<>>)
  @@ "fst" :> MCMetaMib("state", "fans", {}, NoConv, 1 :> 7)
MCMetaAnswers ==
  "sn" :> {<<V("sn", "", "octets", <<110>>), V("sn", "", "nil", 0)>>}
  @@ "ser" :> {<<V("ser", "", "octets", <<48, 49, 49>>), V("ser", "1", "octets", <<49>>)>>}
  @@ "fst" :> {<<V("fst", "1", "int", 1), V("fst", "2", "int", 3), V("fst", "", "int", 1)>>}
MCHuawei == {<<>>, "1" :> "2", "1" :> "7" @@ "2" :> "7"}
MCUserTags ==
  "site" :> [ref |-> "", text |-> Raw(<<115>>)] @@ "who" :> [ref |-> "SysName", text |-> Raw(<<36>>)]
  @@ "also" :> [ref |-> "who", text |-> Raw(<<36>>)]
=============================================================================
