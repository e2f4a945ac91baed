------------------------- MODULE MCConfigAnalysis --------------------------
(* ConfigAnalysis for TLC: the words of the texts, and the texts of both vendors. *)
EXTENDS VendorRegistry, ConfigAnalysis

MCNumberOf ==
  "0" :> 0 @@ "1" :> 1 @@ "2" :> 2 @@ "4" :> 4 @@ "5" :> 5 @@ "8" :> 8 @@ "10" :> 10 @@ "20" :> 20 @@ "24" :> 24 @@
  "30" :> 30 @@ "32" :> 32 @@ "64" :> 64 @@ "100" :> 100 @@ "200" :> 200 @@ "2000" :> 2000 @@
  "3000" :> 3000 @@ "4095" :> 4095 @@ "65000" :> 65000 @@ "16777216" :> 16777216
Subnet24 == "10.0.0.0" :> "10.0.0.0" @@ "10.0.0.1" :> "10.0.0.0" @@ "10.0.0.2" :> "10.0.0.0" @@
            "20.0.0.0" :> "20.0.0.0" @@ "127.0.0.1" :> "127.0.0.0" @@ "0.0.0.255" :> "0.0.0.0"
MCFamilyOf == [a \in DOMAIN Subnet24 |-> 4] @@ "2001:db8::" :> 6 @@ "2001:db8::1" :> 6
Net(f, base, bits) == [family |-> f, base |-> base, bits |-> bits]
MCNetworkOf ==
  [p \in (DOMAIN Subnet24) \X {"24"} |-> Net(4, Subnet24[p[1]], "24")] @@
  <<"10.0.0.0", "classful">> :> Net(4, "10.0.0.0", "8") @@
  <<"2001:db8::", "64">> :> Net(6, "2001:db8::", "64") @@ <<"2001:db8::1", "64">> :> Net(6, "2001:db8::", "64")
MCWildcardOf == "0.0.0.255" :> "24"
MCOddHops == {"127.0.0.1"}
MCVrpTypes == {"vlanif", "eth-trunk", "gigabitethernet", "nve"}
MCComwareTypes == {"vlan-interface", "bridge-aggregation", "route-aggregation", "gigabitethernet"}
MCIrfPort == "1/1" :> <<1, 1>> @@ "1/2" :> <<1, 2>> @@ "2/1" :> <<2, 1>>
MCSensitiveWords == {"password", "cipher", "community"}

Vrp == INSTANCE HuaweiTexts
Comware == INSTANCE H3CTexts
OspfTopics == {Comware!OspfTopic}
MixedTopics == {Comware!MixedTopic}
AllTopics == Vrp!Texts \cup Comware!Texts
=============================================================================
