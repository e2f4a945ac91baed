--------------------------- MODULE VendorRegistry --------------------------
(***************************************************************************)
(* The vendor plugins and how one is chosen: by name, or by detectors that *)
(* look for banners and commands only one vendor has.                      *)
(***************************************************************************)
EXTENDS CommandText

CONSTANTS VrpTypes, ComwareTypes,   \* the interface types of each vendor
          IrfPort,                  \* the second word of an IRF port view -> <<member, side>>
          SensitiveWords, OddHops

ASSUME IrfAssumption == \A w \in DOMAIN IrfPort : IrfPort[w] \in Nat \X {1, 2}

Huawei == INSTANCE HuaweiRules WITH
  InterfaceTypes <- VrpTypes, TrunkType <- "eth-trunk", VlanType <- "vlanif", AclTypeWords <- {}
H3C == INSTANCE H3CRules WITH
  InterfaceTypes <- ComwareTypes, VlanType <- "vlan-interface", AclTypeWords <- {"basic", "advanced"}

Shows(ls, commands) == \E l \in ToSet(ls) : \E c \in commands : Is(l.words, c)
\* A command whose last argument is a number.
ShowsNumber(ls, commands) == \E l \in ToSet(ls) : \E c \in commands : Begins(l.words, c) /\ Numeral(l.words[Len(c) + 1])

VrpBanners == {<<"huawei", "versatile", "routing", "platform">>, <<"vrp", "(r)", "software">>}
ComwareBanners == {<<"h3c", "comware", "software">>, <<"hpe", "comware", "software">>, <<"comware", "software">>}
OtherBanners == {<<"cisco", "ios">>, <<"junos:">>, <<"juniper", "networks">>, <<"arista", "networks">>}

VrpPorts == {<<"port", "trunk", "allow-pass", "vlan">>, <<"port", "default", "vlan">>}
ComwareSwitch == {<<"stp", "global", "enable">>, <<"stp", "global", "disable">>, <<"version", "7">>}
ComwareAcls == {<<"acl", "basic">>, <<"acl", "ipv6", "basic">>}
\* HuaweiDetector.detect, to whether it takes the text for its own.
DetectsHuawei(ls) ==
  /\ ~Shows(ls, ComwareBanners \cup OtherBanners \cup {<<"h3c">>})
  /\ ~Shows(ls, ComwareSwitch \cup {<<"port", "access", "vlan">>, <<"port", "trunk", "permit", "vlan">>,
                                    <<"port", "link-aggregation", "group">>})
  /\ ~ShowsNumber(ls, ComwareAcls)
  /\ Shows(ls, VrpBanners \cup VrpPorts)

\* H3CDetector.detect: its distinctive commands are more than those that keep
\* the other detector away.
ComwareUsers(ls) ==
  \E l \in ToSet(ls) : Begins(l.words, <<"local-user">>) /\ Len(l.words) >= 4
                       /\ l.words[3] = "class" /\ l.words[4] \in {"manage", "network"}
ComwareVlanInterfaces(ls) ==
  \E l \in ToSet(ls) : Begins(l.words, <<"interface">>) /\ NumberIn(l.words[2], "vlan-interface") # 0
DetectsH3C(ls) ==
  /\ ~Shows(ls, VrpBanners \cup OtherBanners)
  /\ ~Shows(ls, VrpPorts)
  /\ \/ Shows(ls, ComwareBanners)
     \/ Shows(ls, ComwareSwitch \cup {<<"port", "trunk", "permit", "vlan">>})
     \/ ShowsNumber(ls, ComwareAcls \cup {<<"port", "access", "vlan">>, <<"port", "link-aggregation", "group">>})
     \/ ComwareVlanInterfaces(ls) \/ ComwareUsers(ls)

\* detect_vendor_plugin: the one vendor whose detector takes the text, if any.
DetectVendor(ls) ==
  LET supported == {v \in {"huawei", "h3c"} : IF v = "huawei" THEN DetectsHuawei(ls) ELSE DetectsH3C(ls)}
  IN IF Cardinality(supported) = 1 THEN supported ELSE {}

\* get_vendor_plugin, and what the plugin's parser and rules make of a text.
PluginParsed(ls, t) ==
  LET vrp == Huawei!HuaweiParsed(ls, t.mode, t.view)
      comware == H3C!H3CParsed(ls, t.mode, t.view)
  IN IF t.vendor = "huawei" THEN vrp ELSE comware
PluginDiagnostics(c, t) ==
  LET vrp == Huawei!HuaweiDiagnostics(c, t.mode, t.evidence)
      comware == H3C!H3CDiagnostics(c, t.mode, t.evidence)
  IN IF t.vendor = "huawei" THEN vrp ELSE comware
=============================================================================
