---------------------------- MODULE HuaweiViews ----------------------------
(***************************************************************************)
(* The commands of the VRP views: what opens a view, what replaces what,   *)
(* and what an undo takes back.  ViewReduction says how a text is reduced. *)
(***************************************************************************)
EXTENDS CommandSemantics

BgpFamilies == {<<"ipv4-family">>, <<"ipv6-family">>, <<"l2vpn-family">>}
Nested(h, ws) ==
  \/ Begins(h, <<"bgp">>) /\ BeginsAny(ws, BgpFamilies)
  \/ BeginsAny(h, {<<"ospf">>, <<"ospfv3">>}) /\ Begins(ws, <<"area">>)
  \/ Begins(h, <<"ip", "vpn-instance">>) /\ ws \in {<<"ipv4-family">>, <<"ipv6-family">>}

(* --- keys of views and of single-valued commands ------------------------ *)

BlockKey(h) ==
  CASE IsInterface(h) -> <<"interface">> \o InterfaceName(h)
    [] Len(h) >= 2 /\ h[1] \in {"bgp", "ospf", "isis"} /\ Numeral(h[2])
       /\ (h[1] = "bgp" => Len(h) = 2) -> Upto(h, 2)
    [] h \in {<<"ospf">>, <<"isis">>} -> <<h[1], "1">>
    [] h = <<"aaa">> -> h
    [] BeginsAny(h, {<<"ip", "vpn-instance">>, <<"traffic", "classifier">>,
                     <<"traffic", "behavior">>, <<"traffic", "policy">>}) -> Upto(h, 3)
    [] Begins(h, <<"user-interface">>) -> h
    [] Len(h) = 5 /\ h[1] = "route-policy" /\ h[3] \in {"permit", "deny"} /\ h[4] = "node"
       -> <<"route-policy", h[2], "node", h[5]>>
    [] Len(h) = 2 /\ h[1] \in {"bridge-domain", "vni"} /\ Numeral(h[2]) -> h
    [] Begins(h, <<"acl">>) -> AclKey(Tail(h))
    [] OTHER -> NoKey

AddressFamily(views) ==
  IF views # <<>> /\ views[Len(views)][1] = "ipv6-family" THEN 6 ELSE 4

InterfaceSingles ==
  {<<"description">>, <<"port", "link-type">>, <<"eth-trunk">>, <<"ospf", "enable">>,
   <<"isis", "enable">>, <<"stp", "edged-port">>}
AggregationModes == {<<"mode", "lacp-static">>, <<"mode", "manual", "load-balance">>, <<"undo", "mode">>}
Directions == {"inbound", "outbound"}

InterfaceKey(h, ws) ==
  CASE ws \in AggregationModes /\ NumberIn(InterfaceName(h)[1], "eth-trunk") # 0 -> <<"aggregation-mode">>
    [] Is(ws, <<"ip", "address">>) /\ Len(ws) \in {3, 4} /\ ~Has(ws, "sub") -> <<"ip", "address", "primary">>
    [] \E p \in InterfaceSingles : Is(ws, p) -> CHOOSE p \in InterfaceSingles : Is(ws, p)
    [] ws[1] = "shutdown" -> <<"shutdown">>
    [] ws[1] = "traffic-policy" /\ Len(ws) >= 3 -> <<"traffic-policy", ws[3]>>
    [] ws[1] = "traffic-filter" /\ Has(ws, "acl") ->
         <<"traffic-filter", IF Has(Before(ws, "acl"), "ipv6") THEN "ipv6" ELSE "ipv4", ws[2]>>
    [] OTHER -> NoKey

\* if-match clauses: a classifier keeps one clause per ACL, a policy node one per kind.
MatchKey(h, ws) ==
  CASE Begins(h, <<"traffic", "classifier">>) /\ (Is(ws, <<"if-match", "acl">>) \/ IsIpv6Acl(ws)) ->
         IF MatchedAcl(ws) = NoKey THEN NoKey ELSE <<"if-match">> \o MatchedAcl(ws)
    [] Len(ws) >= 2 /\ ws[2] \in {"ip-prefix", "acl"} -> Upto(ws, 2)
    [] Len(ws) >= 3 /\ ws[2] = "ipv6" /\ ws[3] \in {"acl", "address", "next-hop", "route-source"} -> Upto(ws, 3)
    [] OTHER -> NoKey

IsUserInterface(h) == Begins(h, <<"user-interface">>)
\* _key: the single-valued clause a command sets in its view.
ClauseKey(h, ws, views) ==
  CASE IsInterface(h) /\ views = <<>> -> InterfaceKey(h, ws)
    [] Begins(h, <<"bgp">>) -> BgpKey(ws, AddressFamily(views))
    [] BeginsAny(h, {<<"route-policy">>, <<"traffic", "classifier">>}) /\ ws[1] = "if-match" -> MatchKey(h, ws)
    [] Begins(h, <<"acl">>) /\ ws[1] = "rule" /\ Len(ws) >= 2 /\ Numeral(ws[2]) -> ws
    [] Begins(h, <<"traffic", "policy">>) /\ ws[1] = "classifier" /\ Len(ws) >= 2 -> Upto(ws, 2)
    [] Begins(h, <<"bridge-domain">>) /\ Is(ws, <<"vxlan", "vni">>) -> <<"vxlan", "vni">>
    [] h[1] = "isis" /\ ws[1] = "network-entity" -> ws
    [] h = <<"aaa">> /\ ws[1] = "local-user" /\ Len(ws) >= 3 /\ ws[3] \in {"password", "service-type"} -> Upto(ws, 3)
    [] IsUserInterface(h) /\ ws[1] = "protocol" -> Upto(ws, IF Len(ws) = 1 THEN 1 ELSE 2)
    [] IsUserInterface(h) /\ ws[1] = "authentication-mode" -> Upto(ws, 1)
    [] OTHER -> NoKey

(* --- what an undo removes ------------------------------------------------ *)

\* The undo forms reduced here; any other one stays in the text as it is.
InterfaceUndo(ws) ==
  \/ ws \in {<<"description">>, <<"ipv6", "address">>, <<"eth-trunk">>,
             <<"stp", "edged-port">>, <<"stp", "edged-port", "enable">>, <<"stp", "edged-port", "disable">>}
  \/ Is(ws, <<"ip", "address">>) /\ (Len(ws) <= 4 \/ (Len(ws) = 5 /\ ws[5] = "sub"))
  \/ Begins(ws, <<"ipv6", "address">>)
  \/ Len(ws) = 2 /\ ws[1] = "eth-trunk" /\ Numeral(ws[2])
  \/ /\ Is(ws, <<"ospf", "enable">>)
     /\ LET rest == From(ws, IF Len(ws) >= 3 /\ Numeral(ws[3]) THEN 4 ELSE 3) IN
        rest = <<>> \/ (Len(rest) = 2 /\ rest[1] = "area")
  \/ Is(ws, <<"isis", "enable">>) /\ (Len(ws) = 2 \/ (Len(ws) = 3 /\ Numeral(ws[3])))
  \/ ws[1] = "traffic-policy" /\ Len(ws) \in {2, 3} /\ Last(ws) \in Directions
  \/ /\ Len(ws) >= 2 /\ ws[1] = "traffic-filter" /\ ws[2] \in Directions
     /\ BeginsAny(From(ws, 3), {<<"acl">>, <<"ipv6", "acl">>})
  \/ Len(ws) >= 2 /\ ws[1] = "vni" /\ Numeral(ws[2])
BgpUndo(ws) == PeerUndo(ws) \/ Begins(ws, <<"network">>) \/ BeginsAny(ws, BgpFamilies)
MatchUndo(ws) ==
  \/ Is(ws, <<"if-match", "ip-prefix">>) /\ Len(ws) <= 3
  \/ Is(ws, <<"if-match", "acl">>) \/ IsIpv6Acl(ws)
  \/ /\ Len(ws) >= 3 /\ Is(ws, <<"if-match", "ipv6">>) /\ ws[3] \in {"address", "next-hop", "route-source"}
     /\ Len(ws) = 3 \/ (Len(ws) >= 5 /\ ws[4] \in {"acl", "prefix-list"})
UndoSupported(h, ws) ==
  CASE IsInterface(h) -> InterfaceUndo(ws)
    [] Begins(h, <<"bgp">>) -> BgpUndo(ws)
    [] BeginsAny(h, {<<"ospf">>, <<"ospfv3">>}) -> BeginsAny(ws, {<<"area">>, <<"network">>})
    [] BeginsAny(h, {<<"route-policy">>, <<"traffic", "classifier">>}) -> MatchUndo(ws)
    [] Begins(h, <<"traffic", "policy">>) ->
         ws[1] = "classifier" /\ (Len(ws) = 2 \/ (Len(ws) = 4 /\ ws[3] = "behavior"))
    [] Begins(h, <<"acl">>) -> Len(ws) = 2 /\ ws[1] = "rule" /\ Numeral(ws[2])
    [] h[1] = "isis" -> ws[1] = "network-entity"
    [] Begins(h, <<"bridge-domain">>) -> Is(ws, <<"vxlan", "vni">>) /\ (Len(ws) = 3 => Numeral(ws[3])) /\ Len(ws) <= 3
    [] h = <<"aaa">> -> ws[1] = "local-user" /\ (Len(ws) = 2 \/ (Len(ws) >= 3 /\ ws[3] \in {"password", "service-type"}))
    [] OTHER -> FALSE

AnyApplied(ws) == Len(ws) = 2 /\ ws[1] = "traffic-policy" /\ ws[2] \in Directions
SameDirection(ws, gone) == ws[1] = "traffic-policy" /\ Len(ws) >= 3 /\ ws[3] = gone[2]
\* A new VPN binding takes the addresses and protocols of the old one with it.
BoundToVpn(ws) ==
  BeginsAny(ws, {<<"ip", "address">>, <<"ipv6", "address">>, <<"ospf", "enable">>,
                 <<"isis", "enable">>, <<"ip", "binding", "vpn-instance">>})

(* --- removal and merging of whole views ---------------------------------- *)

\* The view and list definitions an undo at system level removes whole.
Deletable(ws) ==
  \/ BeginsAny(ws, {<<"interface">>, <<"acl">>})
  \/ Len(ws) = 2 /\ ws[1] \in {"bgp", "ospf", "isis", "bridge-domain", "vni"} /\ Numeral(ws[2])
  \/ ws \in {<<"ospf">>, <<"isis">>}
  \/ Len(ws) = 3 /\ Is(ws, <<"ip", "vpn-instance">>)
  \/ Len(ws) = 3 /\ ws[1] = "traffic" /\ ws[2] \in {"classifier", "behavior", "policy"}
  \/ ws[1] = "route-policy" /\ (Len(ws) = 2 \/ BlockKey(ws) # NoKey)
  \/ /\ ws[1] = "ip" /\ Len(ws) \in {3, 5} /\ ws[2] \in {"ip-prefix", "ipv6-prefix"}
     /\ Len(ws) = 5 => ws[4] = "index" /\ Numeral(ws[5])

\* System-view switches: a later setting, or its undo, replaces the earlier one.
Services == {<<"telnet">>, <<"telnet", "ipv4">>, <<"telnet", "ipv6">>, <<"ftp">>,
             <<"stelnet">>, <<"stelnet", "ipv4">>, <<"stelnet", "ipv6">>, <<"sftp">>, <<"scp">>}
Switches == {<<"stp", "bpdu-protection">>, <<"stp", "edged-port", "default">>,
             <<"ntp-service", "authentication", "enable">>, <<"ntp", "authentication", "enable">>}
SwitchKey(ws) ==
  CASE \E p \in Services, v \in {"enable", "disable"} : ws = p \o <<"server", v>> -> Front(ws)
    [] Is(ws, <<"ssh", "server-source">>) -> <<"ssh", "server-source">>
    [] ws \in Switches -> ws
    [] OTHER -> NoKey

(* --- the reduction ---------------------------------------------------------- *)

Reduction == INSTANCE ViewReductionProofs
\* index_blocks and effective_blocks, with the lines the reduction drops.
IndexBlocks(ls, initial) == Reduction!IndexBlocks(ls, initial)
Effective(bs) == Reduction!Effective(bs)
Superseded(bs) == Reduction!Superseded(bs)
=============================================================================
