------------------------------ MODULE H3CViews ------------------------------
(***************************************************************************)
(* The commands of the Comware views: what opens a view, what replaces     *)
(* what, and what an undo takes back.  ViewReduction says how a text is    *)
(* reduced.                                                                *)
(***************************************************************************)
EXTENDS CommandSemantics

IsBgp(h) == Begins(h, <<"bgp">>)
IsOspf(h) == BeginsAny(h, {<<"ospf">>, <<"ospfv3">>})
BgpViews == {<<"address-family">>, <<"ip", "vpn-instance">>}
Nested(h, ws) ==
  \/ IsBgp(h) /\ BeginsAny(ws, BgpViews)
  \/ IsOspf(h) /\ Begins(ws, <<"area">>)
  \/ Begins(h, <<"ip", "vpn-instance">>) /\ ws \in {<<"ipv4-family">>, <<"ipv6-family">>}

(* --- keys of views and of single-valued commands ------------------------ *)

BlockKey(h) ==
  CASE IsInterface(h) -> <<"interface">> \o InterfaceName(h)
    [] Len(h) >= 2 /\ h[1] \in {"bgp", "ospf", "isis"} /\ Numeral(h[2])
       /\ (h[1] = "bgp" => Len(h) = 2) -> Upto(h, 2)
    [] h \in {<<"ospf">>, <<"isis">>} -> <<h[1], "1">>
    [] h = <<"aaa">> -> h
    [] BeginsAny(h, {<<"ip", "vpn-instance">>, <<"traffic", "classifier">>,
                     <<"traffic", "behavior">>, <<"qos", "policy">>}) -> Upto(h, 3)
    [] Begins(h, <<"line">>) -> h
    [] Len(h) = 5 /\ h[1] = "route-policy" /\ h[3] \in {"permit", "deny"} /\ h[4] = "node"
       -> <<"route-policy", h[2], "node", h[5]>>
    [] Len(h) = 2 /\ h[1] \in {"bridge-domain", "vni"} /\ Numeral(h[2]) -> h
    [] Begins(h, <<"acl">>) -> AclKey(Tail(h))
    [] OTHER -> NoKey

AddressFamily(views) == IF views # <<>> /\ Has(Last(views), "ipv6") THEN 6 ELSE 4

\* The last entries are prefixes of longer commands too: "ospf" covers every
\* OSPF command of an interface.
InterfaceSingles ==
  {<<"description">>, <<"port", "link-type">>, <<"port", "link-aggregation", "group">>,
   <<"ospf">>, <<"isis", "enable">>, <<"stp", "edged-port">>}
Aggregates == {"bridge-aggregation", "route-aggregation"}
AggregationModes == {<<"link-aggregation", "mode", "dynamic">>, <<"undo", "link-aggregation", "mode">>}
IsAggregate(h) == \E t \in Aggregates : NumberIn(InterfaceName(h)[1], t) # 0
Directions == {"inbound", "outbound"}

InterfaceKey(h, ws) ==
  CASE ws \in AggregationModes /\ IsAggregate(h) -> <<"aggregation-mode">>
    [] Is(ws, <<"ip", "address">>) /\ Len(ws) \in {3, 4} /\ ~Has(ws, "sub") -> <<"ip", "address", "primary">>
    [] \E p \in InterfaceSingles : Is(ws, p) -> CHOOSE p \in InterfaceSingles : Is(ws, p)
    [] ws[1] = "shutdown" -> <<"shutdown">>
    [] Is(ws, <<"qos", "apply", "policy">>) /\ Len(ws) = 5 -> <<"qos-apply-policy", ws[5]>>
    [] ws[1] = "packet-filter" /\ Last(ws) \in Directions ->
         <<"packet-filter", IF Is(Tail(ws), <<"ipv6">>) THEN "ipv6" ELSE "ipv4", Last(ws)>>
    [] OTHER -> NoKey

\* if-match clauses: a classifier keeps one clause per ACL, a policy node one per kind.
MatchKey(h, ws) ==
  CASE Begins(h, <<"traffic", "classifier">>) /\ (Is(ws, <<"if-match", "acl">>) \/ IsIpv6Acl(ws)) ->
         IF MatchedAcl(ws) = NoKey THEN NoKey ELSE <<"if-match">> \o MatchedAcl(ws)
    [] Is(Tail(ws), <<"ip", "address", "prefix-list">>) -> Upto(ws, 4)
    [] Is(Tail(ws), <<"acl">>) -> Upto(ws, 2)
    [] Len(ws) >= 3 /\ ws[2] = "ipv6" /\ ws[3] \in {"acl", "address", "next-hop", "route-source"} -> Upto(ws, 3)
    [] OTHER -> NoKey

IsLine(h) == Begins(h, <<"line">>)
IsLocalUser(h) == Begins(h, <<"local-user">>)
\* _key: the single-valued clause a command sets in its view.
ClauseKey(h, ws, views) ==
  CASE Begins(h, <<"ospf">>) /\ ws[1] = "silent-interface" /\ Len(ws) = 2 -> ws
    [] Begins(h, <<"ospf">>) /\ ws[1] = "authentication-mode" -> <<"authentication-mode">>
    [] IsInterface(h) /\ views = <<>> -> InterfaceKey(h, ws)
    [] IsBgp(h) -> BgpKey(ws, AddressFamily(views))
    [] BeginsAny(h, {<<"route-policy">>, <<"traffic", "classifier">>}) /\ ws[1] = "if-match" -> MatchKey(h, ws)
    [] Begins(h, <<"acl">>) /\ ws[1] = "rule" /\ Len(ws) >= 2 /\ Numeral(ws[2]) -> ws
    [] Begins(h, <<"qos", "policy">>) /\ ws[1] = "classifier" /\ Len(ws) >= 2 -> Upto(ws, 2)
    [] Begins(h, <<"bridge-domain">>) /\ Is(ws, <<"vxlan", "vni">>) -> <<"vxlan", "vni">>
    [] h[1] = "isis" /\ ws[1] = "network-entity" -> ws
    [] IsLocalUser(h) /\ ws[1] \in {"password", "service-type"} -> Upto(ws, 1)
    [] IsLine(h) /\ ws[1] = "protocol" -> Upto(ws, IF Len(ws) = 1 THEN 1 ELSE 2)
    [] IsLine(h) /\ ws[1] = "authentication-mode" -> Upto(ws, 1)
    [] OTHER -> NoKey

(* --- what an undo removes ------------------------------------------------ *)

\* The undo forms reduced here; any other one stays in the text as it is.
InterfaceUndo(ws) ==
  \/ ws \in {<<"description">>, <<"ipv6", "address">>, <<"port", "link-aggregation", "group">>,
             <<"stp", "edged-port">>, <<"stp", "edged-port", "enable">>, <<"stp", "edged-port", "disable">>}
  \/ Is(ws, <<"ip", "address">>) /\ (Len(ws) <= 4 \/ (Len(ws) = 5 /\ ws[5] = "sub"))
  \/ Begins(ws, <<"ipv6", "address">>)
  \/ Is(ws, <<"port", "link-aggregation", "group">>) /\ Len(ws) = 4 /\ Numeral(ws[4])
  \/ /\ ws[1] = "ospf"
     /\ LET rest == From(ws, IF Len(ws) >= 2 /\ Numeral(ws[2]) THEN 3 ELSE 2) IN
        rest = <<>> \/ (Len(rest) = 2 /\ rest[1] = "area")
  \/ Is(ws, <<"isis", "enable">>) /\ (Len(ws) = 2 \/ (Len(ws) = 3 /\ Numeral(ws[3])))
  \/ Is(ws, <<"qos", "apply", "policy">>) /\ Len(ws) \in {4, 5} /\ Last(ws) \in Directions
  \/ /\ ws[1] = "packet-filter" /\ Last(ws) \in Directions
     /\ Len(ws) = 3 \/ (Len(ws) = 4 /\ ws[2] = "ipv6")
  \/ Len(ws) >= 2 /\ ws[1] = "vni" /\ Numeral(ws[2])
BgpUndo(ws) ==
  \/ PeerUndo(ws) \/ BeginsAny(ws, {<<"network">>, <<"address-family">>})
  \/ Is(ws, <<"ip", "vpn-instance">>) /\ Len(ws) = 3
MatchUndo(ws) ==
  \/ Is(ws, <<"if-match", "ip", "address", "prefix-list">>) /\ Len(ws) <= 5
  \/ Is(ws, <<"if-match", "acl">>) \/ IsIpv6Acl(ws)
  \/ /\ Len(ws) >= 3 /\ Is(ws, <<"if-match", "ipv6">>) /\ ws[3] \in {"address", "next-hop", "route-source"}
     /\ Len(ws) = 3 \/ (Len(ws) >= 5 /\ ws[4] \in {"acl", "prefix-list"})
UndoSupported(h, ws) ==
  CASE IsInterface(h) -> InterfaceUndo(ws)
    [] IsBgp(h) -> BgpUndo(ws)
    [] IsOspf(h) -> \/ BeginsAny(ws, {<<"area">>, <<"network">>, <<"silent-interface">>})
                    \/ ws[1] = "authentication-mode"
    [] BeginsAny(h, {<<"route-policy">>, <<"traffic", "classifier">>}) -> MatchUndo(ws)
    [] Begins(h, <<"qos", "policy">>) ->
         ws[1] = "classifier" /\ (Len(ws) = 2 \/ (Len(ws) = 4 /\ ws[3] = "behavior"))
    [] Begins(h, <<"acl">>) -> Len(ws) = 2 /\ ws[1] = "rule" /\ Numeral(ws[2])
    [] h[1] = "isis" -> ws[1] = "network-entity"
    [] Begins(h, <<"bridge-domain">>) -> Is(ws, <<"vxlan", "vni">>) /\ (Len(ws) = 3 => Numeral(ws[3])) /\ Len(ws) <= 3
    [] IsLocalUser(h) -> ws[1] \in {"password", "service-type"}
    [] IsLine(h) -> ws[1] \in {"authentication-mode", "user-role"} \/ Is(ws, <<"protocol", "inbound">>)
    [] OTHER -> FALSE

AnyApplied(ws) == Is(ws, <<"qos", "apply", "policy">>) /\ Last(ws) \in Directions
SameDirection(ws, gone) == Is(ws, Upto(gone, 3)) /\ Last(ws) = Last(gone)
\* A new VPN binding takes the addresses and protocols of the old one with it.
BoundToVpn(ws) ==
  BeginsAny(ws, {<<"ip", "address">>, <<"ipv6", "address">>, <<"ospf">>,
                 <<"isis", "enable">>, <<"ip", "binding", "vpn-instance">>})

(* --- removal and merging of whole views ---------------------------------- *)

\* The view and list definitions an undo at system level removes whole.
Deletable(ws) ==
  \/ BeginsAny(ws, {<<"interface">>, <<"acl">>})
  \/ Len(ws) = 2 /\ ws[1] \in {"bgp", "ospf", "isis", "bridge-domain", "vni"} /\ Numeral(ws[2])
  \/ ws \in {<<"ospf">>, <<"isis">>}
  \/ Len(ws) = 3 /\ Upto(ws, 2) \in {<<"ip", "vpn-instance">>, <<"traffic", "classifier">>,
                                     <<"traffic", "behavior">>, <<"qos", "policy">>}
  \/ ws[1] = "route-policy" /\ (Len(ws) = 2 \/ BlockKey(ws) # NoKey)
  \/ /\ Len(ws) \in {3, 5} /\ Upto(ws, 2) \in {<<"ip", "prefix-list">>, <<"ipv6", "prefix-list">>}
     /\ Len(ws) = 5 => ws[4] = "index" /\ Numeral(ws[5])

\* System-view switches: a later setting, or its undo, replaces the earlier one.
Services == {<<"telnet">>, <<"telnet", "ipv4">>, <<"telnet", "ipv6">>, <<"ftp">>,
             <<"ssh">>, <<"ssh", "ipv4">>, <<"ssh", "ipv6">>, <<"sftp">>, <<"scp">>}
Switches == {<<"stp", "bpdu-protection">>, <<"stp", "edged-port", "default">>,
             <<"ntp-service", "authentication", "enable">>}
SwitchKey(ws) ==
  CASE \E p \in Services, v \in {"enable", "disable"} : ws = p \o <<"server", v>> -> Front(ws)
    [] Is(ws, <<"ssh", "server-source">>) -> <<"ssh", "server-source">>
    [] ws \in Switches -> ws
    [] OTHER -> NoKey

(* --- the reduction ---------------------------------------------------------- *)

Reduction == INSTANCE ViewReductionProofs
\* index_blocks and effective_blocks, with the lines the reduction drops.
IndexBlocks(ls, initial) == Reduction!IndexBlocks(ls, initial)
Effective(bs) == Reduction!Effective(bs)
Superseded(bs) == Reduction!Superseded(bs)
=============================================================================
