-------------------------- MODULE CommandSemantics --------------------------
(***************************************************************************)
(* The arguments both vendor plugins read in the same way: VLAN lists, ACL *)
(* identities and rules, BGP networks and static routes.  The plugins hold *)
(* a copy of this code each, and differ in the interface types they know   *)
(* and in the words that may stand before an ACL's name.                   *)
(***************************************************************************)
EXTENDS CommandText

CONSTANTS InterfaceTypes,   \* types an interface name may start with
          AclTypeWords      \* "basic" and "advanced" where an ACL's type may come first

\* vlan_list: numerals and ascending "a to b" ranges within 1..4094.
RangeStarts(ws) ==
  {i \in DOMAIN ws : ws[i] # "to" /\ (i > 1 => ws[i - 1] # "to")}
RangeEnd(ws, i) == IF i < Len(ws) /\ ws[i + 1] = "to" THEN i + 2 ELSE i
ValidVlans(ws) ==
  /\ ws # <<>>
  /\ \A i \in DOMAIN ws : ws[i] = "to" => i > 1 /\ (i - 1) \in RangeStarts(ws)
  /\ \A i \in RangeStarts(ws) :
       LET j == RangeEnd(ws, i) IN
       /\ j <= Len(ws) /\ Numeral(ws[i]) /\ Numeral(ws[j])
       /\ 1 <= NumberOf[ws[i]] /\ NumberOf[ws[i]] <= NumberOf[ws[j]] /\ NumberOf[ws[j]] <= 4094
Vlans(ws) ==
  UNION {NumberOf[ws[i]]..NumberOf[ws[RangeEnd(ws, i)]] : i \in RangeStarts(ws)}

\* parse_acl_identity: family, kind and value of an ACL name or number.
AclIdentity(ws, family) ==
  LET fam == IF ws # <<>> /\ ws[1] \in {"ipv4", "ipv6"} THEN ws[1] ELSE family
      scoped == IF ws # <<>> /\ ws[1] \in {"ipv4", "ipv6"} THEN Tail(ws) ELSE ws
      rest == IF scoped # <<>> /\ scoped[1] \in AclTypeWords THEN Tail(scoped) ELSE scoped
      spelled == rest # <<>> /\ rest[1] \in {"name", "number"}
      value == IF spelled THEN Tail(rest) ELSE rest
      kind == IF spelled THEN rest[1] ELSE IF rest # <<>> /\ Numeral(rest[1]) THEN "number" ELSE "name"
  IN IF value = <<>> \/ (kind = "number" /\ ~Numeral(value[1])) THEN NoKey
     ELSE <<fam, kind, value[1]>>

\* acl_rule, to what its readers tell apart: the number, and whether the rule
\* permits everything.  A basic rule takes its protocol from the family with
\* "4" taken out, which gives "ipv" for IPv4.
AnyEnd(end, ws, family) ==
  \/ ws = <<end, "any">>
  \/ /\ family = "ipv4" /\ Len(ws) = 3 /\ ws[1] = end
     /\ IsAddress(ws[2]) /\ FamilyOf[ws[2]] = 4 /\ ws[3] = "255.255.255.255"
AnyMatches(ws, family) ==
  \/ ws = <<>>
  \/ \E end \in {"source", "destination"} : AnyEnd(end, ws, family)
  \/ \E n \in {2, 3}, ends \in {<<"source", "destination">>, <<"destination", "source">>} :
       AnyEnd(ends[1], Upto(ws, n), family) /\ AnyEnd(ends[2], From(ws, n + 1), family)
IsRule(ws) == Len(ws) >= 3 /\ ws[1] = "rule" /\ Numeral(ws[2]) /\ ws[3] \in {"permit", "deny"}
Protocol(ws, type, family) ==
  IF type # "advanced" THEN IF family = "ipv4" THEN "ipv" ELSE family
  ELSE IF Len(ws) >= 4 THEN ws[4] ELSE "unknown"
Unrestricted(ws, type, family) ==
  /\ ws[3] = "permit" /\ type \in {"basic", "advanced"}
  /\ Protocol(ws, type, family) \in {"ip", "ipv6"}
  /\ AnyMatches(From(ws, IF type = "advanced" THEN 5 ELSE 4), family)

\* bgp_network without its policy, NoKey where it is not one.
BgpNetwork(ws, family) ==
  LET rest == Tail(ws)
      masked == rest # <<>> /\ rest[1] # "route-policy"
      mask == IF masked THEN rest[1] ELSE IF family = 4 THEN "classful" ELSE NoWord
      tail == IF masked THEN Tail(rest) ELSE rest
  IN IF /\ ws # <<>> /\ IsAddress(ws[1]) /\ FamilyOf[ws[1]] = family
        /\ OwnNetwork(<<ws[1], mask>>)
        /\ tail = <<>> \/ (Len(tail) = 2 /\ tail[1] = "route-policy")
     THEN <<NetworkOf[<<ws[1], mask>>]>> ELSE NoKey
\* route_arguments: VPN, network and next hop of a static route, and whether
\* the form is valid ("ok"), certainly wrong ("invalid") or not known ("unknown").
Attribute(s, w) ==
  CASE s.verdict # "ok" \/ s.state = "text" -> s
    [] s.state = "preference" \/ s.state = "tag" ->
         IF Numeral(w) /\ NumberOf[w] >= 1 /\ (s.state = "preference" => NumberOf[w] <= 255)
         THEN [s EXCEPT !.state = "key"] ELSE [s EXCEPT !.verdict = "invalid"]
    [] s.state = "described" -> [s EXCEPT !.state = "text"]
    [] w \in s.seen -> [s EXCEPT !.verdict = "invalid"]
    [] w \in {"preference", "tag"} -> [s EXCEPT !.state = w, !.seen = @ \cup {w}]
    [] w = "description" -> [s EXCEPT !.state = "described"]
    [] w = "public" /\ s.public -> [s EXCEPT !.seen = @ \cup {w}]
    [] OTHER -> [s EXCEPT !.verdict = "unknown"]
Attributes(ws, public) ==
  LET end == FoldLeft(Attribute, [verdict |-> "ok", state |-> "key", seen |-> {}, public |-> public], ws)
  IN IF end.verdict = "ok" /\ end.state \notin {"key", "text"} THEN "invalid" ELSE end.verdict


\* The hop of words that start at it: an address of the family, or an interface
\* with an optional address; a next-hop VPN may stand before it.
Hop(ws, family, public) ==
  LET scoped == ws[1] = "vpn-instance"
      rest == IF scoped THEN From(ws, 3) ELSE Joined(ws, InterfaceTypes)
      out == IF rest = <<>> THEN NoWord ELSE rest[1]
      wrong(w) == IsAddress(w) /\ FamilyOf[w] # family
      gateway == Len(rest) >= 2 /\ IsAddress(rest[2])
      verdict ==
        CASE scoped /\ Len(ws) = 1 -> "invalid"
          [] scoped /\ ~IsAddress(out) -> "unknown"
          [] wrong(out) -> "invalid"
          [] IsAddress(out) -> Attributes(Tail(rest), public)
          [] ~\E t \in InterfaceTypes : NumberIn(out, t) # 0 -> "unknown"
          [] gateway /\ wrong(rest[2]) -> "invalid"
          [] OTHER -> Attributes(From(rest, IF gateway THEN 3 ELSE 2), public)
  IN [hop |-> IF scoped /\ ~IsAddress(out) THEN NoWord ELSE out, verdict |-> verdict]

RouteArguments(ws, family) ==
  LET scoped == ws # <<>> /\ ws[1] = "vpn-instance"
      vpn == IF scoped /\ Len(ws) >= 2 THEN ws[2] ELSE NoWord
      rest == IF scoped THEN From(ws, 3) ELSE ws
      net == Upto(rest, 2)
      valid == Len(rest) >= 2 /\ OwnNetwork(net) /\ NetworkOf[net].family = family
      hop == IF valid /\ Len(rest) >= 3 THEN Hop(From(rest, 3), family, family = 4 /\ scoped)
             ELSE [hop |-> NoWord, verdict |-> "invalid"]
  IN [vpn |-> vpn, net |-> IF valid THEN <<NetworkOf[net]>> ELSE NoKey] @@ hop

(* --- keys both plugins build in the same way ------------------------------ *)

InterfaceName(h) == Joined(Tail(h), InterfaceTypes)
IsInterface(h) == Begins(h, <<"interface">>)
AclKey(ws) == LET id == AclIdentity(ws, "ipv4") IN IF id = NoKey THEN NoKey ELSE <<"acl">> \o id


\* A new VPN binding takes the addresses and protocols of the old one with it.
BindsVpn(ws) ==
  Begins(ws, <<"ip", "binding", "vpn-instance">>) \/ Is(ws, <<"undo", "ip", "binding", "vpn-instance">>)

IsRoute(ws) == Len(ws) >= 2 /\ ws[1] \in {"ip", "ipv6"} /\ ws[2] = "route-static"
RouteFamily(ws) == IF ws[1] = "ip" THEN 4 ELSE 6

\* What a command of a BGP view replaces.
PeerSingles == {"as-number", "group", "enable", "description"}
BgpKey(ws, family) ==
  CASE ws[1] = "network" ->
         LET net == BgpNetwork(Tail(ws), family) IN
         IF net = NoKey THEN NoKey ELSE <<"network", net>>
    [] ws[1] = "group" /\ Len(ws) >= 2 -> Upto(ws, 2)
    [] ws[1] = "router-id" -> <<"router-id">>
    [] ws[1] = "peer" /\ Len(ws) >= 3 /\ ws[3] \in PeerSingles -> Upto(ws, 3)
    [] ws[1] = "peer" /\ Len(ws) >= 5 /\ ws[3] = "route-policy" /\ ws[5] \in {"import", "export"}
       -> <<"peer", ws[2], "route-policy", ws[5]>>
    [] OTHER -> NoKey

IsIpv6Acl(ws) == Is(ws, <<"if-match", "ipv6", "acl">>)
MatchedAcl(ws) ==
  IF IsIpv6Acl(ws) THEN AclIdentity(From(ws, 4), "ipv6") ELSE AclIdentity(From(ws, 3), "ipv4")

\* An undo of a peer or group command.
PeerUndo(ws) ==
  \/ ws[1] = "peer" /\ Len(ws) = 2
  \/ ws[1] = "peer" /\ Len(ws) \in {3, 4} /\ ws[3] \in {"as-number", "group"}
  \/ ws[1] = "peer" /\ Len(ws) = 3 /\ ws[3] = "description"
  \/ ws[1] = "peer" /\ Len(ws) = 5 /\ ws[3] = "route-policy" /\ ws[5] \in {"import", "export"}
  \/ ws[1] = "group" /\ Len(ws) = 2
  \/ ws[1] = "router-id" /\ Len(ws) <= 2
=============================================================================
