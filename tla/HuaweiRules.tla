----------------------------- MODULE HuaweiRules ----------------------------
(***************************************************************************)
(* The rules only the Huawei plugin has (VLANs in use, aggregates, what    *)
(* the device shows, EVPN, management plane), and the whole of its         *)
(* diagnostics over a configuration.                                       *)
(***************************************************************************)
EXTENDS HuaweiParser, VendorRules

CONSTANT TrunkType     \* the interface type an aggregate has

(* --- VLANs, aggregates and what the device shows --------------------------- *)

\* VLANs the service commands of any view name: after "vlan" or "vid", numerals
\* and ranges.
ServiceForms == {<<"encapsulation">>, <<"if-match", "vlan">>, <<"l2", "binding", "vlan">>,
                 <<"qinq">>, <<"vlan", "mapping">>}
ServiceVlans(c) ==
  LET named(ws, i) == {j \in i..Len(ws) : \A k \in i..j : Numeral(ws[k]) \/ ws[k] = "to"} IN
  UNION {UNION {Vlans(SubSeq(d.words, i + 1, Max(named(d.words, i + 1)))) :
                  i \in {i \in DOMAIN d.words : d.words[i] \in {"vlan", "vid"} /\ named(d.words, i + 1) # {}}} :
           d \in {d \in UNION {ToSet(b.commands) : b \in ToSet(c.blocks)} : BeginsAny(d.words, ServiceForms)}}
UsedVlans(c) ==
  LET lists(i) == {i.allowed, i.tagged, i.untagged} IN
  UNION {UNION {DOMAIN l.vlans \cup (IF l.all THEN DOMAIN c.vlans \ l.except ELSE {}) : l \in lists(i)}
         \cup {i.access.id, i.pvid.id, NumberIn(i.name, VlanType)} : i \in c.interfaces}
  \cup ServiceVlans(c)
UnusedVlan(c, mode) ==
  LET unused == DOMAIN c.vlans \ UsedVlans(c) IN
  IF mode = "snippet" \/ unused = {} THEN {}
  ELSE {Report("VLAN-003", c.vlans[Min(unused)], "info")}
MissingTrunk(c, mode) ==
  {Missing("IF-003", i.trunkAt, mode) : i \in {i \in c.interfaces :
     i.trunk # NoWord /\ \A j \in c.interfaces : j.name # TrunkType \o i.trunk}}
OperationalDown(c, mode, e) ==
  {Report("IF-004", s.at, "warning") : s \in {s \in e.interfaces :
     mode # "snippet" /\ ~s.up /\ \E i \in c.interfaces : i.name = s.name /\ Business(i) /\ ~i.shutdown}}

\* Networks a static route or an interface address may put in the routing table.
Candidates(c) ==
  {<<r.vpn, r.net[1]>> : r \in {r \in c.routes : r.verdict = "ok" /\ r.net # NoKey}} \cup
  UNION {{<<i.vpn, NetworkOf[Upto(a.net, 2)]>> : a \in {a \in i.addresses : IsNetwork(Upto(a.net, 2))}} \cup
         {<<i.vpn, NetworkOf[a.net]>> : a \in {a \in i.addresses6 : IsNetwork(a.net)}} : i \in c.interfaces}
BgpNetworkCandidate(c, mode, e) ==
  LET evident == mode # "snippet"
      complete(s, n) == \E r \in e.ribs : r.complete /\ r.family = n.net.family /\ r.vpn = s.vpn
      verdict(s, n) ==
        IF evident /\ <<s.vpn, n.net>> \in e.routes THEN "found"
        ELSE IF evident /\ complete(s, n) THEN "error"
        ELSE IF <<s.vpn, n.net>> \in Candidates(c) THEN "found"
        ELSE IF evident /\ e.ribs # {} THEN "unknown" ELSE "warning"
  IN UNION {{Report("BGP-002", n.at, verdict(s, n)) : n \in {n \in s.networks : verdict(s, n) # "found"}} :
              s \in c.bgp.scopes}
BgpPeerOperationalState(c, mode, e) ==
  {Report("BGP-003", q.at, "error") : q \in {q \in e.peers :
     /\ mode # "snippet" /\ ~q.established
     /\ \E s \in c.bgp.scopes : s.family = <<>> /\ s.root = NoWord /\ \E p \in s.peers : p.address = q.address}}
MissingBgpVpn(c, mode) ==
  {Missing("VPN-002", s.at, mode) : s \in {s \in c.bgp.scopes : s.family # <<>> /\ s.vpn \notin c.vpns \cup {NoWord}}}

(* --- VXLAN network identifiers ------------------------------------------- *)

MaxVni == 16777215
\* The number after a prefix the words start with, where they do.
After(ws, p) == IF Begins(ws, p) /\ Numeral(ws[Len(p) + 1]) THEN {NumberOf[ws[Len(p) + 1]]} ELSE {}
IsBridge(h) == Begins(h, <<"bridge-domain">>)
IsNve(h) == IsInterface(h) /\ NumberIn(InterfaceName(h)[1], "nve") # 0

VniDefinitions(c) == UNION {After(b.header, <<"vni">>) : b \in ToSet(c.blocks)}
\* Bindings of VNIs to bridge domains, in text order.
BridgeBindings(c) ==
  LET of(b) == SelectSeq(Children(b), LAMBDA d : After(d.words, <<"vxlan", "vni">>) # {})
      binding(b, d) == [domain |-> Tail(b.header), at |-> d.at,
                        vni |-> CHOOSE n \in After(d.words, <<"vxlan", "vni">>) : TRUE]
      bs == SelectSeq(c.blocks, LAMBDA b : IsBridge(b.header))
  IN FlattenSeq([i \in DOMAIN bs |-> [j \in DOMAIN of(bs[i]) |-> binding(bs[i], of(bs[i])[j])]])
InvalidVni(c) ==
  LET named(b, d) == IF IsBridge(b.header) THEN After(d.words, <<"vxlan", "vni">>)
                     ELSE IF IsNve(b.header) THEN After(d.words, <<"vni">>) ELSE {}
      bad(S) == \E n \in S : n \notin 1..MaxVni
  IN UNION {{Report("EVPN-001", d.at, "error") : d \in {d \in ToSet(Children(b)) : bad(named(b, d))}} \cup
            {Report("EVPN-001", b.at, "error") : x \in {x \in {b} : bad(After(b.header, <<"vni">>))}} :
              b \in ToSet(c.blocks)}
\* Only where separate VNI blocks are in use.
MissingEvpnVniDefinition(c) ==
  IF VniDefinitions(c) = {} THEN {}
  ELSE {Report("EVPN-002", r.at, "unknown") : r \in {r \in ToSet(BridgeBindings(c)) : r.vni \notin VniDefinitions(c)}}
\* Each binding of a VNI of several domains, but the first.
DuplicateBridgeDomainVni(c) ==
  LET bs == BridgeBindings(c) IN
  {Report("EVPN-003", bs[i].at, "error") : i \in {i \in DOMAIN bs :
     /\ \E j \in 1..(i - 1) : bs[j].vni = bs[i].vni
     /\ \E j \in DOMAIN bs : bs[j].vni = bs[i].vni /\ bs[j].domain # bs[i].domain}}

(* --- management plane -------------------------------------------------------- *)

\* _diagnostic: one report per view the pattern occurs in.  A command that
\* opens a text, or whose view is not known, may belong to any view.
Unplaced(d) == ~d.known \/ IsSystem(d)
Managed(c, rule, views(_), severity, unplaced, P(_)) ==
  LET s == Facts(c, LAMBDA d : P(d.words) /\ (Unplaced(d) \/ views(d.view)))
      group(d) == IF Unplaced(d) THEN <<>> ELSE d.view
      at(g) == SelectSeq(s, LAMBDA d : group(d) = g)[1].at
  IN {Report(rule, at(g), IF g = <<>> THEN unplaced ELSE severity) : g \in {group(d) : d \in ToSet(s)}}
InVty(h) == Begins(h, <<"user-interface", "vty">>)
InAccounts(h) == h = <<"aaa">> \/ IsUserInterface(h)
SnmpCommunity(c) == Global(c, "SEC-005", "warning", LAMBDA ws : Is(ws, <<"snmp-agent", "community">>))
IsPlaintext(ws) ==
  \/ Len(ws) >= 4 /\ ws[1] = "local-user" /\ ws[3] = "password" /\ ws[4] = "simple"
  \/ Is(ws, <<"set", "authentication", "password", "simple">>)
  \/ Is(ws, <<"authentication", "password", "simple">>) \/ Is(ws, <<"password", "simple">>)
PlaintextPassword(c) == Managed(c, "SEC-004", InAccounts, "error", "error", IsPlaintext)
\* Without an explicit source the default of the model and version decides.
ServesSsh(ws) == ws \in {<<"stelnet", "server", "enable">>, <<"stelnet", "ipv4", "server", "enable">>,
                         <<"sftp", "server", "enable">>, <<"scp", "server", "enable">>}
SshAllInterfaces(c, mode, e) ==
  LET everywhere == Global(c, "SEC-007", "warning", LAMBDA ws : ws = <<"ssh", "server-source", "all-interface">>)
      sourced == SystemFacts(c, LAMBDA ws : \/ Begins(ws, <<"ssh", "server-source">>)
                                            \/ Is(ws, <<"undo", "ssh", "server-source">>)) # <<>>
  IN IF everywhere # {} THEN everywhere
     ELSE IF sourced \/ mode = "snippet" \/ e.sshDefault = "none" THEN {}
     ELSE Global(c, "SEC-007", IF e.sshDefault = "all" THEN "warning" ELSE "unknown", ServesSsh)
LocalUserTelnet(c) ==
  Managed(c, "SEC-008", InAccounts, "warning", "warning",
          LAMBDA ws : Len(ws) >= 4 /\ ws[1] = "local-user" /\ ws[3] = "service-type" /\ Has(From(ws, 4), "telnet"))
VtyInboundProtocol(c) ==
  Managed(c, "SEC-009", InVty, "warning", "unknown",
          LAMBDA ws : Is(ws, <<"protocol", "inbound">>) /\ (Has(ws, "all") \/ Has(ws, "telnet")))
VtyPasswordAuthentication(c) ==
  Managed(c, "SEC-010", InVty, "warning", "unknown", LAMBDA ws : ws = <<"authentication-mode", "password">>)

ParseIssues(c) == {Report("PARSE", n, "error") : n \in c.malformed \cup c.clashes}

\* RuleEngine.run: what the parser rejected, then every rule.
HuaweiDiagnostics(c, mode, e) ==
  UNION {ParseIssues(c), MissingTrunkVlan(c, mode), MissingAccessVlan(c, mode), MissingHybridVlan(c, mode),
         MissingPvidVlan(c, mode), UnusedVlan(c, mode), ShutdownWithBusiness(c), LinkTypeMismatch(c),
         MissingTrunk(c, mode), LocalLacp(c, "lacp-static"), InvalidAddress(c), MissingInterfaceVlan(c, mode),
         OperationalDown(c, mode, e), IPv6StaticRouteFormat(c), IPv6InterfaceAddress(c), StaticRouteFormat(c),
         AbnormalNextHop(c), MissingStaticRouteVpn(c, mode), MissingBgpRoutePolicy(c, mode),
         MissingPrefixList(c, mode), BgpNetworkCandidate(c, mode, e), BgpPeerOperationalState(c, mode, e),
         MissingBgpPeerGroup(c, mode), MissingBgpPeerRemoteAs(c, mode), MissingIsisProcess(c, mode),
         MissingIsisNetworkEntity(c, mode), OspfAreaAssociation(c), OspfNoParticipatingInterface(c),
         MissingInterfaceOspfProcess(c, mode), MissingAcl(c, mode), BroadPermitAcl(c), EmptyReferencedAcl(c, mode),
         UnusedRoutePolicy(c, mode), MissingRedistributionPolicy(c, mode), MissingInterfaceVpn(c, mode),
         MissingBgpVpn(c, mode), MissingTrafficPolicyComponent(c, mode), MissingAppliedTrafficPolicy(c, mode),
         InvalidVni(c), MissingEvpnVniDefinition(c), DuplicateBridgeDomainVni(c), MissingBpduProtection(c, mode),
         SensitiveConfiguration(c), TelnetServer(c), FtpServer(c), PlaintextPassword(c), SnmpCommunity(c),
         UnauthenticatedNtp(c, mode, {"ntp", "ntp-service"}), SshAllInterfaces(c, mode, e), LocalUserTelnet(c), VtyInboundProtocol(c),
         VtyPasswordAuthentication(c)}
=============================================================================
