------------------------------ MODULE H3CRules ------------------------------
(***************************************************************************)
(* The rules only the H3C plugin has (aggregates, the management plane,    *)
(* the exposure of OSPF), and the whole of its diagnostics over a          *)
(* configuration.  The operational rules and the command catalogue are     *)
(* left out.                                                               *)
(***************************************************************************)
EXTENDS H3CParser, VendorRules

\* Without a link mode either kind of aggregate may be meant.
MissingBridgeAggregation(c, mode) ==
  LET exists(type, n) == \E i \in c.interfaces : i.name = type \o n
      found(i) == IF i.linkMode = "route" THEN exists("route-aggregation", i.trunk)
                  ELSE \/ exists("bridge-aggregation", i.trunk)
                       \/ i.linkMode = NoWord /\ exists("route-aggregation", i.trunk)
  IN {Missing("IF-003", i.trunkAt, mode) : i \in {i \in c.interfaces : i.trunk # NoWord /\ ~found(i)}}
MissingBgpVpn(c, mode) ==
  {Missing("VPN-002", s.at, mode) : s \in {s \in c.bgp.scopes : s.family = <<>> /\ s.root \notin c.vpns \cup {NoWord}}}

(* --- management plane ---------------------------------------------------------- *)

\* _matches: headers and commands of every view, each reported where it stands.
Anywhere(c, P(_)) ==
  {d \in UNION {{[words |-> b.header, at |-> b.at]} \cup {[words |-> d.words, at |-> d.at] : d \in ToSet(b.commands)} :
                  b \in ToSet(c.blocks)} : P(d.words)}
Each(c, rule, severity, P(_)) == {Report(rule, d.at, severity) : d \in Anywhere(c, P)}
\* What a local-user command sets, in the user's view or on one line.
OfUser(ws) == IF Len(ws) >= 3 /\ ws[1] = "local-user" THEN From(ws, 3) ELSE ws
PlaintextPassword(c) == Each(c, "SEC-004", "error", LAMBDA ws : Is(OfUser(ws), <<"password", "simple">>))
LocalUserTelnet(c) ==
  Each(c, "SEC-008", "warning", LAMBDA ws : Begins(OfUser(ws), <<"service-type">>) /\ Has(OfUser(ws), "telnet"))
SnmpCommunity(c) ==
  Each(c, "SEC-005", "warning", LAMBDA ws : Is(ws, <<"snmp-agent", "community", "read">>)) \cup
  Each(c, "SEC-005", "error", LAMBDA ws : Is(ws, <<"snmp-agent", "community", "write">>))
LegacyTlsVersion(c) ==
  Each(c, "SEC-011", "warning",
       LAMBDA ws : \E v \in {"ssl3.0", "tls1.0", "tls1.1"} : ws = <<"undo", "ssl", "version", v, "disable">>)

\* _vty_settings: what each explicit range of lines sets, or inherits from the
\* line class; and the class, for lines no range is known to cover.
VtySettings(c, prefix) ==
  LET classes == SelectSeq(c.blocks, LAMBDA b : b.header = <<"line", "class", "vty">>)
      ranges == SelectSeq(c.blocks, LAMBDA b :
        /\ Is(b.header, <<"line", "vty">>) /\ Len(b.header) \in {3, 4} /\ \A i \in 3..Len(b.header) : Numeral(b.header[i]))
      set(b) == SelectSeq(b.commands, LAMBDA d : Begins(d.words, prefix))
      inherited == FlattenSeq([i \in DOMAIN classes |-> set(classes[i])])
      effective(s, b, u) == [value |-> IF s = <<>> THEN <<>> ELSE From(Last(s).words, Len(prefix) + 1),
                             at |-> IF s = <<>> THEN b.at ELSE Last(s).at, uncertain |-> u]
  IN {effective(IF set(b) # <<>> THEN set(b) ELSE inherited, b, FALSE) : b \in ToSet(ranges)} \cup
     (IF classes = <<>> THEN {} ELSE {effective(inherited, Last(classes), ranges # <<>>)})
VtyInboundProtocol(c) ==
  {Report("SEC-009", s.at, IF s.value \in {<<"telnet">>, <<"all">>} /\ ~s.uncertain THEN "warning" ELSE "unknown") :
     s \in {s \in VtySettings(c, <<"protocol", "inbound">>) : s.value # <<"ssh">>}}
VtyAuthentication(c) ==
  {Report("SEC-010", s.at, IF s.value = <<>> \/ s.uncertain THEN "unknown"
                           ELSE IF s.value = <<"none">> THEN "error" ELSE "warning") :
     s \in {s \in VtySettings(c, <<"authentication-mode">>) : s.value # <<"scheme">>}}

(* --- OSPF ---------------------------------------------------------------------- *)

\* _ospf_block: the commands of the first view of a process.
OspfCommands(c, process) ==
  LET bs == SelectSeq(c.blocks, LAMBDA b : \/ process = "1" /\ b.header = <<"ospf">>
                                           \/ Is(b.header, <<"ospf", process>>))
  IN IF bs = <<>> THEN <<>> ELSE bs[1].commands
SilentOn(c, p) ==
  {d.words[2] : d \in Where(OspfCommands(c, p.process),
                            LAMBDA d : d.views = <<>> /\ Len(d.words) = 2 /\ d.words[1] = "silent-interface")}
\* A network of more than four hosts whose interfaces are not all known silent.
OspfExposure(c) ==
  LET wide(n) == Covers(n) /\ NumberOf[CoveredBy(n).bits] <= 29
      on(n) == {i \in c.interfaces : \E a \in i.addresses : Inside(a.net[1], n)}
      shielded(p, n) == on(n) # {} /\ \A i \in on(n) : i.name \in SilentOn(c, p)
  IN UNION {{Report("OSPF-004", n.at, IF SilentOn(c, p) = {} THEN "warning" ELSE "unknown") :
               n \in {n \in p.networks : "all" \notin SilentOn(c, p) /\ wide(n) /\ ~shielded(p, n)}} : p \in c.ospf}
Authentications == {"simple", "md5", "hmac-md5", "hmac-sha-256"}
OspfAuthentication(c, mode) ==
  LET commands(p) == OspfCommands(c, p.process)
      inArea(vs) == vs = <<>> \/ (Len(vs) = 1 /\ Begins(vs[1], <<"area">>))
      areas(p) == {d.words[2] : d \in Where(commands(p), LAMBDA d : Begins(d.words, <<"area">>) /\ inArea(d.views))}
      open(p, a) == ~\E d \in ToSet(commands(p)) :
                      /\ d.views = <<<<"area", a>>>> /\ Begins(d.words, <<"authentication-mode">>)
                      /\ d.words[2] \in Authentications
      exposed(p) == IF areas(p) = {} THEN TRUE ELSE \E a \in areas(p) : open(p, a)
  IN IF mode = "snippet" THEN {} ELSE {Report("OSPF-005", p.at, "info") : p \in {p \in c.ospf : exposed(p)}}

IrfConflict(c) == {Report("IRF-001", n, "warning") : n \in c.irf}
ParseIssues(c) == {Report("PARSE", n, "error") : n \in c.malformed \cup c.clashes}

\* RuleEngine.run: what the parser found, then every rule.
H3CDiagnostics(c, mode, e) ==
  UNION {ParseIssues(c), IrfConflict(c), MissingTrunkVlan(c, mode), MissingAccessVlan(c, mode),
         MissingHybridVlan(c, mode), MissingPvidVlan(c, mode), ShutdownWithBusiness(c), LinkTypeMismatch(c),
         MissingBridgeAggregation(c, mode), LocalLacp(c, "dynamic"), InvalidAddress(c), MissingInterfaceVlan(c, mode),
         IPv6StaticRouteFormat(c), IPv6InterfaceAddress(c), StaticRouteFormat(c), AbnormalNextHop(c),
         MissingStaticRouteVpn(c, mode), MissingBgpRoutePolicy(c, mode), MissingPrefixList(c, mode),
         MissingBgpPeerGroup(c, mode), MissingBgpPeerRemoteAs(c, mode), MissingIsisProcess(c, mode),
         MissingIsisNetworkEntity(c, mode), OspfAreaAssociation(c), OspfNoParticipatingInterface(c),
         MissingInterfaceOspfProcess(c, mode), OspfExposure(c), OspfAuthentication(c, mode), MissingAcl(c, mode),
         BroadPermitAcl(c), EmptyReferencedAcl(c, mode), UnusedRoutePolicy(c, mode),
         MissingRedistributionPolicy(c, mode), MissingInterfaceVpn(c, mode), MissingBgpVpn(c, mode),
         MissingTrafficPolicyComponent(c, mode), MissingAppliedTrafficPolicy(c, mode), MissingBpduProtection(c, mode),
         SensitiveConfiguration(c), TelnetServer(c), FtpServer(c), PlaintextPassword(c), SnmpCommunity(c),
         LegacyTlsVersion(c), UnauthenticatedNtp(c, mode, {"ntp-service"}), LocalUserTelnet(c),
         VtyInboundProtocol(c), VtyAuthentication(c)}
=============================================================================
