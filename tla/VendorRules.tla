----------------------------- MODULE VendorRules ----------------------------
(***************************************************************************)
(* The rules over a normalized configuration c.  A report is a rule, the   *)
(* source line it points at and its severity; wording is left out.  mode   *)
(* is "full" or "snippet"; e is the operational evidence of the same text. *)
(***************************************************************************)
EXTENDS CommandSemantics

CONSTANTS VlanType,      \* the interface type of a VLAN interface
          OddHops        \* unspecified, multicast and loopback addresses

Report(rule, at, severity) == [rule |-> rule, at |-> at, severity |-> severity]
\* missing_reference_diagnostic: a snippet cannot prove an object undefined.
Missing(rule, at, mode) == Report(rule, at, IF mode = "snippet" THEN "unknown" ELSE "error")

(* c.facts is all_commands: the words, line and view of every header and of  *)
(* every command a rule may read on its own, in text order.                  *)
Facts(c, P(_)) == SelectSeq(c.facts, P)
\* Commands of the system view are headers of their own.
IsSystem(d) == d.words = d.view
SystemFacts(c, P(_)) == Facts(c, LAMBDA d : IsSystem(d) /\ P(d.words))
FirstOf(s, rule, severity) == IF s = <<>> THEN {} ELSE {Report(rule, s[1].at, severity)}

(* --- VLANs ------------------------------------------------------------------ *)

\* VLAN 1 exists without being declared.
Defined(c) == DOMAIN c.vlans \cup {1}
\* One report per line that brings in an undefined VLAN.
MissingMembers(c, mode, rule, list(_)) ==
  UNION {IF list(i).all THEN {}
         ELSE {Missing(rule, list(i).vlans[v], mode) : v \in DOMAIN list(i).vlans \ Defined(c)} :
           i \in c.interfaces}
MissingTrunkVlan(c, mode) == MissingMembers(c, mode, "VLAN-001", LAMBDA i : i.allowed)
MissingHybridVlan(c, mode) ==
  MissingMembers(c, mode, "VLAN-004", LAMBDA i : i.tagged) \cup
  MissingMembers(c, mode, "VLAN-004", LAMBDA i : i.untagged)
MissingSingle(c, mode, rule, v(_)) ==
  {Missing(rule, v(i).at, mode) : i \in {i \in c.interfaces : v(i).id # 0 /\ v(i).id \notin Defined(c)}}
MissingAccessVlan(c, mode) == MissingSingle(c, mode, "VLAN-002", LAMBDA i : i.access)
MissingPvidVlan(c, mode) == MissingSingle(c, mode, "VLAN-005", LAMBDA i : i.pvid)

(* --- interfaces --------------------------------------------------------------- *)

HasMembers(l) == DOMAIN l.vlans # {} \/ l.all
Business(i) ==
  \/ HasMembers(i.allowed) \/ HasMembers(i.tagged) \/ HasMembers(i.untagged)
  \/ i.access.id # 0 \/ i.pvid.id # 0 \/ i.addresses # {} \/ i.addresses6 # {}
  \/ i.vpn # NoWord \/ i.policies # {} \/ i.trunk # NoWord
ShutdownWithBusiness(c) ==
  {Report("IF-001", i.shutdownAt, "warning") : i \in {i \in c.interfaces : i.shutdown /\ Business(i)}}
\* A port whose VLAN commands are those of another link type than the one set.
Mismatched(i) ==
  /\ i.linkType # NoWord
  /\ \/ HasMembers(i.allowed) /\ i.linkType # "trunk"
     \/ (HasMembers(i.tagged) \/ HasMembers(i.untagged)) /\ i.linkType # "hybrid"
     \/ i.access.id # 0 /\ i.linkType # "access"
LinkTypeMismatch(c) ==
  {Report("IF-002", i.linkTypeAt, "error") : i \in {i \in c.interfaces : Mismatched(i)}}
InvalidAddress(c) ==
  UNION {{Report("IF-005", a.at, "error") : a \in {a \in i.addresses :
            ~(IsNetwork(Upto(a.net, 2)) /\ FamilyOf[a.net[1]] = 4)}} : i \in c.interfaces}
MissingInterfaceVlan(c, mode) ==
  {Missing("IF-006", i.at, mode) : i \in {i \in c.interfaces : NumberIn(i.name, VlanType) \notin Defined(c) \cup {0}}}
LocalLacp(c, negotiated) ==
  {Report("IF-007", i.modeAt, "unknown") : i \in {i \in c.interfaces : i.mode = negotiated}}

(* --- static routes and interface addresses -------------------------------------- *)

InvalidRoute(c, rule, family) ==
  {Report(rule, r.at, IF r.verdict = "unknown" THEN "unknown" ELSE "error") :
     r \in {r \in c.routes : r.family = family /\ r.verdict # "ok"}}
StaticRouteFormat(c) == InvalidRoute(c, "ROUTE-001", 4)
IPv6StaticRouteFormat(c) == InvalidRoute(c, "IPV6-001", 6)
AbnormalNextHop(c) ==
  {Report("ROUTE-002", r.at, "warning") : r \in {r \in c.routes : r.family = 4 /\ r.hop \in OddHops}}
\* Every VPN a route names, before its free-text description.
MissingStaticRouteVpn(c, mode) ==
  LET words(d) == Before(d.words, "description")
      named(d) == {words(d)[i + 1] : i \in {i \in 1..(Len(words(d)) - 1) : words(d)[i] = "vpn-instance"}}
      isRoute(ws) == Len(ws) >= 2 /\ ws[1] \in {"ip", "ipv6"} /\ ws[2] = "route-static"
  IN {Missing("ROUTE-003", d.at, mode) : d \in {d \in ToSet(SystemFacts(c, isRoute)) : named(d) \ c.vpns # {}}}
IPv6InterfaceAddress(c) ==
  UNION {{Report("IPV6-002", a.at, "error") : a \in {a \in i.addresses6 :
            ~(IsNetwork(a.net) /\ FamilyOf[a.net[1]] = 6)}} : i \in c.interfaces}

(* --- BGP ---------------------------------------------------------------------------- *)

\* The parent of a public address family is the process view it stands in; a
\* VPN family has a namespace of its own.
Parents(c, s) ==
  IF s.family = <<>> \/ s.vpn # NoWord THEN {}
  ELSE {p \in c.bgp.scopes : p.root = s.root /\ p.family = <<>>}
Inherited(own, parents, field) ==
  LET known == {p \in parents : p[field] # NoWord} IN
  IF own[field] # NoWord \/ known = {} THEN own[field] ELSE (CHOOSE p \in known : TRUE)[field]
GroupNamed(S, name) == {g \in S : g.name = name}
\* peer_scopes: the peers and groups of a scope with what they inherit.
EffectiveGroups(c, s) ==
  LET outer == UNION {p.groups : p \in Parents(c, s)}
      merged(g) == LET ps == GroupNamed(outer, g.name) IN
        [g EXCEPT !.declared = @ \/ \E p \in ps : p.declared,
                  !.remoteAs = Inherited(g, ps, "remoteAs"), !.type = Inherited(g, ps, "type"),
                  !.known = @ /\ \A p \in ps : p.known]
  IN {merged(g) : g \in s.groups} \cup {g \in outer : GroupNamed(s.groups, g.name) = {}}
EffectivePeers(c, s) ==
  LET outer(p) == {q \in UNION {t.peers : t \in Parents(c, s)} : q.address = p.address} IN
  {[p EXCEPT !.remoteAs = Inherited(p, outer(p), "remoteAs"), !.group = Inherited(p, outer(p), "group")] :
     p \in s.peers}
\* effective_remote_as: the peer's own AS, else its declared group's.
ValidAs(w) == Numeral(w) /\ NumberOf[w] >= 1
RemoteAs(c, s, p) ==
  LET gs == {g \in GroupNamed(EffectiveGroups(c, s), p.group) : g.declared}
      of(g) == IF g.type = "internal" THEN c.bgp.localAs ELSE g.remoteAs
  IN IF p.remoteAs # NoWord THEN p.remoteAs ELSE IF gs = {} THEN NoWord ELSE of(CHOOSE g \in gs : TRUE)
MissingBgpPeerGroup(c, mode) ==
  UNION {{Missing("BGP-004", IF p.groupAt = 0 THEN p.at ELSE p.groupAt, mode) :
            p \in {p \in EffectivePeers(c, s) :
              p.group # NoWord /\ ~\E g \in GroupNamed(EffectiveGroups(c, s), p.group) : g.declared}} :
           s \in c.bgp.scopes}
\* A group with a dynamic AS range leaves the peer's AS unknown, not missing.
MissingBgpPeerRemoteAs(c, mode) ==
  LET vague(s, p) == \E g \in GroupNamed(EffectiveGroups(c, s), p.group) : ~g.known IN
  UNION {{Report("BGP-005", p.at, IF mode = "snippet" \/ vague(s, p) THEN "unknown" ELSE "error") :
            p \in {p \in EffectivePeers(c, s) : ~ValidAs(RemoteAs(c, s, p))}} : s \in c.bgp.scopes}

(* --- route policies and ACLs --------------------------------------------------------- *)

PolicyNames(c) == {p.name : p \in c.policies}
ScopePolicies(s) ==
  UNION {x.policies : x \in s.peers} \cup UNION {x.policies : x \in s.groups} \cup
  {[name |-> n.policy, at |-> n.at] : n \in {n \in s.networks : n.policy # NoWord}}
MissingBgpRoutePolicy(c, mode) ==
  {Missing("BGP-001", r.at, mode) :
     r \in {r \in UNION {ScopePolicies(s) : s \in c.bgp.scopes} : r.name \notin PolicyNames(c)}}
MissingPrefixList(c, mode) ==
  UNION {{Missing("RPOL-001", r.at, mode) : r \in {r \in p.prefixes : <<r.family, r.name>> \notin c.prefixes}} :
           p \in c.policies}
\* A policy any command names is used; definitions, free text and undo do not count.
UnusedRoutePolicy(c, mode) ==
  LET refers(d) == ~(Len(d.words) > 1 /\ d.words[1] \in {"route-policy", "description", "undo"})
      used == {WordAfter(d.words, "route-policy") : d \in ToSet(Facts(c, refers))} \cup
              {r.name : r \in UNION {UNION {x.policies : x \in s.peers \cup s.groups} :
                                       s \in {s \in c.bgp.scopes : s.family = <<>> /\ s.root = NoWord}}}
  IN IF mode = "snippet" THEN {}
     ELSE {Report("RPOL-002", p.at, "info") : p \in {p \in c.policies : p.name \notin used}}
Redistributing == {"bgp", "ospf", "ospfv3", "isis", "rip", "ripng"}
MissingRedistributionPolicy(c, mode) ==
  LET imports(d) == /\ BeginsAny(d.words, {<<"import-route">>, <<"export-route">>})
                    /\ d.view[1] \in Redistributing /\ (Len(d.view) > 1 => Numeral(d.view[2]))
                    /\ WordAfter(d.words, "route-policy") \notin PolicyNames(c) \cup {NoWord}
  IN {Missing("RPOL-003", d.at, mode) : d \in ToSet(Facts(c, imports))}

AclNamed(c, key) == {a \in c.acls : a.key = key}
MissingAcl(c, mode) ==
  {Missing("ACL-001", r.at, mode) : r \in {r \in c.aclReferences : AclNamed(c, r.acl) = {}}}
BroadPermitAcl(c) ==
  UNION {{Report("ACL-002", r.at, "warning") : r \in {r \in a.rules : r.unrestricted}} : a \in c.acls}
Earlier(r, q) == \E i \in DOMAIN r : r[i] < q[i] /\ \A j \in 1..(i - 1) : r[j] = q[j]
\* One report per ACL, at the first of its references.
EmptyReferencedAcl(c, mode) ==
  LET empty == {a.key : a \in {a \in c.acls : a.rules = {} /\ ~a.raw}}
      of(key) == {r \in c.aclReferences : r.acl = key}
      first(key) == CHOOSE r \in of(key) : \A q \in of(key) : ~Earlier(q.rank, r.rank)
  IN IF mode = "snippet" THEN {}
     ELSE {Report("ACL-003", first(key).at, "warning") : key \in {key \in empty : of(key) # {}}}

MissingTrafficPolicyComponent(c, mode) ==
  UNION {{Missing("POL-001", b.at, mode) : b \in {b \in p.bindings :
            b.classifier \notin c.classifiers \/ b.behavior \notin c.behaviors}} : p \in c.trafficPolicies}
MissingAppliedTrafficPolicy(c, mode) ==
  UNION {{Missing("POL-002", r.at, mode) : r \in {r \in i.policies :
            \A p \in c.trafficPolicies : p.name # r.name}} : i \in c.interfaces}

(* --- VPNs, OSPF and IS-IS ------------------------------------------------------------- *)

MissingInterfaceVpn(c, mode) ==
  {Missing("VPN-001", i.vpnAt, mode) : i \in {i \in c.interfaces : i.vpn \notin c.vpns \cup {NoWord}}}
\* _ospf_network: a contiguous wildcard gives the network of its inverse mask.
Covers(n) == n.wildcard \in DOMAIN WildcardOf /\ IsNetwork(<<n.address, WildcardOf[n.wildcard]>>)
CoveredBy(n) == NetworkOf[<<n.address, WildcardOf[n.wildcard]>>]
OspfAreaAssociation(c) ==
  LET vague(n) == n.area = "unknown" \/ (IsAddress(n.address) /\ IsAddress(n.wildcard)) IN
  UNION {{Report("OSPF-001", n.at, IF vague(n) THEN "unknown" ELSE "error") :
            n \in {n \in p.networks : n.area = "unknown" \/ ~Covers(n)}} : p \in c.ospf}
MissingInterfaceOspfProcess(c, mode) ==
  UNION {{Missing("OSPF-003", b.at, mode) : b \in {b \in i.ospf :
            \A p \in c.ospf : p.process = b.process => p.vpn # i.vpn}} : i \in c.interfaces}
\* A process is active on an interface of its VPN, by binding or by a network
\* that covers a primary address.
Inside(a, n) ==
  /\ IsNetwork(<<a, WildcardOf[n.wildcard]>>)
  /\ NetworkOf[<<a, WildcardOf[n.wildcard]>>] = CoveredBy(n)
Active(p, i) ==
  /\ i.vpn = p.vpn
  /\ \/ \E b \in i.ospf : b.process = p.process
     \/ \E a \in i.addresses, n \in p.networks : ~a.sub /\ Covers(n) /\ Inside(a.net[1], n)
OspfNoParticipatingInterface(c) ==
  {Report("OSPF-002", p.at, IF \E n \in p.networks : Covers(n) THEN "warning" ELSE "info") :
     p \in {p \in c.ospf : ~\E i \in c.interfaces : Active(p, i)}}

MissingIsisProcess(c, mode) ==
  UNION {{Missing("ISIS-001", b.at, mode) : b \in {b \in i.isis :
            \A p \in c.isis : <<p.process, p.vpn>> # <<b.process, i.vpn>>}} : i \in c.interfaces}
MissingIsisNetworkEntity(c, mode) ==
  IF mode = "snippet" THEN {} ELSE {Report("ISIS-002", p.at, "error") : p \in {p \in c.isis : ~p.net}}

(* --- spanning tree --------------------------------------------------------- *)

MissingBpduProtection(c, mode) ==
  LET edge(d) == \/ d.words = <<"stp", "edged-port", "enable">> /\ IsInterface(d.view)
                 \/ d.words = <<"stp", "edged-port", "default">> /\ IsSystem(d)
      protected == SystemFacts(c, LAMBDA ws : ws = <<"stp", "bpdu-protection">>) # <<>>
  IN IF protected \/ mode = "snippet" THEN {} ELSE FirstOf(Facts(c, edge), "STP-001", "warning")

(* --- management plane ---------------------------------------------------------- *)

SensitiveConfiguration(c) ==
  IF c.sensitive = {} THEN {} ELSE {Report("SEC-001", Min(c.sensitive), "info")}
\* A command of the system view only.
Global(c, rule, severity, P(_)) == FirstOf(SystemFacts(c, P), rule, severity)
IsTelnetServer(ws) == ws \in {<<"telnet", "server", "enable">>, <<"telnet", "ipv4", "server", "enable">>,
                              <<"telnet", "ipv6", "server", "enable">>}
TelnetServer(c) == Global(c, "SEC-002", "warning", IsTelnetServer)
FtpServer(c) == Global(c, "SEC-003", "warning", LAMBDA ws : ws = <<"ftp", "server", "enable">>)
IsNtpServer(ws, words) ==
  Len(ws) >= 2 /\ ws[1] \in words /\ ws[2] \in {"server", "unicast-server", "unicast-peer"}
UnauthenticatedNtp(c, mode, words) ==
  LET authentic(ws) == \E w \in words : ws = <<w, "authentication", "enable">> IN
  IF mode = "snippet" \/ SystemFacts(c, authentic) # <<>> THEN {}
  ELSE Global(c, "SEC-006", "warning", LAMBDA ws : IsNtpServer(ws, words))
=============================================================================
