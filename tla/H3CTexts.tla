--------------------------- MODULE H3CTexts ---------------------------
(* Small Comware texts for ConfigAnalysis: a topic per part of the configuration. *)
EXTENDS Naturals, Sequences

\* One blank more than the number of views a line stands in.
At(n, ws) == [words |-> ws, indent |-> n, prompt |-> ""]
NoEvidence == [interfaces |-> {}, routes |-> {}, ribs |-> {}, peers |-> {}, sshDefault |-> ""]
Text(base, alphabet) == [vendor |-> "h3c", base |-> base, alphabet |-> alphabet, mode |-> "full", view |-> <<>>, evidence |-> NoEvidence]
Ge == "gigabitethernet1"

VlanTopic == Text(
  <<At(0, <<"vlan", "10">>), At(0, <<"interface", Ge>>)>>,
  {At(0, <<"vlan", "10", "to", "20">>), At(0, <<"vlan", "10", "20">>), At(0, <<"undo", "vlan", "10">>),
   At(0, <<"interface", "vlan-interface20">>), At(0, <<"interface", "vlan-interface4095">>), At(0, <<"interface", Ge>>),
   At(0, <<"undo", "interface", Ge>>), At(1, <<"port", "link-type", "trunk">>),
   At(1, <<"port", "trunk", "permit", "vlan", "10", "20">>), At(1, <<"port", "trunk", "permit", "vlan", "all">>),
   At(1, <<"undo", "port", "trunk", "permit", "vlan", "10">>), At(1, <<"port", "access", "vlan", "30">>),
   At(1, <<"port", "trunk", "pvid", "vlan", "30">>), At(1, <<"shutdown">>), At(1, <<"undo", "shutdown">>),
   At(1, <<"ip", "address", "10.0.0.1", "24">>)})
HybridTopic == Text(
  <<At(0, <<"interface", Ge>>), At(1, <<"port", "hybrid", "vlan", "10", "tagged">>)>>,
  {At(0, <<"vlan", "10">>), At(1, <<"undo", "port", "hybrid", "vlan", "10", "tagged">>), At(1, <<"port", "hybrid", "vlan", "10", "untagged">>),
   At(1, <<"port", "hybrid", "vlan", "all", "tagged">>), At(1, <<"port", "hybrid", "vlan", "to", "tagged">>),
   At(1, <<"port", "link-type", "hybrid">>), At(1, <<"undo", "port", "link-type">>), At(1, <<"port", "hybrid", "pvid", "vlan", "20">>),
   At(1, <<"undo", "port", "hybrid", "pvid", "vlan">>), At(1, <<"shutdown">>), At(0, <<"interface", Ge>>), At(0, <<"quit">>)})

\* Aggregates of layer 2 and layer 3 and their members.
AggregateTopic == Text(
  <<At(0, <<"interface", "bridge-aggregation1">>), At(0, <<"interface", Ge>>), At(1, <<"port", "link-aggregation", "group", "1">>)>>,
  {At(0, <<"interface", "bridge-aggregation1">>), At(0, <<"interface", "route-aggregation1">>), At(0, <<"interface", Ge>>),
   At(0, <<"undo", "interface", "bridge-aggregation1">>), At(1, <<"link-aggregation", "mode", "dynamic">>),
   At(1, <<"undo", "link-aggregation", "mode">>), At(1, <<"port", "link-mode", "route">>), At(1, <<"port", "link-mode", "bridge">>),
   At(2, <<"port", "link-mode", "route">>), At(1, <<"port", "link-aggregation", "group", "2">>),
   At(1, <<"undo", "port", "link-aggregation", "group">>), At(0, <<"irf-port", "1/1">>), At(0, <<"irf-port", "2/1">>),
   At(0, <<"irf-port", "1/2">>), At(1, <<"port", "group", "interface", Ge>>), At(0, <<"#">>)})

\* Stack ports are counted wherever they stand, in an interface too.
IrfTopic == Text(
  <<At(0, <<"irf-port", "1/1">>), At(1, <<"port", "group", "interface", Ge>>), At(0, <<"interface", "bridge-aggregation1">>)>>,
  {At(1, <<"irf-port", "2/1">>), At(0, <<"irf-port", "1/2">>), At(0, <<"interface", "bridge-aggregation1">>),
   At(0, <<"undo", "interface", "bridge-aggregation1">>), At(0, <<"#">>)})

\* Interfaces bound to a VPN, with the routing processes they belong to.
VpnTopic == Text(
  <<At(0, <<"ip", "vpn-instance", "v">>), At(0, <<"interface", Ge>>), At(1, <<"ip", "binding", "vpn-instance", "v">>),
    At(1, <<"ip", "address", "10.0.0.1", "24">>), At(1, <<"ospf", "1", "area", "0">>)>>,
  {At(0, <<"undo", "ip", "vpn-instance", "v">>), At(0, <<"ip", "vpn-instance", "v">>), At(0, <<"interface", Ge>>),
   At(1, <<"undo", "ip", "binding", "vpn-instance", "v">>), At(1, <<"ip", "binding", "vpn-instance", "w">>),
   At(1, <<"ip", "address", "10.0.0.2", "24">>), At(1, <<"undo", "ip", "address", "10.0.0.1", "24">>),
   At(1, <<"ospf", "1", "area", "0">>), At(1, <<"ospf", "network-type", "p2p">>), At(1, <<"undo", "ospf", "1", "area", "0">>),
   At(1, <<"isis", "enable", "1">>), At(0, <<"ospf", "1">>), At(0, <<"ospf", "1", "vpn-instance", "v">>), At(0, <<"undo", "ospf", "1">>),
   At(0, <<"isis", "1", "vpn-instance", "v">>), At(1, <<"network-entity", "n">>),
   At(0, <<"ip", "route-static", "vpn-instance", "v", "20.0.0.0", "24", "10.0.0.2">>)})

\* An OSPF process: its networks, silent interfaces and areas.
OspfTopic == Text(
  <<At(0, <<"interface", Ge>>), At(1, <<"ip", "address", "10.0.0.1", "24">>), At(0, <<"ospf", "1">>), At(1, <<"area", "0">>),
    At(2, <<"network", "10.0.0.0", "0.0.0.255">>)>>,
  {At(0, <<"ospf", "1">>), At(0, <<"ospf">>), At(0, <<"undo", "ospf", "1">>), At(0, <<"ospf", "2">>), At(0, <<"interface", Ge>>),
   At(1, <<"ip", "address", "20.0.0.0", "24", "sub">>), At(1, <<"undo", "ip", "address">>),
   At(1, <<"silent-interface", Ge>>), At(1, <<"silent-interface", "all">>), At(1, <<"undo", "silent-interface", Ge>>),
   At(1, <<"area", "1">>), At(1, <<"undo", "area", "0">>), At(2, <<"authentication-mode", "md5">>),
   At(2, <<"undo", "authentication-mode">>), At(2, <<"network", "20.0.0.0", "0.0.0.255">>),
   At(2, <<"undo", "network", "10.0.0.0", "0.0.0.255">>), At(1, <<"import-route", "direct", "route-policy", "P">>)})
RouteTopic == Text(
  <<>>,
  {At(0, <<"interface", Ge>>), At(1, <<"ipv6", "address", "2001:db8::1", "64">>), At(1, <<"ipv6", "address", "2001:db8::1", "200">>),
   At(0, <<"ip", "route-static", "20.0.0.0", "24", "127.0.0.1">>), At(0, <<"ip", "route-static", "20.0.0.0", "24", "10.0.0.2", "preference", "30">>),
   At(0, <<"ip", "route-static", "20.0.0.0", "24", "10.0.0.2", "preference", "2000">>),
   At(0, <<"ip", "route-static", "20.0.0.0", "24", Ge, "10.0.0.2">>), At(0, <<"undo", "ip", "route-static", "20.0.0.0", "24">>),
   At(0, <<"undo", "ip", "route-static", "20.0.0.0", "24", "10.0.0.2">>),
   At(0, <<"ip", "route-static", "vpn-instance", "w", "20.0.0.0", "24", "10.0.0.2">>),
   At(0, <<"ipv6", "route-static", "2001:db8::", "64", "10.0.0.2">>)})

\* Peers of one address in the public network and in a VPN's own view.
BgpTopic == Text(
  <<At(0, <<"bgp", "65000">>), At(1, <<"peer", "10.0.0.1", "as-number", "100">>),
    At(1, <<"ip", "vpn-instance", "v">>), At(2, <<"peer", "10.0.0.1", "as-number", "200">>)>>,
  {At(0, <<"bgp", "65000">>), At(0, <<"undo", "bgp", "65000">>), At(0, <<"ip", "vpn-instance", "v">>),
   At(1, <<"undo", "peer", "10.0.0.1">>), At(2, <<"undo", "peer", "10.0.0.1">>), At(1, <<"undo", "peer", "10.0.0.1", "as-number">>),
   At(1, <<"group", "G", "internal">>), At(1, <<"peer", "10.0.0.1", "group", "G">>),
   At(2, <<"peer", "10.0.0.1", "group", "G">>), At(2, <<"peer", "10.0.0.2", "group", "G">>), At(1, <<"peer", "G", "as-number", "200">>),
   At(1, <<"address-family", "ipv4", "unicast">>), At(2, <<"address-family", "ipv4", "unicast">>), At(3, <<"peer", "10.0.0.1", "enable">>),
   At(1, <<"ip", "vpn-instance", "v">>), At(1, <<"undo", "ip", "vpn-instance", "v">>), At(3, <<"group", "G", "external">>)})
NetworkTopic == Text(
  <<At(0, <<"bgp", "65000">>), At(1, <<"peer", "10.0.0.1", "as-number", "100">>), At(1, <<"address-family", "ipv4", "unicast">>),
    At(2, <<"network", "10.0.0.0", "24", "route-policy", "P">>)>>,
  {At(0, <<"bgp", "65000">>), At(1, <<"address-family", "ipv4", "unicast">>), At(1, <<"address-family", "vpnv4">>),
   At(2, <<"network", "10.0.0.0", "24">>), At(1, <<"undo", "network", "10.0.0.0", "24">>), At(2, <<"undo", "network", "10.0.0.0", "24">>),
   At(1, <<"network", "10.0.0.1", "24">>), At(1, <<"undo", "address-family", "ipv4", "unicast">>),
   At(1, <<"address-family", "ipv6", "unicast">>), At(2, <<"network", "2001:db8::", "64">>), At(2, <<"peer", "10.0.0.2", "as-number", "0">>),
   At(1, <<"peer", "10.0.0.1", "route-policy", "Q", "import">>), At(1, <<"undo", "peer", "10.0.0.1", "route-policy", "Q", "import">>),
   At(0, <<"route-policy", "P", "permit", "node", "10">>), At(0, <<"route-policy", "Q", "permit", "node", "10">>), At(0, <<"undo", "route-policy", "P">>)})

\* An ACL with a name and a number, and everything that refers to one.
AclTopic == Text(
  <<At(0, <<"acl", "name", "A", "number", "2000">>), At(1, <<"rule", "5", "permit">>),
    At(0, <<"interface", Ge>>), At(1, <<"packet-filter", "2000", "inbound">>)>>,
  {At(0, <<"acl", "basic", "2000">>), At(0, <<"acl", "name", "A">>), At(0, <<"acl", "name", "A", "number", "3000">>),
   At(0, <<"acl", "name", "B", "number", "2000">>), At(0, <<"acl", "ipv6", "basic", "2000">>), At(0, <<"undo", "acl", "2000">>),
   At(0, <<"undo", "acl", "name", "A">>), At(1, <<"rule", "5", "deny">>), At(1, <<"undo", "rule", "5">>), At(1, <<"rule", "permit">>),
   At(0, <<"interface", Ge>>), At(1, <<"packet-filter", "name", "A", "inbound">>), At(1, <<"packet-filter", "ipv6", "2000", "inbound">>),
   At(1, <<"undo", "packet-filter", "inbound">>), At(1, <<"undo", "packet-filter", "2000", "inbound">>),
   At(0, <<"route-policy", "P", "permit", "node", "10">>), At(1, <<"if-match", "acl", "A">>)})
PolicyTopic == Text(
  <<At(0, <<"acl", "advanced", "3000">>), At(0, <<"traffic", "classifier", "C">>), At(1, <<"if-match", "acl", "3000">>),
    At(0, <<"qos", "policy", "T">>), At(1, <<"classifier", "C", "behavior", "B">>)>>,
  {At(0, <<"acl", "advanced", "3000">>), At(1, <<"rule", "5", "permit", "ip">>), At(1, <<"undo", "rule", "5">>),
   At(0, <<"traffic", "classifier", "C">>), At(1, <<"if-match", "acl", "2000">>), At(0, <<"undo", "traffic", "classifier", "C">>),
   At(0, <<"traffic", "behavior", "B">>), At(0, <<"undo", "traffic", "behavior", "B">>), At(0, <<"undo", "qos", "policy", "T">>),
   At(1, <<"undo", "classifier", "C">>), At(0, <<"interface", Ge>>), At(1, <<"qos", "apply", "policy", "T", "inbound">>),
   At(1, <<"undo", "qos", "apply", "policy", "inbound">>), At(1, <<"if-match", "ip", "address", "prefix-list", "X">>),
   At(0, <<"ip", "prefix-list", "X", "permit", "10.0.0.0", "24">>), At(0, <<"undo", "ip", "prefix-list", "X">>),
   At(0, <<"ip", "prefix-list", "X", "permit", "10.0.0.0", "24", "greater-equal", "8">>), At(0, <<"route-policy", "P", "permit", "node", "10">>)})

\* Management services, terminal lines and accounts.
ServiceTopic == Text(
  <<At(0, <<"ntp-service", "unicast-server", "10.0.0.1">>)>>,
  {At(0, <<"telnet", "server", "enable">>), At(0, <<"undo", "telnet", "server", "enable">>), At(0, <<"telnet", "server", "disable">>),
   At(0, <<"ftp", "server", "enable">>), At(0, <<"undo", "ftp", "server", "enable">>), At(0, <<"ntp-service", "authentication", "enable">>),
   At(0, <<"undo", "ntp-service", "authentication", "enable">>), At(0, <<"snmp-agent", "community", "read", "x">>),
   At(0, <<"snmp-agent", "community", "write", "x">>), At(0, <<"undo", "ssl", "version", "tls1.0", "disable">>),
   At(0, <<"ssl", "version", "tls1.0", "disable">>)})
StpTopic == Text(
  <<At(0, <<"interface", Ge>>)>>,
  {At(0, <<"stp", "edged-port", "default">>), At(0, <<"undo", "stp", "edged-port", "default">>), At(0, <<"stp", "bpdu-protection">>),
   At(0, <<"undo", "stp", "bpdu-protection">>), At(0, <<"interface", Ge>>), At(1, <<"stp", "edged-port", "enable">>),
   At(1, <<"undo", "stp", "edged-port">>)})
LineTopic == Text(
  <<At(0, <<"line", "class", "vty">>), At(1, <<"protocol", "inbound", "ssh">>), At(0, <<"line", "vty", "0", "4">>)>>,
  {At(0, <<"line", "class", "vty">>), At(0, <<"line", "vty", "0", "4">>), At(0, <<"line", "vty", "5", "8">>),
   At(1, <<"protocol", "inbound", "telnet">>), At(1, <<"protocol", "inbound", "ssh">>), At(1, <<"undo", "protocol", "inbound">>),
   At(1, <<"authentication-mode", "none">>), At(1, <<"authentication-mode", "scheme">>), At(1, <<"undo", "authentication-mode">>),
   At(0, <<"local-user", "u", "class", "manage">>), At(1, <<"password", "simple", "p">>), At(1, <<"password", "hash", "p">>),
   At(1, <<"undo", "password">>), At(1, <<"service-type", "telnet">>), At(1, <<"service-type", "ssh">>),
   At(0, <<"return">>), At(0, <<"local-user", "u", "password", "simple", "p">>)})
\* A fragment whose view the caller names, and one that starts in no view.
Snippet(view, t) == [t EXCEPT !.mode = "snippet", !.view = view, !.base = <<>>]
LineSnippet == Snippet(<<"line", "vty", "0", "4">>, LineTopic)
LooseSnippet == Snippet(<<>>, AggregateTopic)

\* Commands of both vendors, as a capture of several devices has them.
MixedTopic == Text(
  <<At(0, <<"interface", "vlan-interface20">>)>>,
  {At(0, <<"interface", Ge>>), At(1, <<"port", "default", "vlan", "30">>), At(1, <<"port", "access", "vlan", "30">>),
   At(0, <<"undo", "interface", "vlan-interface20">>), At(0, <<"local-user", "u", "class", "manage">>)})

Texts == {VlanTopic, HybridTopic, IrfTopic, AggregateTopic, VpnTopic, OspfTopic, RouteTopic, BgpTopic, NetworkTopic, AclTopic,
             PolicyTopic, ServiceTopic, StpTopic, LineTopic, LineSnippet, LooseSnippet}
=============================================================================
