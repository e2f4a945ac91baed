--------------------------- MODULE HuaweiTexts ---------------------------
(* Small VRP texts for ConfigAnalysis: a topic per part of the configuration. *)
EXTENDS Naturals, Sequences

\* One blank more than the number of views a line stands in.
At(n, ws) == [words |-> ws, indent |-> n, prompt |-> ""]
NoEvidence == [interfaces |-> {}, routes |-> {}, ribs |-> {}, peers |-> {}, sshDefault |-> ""]
Text(base, alphabet) == [vendor |-> "huawei", base |-> base, alphabet |-> alphabet, mode |-> "full", view |-> <<>>, evidence |-> NoEvidence]
Ge == "gigabitethernet1"

VlanTopic == Text(
  <<At(0, <<"vlan", "batch", "10">>), At(0, <<"interface", Ge>>)>>,
  {At(0, <<"vlan", "20">>), At(0, <<"undo", "vlan", "10">>), At(0, <<"interface", "vlanif10">>), At(0, <<"interface", Ge>>),
   At(0, <<"undo", "interface", Ge>>), At(0, <<"#">>),
   At(1, <<"port", "link-type", "trunk">>), At(1, <<"port", "trunk", "allow-pass", "vlan", "10", "20">>),
   At(1, <<"port", "trunk", "allow-pass", "vlan", "all">>), At(1, <<"undo", "port", "trunk", "allow-pass", "vlan", "10">>),
   At(1, <<"port", "default", "vlan", "30">>), At(1, <<"shutdown">>), At(1, <<"undo", "shutdown">>),
   At(1, <<"eth-trunk", "1">>), At(1, <<"undo", "eth-trunk">>), At(1, <<"ip", "address", "10.0.0.1", "24">>)})

\* Hybrid ports, aggregates and VLANs that services name.
PortTopic == Text(
  <<At(0, <<"vlan", "10">>), At(0, <<"interface", "eth-trunk1">>), At(1, <<"mode", "lacp-static">>)>>,
  {At(0, <<"vlan", "30">>), At(0, <<"vlan", "20", "30">>), At(0, <<"interface", Ge>>), At(0, <<"interface", "eth-trunk1">>),
   At(0, <<"interface", "vlanif5">>), At(0, <<"undo", "interface", "eth-trunk1">>),
   At(1, <<"eth-trunk", "1">>), At(1, <<"undo", "mode">>), At(1, <<"port", "link-type", "hybrid">>),
   At(1, <<"undo", "port", "link-type">>), At(1, <<"port", "hybrid", "tagged", "vlan", "20", "to", "30">>),
   At(1, <<"port", "hybrid", "untagged", "vlan", "10", "to">>), At(1, <<"undo", "port", "hybrid", "tagged", "vlan", "20">>),
   At(1, <<"port", "hybrid", "pvid", "vlan", "20">>), At(1, <<"undo", "port", "hybrid", "pvid", "vlan">>),
   At(1, <<"shutdown">>), At(1, <<"qinq", "vlan", "10", "to", "30">>)})

\* Interfaces bound to a VPN, with the routing processes they belong to.
VpnTopic == Text(
  <<At(0, <<"ip", "vpn-instance", "v">>), At(0, <<"interface", Ge>>), At(1, <<"ip", "binding", "vpn-instance", "v">>),
    At(1, <<"ip", "address", "10.0.0.1", "24">>), At(1, <<"ospf", "enable", "1", "area", "0">>)>>,
  {At(0, <<"undo", "ip", "vpn-instance", "v">>), At(0, <<"ip", "vpn-instance", "v">>), At(0, <<"interface", Ge>>),
   At(1, <<"undo", "ip", "binding", "vpn-instance", "v">>), At(1, <<"ip", "binding", "vpn-instance", "w">>),
   At(1, <<"ip", "address", "10.0.0.2", "24">>), At(1, <<"undo", "ip", "address", "10.0.0.1", "24">>),
   At(1, <<"ospf", "enable", "1", "area", "0">>), At(1, <<"isis", "enable", "1">>),
   At(0, <<"ospf", "1">>), At(0, <<"ospf", "1", "vpn-instance", "v">>), At(0, <<"undo", "ospf", "1">>), At(0, <<"undo", "ospf">>),
   At(1, <<"area", "0">>), At(2, <<"network", "10.0.0.0", "0.0.0.255">>), At(0, <<"isis", "1", "vpn-instance", "v">>),
   At(1, <<"network-entity", "n">>), At(0, <<"ip", "route-static", "vpn-instance", "v", "20.0.0.0", "24", "10.0.0.2">>)})

\* An OSPF process and static routes of the public network.
RouteTopic == Text(
  <<At(0, <<"ospf", "1">>), At(1, <<"area", "0">>), At(2, <<"network", "10.0.0.0", "0.0.0.255">>),
    At(0, <<"interface", Ge>>), At(1, <<"ip", "address", "10.0.0.1", "24">>)>>,
  {At(0, <<"ospf", "1">>), At(0, <<"interface", Ge>>), At(1, <<"area", "0">>), At(1, <<"undo", "area", "0">>),
   At(2, <<"network", "20.0.0.0", "0.0.0.255">>), At(2, <<"undo", "network", "10.0.0.0", "0.0.0.255">>),
   At(1, <<"network", "10.0.0.0", "24">>), At(1, <<"ip", "address", "20.0.0.0", "24", "sub">>),
   At(1, <<"undo", "ip", "address", "20.0.0.0", "24", "sub">>),
   At(1, <<"undo", "ip", "address", "10.0.0.1", "24">>), At(1, <<"ipv6", "address", "2001:db8::1", "64">>),
   At(1, <<"ipv6", "address", "2001:db8::1", "200">>), At(1, <<"import-route", "direct", "route-policy", "P">>),
   At(0, <<"ip", "route-static", "20.0.0.0", "24", "127.0.0.1">>), At(0, <<"ip", "route-static", "20.0.0.0", "24", "10.0.0.2", "preference", "30">>),
   At(0, <<"ip", "route-static", "20.0.0.0", "24", "10.0.0.2", "preference", "2000">>),
   At(0, <<"ip", "route-static", "20.0.0.0", "24", Ge, "10.0.0.2">>), At(0, <<"undo", "ip", "route-static", "20.0.0.0", "24">>),
   At(0, <<"undo", "ip", "route-static", "20.0.0.0", "24", "10.0.0.2">>),
   At(0, <<"ipv6", "route-static", "2001:db8::", "64", "10.0.0.2">>)})

\* Peers of one address in the public network and in a VPN.
BgpTopic == Text(
  <<At(0, <<"bgp", "65000">>), At(1, <<"peer", "10.0.0.1", "as-number", "100">>),
    At(1, <<"ipv4-family", "vpn-instance", "v">>), At(2, <<"peer", "10.0.0.1", "as-number", "200">>)>>,
  {At(0, <<"bgp", "65000">>), At(0, <<"undo", "bgp", "65000">>), At(0, <<"ip", "vpn-instance", "v">>),
   At(1, <<"undo", "peer", "10.0.0.1">>), At(2, <<"undo", "peer", "10.0.0.1">>), At(1, <<"undo", "peer", "10.0.0.1", "as-number">>),
   At(1, <<"group", "G", "internal">>), At(1, <<"undo", "group", "G">>), At(1, <<"peer", "10.0.0.1", "group", "G">>),
   At(2, <<"peer", "10.0.0.1", "group", "G">>), At(1, <<"peer", "G", "as-number", "200">>),
   At(1, <<"ipv4-family", "unicast">>), At(1, <<"undo", "ipv4-family", "vpn-instance", "v">>), At(1, <<"ipv4-family", "vpn-instance", "v">>),
   At(2, <<"peer", "10.0.0.2", "enable">>), At(2, <<"peer", "10.0.0.1", "enable">>)})
\* Networks and policies of BGP, with the routing table the device shows.
NetworkTopic == Text(
  <<At(0, <<"bgp", "65000">>), At(1, <<"peer", "10.0.0.1", "as-number", "100">>), At(1, <<"network", "10.0.0.0", "24">>)>>,
  {At(0, <<"bgp", "65000">>), At(1, <<"ipv4-family", "unicast">>), At(2, <<"network", "10.0.0.0", "24">>),
   At(1, <<"undo", "network", "10.0.0.0", "24">>), At(2, <<"undo", "network", "10.0.0.0", "24">>),
   At(1, <<"network", "10.0.0.0", "24", "route-policy", "P">>), At(1, <<"network", "10.0.0.0">>), At(1, <<"network", "10.0.0.1", "24">>),
   At(1, <<"ipv4-family", "vpn-instance", "v">>), At(1, <<"peer", "10.0.0.1", "route-policy", "P", "import">>),
   At(1, <<"undo", "peer", "10.0.0.1", "route-policy", "P", "import">>),
   At(0, <<"route-policy", "P", "permit", "node", "10">>), At(0, <<"undo", "route-policy", "P">>),
   At(0, <<"ip", "route-static", "10.0.0.0", "24", "20.0.0.0">>),
   At(0, <<"interface", Ge>>), At(1, <<"ip", "address", "10.0.0.1", "24">>)})

\* An ACL with a name and a number, and everything that refers to one.
AclTopic == Text(
  <<At(0, <<"acl", "name", "A", "number", "2000">>), At(1, <<"rule", "5", "permit">>),
    At(0, <<"route-policy", "P", "permit", "node", "10">>), At(1, <<"if-match", "acl", "2000">>)>>,
  {At(0, <<"acl", "2000">>), At(0, <<"acl", "name", "A">>), At(0, <<"acl", "name", "A", "number", "3000">>),
   At(0, <<"acl", "name", "B", "number", "2000">>), At(0, <<"undo", "acl", "2000">>), At(0, <<"undo", "acl", "name", "A">>),
   At(1, <<"rule", "5", "permit">>), At(1, <<"rule", "5", "deny">>), At(1, <<"undo", "rule", "5">>),
   At(1, <<"rule", "permit">>), At(0, <<"route-policy", "P", "permit", "node", "10">>), At(0, <<"route-policy", "P", "deny", "node", "20">>),
   At(0, <<"undo", "route-policy", "P">>), At(0, <<"undo", "route-policy", "P", "permit", "node", "10">>),
   At(1, <<"if-match", "acl", "A">>), At(1, <<"undo", "if-match", "acl", "2000">>),
   At(0, <<"traffic-filter", "inbound", "acl", "3000">>)})
PolicyTopic == Text(
  <<At(0, <<"acl", "3000">>), At(0, <<"traffic", "classifier", "C">>), At(1, <<"if-match", "acl", "3000">>),
    At(0, <<"traffic", "policy", "T">>), At(1, <<"classifier", "C", "behavior", "B">>)>>,
  {At(0, <<"acl", "3000">>), At(1, <<"rule", "5", "permit", "ip">>), At(1, <<"undo", "rule", "5">>),
   At(0, <<"traffic", "classifier", "C">>), At(1, <<"if-match", "acl", "2000">>), At(1, <<"undo", "if-match", "acl", "3000">>),
   At(0, <<"undo", "traffic", "classifier", "C">>), At(0, <<"traffic", "behavior", "B">>), At(0, <<"undo", "traffic", "behavior", "B">>),
   At(0, <<"traffic", "policy", "T">>), At(0, <<"undo", "traffic", "policy", "T">>), At(1, <<"undo", "classifier", "C">>),
   At(0, <<"interface", Ge>>), At(1, <<"traffic-policy", "T", "inbound">>), At(1, <<"undo", "traffic-policy", "inbound">>)})
FilterTopic == Text(
  <<At(0, <<"ip", "ip-prefix", "X", "permit", "10.0.0.0", "24">>), At(0, <<"interface", Ge>>), At(1, <<"traffic-filter", "inbound", "acl", "3000">>)>>,
  {At(0, <<"acl", "3000">>), At(0, <<"undo", "acl", "3000">>), At(1, <<"rule", "5", "permit", "ip">>), At(0, <<"interface", Ge>>),
   At(1, <<"traffic-filter", "inbound", "acl", "3000">>), At(1, <<"undo", "traffic-filter", "inbound">>), At(1, <<"if-match", "ip-prefix", "X">>),
   At(0, <<"ip", "ip-prefix", "X", "permit", "10.0.0.0", "24">>), At(0, <<"undo", "ip", "ip-prefix", "X">>),
   At(0, <<"route-policy", "P", "permit", "node", "10">>)})

\* Management services, accounts and terminal lines.
ServiceTopic == Text(
  <<At(0, <<"stelnet", "server", "enable">>), At(0, <<"ntp-service", "unicast-server", "10.0.0.1">>)>>,
  {At(0, <<"stelnet", "server", "enable">>), At(0, <<"undo", "stelnet", "server", "enable">>), At(0, <<"stelnet", "server", "disable">>),
   At(0, <<"telnet", "server", "enable">>), At(0, <<"telnet", "ipv4", "server", "enable">>), At(0, <<"undo", "telnet", "server", "enable">>),
   At(0, <<"ssh", "server-source", "all-interface">>), At(0, <<"ssh", "server-source", "-i", Ge>>), At(0, <<"undo", "ssh", "server-source">>),
   At(0, <<"ntp-service", "authentication", "enable">>), At(0, <<"undo", "ntp-service", "authentication", "enable">>),
   At(0, <<"ftp", "server", "enable">>), At(0, <<"undo", "ftp", "server", "enable">>), At(0, <<"snmp-agent", "community", "read", "x">>)})
StpTopic == Text(
  <<At(0, <<"interface", Ge>>)>>,
  {At(0, <<"stp", "edged-port", "default">>), At(0, <<"undo", "stp", "edged-port", "default">>), At(0, <<"stp", "bpdu-protection">>), At(0, <<"undo", "stp", "bpdu-protection">>),
   At(0, <<"interface", Ge>>), At(1, <<"stp", "edged-port", "enable">>), At(1, <<"undo", "stp", "edged-port">>)})
AccountTopic == Text(
  <<At(0, <<"aaa">>), At(1, <<"local-user", "u", "password", "simple", "p">>), At(0, <<"user-interface", "vty", "0", "4">>)>>,
  {At(0, <<"aaa">>), At(0, <<"user-interface", "vty", "0", "4">>), At(0, <<"user-interface", "console", "0">>),
   At(1, <<"local-user", "u", "password", "simple", "p">>), At(1, <<"local-user", "u", "password", "cipher", "p">>),
   At(1, <<"undo", "local-user", "u">>), At(1, <<"local-user", "u", "service-type", "telnet", "ssh">>),
   At(1, <<"undo", "local-user", "u", "service-type">>), At(1, <<"protocol", "inbound", "telnet">>), At(1, <<"protocol", "inbound", "ssh">>),
   At(1, <<"authentication-mode", "password">>), At(1, <<"authentication-mode", "aaa">>),
   At(1, <<"set", "authentication", "password", "simple", "p">>), At(0, <<"protocol", "inbound", "all">>),
   At(0, <<"return">>), At(0, <<"#">>)})
\* A fragment whose view the caller names, and one that starts in no view.
Snippet(view, t) == [t EXCEPT !.mode = "snippet", !.view = view, !.base = <<>>]
VtySnippet == Snippet(<<"user-interface", "vty", "0", "4">>, AccountTopic)
LooseSnippet == Snippet(<<>>, AccountTopic)

EvpnTopic == Text(
  <<At(0, <<"bridge-domain", "10">>), At(1, <<"vxlan", "vni", "100">>)>>,
  {At(0, <<"vni", "200">>), At(0, <<"undo", "vni", "200">>), At(0, <<"vni", "16777216">>), At(0, <<"bridge-domain", "10">>),
   At(0, <<"bridge-domain", "20">>), At(0, <<"undo", "bridge-domain", "10">>), At(1, <<"vxlan", "vni", "100">>),
   At(1, <<"vxlan", "vni", "200">>), At(1, <<"vxlan", "vni", "0">>), At(1, <<"undo", "vxlan", "vni">>),
   At(1, <<"undo", "vxlan", "vni", "100">>), At(0, <<"interface", "nve1">>), At(1, <<"vni", "16777216", "head-end">>),
   At(1, <<"undo", "vni", "16777216">>), At(0, <<"quit">>)})

Texts == {VlanTopic, PortTopic, VpnTopic, RouteTopic, BgpTopic, NetworkTopic, AclTopic, PolicyTopic,
             ServiceTopic, StpTopic, FilterTopic, AccountTopic, VtySnippet, LooseSnippet, EvpnTopic}
=============================================================================
