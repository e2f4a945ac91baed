----------------------------- MODULE H3CParser -----------------------------
(***************************************************************************)
(* The normalized configuration the H3C parser reads off the effective     *)
(* blocks.  The VRP spelling of hybrid port lists, which it reads too, is  *)
(* left out, and so is the command catalogue.                              *)
(***************************************************************************)
EXTENDS H3CViews, VendorParser

CONSTANT IrfPort     \* the second word of an IRF port view -> <<member, side>>

(* --- VLANs ---------------------------------------------------------------- *)

IsVlanLine(ws) == ws[1] = "vlan" \/ Begins(ws, <<"undo", "vlan">>)
VlanWords(ws) ==
  LET rest == Tail(Base(ws)) IN IF Undone(ws) /\ Is(rest, <<"batch">>) THEN Tail(rest) ELSE rest
ValidVlanLine(ws) ==
  /\ IsVlanLine(ws) /\ ValidVlans(VlanWords(ws))
  /\ Undone(ws) \/ Len(ws) = 2 \/ (Len(ws) = 4 /\ ws[3] = "to")

TrunkPrefix == <<"port", "trunk", "permit", "vlan">>
HybridPrefix == <<"port", "hybrid", "vlan">>
PvidPrefixes == {<<"port", "trunk", "pvid", "vlan">>, <<"port", "hybrid", "pvid", "vlan">>}
SinglePrefixes == {<<"port", "access", "vlan">>} \cup PvidPrefixes
IsHybrid(c) == Begins(Base(c.words), HybridPrefix) /\ Last(c.words) \in {"tagged", "untagged"}
\* The VLANs of a hybrid port have no lines of their own: they stand at its header.
HybridList(b, tag) ==
  LET es == SelectSeq(Children(b), LAMBDA c : IsHybrid(c) /\ Last(c.words) = tag)
      list == MemberList([i \in DOMAIN es |-> [undo |-> Undone(es[i].words), at |-> b.at,
                                               args |-> Front(From(Base(es[i].words), 4))]])
  IN [list EXCEPT !.except = {}]

(* --- interfaces ----------------------------------------------------------- *)

VrpInterfaces == {"vlanif", "eth-trunk"}
InvalidVlanInterface(name) ==
  \E d \in DOMAIN NumberOf : name = "vlan-interface" \o d /\ NumberOf[d] \notin VlanIds
IsInterfaceView(b) ==
  /\ b.known /\ IsInterface(b.header) /\ Len(InterfaceName(b.header)) = 1
  /\ ~InvalidVlanInterface(InterfaceName(b.header)[1])
  /\ \A t \in VrpInterfaces, d \in DOMAIN NumberOf : InterfaceName(b.header)[1] # t \o d

IsOspfBinding(c) == Len(c.words) >= 4 /\ c.words[1] = "ospf" /\ Numeral(c.words[2]) /\ c.words[3] = "area"
\* The ACL a packet filter names, between an optional "ipv6" and the direction.
FilterWords(ws) == Front(From(ws, IF ws[2] = "ipv6" THEN 3 ELSE 2))
IsPacketFilter(ws) ==
  /\ Begins(ws, <<"packet-filter">>) /\ Last(ws) \in Directions /\ FilterWords(ws) # <<>>
  /\ Len(FilterWords(ws)) = 1 \/ (Len(FilterWords(ws)) = 2 /\ FilterWords(ws)[1] = "name")
FilterAcl(ws) == AclIdentity(FilterWords(ws), IF ws[2] = "ipv6" THEN "ipv6" ELSE "ipv4")

InterfaceOfBlock(b) ==
  LET cs == Children(b)
      isMode(c) == IsAggregate(b.header) /\ c.words \in AggregationModes
      isLinkMode(c) == Len(c.words) = 3 /\ Is(c.words, <<"port", "link-mode">>) /\ c.words[3] \in {"bridge", "route"}
      isGroup(c) == Len(c.words) = 4 /\ Is(c.words, <<"port", "link-aggregation", "group">>) /\ Numeral(c.words[4])
      isPolicy(c) == Len(c.words) = 5 /\ Is(c.words, <<"qos", "apply", "policy">>) /\ c.words[5] \in Directions
  IN PortOf(b) @@
     [mode |-> IF ~IsAggregate(b.header) THEN NoWord
               ELSE IF LastWord(cs, isMode, 1) = "link-aggregation" THEN "dynamic" ELSE "static",
      modeAt |-> LastLine(cs, isMode),
      linkMode |-> LastWord(b.commands, isLinkMode, 3),
      allowed |-> MemberList(Entries(cs, TrunkPrefix)),
      tagged |-> HybridList(b, "tagged"), untagged |-> HybridList(b, "untagged"),
      access |-> SingleVlan(cs, {<<"port", "access", "vlan">>}), pvid |-> SingleVlan(cs, PvidPrefixes),
      ospf |-> {[process |-> c.words[2], at |-> c.at] : c \in Where(cs, IsOspfBinding)},
      policies |-> {[name |-> c.words[4], at |-> c.at] : c \in Where(cs, isPolicy)},
      filters |-> {[acl |-> FilterAcl(c.words), at |-> c.at, rank |-> <<0, 0, b.at, c.at>>] :
                     c \in Where(cs, LAMBDA c : IsPacketFilter(c.words) /\ FilterAcl(c.words) # NoKey)},
      trunk |-> LastWord(cs, isGroup, 4), trunkAt |-> LastLine(cs, isGroup)]

(* --- BGP ---------------------------------------------------------------------- *)

IsBgpView(b) == b.known /\ Len(b.header) = 2 /\ b.header[1] = "bgp" /\ Numeral(b.header[2])
Unicast == <<"address-family", "ipv4", "unicast">>
ValidFamily(f) ==
  \/ Len(f) = 3 /\ f[1] = "address-family" /\ f[2] \in {"ipv4", "ipv6"} /\ f[3] \in {"unicast", "multicast"}
  \/ f \in {<<"address-family", "vpnv4">>, <<"address-family", "vpnv6">>, <<"address-family", "l2vpn", "evpn">>}
CarriesNetworks(f) == Len(f) = 3 /\ f[2] \in {"ipv4", "ipv6"}
OpensVpn(ws) == Len(ws) = 3 /\ Is(ws, <<"ip", "vpn-instance">>)
\* A VPN view holds a BGP view of its own; root is the VPN, or none for the
\* process, and inner the views below it.
RootOf(c) == IF c.views # <<>> /\ OpensVpn(c.views[1]) THEN c.views[1][3] ELSE NoWord
InnerViews(c) == IF RootOf(c) = NoWord THEN c.views ELSE Tail(c.views)
FamilyOfCommand(c) ==
  IF InnerViews(c) # <<>> THEN InnerViews(c)[1]
  ELSE IF Begins(c.words, <<"address-family">>) THEN c.words ELSE <<>>
InFamilies(c) ==
  /\ Len(InnerViews(c)) <= 1 /\ ~(OpensVpn(c.words) /\ InnerViews(c) = <<>>)
  /\ FamilyOfCommand(c) # <<>> => ValidFamily(FamilyOfCommand(c))
Version(f) == IF f[2] = "ipv6" THEN 6 ELSE 4

BgpOf(bs) ==
  LET views == SelectSeq(bs, IsBgpView)
      cs == FlattenSeq([i \in DOMAIN views |-> views[i].commands])
      opens(v) == SelectSeq(cs, LAMBDA c : c.views = <<>> /\ OpensVpn(c.words) /\ c.words[3] = v)
      roots == {c.words[3] : c \in Where(cs, LAMBDA c : c.views = <<>> /\ OpensVpn(c.words))}
      of(r) == SelectSeq(cs, LAMBDA c : InFamilies(c) /\ RootOf(c) = r)
      under(r, at) ==
        ScopesOf(r, at, {FamilyOfCommand(c) : c \in ToSet(of(r))},
                 LAMBDA f : SelectSeq(of(r), LAMBDA c : FamilyOfCommand(c) = f),
                 Unicast, LAMBDA f : NoWord, CarriesNetworks, Version)
  IN IF views = <<>> THEN [localAs |-> NoWord, scopes |-> {}]
     ELSE [localAs |-> views[1].header[2],
           scopes |-> under(NoWord, views[1].at) \cup UNION {under(v, opens(v)[1].at) : v \in roots}]

\* all_commands: headers, and commands in no view but those of BGP.
AllCommands(bs) ==
  LET read(b) == SelectSeq(b.commands, LAMBDA d :
        \/ d.views = <<>>
        \/ IsBgp(b.header) /\ Len(d.views) = 1 /\ BeginsAny(d.views[1], BgpViews)
        \/ /\ IsBgp(b.header) /\ Len(d.views) = 2
           /\ Begins(d.views[1], <<"ip", "vpn-instance">>) /\ Begins(d.views[2], <<"address-family">>))
      fact(b, d) == [words |-> d.words, at |-> d.at, view |-> b.header, known |-> b.known]
      facts(b) == <<fact(b, b @@ [words |-> b.header])>> \o [i \in DOMAIN read(b) |-> fact(b, read(b)[i])]
  IN FlattenSeq([i \in DOMAIN bs |-> facts(bs[i])])

(* --- IRF --------------------------------------------------------------------------- *)

\* Two stacked members whose ports, the last named of each, are on the same side
\* cannot be cabled to each other; the lines count wherever they stand.
IrfConflicts(ls) ==
  LET ports == SelectSeq(ls, LAMBDA l : Len(l.words) = 2 /\ l.words[1] = "irf-port" /\ l.words[2] \in DOMAIN IrfPort)
      member(l) == IrfPort[l.words[2]][1]
      last(m) == ports[SelectLastInSeq(ports, LAMBDA l : member(l) = m)]
      members == {member(l) : l \in ToSet(ports)}
      sides == {IrfPort[last(m).words[2]][2] : m \in members}
      bound == \E l \in ToSet(ls) : Len(l.words) = 4 /\ Is(l.words, <<"port", "group", "interface">>)
  IN IF bound /\ Cardinality(members) = 2 /\ Cardinality(sides) = 1 THEN {last(Max(members)).at} ELSE {}

(* --- the configuration ------------------------------------------------------------ *)

MalformedNetwork(c) ==
  LET f == IF FamilyOfCommand(c) = <<>> THEN Unicast ELSE FamilyOfCommand(c) IN
  InFamilies(c) /\ c.words[1] = "network" /\ CarriesNetworks(f) /\ BgpNetwork(Tail(c.words), Version(f)) = NoKey
MalformedHybrid(c) ==
  IsHybrid(c) /\ LET vs == Front(From(Base(c.words), 4)) IN vs # <<"all">> /\ ~ValidVlans(vs)
MalformedIn(bs) ==
  {b.at : b \in {b \in ToSet(bs) :
     \/ IsVlanLine(b.header) /\ ~ValidVlanLine(b.header)
     \/ IsInterface(b.header) /\ Len(InterfaceName(b.header)) = 1 /\ InvalidVlanInterface(InterfaceName(b.header)[1])}}
  \cup UNION {{c.at : c \in Where(b.commands, LAMBDA c :
         \/ /\ IsInterfaceView(b) /\ c.views = <<>>
            /\ MalformedHybrid(c) \/ MalformedMember(c, {TrunkPrefix}) \/ MalformedSingle(c, SinglePrefixes)
         \/ IsBgpView(b) /\ MalformedNetwork(c))} : b \in ToSet(bs)}

\* The words in which Comware differs from VRP.
Comware == [match |-> <<"if-match", "ip", "address", "prefix-list">>, applied |-> <<"qos", "policy">>,
            prefixes |-> [f \in {4, 6} |-> <<IF f = 4 THEN "ip" ELSE "ipv6", "prefix-list">>]]

DeclaredVlans(bs) == VlansOf(bs, ValidVlanLine, VlanWords)

\* parse, for the text whose lines are given.
H3CParsed(lines, mode, initial) ==
  LET index == IndexBlocks(Placed(lines, mode, initial), initial)
      bs == Effective(index)
      interfaces == {InterfaceOfBlock(b) : b \in {b \in ToSet(bs) : IsInterfaceView(b)}}
  IN Extended(Normalized(bs, interfaces, {}, Comware),
     [facts |-> AllCommands(bs), ignored |-> Superseded(index),
      vlans |-> DeclaredVlans(bs), bgp |-> BgpOf(bs),
      sensitive |-> SensitiveLines(lines), irf |-> IrfConflicts(lines),
      malformed |-> MalformedIn(bs) \cup MalformedPrefixes(bs, Comware)])
=============================================================================
