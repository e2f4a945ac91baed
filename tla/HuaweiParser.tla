---------------------------- MODULE HuaweiParser ---------------------------
(***************************************************************************)
(* The normalized configuration the Huawei parser reads off the effective  *)
(* blocks.  The parser assigns fields line by line; a field is written here *)
(* as what the last command that sets it leaves.                           *)
(***************************************************************************)
EXTENDS HuaweiViews, VendorParser

(* --- VLANs ---------------------------------------------------------------- *)

IsVlanLine(ws) == ws[1] = "vlan" \/ Begins(ws, <<"undo", "vlan">>)
VlanWords(ws) == LET rest == Tail(Base(ws)) IN IF Is(rest, <<"batch">>) THEN Tail(rest) ELSE rest
ValidVlanLine(ws) ==
  /\ IsVlanLine(ws) /\ ValidVlans(VlanWords(ws))
  /\ ws[1] = "vlan" /\ ws[2] # "batch" => Len(ws) = 2

MemberPrefixes == {<<"port", "trunk", "allow-pass", "vlan">>, <<"port", "hybrid", "tagged", "vlan">>,
                   <<"port", "hybrid", "untagged", "vlan">>}
PvidPrefixes == {<<"port", "trunk", "pvid", "vlan">>, <<"port", "hybrid", "pvid", "vlan">>}
SinglePrefixes == {<<"port", "default", "vlan">>} \cup PvidPrefixes

(* --- interfaces ----------------------------------------------------------- *)

IsOspfBinding(c) == Begins(c.words, <<"ospf", "enable">>) /\ WordAfter(c.words, "area") # NoWord
\* ACL identities where a traffic filter names one.
FilterAcl(ws) ==
  AclIdentity(From(ws, IndexOf(ws, "acl") + 1), IF Has(Before(ws, "acl"), "ipv6") THEN "ipv6" ELSE "ipv4")
\* A reference carries its place in the order the rules meet references in.
FilterReferences(cs, block) ==
  {[acl |-> FilterAcl(c.words), at |-> c.at, rank |-> <<0, 0, block, c.at>>] :
     c \in Where(cs, LAMBDA c : /\ Begins(c.words, <<"traffic-filter">>) /\ Has(c.words, "acl")
                                /\ FilterAcl(c.words) # NoKey)}

\* A view header that names an interface; VLAN interfaces need a VLAN number.
IsInterfaceView(b) ==
  /\ b.known /\ IsInterface(b.header) /\ Len(InterfaceName(b.header)) = 1
  /\ \A d \in DOMAIN NumberOf : InterfaceName(b.header)[1] = "vlanif" \o d => NumberOf[d] \in VlanIds

InterfaceOfBlock(b) ==
  LET cs == Children(b)
      trunk == NumberIn(InterfaceName(b.header)[1], "eth-trunk") # 0
      isMode(c) == c.words \in AggregationModes
      isTrunk(c) == Begins(c.words, <<"eth-trunk">>)
      mode == LastWord(cs, isMode, 2)
  IN PortOf(b) @@
     [mode |-> IF ~trunk THEN NoWord ELSE IF mode = "lacp-static" THEN mode ELSE "manual",
      modeAt |-> LastLine(cs, isMode),
      allowed |-> MemberList(Entries(cs, <<"port", "trunk", "allow-pass", "vlan">>)),
      tagged |-> MemberList(Entries(cs, <<"port", "hybrid", "tagged", "vlan">>)),
      untagged |-> MemberList(Entries(cs, <<"port", "hybrid", "untagged", "vlan">>)),
      access |-> SingleVlan(cs, {<<"port", "default", "vlan">>}),
      pvid |-> SingleVlan(cs, PvidPrefixes),
      ospf |-> {[process |-> ProcessOf(c.words, 3), at |-> c.at] : c \in Where(cs, IsOspfBinding)},
      policies |-> {[name |-> c.words[2], at |-> c.at] : c \in Where(cs, LAMBDA c : Begins(c.words, <<"traffic-policy">>))},
      filters |-> FilterReferences(cs, b.at),
      trunk |-> LastWord(cs, isTrunk, 2), trunkAt |-> LastLine(cs, isTrunk)]

(* --- BGP ---------------------------------------------------------------------- *)

IsBgpView(b) == b.known /\ Len(b.header) = 2 /\ b.header[1] = "bgp" /\ Numeral(b.header[2])
Unicast == <<"ipv4-family", "unicast">>
Base4 == <<>>     \* the BGP view itself
ValidFamily(f) ==
  \/ f \in {Unicast, <<"ipv4-family", "multicast">>, <<"ipv4-family", "vpnv4">>,
            <<"ipv6-family", "unicast">>, <<"ipv6-family", "vpnv6">>, <<"l2vpn-family", "evpn">>}
  \/ Len(f) = 3 /\ f[1] \in {"ipv4-family", "ipv6-family"} /\ f[2] = "vpn-instance"
CarriesNetworks(f) ==
  \/ f \in {Unicast, <<"ipv4-family", "multicast">>, <<"ipv6-family", "unicast">>}
  \/ Len(f) = 3
\* The address family a command belongs to: the one it enters or stands in.
FamilyOfCommand(c) == IF c.views # <<>> THEN c.views[1] ELSE IF BeginsAny(c.words, BgpFamilies) THEN c.words ELSE Base4
InFamilies(c) == Len(c.views) <= 1 /\ (FamilyOfCommand(c) # Base4 => ValidFamily(FamilyOfCommand(c)))

BgpOf(bs) ==
  LET views == SelectSeq(bs, IsBgpView)
      cs == SelectSeq(FlattenSeq([i \in DOMAIN views |-> views[i].commands]), InFamilies)
      in(f) == SelectSeq(cs, LAMBDA c : FamilyOfCommand(c) = f)
      vpn(f) == IF Len(f) = 3 THEN f[3] ELSE NoWord
      version(f) == IF f[1] = "ipv6-family" THEN 6 ELSE 4
      families == {FamilyOfCommand(c) : c \in ToSet(cs)}
  IN IF views = <<>> THEN [localAs |-> NoWord, scopes |-> {}]
     ELSE [localAs |-> views[1].header[2],
           scopes |-> ScopesOf(NoWord, views[1].at, families, in, Unicast, vpn, CarriesNetworks, version)]

\* all_commands: headers, and commands in no view but a BGP address family.
AllCommands(bs) ==
  LET read(b) == SelectSeq(b.commands, LAMBDA d :
        \/ d.views = <<>>
        \/ /\ Begins(b.header, <<"bgp">>) /\ Len(d.views) = 1
           /\ \/ BeginsAny(d.views[1], {<<"ipv4-family">>, <<"ipv6-family">>})
              \/ Is(d.views[1], <<"l2vpn-family", "evpn">>))
      fact(b, d) == [words |-> d.words, at |-> d.at, view |-> b.header, known |-> b.known]
      facts(b) == <<fact(b, b @@ [words |-> b.header])>> \o [i \in DOMAIN read(b) |-> fact(b, read(b)[i])]
  IN FlattenSeq([i \in DOMAIN bs |-> facts(bs[i])])

(* --- the configuration ------------------------------------------------------------ *)

\* Lines whose arguments the parser rejects, reported where they stand.
MalformedNetwork(c) ==
  LET f == IF FamilyOfCommand(c) = Base4 THEN Unicast ELSE FamilyOfCommand(c) IN
  /\ InFamilies(c) /\ c.words[1] = "network" /\ CarriesNetworks(f)
  /\ BgpNetwork(Tail(c.words), IF f[1] = "ipv6-family" THEN 6 ELSE 4) = NoKey
MalformedIn(bs) ==
  {b.at : b \in {b \in ToSet(bs) :
     \/ IsVlanLine(b.header) /\ ~ValidVlanLine(b.header)
     \/ IsInterface(b.header) /\ \E d \in DOMAIN NumberOf :
          InterfaceName(b.header) = <<"vlanif" \o d>> /\ NumberOf[d] \notin VlanIds}}
  \cup UNION {{c.at : c \in Where(b.commands, LAMBDA c :
         \/ /\ IsInterfaceView(b) /\ c.views = <<>>
            /\ MalformedMember(c, MemberPrefixes) \/ MalformedSingle(c, SinglePrefixes)
         \/ IsBgpView(b) /\ MalformedNetwork(c))} : b \in ToSet(bs)}

\* The words in which VRP differs from Comware.
Vrp == [match |-> <<"if-match", "ip-prefix">>, applied |-> <<"traffic", "policy">>,
        prefixes |-> [f \in {4, 6} |-> <<"ip", IF f = 4 THEN "ip-prefix" ELSE "ipv6-prefix">>]]

\* Mutant: the VLANs of the last declaration replace the earlier ones.
LastDeclaredVlans(bs) ==
  LET i == SelectLastInSeq(bs, LAMBDA b : ValidVlanLine(b.header)) IN
  VlansOf(IF i = 0 THEN <<>> ELSE <<bs[i]>>, ValidVlanLine, VlanWords)
DeclaredVlans(bs) == VlansOf(bs, ValidVlanLine, VlanWords)

\* Mutant: interfaces are read before the views are reduced.
HuaweiParsedRawInterfaces(lines, mode, initial) ==
  LET index == IndexBlocks(Placed(lines, mode, initial), initial)
      bs == Effective(index)
      interfaces == {InterfaceOfBlock(b) : b \in {b \in ToSet(index) : IsInterfaceView(b)}}
      global == UNION {FilterReferences(<<Reduction!Command(b @@ [words |-> b.header], <<>>)>>, b.at) : b \in ToSet(bs)}
  IN Extended(Normalized(bs, interfaces, global, Vrp),
     [facts |-> AllCommands(bs), ignored |-> Superseded(index),
      vlans |-> DeclaredVlans(bs), bgp |-> BgpOf(bs),
      sensitive |-> SensitiveLines(lines),
      malformed |-> MalformedIn(bs) \cup MalformedPrefixes(bs, Vrp)])

\* parse, for the text whose lines are given.
HuaweiParsed(lines, mode, initial) ==
  LET index == IndexBlocks(Placed(lines, mode, initial), initial)
      bs == Effective(index)
      interfaces == {InterfaceOfBlock(b) : b \in {b \in ToSet(bs) : IsInterfaceView(b)}}
      global == UNION {FilterReferences(<<Reduction!Command(b @@ [words |-> b.header], <<>>)>>, b.at) : b \in ToSet(bs)}
  IN Extended(Normalized(bs, interfaces, global, Vrp),
     [facts |-> AllCommands(bs), ignored |-> Superseded(index),
      vlans |-> DeclaredVlans(bs), bgp |-> BgpOf(bs),
      sensitive |-> SensitiveLines(lines),
      malformed |-> MalformedIn(bs) \cup MalformedPrefixes(bs, Vrp)])
=============================================================================
