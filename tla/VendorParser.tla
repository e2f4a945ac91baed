---------------------------- MODULE VendorParser ---------------------------
(***************************************************************************)
(* What both parsers read off the effective blocks in the same way.  The   *)
(* code assigns fields line by line; a field is written here as what the   *)
(* last command that sets it leaves.                                       *)
(***************************************************************************)
EXTENDS CommandSemantics

CONSTANT SensitiveWords   \* words that make a line sensitive

VlanIds == 1..4094

\* A snippet loses the margin its lines share; in a view it stands one deeper.
Placed(ls, mode, initial) ==
  LET margin == IF mode = "snippet" /\ ls # <<>> THEN Min({l.indent : l \in ToSet(ls)}) ELSE 0
      depth == IF initial = <<>> THEN 0 ELSE 1
  IN [i \in DOMAIN ls |-> [ls[i] EXCEPT !.indent = @ - margin + depth]]

Children(b) == SelectSeq(b.commands, LAMBDA c : c.views = <<>>)
Where(s, P(_)) == {c \in ToSet(s) : P(c)}

\* The VLANs whose last mention declares them, at the first line since it was undone.
VlansOf(bs, ValidVlanLine(_), VlanWords(_)) ==
  LET says(i, undo) == ValidVlanLine(bs[i].header) /\ Undone(bs[i].header) = undo
      ids(i) == Vlans(VlanWords(bs[i].header))
      declared(v) == {i \in DOMAIN bs : says(i, FALSE) /\ v \in ids(i)
                        /\ \A j \in i..Len(bs) : says(j, TRUE) => v \notin ids(j)}
      known == {v \in UNION {ids(i) : i \in {i \in DOMAIN bs : says(i, FALSE)}} : declared(v) # {}}
  IN [v \in known |-> bs[Min(declared(v))].at]

\* The VLAN list a port carries, from the commands about it in text order: its
\* members with their lines, "all" and what all leaves out.
MemberList(es) ==
  LET all(i) == es[i].args = <<"all">>
      undo(i) == es[i].undo
      ids(i) == IF ~all(i) /\ ValidVlans(es[i].args) THEN Vlans(es[i].args) ELSE {}
      lastAll == SelectLastInSubSeq([i \in DOMAIN es |-> all(i)], 1, Len(es), LAMBDA x : x)
      since(v) == {i \in DOMAIN es : /\ ~undo(i) /\ v \in ids(i) /\ i > lastAll
                     /\ \A j \in i..Len(es) : undo(j) => v \notin ids(j)}
      named == UNION {ids(i) : i \in DOMAIN es}
      open == lastAll # 0 /\ ~undo(lastAll)
  IN [vlans |-> [v \in {v \in named : since(v) # {}} |-> es[Min(since(v))].at],
      all |-> open,
      except |-> {v \in named : open /\ \E i \in DOMAIN es :
                    /\ undo(i) /\ v \in ids(i) /\ i > lastAll
                    /\ \A j \in i..Len(es) : ~undo(j) => v \notin ids(j)}]
\* The commands that start with prefix, as entries of such a list.
Entries(cs, prefix) ==
  LET es == SelectSeq(cs, LAMBDA c : Is(Base(c.words), prefix)) IN
  [i \in DOMAIN es |-> [undo |-> Undone(es[i].words), at |-> es[i].at,
                        args |-> From(Base(es[i].words), Len(prefix) + 1)]]

(* --- interfaces ----------------------------------------------------------- *)

\* The line of the last command P selects, 0 where there is none.
LastLine(cs, P(_)) == LET i == SelectLastInSeq(cs, P) IN IF i = 0 THEN 0 ELSE cs[i].at
\* The n-th word of the last command P selects.
LastWord(cs, P(_), n) ==
  LET i == SelectLastInSeq(cs, P) IN IF i = 0 \/ Len(cs[i].words) < n THEN NoWord ELSE cs[i].words[n]

\* A VLAN a single-valued port command selects, and the line that set or cleared it.
SingleVlan(cs, prefixes) ==
  LET args(c) == LET p == CHOOSE p \in prefixes : Is(Base(c.words), p)
                 IN From(Base(c.words), Len(p) + 1)
      about(c) == \E p \in prefixes : Is(Base(c.words), p)
      valid(c) == about(c) /\ ((Len(args(c)) = 1 /\ ValidVlans(args(c))) \/ (Undone(c.words) /\ args(c) = <<>>))
      i == SelectLastInSeq(cs, valid)
  IN [id |-> IF i = 0 THEN 0 ELSE IF Undone(cs[i].words) THEN 0 ELSE NumberOf[args(cs[i])[1]],
      at |-> LastLine(cs, about)]

DynamicAddress == {"dhcp-alloc", "negotiated", "ppp-negotiate", "unnumbered"}
IsStatic4(c) == Begins(c.words, <<"ip", "address">>) /\ c.words[3] \notin DynamicAddress
IsStatic6(c) == /\ Begins(c.words, <<"ipv6", "address">>) /\ Len(c.words) >= 4 /\ Numeral(c.words[4])
                /\ Len(c.words) = 4 \/ From(c.words, 5) = <<"eui-64">>
ProcessOf(ws, n) == IF Len(ws) >= n /\ Numeral(ws[n]) THEN ws[n] ELSE "1"
IsVpnBinding(c) == BindsVpn(c.words)

\* What both dialects say of an interface in the same words.
PortOf(b) ==
  LET cs == Children(b)
      isLink(c) == Begins(c.words, <<"port", "link-type">>)
      noLink(c) == c.words = <<"undo", "port", "link-type">>
      isShut(c) == Base(c.words) = <<"shutdown">>
      bound == SelectLastInSeq(cs, IsVpnBinding)
  IN [name |-> InterfaceName(b.header)[1], at |-> b.at,
      linkType |-> IF SelectLastInSeq(cs, noLink) > SelectLastInSeq(cs, isLink) THEN NoWord ELSE LastWord(cs, isLink, 3),
      linkTypeAt |-> LastLine(cs, isLink),
      addresses |-> {[net |-> From(c.words, 3), at |-> c.at, sub |-> Has(c.words, "sub")] : c \in Where(cs, IsStatic4)},
      addresses6 |-> {[net |-> SubSeq(c.words, 3, 4), at |-> c.at] : c \in Where(cs, IsStatic6)},
      isis |-> {[process |-> ProcessOf(c.words, 3), at |-> c.at] :
                  c \in Where(cs, LAMBDA c : Is(c.words, <<"isis", "enable">>))},
      shutdown |-> LastWord(cs, isShut, 1) = "shutdown", shutdownAt |-> LastLine(cs, isShut),
      vpn |-> IF bound = 0 THEN NoWord ELSE IF Undone(cs[bound].words) THEN NoWord ELSE cs[bound].words[4],
      vpnAt |-> LastLine(cs, IsVpnBinding)]

(* --- routing processes ------------------------------------------------------ *)

IsOspfView(b) ==
  /\ b.known /\ b.header[1] = "ospf"
  /\ LET rest == From(b.header, IF Len(b.header) >= 2 /\ Numeral(b.header[2]) THEN 3 ELSE 2) IN
     Len(rest) % 2 = 0 /\ \A i \in DOMAIN rest : i % 2 = 1 => rest[i] \in {"router-id", "vpn-instance"}
OspfOfBlock(b) ==
  [process |-> ProcessOf(b.header, 2), at |-> b.at, vpn |-> WordAfter(b.header, "vpn-instance"),
   networks |-> {[area |-> IF c.views = <<>> THEN "unknown" ELSE c.views[1][2],
                  address |-> c.words[2], wildcard |-> c.words[3], at |-> c.at] :
                   c \in Where(b.commands, LAMBDA c : /\ Begins(c.words, <<"network">>) /\ Len(c.words) >= 3
                                                      /\ c.views # <<>> => Len(c.views) = 1 /\ Begins(c.views[1], <<"area">>))}]

IsIsisView(b) ==
  LET rest == From(b.header, IF Len(b.header) >= 2 /\ Numeral(b.header[2]) THEN 3 ELSE 2) IN
  b.header[1] = "isis" /\ (rest = <<>> \/ (Len(rest) = 2 /\ rest[1] = "vpn-instance"))
IsisOfBlock(b) ==
  [process |-> ProcessOf(b.header, 2), at |-> b.at, vpn |-> WordAfter(b.header, "vpn-instance"),
   net |-> \E c \in ToSet(Children(b)) : Begins(c.words, <<"network-entity">>)]

(* --- BGP ---------------------------------------------------------------------- *)

IsPeerCommand(c) ==
  /\ Begins(c.words, <<"peer">>) /\ Len(c.words) >= 3
  /\ CASE c.words[3] \in {"as-number", "group"} -> Len(c.words) = 4
       [] c.words[3] = "route-policy" -> Len(c.words) = 5 /\ c.words[5] \in {"import", "export"}
       [] c.words[3] = "enable" -> Len(c.words) = 3
       [] c.words[3] = "description" -> Len(c.words) >= 4
       [] OTHER -> FALSE
\* A dynamic AS range: the group is known, what it means is not.
IsVagueGroup(c) ==
  Begins(c.words, <<"peer">>) /\ Len(c.words) # 4 /\ Is(From(c.words, 3), <<"as-number">>) /\ ~IsAddress(c.words[2])
IsGroupCommand(c) == Begins(c.words, <<"group">>)

PoliciesIn(cs) ==
  {[name |-> c.words[4], at |-> c.at] : c \in Where(cs, LAMBDA c : c.words[1] = "peer" /\ Len(c.words) = 5)}
\* The peers and groups of one scope, from its commands in text order.
PeersIn(cs) ==
  LET of(a) == SelectSeq(cs, LAMBDA c : IsPeerCommand(c) /\ c.words[2] = a) IN
  {[address |-> a, at |-> of(a)[1].at, policies |-> PoliciesIn(of(a)),
    remoteAs |-> LastWord(of(a), LAMBDA c : c.words[3] = "as-number", 4),
    group |-> LastWord(of(a), LAMBDA c : c.words[3] = "group", 4),
    groupAt |-> LastLine(of(a), LAMBDA c : c.words[3] = "group")] :
     a \in {c.words[2] : c \in Where(cs, LAMBDA c : IsPeerCommand(c) /\ IsAddress(c.words[2]))}}
GroupsIn(cs) ==
  LET mentions(c) == IsGroupCommand(c) \/ (IsPeerCommand(c) /\ ~IsAddress(c.words[2])) \/ IsVagueGroup(c)
      of(g) == SelectSeq(cs, LAMBDA c : mentions(c) /\ c.words[2] = g)
      last(g) == SelectLastInSeq(of(g), LAMBDA c : IsGroupCommand(c) \/ IsVagueGroup(c))
  IN {[name |-> g, policies |-> PoliciesIn(of(g)),
       remoteAs |-> LastWord(of(g), LAMBDA c : IsPeerCommand(c) /\ c.words[3] = "as-number", 4),
       declared |-> \E c \in ToSet(of(g)) : IsGroupCommand(c),
       type |-> LastWord(of(g), LAMBDA c : IsGroupCommand(c) /\ Len(c.words) >= 3, 3),
       known |-> IF last(g) = 0 THEN TRUE
                 ELSE LET ws == of(g)[last(g)].words IN
                      IsGroupCommand(of(g)[last(g)]) /\ Len(ws) = 3 /\ ws[3] \in {"internal", "external"}] :
       g \in {c.words[2] : c \in Where(cs, mentions)}}
NetworksIn(cs, family) ==
  {[net |-> BgpNetwork(Tail(c.words), family)[1], at |-> c.at, policy |-> WordAfter(c.words, "route-policy")] :
     c \in Where(cs, LAMBDA c : c.words[1] = "network" /\ BgpNetwork(Tail(c.words), family) # NoKey)}

\* The scopes under one BGP view: the view itself, opened at the given line, and
\* its address families, each with the commands in(f) it holds.  A network
\* typed in the view itself belongs to its IPv4 unicast family.
ScopesOf(root, at, families, in(_), unicast, vpn(_), carries(_), version(_)) ==
  LET stray(f) == IF f # unicast THEN <<>> ELSE SelectSeq(in(<<>>), LAMBDA c : c.words[1] = "network")
      scope(f) == [root |-> root, family |-> f, vpn |-> vpn(f),
                   at |-> IF f = <<>> \/ in(f) = <<>> THEN at ELSE in(f)[1].at,
                   peers |-> PeersIn(in(f)), groups |-> GroupsIn(in(f)),
                   networks |-> IF carries(f) THEN NetworksIn(in(f) \o stray(f), version(f)) ELSE {}]
  IN {scope(f) : f \in families \cup {<<>>} \cup (IF stray(unicast) # <<>> THEN {unicast} ELSE {})}

(* --- access lists and policies -------------------------------------------------- *)

AclType(id, h) ==
  LET number == IF id[2] = "number" THEN id[3] ELSE WordAfter(h, "number")
      n == IF Numeral(number) THEN NumberOf[number] ELSE 0
  IN IF id[2] = "number" \/ (Has(h, "number") /\ Numeral(number))
     THEN IF n \in 2000..2999 THEN "basic" ELSE IF n \in 3000..3999 THEN "advanced" ELSE "unknown"
     ELSE IF Has(h, "advanced") \/ Has(h, "advance") THEN "advanced" ELSE IF Has(h, "basic") THEN "basic" ELSE "unknown"

IsAclView(b) == b.known /\ Begins(b.header, <<"acl">>) /\ AclIdentity(Tail(b.header), "ipv4") # NoKey
IsRuleLine(c) == IsRule(c.words)
RulesOf(cs, type, family) ==
  LET of(n) == SelectSeq(cs, LAMBDA c : IsRuleLine(c) /\ c.words[2] = n) IN
  {[id |-> n, at |-> Last(of(n)).at,
    unrestricted |-> Len(of(n)) = 1 /\ Unrestricted(of(n)[1].words, type, family)] :
     n \in {c.words[2] : c \in Where(cs, IsRuleLine)}}

\* Each ACL under the identity it was first met by: a later header adds its
\* name and its number to that identity, unless they name two ACLs.
AclsOf(bs) ==
  LET entered(s, b) ==
        LET id == AclIdentity(Tail(b.header), "ipv4")
            number == WordAfter(b.header, "number")
            keys == {id} \cup (IF id[2] = "name" /\ Has(b.header, "number") /\ Numeral(number)
                               THEN {<<id[1], "number", number>>} ELSE {})
            canon(k) == LET known == {a \in s.aliases : a[1] = k} IN
                        IF known = {} THEN k ELSE (CHOOSE a \in known : TRUE)[2]
            met == {canon(k) : k \in keys} \cap {a.key : a \in s.acls}
            key == IF met = {} THEN id ELSE CHOOSE k \in met : TRUE
            acl == IF met = {} THEN [key |-> id, at |-> b.at, type |-> AclType(id, b.header), commands |-> <<>>]
                   ELSE CHOOSE a \in s.acls : a.key = key
        IN IF Cardinality(met) > 1 THEN [s EXCEPT !.clashes = @ \cup {b.at}]
           ELSE [acls |-> (s.acls \ {acl}) \cup {[acl EXCEPT !.commands = @ \o Children(b)]}, clashes |-> s.clashes,
                 aliases |-> {a \in s.aliases : a[1] \notin keys} \cup {<<k, key>> : k \in keys}]
      end == FoldLeft(entered, [acls |-> {}, aliases |-> {}, clashes |-> {}], SelectSeq(bs, IsAclView))
      raw(a) == \E c \in ToSet(a.commands) : Begins(c.words, <<"rule">>) /\ ~IsRuleLine(c)
  IN [end EXCEPT !.acls = {[key |-> a.key, at |-> a.at, rules |-> RulesOf(a.commands, a.type, a.key[1]), raw |-> raw(a)] : a \in @}]

MatchReferences(b, kind, owner) ==
  {[acl |-> MatchedAcl(c.words), at |-> c.at, rank |-> <<kind, owner, b.at, c.at>>] :
     c \in Where(Children(b), LAMBDA c : /\ Begins(c.words, <<"if-match", "acl">>) \/ Begins(c.words, <<"if-match", "ipv6", "acl">>)
                                         /\ MatchedAcl(c.words) # NoKey)}

\* _valid_prefix: an address, a mask and an ordered ge/le pair above the mask.
ValidPrefix(ws, family) ==
  LET i == CHOOSE i \in DOMAIN ws : ws[i] \in {"permit", "deny"}
      net == SubSeq(ws, i + 1, i + 2)
      rest == From(ws, i + 3)
      bits == NumberOf[NetworkOf[net].bits]
      of(keys, default) == LET ks == {k \in DOMAIN rest : k % 2 = 1 /\ rest[k] \in keys} IN
                           IF ks = {} THEN default ELSE NumberOf[rest[Max(ks) + 1]]
      low == of({"greater-equal", "ge"}, bits)
      high == of({"less-equal", "le"}, IF family = 4 THEN 32 ELSE 128)
  IN /\ \E j \in DOMAIN ws : ws[j] \in {"permit", "deny"}
     /\ IsNetwork(net) /\ NetworkOf[net].family = family
     /\ Len(rest) % 2 = 0
     /\ \A k \in DOMAIN rest : IF k % 2 = 1 THEN /\ rest[k] \in {"greater-equal", "less-equal", "ge", "le"}
                                                 /\ \A j \in 1..(k - 1) : rest[j] # rest[k]
                               ELSE Numeral(rest[k])
     /\ bits <= low /\ low <= high /\ high <= (IF family = 4 THEN 32 ELSE 128)
Named(bs, prefix) == {b.header[Len(prefix) + 1] : b \in {b \in ToSet(bs) : b.known /\ Begins(b.header, prefix)}}

IsPolicyView(b) ==
  /\ b.known /\ Len(b.header) = 5 /\ b.header[1] = "route-policy"
  /\ b.header[3] \in {"permit", "deny"} /\ b.header[4] = "node" /\ Numeral(b.header[5])
\* A policy with the prefix lists and ACLs all its nodes match; match are the
\* words that stand before the names of IPv4 prefix lists.
PolicyOf(bs, name, match) ==
  LET nodes == SelectSeq(bs, LAMBDA b : IsPolicyView(b) /\ b.header[2] = name)
      cs == FlattenSeq([i \in DOMAIN nodes |-> Children(nodes[i])])
      v6(c, kind) == /\ Len(c.words) >= 5 /\ Is(c.words, <<"if-match", "ipv6">>)
                     /\ c.words[3] \in {"address", "next-hop", "route-source"} /\ c.words[4] = kind
  IN [name |-> name, at |-> nodes[1].at,
      prefixes |-> UNION {{[name |-> c.words[i], family |-> 4, at |-> c.at] : i \in (Len(match) + 1)..Len(c.words)} :
                            c \in Where(cs, LAMBDA c : Begins(c.words, match))}
                   \cup {[name |-> c.words[5], family |-> 6, at |-> c.at] :
                           c \in Where(cs, LAMBDA c : v6(c, "prefix-list") /\ Len(c.words) = 5)},
      acls |-> UNION {MatchReferences(b, 1, nodes[1].at) \cup
                      {[acl |-> AclIdentity(From(c.words, 5), "ipv6"), at |-> c.at,
                        rank |-> <<1, nodes[1].at, b.at, c.at>>] :
                         c \in Where(Children(b), LAMBDA c : v6(c, "acl") /\ AclIdentity(From(c.words, 5), "ipv6") # NoKey)} :
                        b \in ToSet(nodes)}]

(* --- lines the parser rejects ------------------------------------------------------ *)

MalformedMember(c, prefixes) ==
  \E p \in prefixes : /\ Is(Base(c.words), p) /\ From(Base(c.words), Len(p) + 1) # <<"all">>
                        /\ ~ValidVlans(From(Base(c.words), Len(p) + 1))
MalformedSingle(c, prefixes) ==
  \E p \in prefixes :
    LET args == From(Base(c.words), Len(p) + 1) IN
    /\ Is(Base(c.words), p) /\ ~(Undone(c.words) /\ args = <<>>) /\ ~(Len(args) = 1 /\ ValidVlans(args))
IsPrefixLine(ws, family, d) == Begins(ws, d.prefixes[family])
MalformedPrefixes(bs, d) ==
  UNION {{b.at : b \in {b \in ToSet(bs) : IsPrefixLine(b.header, f, d) /\ ~ValidPrefix(b.header, f)}} : f \in {4, 6}}

(* --- the configuration ------------------------------------------------------------ *)

IsDefaultPreference(ws) == Len(ws) >= 4 /\ ws[3] = "default-preference"
RoutesOf(bs) ==
  {RouteArguments(From(b.header, 3), RouteFamily(b.header)) @@
   [family |-> RouteFamily(b.header), at |-> b.at, words |-> b.header] :
     b \in {b \in ToSet(bs) : IsRoute(b.header) /\ ~IsDefaultPreference(b.header)}}
SensitiveLines(ls) == {l.at : l \in {l \in ToSet(ls) : \E w \in SensitiveWords : Has(l.words, w)}}

\* What both parsers read off the effective blocks, given the interfaces and the
\* ACL references outside of them; d holds the words the dialects differ in.
Normalized(bs, interfaces, global, d) ==
  LET acls == AclsOf(bs)
      canonical(r) == LET known == {a \in acls.aliases : a[1] = r.acl} IN
                      IF known = {} THEN r ELSE [r EXCEPT !.acl = (CHOOSE a \in known : TRUE)[2]]
      policies == {PolicyOf(bs, n, d.match) : n \in {b.header[2] : b \in {b \in ToSet(bs) : IsPolicyView(b)}}}
      classifiers == SelectSeq(bs, LAMBDA b : b.known /\ Begins(b.header, <<"traffic", "classifier">>))
  IN [blocks |-> bs, interfaces |-> interfaces, routes |-> RoutesOf(bs),
      ospf |-> {OspfOfBlock(b) : b \in {b \in ToSet(bs) : IsOspfView(b)}},
      isis |-> {IsisOfBlock(b) : b \in {b \in ToSet(bs) : IsIsisView(b)}},
      acls |-> acls.acls, clashes |-> acls.clashes,
      aclReferences |-> {canonical(r) : r \in
        global \cup UNION {i.filters : i \in interfaces} \cup UNION {p.acls : p \in policies} \cup
        UNION {MatchReferences(b, 2, b.at) : b \in ToSet(classifiers)}},
      policies |-> policies, classifiers |-> {b.header[3] : b \in ToSet(classifiers)},
      behaviors |-> Named(bs, <<"traffic", "behavior">>),
      trafficPolicies |-> {[name |-> b.header[3],
                            bindings |-> {[classifier |-> c.words[2], behavior |-> c.words[4], at |-> c.at] :
                              c \in Where(Children(b), LAMBDA c : /\ Begins(c.words, <<"classifier">>) /\ Len(c.words) >= 4
                                                                  /\ c.words[3] = "behavior")}] :
                             b \in {b \in ToSet(bs) : b.known /\ Begins(b.header, d.applied)}},
      prefixes |-> UNION {{<<f, b.header[3]>> : b \in {b \in ToSet(bs) :
                             IsPrefixLine(b.header, f, d) /\ ValidPrefix(b.header, f)}} : f \in {4, 6}},
      vpns |-> Named(bs, <<"ip", "vpn-instance">>)]
=============================================================================
