---------------------------- MODULE ViewReduction ---------------------------
(***************************************************************************)
(* The view index and the reduction to effective commands, which both      *)
(* plugins share but for the commands they know: a text is split into      *)
(* blocks, re-entered views are merged, and commands a later line replaces *)
(* or undoes are dropped.                                                  *)
(***************************************************************************)
EXTENDS CommandSemantics

CONSTANTS Nested(_, _),          \* a command of a view that opens a view in it
          BlockKey(_),           \* what makes two headers the same view
          ClauseKey(_, _, _),    \* the single-valued clause a command sets in its view
          UndoSupported(_, _),   \* the undo forms of a view reduced here
          AnyApplied(_),         \* an undo that names a direction and no policy
          SameDirection(_, _),   \* a command such an undo takes back
          BoundToVpn(_),         \* interface commands a new VPN binding takes with it
          Deletable(_),          \* definitions an undo at system level removes whole
          SwitchKey(_)           \* system-view switches, by what they switch

\* The elements of s that are kept, in their order.
Those(s, kept) == FoldLeft(LAMBDA r, x : IF x \in kept THEN Append(r, x) ELSE r, <<>>, s)

(* --- the view index ---------------------------------------------------- *)

Command(l, views) == [words |-> l.words, at |-> l.at, views |-> views]
Block(words, at, known) ==
  [header |-> words, at |-> at, known |-> known, commands |-> <<>>]

\* A prompt stands for the indentation: the prompt of the open view is one deep.
Level(s, l) ==
  LET h == s.blocks[Len(s.blocks)].header IN
  IF l.prompt = NoWord THEN l.indent
  ELSE IF /\ s.open
          /\ \/ IsInterface(h) /\ InterfaceName(h) = <<l.prompt>>
             \/ Len(h) = 2 /\ h[1] \in {"bgp", "ospf"} /\ Numeral(h[2]) /\ h[1] = l.prompt
       THEN 1 ELSE 0

Closed(s) == [s EXCEPT !.open = FALSE, !.views = <<>>, !.previous = <<>>]

Quit(s) ==
  IF s.views # <<>> THEN [s EXCEPT !.views = Front(@), !.previous = <<>>]
  ELSE [s EXCEPT !.open = FALSE, !.previous = <<>>]

Separator(s, level) ==
  [s EXCEPT !.open = @ /\ level # 0, !.previous = <<>>,
            !.views = Those(@, {v \in ToSet(@) : v.level < level})]

Header(s, l) ==
  [blocks |-> Append(s.blocks, Block(l.words, l.at, TRUE)),
   open |-> TRUE, views |-> <<>>, previous |-> <<>>]

Inner(s, l, level) ==
  LET bs == IF s.open THEN s.blocks
            ELSE Append(s.blocks, Block(<<"unknown", "context">>, l.at, FALSE))
      outer == Those(s.views, {v \in ToSet(s.views) : v.level < level})
      views == outer \o Those(s.previous, {p \in ToSet(s.previous) : level > p.level /\ ~Contains(outer, p)})
      this == [level |-> level, view |-> l.words]
      path == [i \in DOMAIN views |-> views[i].view]
      n == Len(bs)
  IN [blocks |-> [bs EXCEPT ![n].commands = Append(@, Command(l, path))],
      open |-> TRUE, previous |-> <<this>>,
      views |-> IF Nested(bs[n].header, l.words) THEN Append(views, this) ELSE views]

Read(s, l) ==
  LET level == Level(s, l) IN
  CASE l.words \in {<<"return">>, <<"system-view">>} -> Closed(s)
    [] l.words = <<"quit">> -> Quit(s)
    [] l.words = <<"#">> -> Separator(s, level)
    [] OTHER -> IF level = 0 THEN Header(s, l) ELSE Inner(s, l, level)

\* index_blocks; a snippet may start inside a view of the caller's choice.
IndexBlocks(lines, initial) ==
  FoldLeft(Read,
           [blocks |-> IF initial = <<>> THEN <<>> ELSE <<Block(initial, 1, TRUE)>>,
            open |-> initial # <<>>, views |-> <<>>, previous |-> <<>>],
           lines).blocks

(* --- keys of views ------------------------------------------------------- *)

\* A name bound to one number, by headers anywhere in the text; a name with
\* two numbers, then a number with two names, binds nothing.
AclClaims(bs) ==
  {<<AclKey(Tail(h)), <<"acl", AclIdentity(Tail(h), "ipv4")[1], "number", WordAfter(h, "number")>>>> :
     h \in {b.header : b \in {b \in ToSet(bs) :
             /\ Begins(b.header, <<"acl">>) /\ Has(b.header, "number")
             /\ AclKey(Tail(b.header)) # NoKey
             /\ AclIdentity(Tail(b.header), "ipv4")[2] = "name"
             /\ Numeral(WordAfter(b.header, "number"))}}}
AclAliases(bs) ==
  LET sure == {c \in AclClaims(bs) : \A d \in AclClaims(bs) : d[1] = c[1] => d = c} IN
  {c \in sure : \A d \in sure : d[2] = c[2] => d = c}
ViewKey(h, aliases) ==
  LET known == {c \in aliases : c[1] = BlockKey(h)} IN
  IF known = {} THEN BlockKey(h) ELSE (CHOOSE c \in known : TRUE)[2]

(* --- what an undo removes ------------------------------------------------ *)

\* ip_interface of two words: an address in the network its mask gives.
InterfaceOf(ws) ==
  IF Len(ws) >= 4 /\ IsNetwork(<<ws[3], ws[4]>>) THEN <<ws[3], NetworkOf[<<ws[3], ws[4]>>]>> ELSE NoKey

\* Mutant: the undo of a public peer reaches into the VPN scopes.
IsPeerRemovalAnywhere(h, c, u) ==
  LET gone == Tail(u.words) IN
  Begins(h, <<"bgp">>) /\ Len(gone) = 2 /\ gone[1] = "peer" /\ Is(c.words, gone)

IsPeerRemoval(h, c, u) ==
  LET gone == Tail(u.words) IN
  /\ Begins(h, <<"bgp">>) /\ Len(gone) = 2 /\ gone[1] = "peer" /\ Is(c.words, gone)
  /\ \/ c.views = u.views
     \/ u.views = <<>> /\ c.views # <<>> /\ ~Has(c.views[1], "vpn-instance")

\* Mutant: undoing one address takes back every address of its family.
RemoveEveryAddress(h, c, u) ==
  LET gone == Tail(u.words) IN
  \/ IsPeerRemoval(h, c, u)
  \/ c.views = u.views /\ Is(c.words, IF gone[1] \in {"ip", "ipv6"} THEN Upto(gone, 2) ELSE gone)

\* _remove_match: the command c is one that the undo u takes back.
RemoveMatch(h, c, u) ==
  LET gone == Tail(u.words) IN
  \/ IsPeerRemoval(h, c, u)
  \/ c.views # u.views /\ Is(c.views, Append(u.views, gone))
  \/ /\ c.views = u.views
     /\ IF gone[1] = "network" /\ Begins(h, <<"bgp">>)
        THEN LET key == ClauseKey(h, gone, u.views) IN
             key # NoKey /\ ClauseKey(h, c.words, c.views) = key
        ELSE IF AnyApplied(gone)
        THEN SameDirection(c.words, gone)
        ELSE IF /\ Len(gone) >= 3 /\ Upto(gone, 2) \in {<<"ip", "address">>, <<"ipv6", "address">>}
                /\ Is(c.words, Upto(gone, 2))
                /\ InterfaceOf(c.words) # NoKey /\ InterfaceOf(gone) # NoKey
        THEN InterfaceOf(c.words) = InterfaceOf(gone) /\ From(c.words, 5) = From(gone, 5)
        ELSE Is(c.words, gone)

(* --- reduction of one view's commands ------------------------------------ *)

SameClause(h, c, d) ==
  LET key == ClauseKey(h, d.words, d.views) IN
  key # NoKey /\ c.views = d.views /\ ClauseKey(h, c.words, c.views) = key
KeptUndo(h, c) ==
  /\ Is(c.words, <<"undo", "network">>) /\ Begins(h, <<"bgp">>)
  /\ ClauseKey(h, Tail(c.words), c.views) = NoKey

\* The commands in force after c, of those in force before it.
Obeyed(h, active, c) ==
  IF KeptUndo(h, c) THEN Append(active, c)
  ELSE IF Undone(c.words) /\ UndoSupported(h, Tail(c.words))
  THEN Those(active, {d \in ToSet(active) : ~RemoveMatch(h, d, c)})
  ELSE Append(Those(active, {d \in ToSet(active) : /\ ~(IsInterface(h) /\ BindsVpn(c.words) /\ BoundToVpn(d.words))
                                                   /\ ~SameClause(h, d, c)}), c)
\* Mutant: undo commands are obeyed in a pass of their own, before replacements.
InForceTwoPasses(b) ==
  LET obeyed(active, c) == IF Undone(c.words) THEN Obeyed(b.header, active, c) ELSE Append(active, c)
      replaced(active, c) == IF Undone(c.words) THEN Append(active, c) ELSE Obeyed(b.header, active, c)
  IN [b EXCEPT !.commands = FoldLeft(replaced, <<>>, FoldLeft(obeyed, <<>>, @))]

InForce(b) ==
  [b EXCEPT !.commands = FoldLeft(LAMBDA active, c : Obeyed(b.header, active, c), <<>>, @)]

(* --- removal and merging of whole views ---------------------------------- *)

\* _route_selector: the destination an undo names, and the hop words after it.
RouteSelector(ws) ==
  LET scoped == ws[3] = "vpn-instance"
      rest == IF scoped THEN From(ws, 5) ELSE From(ws, 3)
  IN IF /\ Len(ws) >= 4 /\ IsRoute(ws) /\ (scoped => Len(ws) >= 6)
        /\ OwnNetwork(Upto(rest, 2)) /\ NetworkOf[Upto(rest, 2)].family = RouteFamily(ws)
     THEN [scope |-> <<<<ws[1], IF scoped THEN ws[4] ELSE NoWord, NetworkOf[Upto(rest, 2)]>>>>,
           tail |-> Joined(Before(From(rest, 3), "description"), InterfaceTypes)]
     ELSE [scope |-> NoKey, tail |-> <<>>]
RemovesRoutes(ws) ==
  /\ RouteSelector(ws).scope # NoKey
  /\ RouteSelector(ws).tail = <<>> \/ RouteArguments(From(ws, 3), RouteFamily(ws)).verdict = "ok"
RouteSelected(h, ws) ==
  /\ RouteSelector(h).scope = RouteSelector(ws).scope
  /\ Is(RouteSelector(h).tail, RouteSelector(ws).tail)

Deletes(ws, h, aliases) ==
  \/ ViewKey(ws, aliases) # NoKey /\ ViewKey(h, aliases) = ViewKey(ws, aliases)
  \/ Is(h, ws)


LinesOf(b) == {b.at} \cup {c.at : c \in ToSet(b.commands)}
\* s without the views P selects; only their headers count as dropped, or all
\* their lines do.
Without(s, P(_), whole) ==
  LET gone == {b \in ToSet(s.merged) : P(b)} IN
  [merged |-> Those(s.merged, {b \in ToSet(s.merged) : ~P(b)}),
   ignored |-> s.ignored \cup UNION {IF whole THEN LinesOf(b) ELSE {b.at} : b \in gone}]

\* The header that stands for a re-entered view; a process keeps its VPN.
MergedHeader(old, new) ==
  IF \/ Len(new) = 2 /\ BeginsAny(old, {<<"ospf">>, <<"isis">>}) /\ Has(old, "vpn-instance")
     \/ Begins(old, <<"acl">>) /\ ~(Has(new, "name") /\ Has(new, "number"))
  THEN old ELSE new
\* Mutant: the header of a re-entered view is not accounted for.
EnteredUnmarked(s, b, aliases) ==
  LET same == {i \in DOMAIN s.merged : ViewKey(b.header, aliases) # NoKey
                 /\ ViewKey(s.merged[i].header, aliases) = ViewKey(b.header, aliases)}
  IN IF same = {} THEN [s EXCEPT !.merged = Append(@, b)]
     ELSE [s EXCEPT !.merged[CHOOSE i \in same : TRUE].commands = @ \o b.commands]
\* Mutant: a re-entered view is a view of its own.
EnteredAlone(s, b, aliases) == [s EXCEPT !.merged = Append(@, b)]
Entered(s, b, aliases) ==
  LET same == {i \in DOMAIN s.merged : ViewKey(b.header, aliases) # NoKey
                 /\ ViewKey(s.merged[i].header, aliases) = ViewKey(b.header, aliases)}
  IN IF same = {} THEN [s EXCEPT !.merged = Append(@, b)]
     ELSE LET i == CHOOSE i \in same : TRUE IN
          [merged |-> [s.merged EXCEPT ![i].header = MergedHeader(@, b.header),
                                       ![i].commands = @ \o b.commands],
           ignored |-> s.ignored \cup {b.at}]

Absorbed(s, b, aliases) ==
  LET gone == Tail(b.header)
      key == SwitchKey(Base(b.header))
  IN IF Undone(b.header) /\ RemovesRoutes(gone)
     THEN LET t == Without(s, LAMBDA old : RouteSelected(old.header, gone), FALSE) IN
          [t EXCEPT !.ignored = @ \cup {b.at}]
     ELSE IF Undone(b.header) /\ Deletable(gone)
     THEN LET t == Without(s, LAMBDA old : Deletes(gone, old.header, aliases), TRUE) IN
          [t EXCEPT !.ignored = @ \cup {b.at}]
     ELSE Entered(IF key = NoKey THEN s
                  ELSE Without(s, LAMBDA old : SwitchKey(Base(old.header)) = key, FALSE),
                  b, aliases)

\* effective_blocks, with the lines it drops.
Merged(bs) ==
  FoldLeft(LAMBDA s, b : Absorbed(s, b, AclAliases(bs)), [merged |-> <<>>, ignored |-> {}], bs)
Effective(bs) == LET m == Merged(bs).merged IN [i \in DOMAIN m |-> InForce(m[i])]
Superseded(bs) ==
  LET lines(b) == {c.at : c \in ToSet(b.commands)} IN
  Merged(bs).ignored \cup UNION {lines(b) \ lines(InForce(b)) : b \in ToSet(Merged(bs).merged)}
=============================================================================
