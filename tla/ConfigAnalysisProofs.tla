------------------------ MODULE ConfigAnalysisProofs -----------------------
(***************************************************************************)
(* Proofs about ConfigAnalysis with the parsers of VendorRegistry: each    *)
(* plugin gives a text to the view reduction as ViewReductionProofs wants  *)
(* it, and its tables read headers of one key alike.  So each configuring  *)
(* line of a text, however it is typed, is in force or superseded once,    *)
(* and a line typed brings no superseded line back.                        *)
(***************************************************************************)
EXTENDS VendorRegistry, ConfigAnalysis, SequenceTheorems, TLAPS

----------------------------------------------------------------------------
(* The two plugins *)

(* The name of a block without a header. *)
Nameless == <<"unknown", "context">>

(* A sequence starts with the words of another. *)
Starts(p, s) == Len(p) <= Len(s) /\ SubSeq(p, 1, Len(p)) = SubSeq(s, 1, Len(p))

(* That name starts with no other word. *)
LEMMA OtherStart ==
    ASSUME NEW X, NEW p \in Seq(X), Len(p) >= 1, p[1] # "unknown"
    PROVE  ~ Starts(p, Nameless)
<1> DEFINE u == Nameless
<1>1. u \in Seq({"unknown", "context"}) /\ Len(u) = 2 /\ u[1] = "unknown"
  BY DEF Nameless
<1> HIDE DEF u
<1>2. ASSUME Starts(p, u) PROVE FALSE
  <2>1. Len(p) \in 1 .. 2 /\ SubSeq(p, 1, Len(p)) = SubSeq(u, 1, Len(p))
    BY <1>1, <1>2 DEF Starts
  <2>2. SubSeq(p, 1, Len(p))[1] = p[1] /\ SubSeq(u, 1, Len(p))[1] = u[1]
    BY <1>1, <2>1
  <2> QED BY <1>1, <2>1, <2>2
<1> QED BY <1>2 DEF u

(* Not with one word, nor with two. *)
LEMMA OneWord ==
    ASSUME NEW w, w # "unknown"
    PROVE  ~ (Len(<<w>>) <= Len(Nameless) /\ SubSeq(<<w>>, 1, Len(<<w>>)) = SubSeq(Nameless, 1, Len(<<w>>)))
<1>1. <<w>> \in Seq({w}) /\ Len(<<w>>) >= 1 /\ <<w>>[1] # "unknown"
  OBVIOUS
<1>2. ~ Starts(<<w>>, Nameless)
  BY <1>1, OtherStart
<1> QED BY <1>2, Zenon DEF Starts

(* Nor with two. *)
LEMMA TwoWords ==
    ASSUME NEW w, NEW x, w # "unknown"
    PROVE  ~ (/\ Len(<<w, x>>) <= Len(Nameless)
              /\ SubSeq(<<w, x>>, 1, Len(<<w, x>>)) = SubSeq(Nameless, 1, Len(<<w, x>>)))
<1>1. <<w, x>> \in Seq({w, x}) /\ Len(<<w, x>>) >= 1 /\ <<w, x>>[1] # "unknown"
  OBVIOUS
<1>2. ~ Starts(<<w, x>>, Nameless)
  BY <1>1, OtherStart
<1> QED BY <1>2, Zenon DEF Starts

(* The VRP commands give a block without a header no key. *)
LEMMA HuaweiUnkeyed ==
    Huawei!Reduction!Unkeyed
<1> DEFINE u == Nameless
<1>1. Len(u) = 2 /\ u[1] = "unknown"
  BY DEF Nameless
<1>2. \A w : w # "unknown" => ~ Huawei!Begins(u, <<w>>)
  BY OneWord, Zenon DEF Huawei!Begins, Huawei!IsPrefix
<1>3. \A w, x : w # "unknown" => ~ Huawei!Begins(u, <<w, x>>) /\ ~ Huawei!Is(u, <<w, x>>)
  BY TwoWords, Zenon DEF Huawei!Begins, Huawei!Is, Huawei!IsPrefix
<1>4. \A w : w # "unknown" => u # <<w>>
  BY <1>1
<1>5. \A w, x : w # "unknown" => u # <<w, x>>
  BY <1>1
<1>6. \A w, x, y : u # <<w, x, y>>
  BY <1>1
<1> HIDE DEF u
<1>7. Huawei!BlockKey(u) = NoKey
  <2>1. ~ Huawei!IsInterface(u)
    BY <1>2 DEF Huawei!IsInterface
  <2>2. u[1] \notin {"bgp", "ospf", "isis"} /\ u[1] \notin {"bridge-domain", "vni"}
    BY <1>1
  <2>3. u \notin {<<"ospf">>, <<"isis">>} /\ u # <<"aaa">>
    BY <1>4
  <2>4. ~ Huawei!BeginsAny(u, {<<"ip", "vpn-instance">>, <<"traffic", "classifier">>,
                             <<"traffic", "behavior">>, <<"traffic", "policy">>})
    BY <1>3 DEF Huawei!BeginsAny
  <2>5. ~ Huawei!Begins(u, <<"user-interface">>) /\ ~ Huawei!Begins(u, <<"acl">>)
    BY <1>2
  <2>6. ~ (Len(u) = 5)
    BY <1>1
  <2> QED BY <2>1, <2>2, <2>3, <2>4, <2>5, <2>6 DEF Huawei!BlockKey, Huawei!NoKey, NoKey
<1>8. Huawei!SwitchKey(u) = NoKey
  <2>1. ASSUME NEW p \in Huawei!Services, NEW v \in {"enable", "disable"} PROVE u # p \o <<"server", v>>
    <3>1. (\E a : p = <<a>>) \/ (\E a, b : p = <<a, b>>)
      BY DEF Huawei!Services
    <3>2. \E X : p \in Seq(X) /\ Len(p) >= 1
      <4>1. ASSUME NEW a, p = <<a>> PROVE p \in Seq({a}) /\ Len(p) >= 1
        BY <4>1
      <4>2. ASSUME NEW a, NEW b, p = <<a, b>> PROVE p \in Seq({a, b}) /\ Len(p) >= 1
        BY <4>2
      <4> QED BY <3>1, <4>1, <4>2
    <3>3. Len(<<"server", v>>) = 2 /\ <<"server", v>> \in Seq({"server", "enable", "disable"})
      OBVIOUS
    <3>4. Len(p \o <<"server", v>>) = Len(p) + 2
      BY <3>2, <3>3
    <3> QED BY <1>1, <3>2, <3>4
  <2>2. ~ Huawei!Is(u, <<"ssh", "server-source">>)
    BY <1>3
  <2>3. u \notin Huawei!Switches
    BY <1>5, <1>6 DEF Huawei!Switches
  <2> QED BY <2>1, <2>2, <2>3 DEF Huawei!SwitchKey, Huawei!NoKey, NoKey
<1> QED BY <1>7, <1>8 DEF u, Nameless, Huawei!Reduction!Unkeyed, Huawei!Reduction!Unknown, Huawei!Reduction!NoKey, NoKey

(* The Comware commands give a block without a header no key. *)
LEMMA H3CUnkeyed ==
    H3C!Reduction!Unkeyed
<1> DEFINE u == Nameless
<1>1. Len(u) = 2 /\ u[1] = "unknown"
  BY DEF Nameless
<1>2. \A w : w # "unknown" => ~ H3C!Begins(u, <<w>>)
  BY OneWord, Zenon DEF H3C!Begins, H3C!IsPrefix
<1>3. \A w, x : w # "unknown" => ~ H3C!Begins(u, <<w, x>>) /\ ~ H3C!Is(u, <<w, x>>)
  BY TwoWords, Zenon DEF H3C!Begins, H3C!Is, H3C!IsPrefix
<1>4. \A w : w # "unknown" => u # <<w>>
  BY <1>1
<1>5. \A w, x : w # "unknown" => u # <<w, x>>
  BY <1>1
<1>6. \A w, x, y : u # <<w, x, y>>
  BY <1>1
<1> HIDE DEF u
<1>7. H3C!BlockKey(u) = NoKey
  <2>1. ~ H3C!IsInterface(u)
    BY <1>2 DEF H3C!IsInterface
  <2>2. u[1] \notin {"bgp", "ospf", "isis"} /\ u[1] \notin {"bridge-domain", "vni"}
    BY <1>1
  <2>3. u \notin {<<"ospf">>, <<"isis">>} /\ u # <<"aaa">>
    BY <1>4
  <2>4. ~ H3C!BeginsAny(u, {<<"ip", "vpn-instance">>, <<"traffic", "classifier">>,
                             <<"traffic", "behavior">>, <<"qos", "policy">>})
    BY <1>3 DEF H3C!BeginsAny
  <2>5. ~ H3C!Begins(u, <<"line">>) /\ ~ H3C!Begins(u, <<"acl">>)
    BY <1>2
  <2>6. ~ (Len(u) = 5)
    BY <1>1
  <2> QED BY <2>1, <2>2, <2>3, <2>4, <2>5, <2>6 DEF H3C!BlockKey, H3C!NoKey, NoKey
<1>8. H3C!SwitchKey(u) = NoKey
  <2>1. ASSUME NEW p \in H3C!Services, NEW v \in {"enable", "disable"} PROVE u # p \o <<"server", v>>
    <3>1. (\E a : p = <<a>>) \/ (\E a, b : p = <<a, b>>)
      BY DEF H3C!Services
    <3>2. \E X : p \in Seq(X) /\ Len(p) >= 1
      <4>1. ASSUME NEW a, p = <<a>> PROVE p \in Seq({a}) /\ Len(p) >= 1
        BY <4>1
      <4>2. ASSUME NEW a, NEW b, p = <<a, b>> PROVE p \in Seq({a, b}) /\ Len(p) >= 1
        BY <4>2
      <4> QED BY <3>1, <4>1, <4>2
    <3>3. Len(<<"server", v>>) = 2 /\ <<"server", v>> \in Seq({"server", "enable", "disable"})
      OBVIOUS
    <3>4. Len(p \o <<"server", v>>) = Len(p) + 2
      BY <3>2, <3>3
    <3> QED BY <1>1, <3>2, <3>4
  <2>2. ~ H3C!Is(u, <<"ssh", "server-source">>)
    BY <1>3
  <2>3. u \notin H3C!Switches
    BY <1>5, <1>6 DEF H3C!Switches
  <2> QED BY <2>1, <2>2, <2>3 DEF H3C!SwitchKey, H3C!NoKey, NoKey
<1> QED BY <1>7, <1>8 DEF u, Nameless, H3C!Reduction!Unkeyed, H3C!Reduction!Unknown, H3C!Reduction!NoKey, NoKey


(* What the Huawei parser makes of a text: its views in force, and the lines it drops. *)
LEMMA HuaweiParses ==
    ASSUME NEW ls, NEW mode, NEW v, NEW index, index = Huawei!IndexBlocks(Huawei!Placed(ls, mode, v), v)
    PROVE  /\ Huawei!HuaweiParsed(ls, mode, v).blocks = Huawei!Effective(index)
           /\ Huawei!HuaweiParsed(ls, mode, v).ignored = Huawei!Superseded(index)
<1> DEFINE bs == Huawei!Effective(index)
           gone == Huawei!Superseded(index)
<1>1. PICK i, g, f, vl, bgp, se, mal :
        Huawei!HuaweiParsed(ls, mode, v) = Huawei!Extended(Huawei!Normalized(bs, i, g, Huawei!Vrp),
          [facts |-> f, ignored |-> gone, vlans |-> vl, bgp |-> bgp, sensitive |-> se, malformed |-> mal])
  BY Zenon DEF Huawei!HuaweiParsed
<1> HIDE DEF bs, gone
<1> DEFINE n == Huawei!Normalized(bs, i, g, Huawei!Vrp)
           r == [facts |-> f, ignored |-> gone, vlans |-> vl, bgp |-> bgp, sensitive |-> se, malformed |-> mal]
<1>2. PICK a2, a3, a4, a5, a6, a7, a8, a9, b1, b2, b3, b4, b5 :
        n = [blocks |-> bs, interfaces |-> a2, routes |-> a3, ospf |-> a4, isis |-> a5, acls |-> a6,
             clashes |-> a7, aclReferences |-> a8, policies |-> a9, classifiers |-> b1,
             behaviors |-> b2, trafficPolicies |-> b3, prefixes |-> b4, vpns |-> b5]
  BY Zenon DEF Huawei!Normalized
<1>3. "blocks" \in DOMAIN n /\ n.blocks = bs /\ "ignored" \notin DOMAIN n
  BY <1>2
<1>4. "ignored" \in DOMAIN r /\ r.ignored = gone
  OBVIOUS
<1>5. Huawei!HuaweiParsed(ls, mode, v) = Huawei!Extended(n, r)
  BY <1>1
<1> HIDE DEF n, r
<1>6. Huawei!Extended(n, r).blocks = n.blocks /\ Huawei!Extended(n, r).ignored = r.ignored
  BY <1>3, <1>4 DEF Huawei!Extended
<1> QED BY <1>3, <1>4, <1>5, <1>6 DEF bs, gone

(* What the H3C parser makes of a text: its views in force, and the lines it drops. *)
LEMMA H3CParses ==
    ASSUME NEW ls, NEW mode, NEW v, NEW index, index = H3C!IndexBlocks(H3C!Placed(ls, mode, v), v)
    PROVE  /\ H3C!H3CParsed(ls, mode, v).blocks = H3C!Effective(index)
           /\ H3C!H3CParsed(ls, mode, v).ignored = H3C!Superseded(index)
<1> DEFINE bs == H3C!Effective(index)
           gone == H3C!Superseded(index)
<1>1. PICK i, g, f, vl, bgp, se, irf, mal :
        H3C!H3CParsed(ls, mode, v) = H3C!Extended(H3C!Normalized(bs, i, g, H3C!Comware),
          [facts |-> f, ignored |-> gone, vlans |-> vl, bgp |-> bgp, sensitive |-> se, irf |-> irf, malformed |-> mal])
  BY Zenon DEF H3C!H3CParsed
<1> HIDE DEF bs, gone
<1> DEFINE n == H3C!Normalized(bs, i, g, H3C!Comware)
           r == [facts |-> f, ignored |-> gone, vlans |-> vl, bgp |-> bgp, sensitive |-> se, irf |-> irf, malformed |-> mal]
<1>2. PICK a2, a3, a4, a5, a6, a7, a8, a9, b1, b2, b3, b4, b5 :
        n = [blocks |-> bs, interfaces |-> a2, routes |-> a3, ospf |-> a4, isis |-> a5, acls |-> a6,
             clashes |-> a7, aclReferences |-> a8, policies |-> a9, classifiers |-> b1,
             behaviors |-> b2, trafficPolicies |-> b3, prefixes |-> b4, vpns |-> b5]
  BY Zenon DEF H3C!Normalized
<1>3. "blocks" \in DOMAIN n /\ n.blocks = bs /\ "ignored" \notin DOMAIN n
  BY <1>2
<1>4. "ignored" \in DOMAIN r /\ r.ignored = gone
  OBVIOUS
<1>5. H3C!H3CParsed(ls, mode, v) = H3C!Extended(n, r)
  BY <1>1
<1> HIDE DEF n, r
<1>6. H3C!Extended(n, r).blocks = n.blocks /\ H3C!Extended(n, r).ignored = r.ignored
  BY <1>3, <1>4 DEF H3C!Extended
<1> QED BY <1>3, <1>4, <1>5, <1>6 DEF bs, gone


----------------------------------------------------------------------------
(* Texts *)

(* The provers do not know a literal for a string. *)
Word == STRING \cup {"unknown", "context"}
(* A line in its place, and one moved to the margin. *)
Lines == [words : Seq(Word), indent : Nat, prompt : {NoWord}, at : Nat]
PlacedLines == [words : Seq(Word), indent : Int, prompt : {NoWord}, at : Nat]
TextOk(ls) == ls \in Seq(Lines) /\ \A i \in 1 .. Len(ls) : ls[i].at = i

(* The indentation a text is read from, and its lines moved to stand at a depth (Placed). *)
MarginOf(ls, mode) == IF mode = "snippet" /\ ls # <<>> THEN Min({l.indent : l \in ToSet(ls)}) ELSE 0
PlacedAt(ls, margin, depth) == [i \in DOMAIN ls |-> [ls[i] EXCEPT !.indent = @ - margin + depth]]

(* The margin of a text is left of its lines. *)
LEMMA MarginIs ==
    ASSUME NEW ls, TextOk(ls), NEW mode
    PROVE  MarginOf(ls, mode) \in Nat /\ \A i \in 1 .. Len(ls) : MarginOf(ls, mode) <= ls[i].indent
<1> DEFINE T == {l.indent : l \in ToSet(ls)}
           n == Len(ls)
<1>1. n \in Nat /\ DOMAIN ls = 1 .. n /\ (ls # <<>> => n # 0)
  BY DEF TextOk
<1>2. \A i \in 1 .. n : ls[i].indent \in Nat
  <2> DEFINE W == Seq(Word)
  <2>1. Lines = [words : W, indent : Nat, prompt : {NoWord}, at : Nat]
    BY DEF Lines
  <2> HIDE DEF W
  <2>2. \A l \in Lines : l.indent \in Nat
    BY <2>1
  <2> QED BY <2>2 DEF TextOk
<1>3. \A x : x \in T <=> \E i \in 1 .. n : x = ls[i].indent
  BY <1>1 DEF ToSet
<1> HIDE DEF T, n
<1>4. ASSUME ls # <<>> PROVE Min(T) \in T /\ \A y \in T : Min(T) <= y
  <2>1. T \in SUBSET Nat /\ T # {}
    <3>1. 1 \in 1 .. n
      BY <1>1, <1>4
    <3> QED BY <1>2, <1>3, <3>1
  <2>2. \E x \in T : \A y \in T : x <= y
    BY <2>1, Huawei!Reduction!LeastExists, NumberAssumption, NetworkAssumption
  <2> QED BY <2>2, Zenon DEF Min
<1>5. MarginOf(ls, mode) = IF mode = "snippet" /\ ls # <<>> THEN Min(T) ELSE 0
  BY Zenon DEF MarginOf, T
<1> DEFINE m == Min(T)
<1> HIDE DEF m
<1>6. CASE mode = "snippet" /\ ls # <<>>
  <2>1. m \in T /\ \A y \in T : m <= y
    BY <1>4, <1>6 DEF m
  <2>2. m \in Nat /\ \A i \in 1 .. n : m <= ls[i].indent
    BY <1>2, <1>3, <2>1
  <2> QED BY <1>5, <1>6, <2>2 DEF m, n
<1>7. CASE ~ (mode = "snippet" /\ ls # <<>>)
  <2>1. MarginOf(ls, mode) = 0
    BY <1>5, <1>7
  <2> QED BY <1>2, <2>1 DEF n
<1> QED BY <1>6, <1>7

(* Moving the lines keeps all but their indentation. *)
LEMMA PlacedIs ==
    ASSUME NEW ls, TextOk(ls), NEW m \in Nat, NEW d \in Nat, NEW p, p = PlacedAt(ls, m, d)
    PROVE  /\ p \in Seq(PlacedLines)
           /\ Len(p) = Len(ls)
           /\ \A i \in 1 .. Len(ls) : p[i].words = ls[i].words /\ p[i].at = i /\ p[i].indent = ls[i].indent - m + d
<1> DEFINE n == Len(ls)
<1>1. n \in Nat /\ DOMAIN ls = 1 .. n
  BY DEF TextOk
<1>2. p = [i \in 1 .. n |-> [ls[i] EXCEPT !.indent = @ - m + d]]
  BY <1>1, Zenon DEF PlacedAt
<1>3. ASSUME NEW l \in Lines, NEW q, q = [l EXCEPT !.indent = @ - m + d]
      PROVE  q \in PlacedLines /\ q.words = l.words /\ q.at = l.at /\ q.indent = l.indent - m + d
  <2> DEFINE W == Seq(Word)
  <2>1. Lines = [words : W, indent : Nat, prompt : {NoWord}, at : Nat]
        /\ PlacedLines = [words : W, indent : Int, prompt : {NoWord}, at : Nat]
    BY DEF Lines, PlacedLines
  <2> HIDE DEF W
  <2>2. l.indent \in Nat
    BY <2>1
  <2> DEFINE j == l.indent - m + d
  <2>3. q = [l EXCEPT !.indent = j]
    BY <1>3
  <2>4. j \in Int
    BY <2>2
  <2> HIDE DEF j
  <2>5. q \in PlacedLines /\ q.words = l.words /\ q.at = l.at /\ q.indent = j
    BY <2>1, <2>3, <2>4
  <2> QED BY <2>5 DEF j
<1> HIDE DEF n
<1>4. \A i \in 1 .. n : ls[i] \in Lines /\ ls[i].at = i
  BY DEF TextOk, n
<1>5. \A i \in 1 .. n : p[i] = [ls[i] EXCEPT !.indent = @ - m + d]
  BY <1>2
<1>6. \A i \in 1 .. n : p[i] \in PlacedLines /\ p[i].words = ls[i].words /\ p[i].at = i /\ p[i].indent = ls[i].indent - m + d
  <2> SUFFICES ASSUME NEW i \in 1 .. n
               PROVE  p[i] \in PlacedLines /\ p[i].words = ls[i].words /\ p[i].at = i /\ p[i].indent = ls[i].indent - m + d
    OBVIOUS
  <2> DEFINE l == ls[i]  q == p[i]
  <2>1. l \in Lines /\ l.at = i /\ q = [l EXCEPT !.indent = @ - m + d]
    BY <1>4, <1>5, Zenon
  <2> HIDE DEF l, q
  <2>2. q \in PlacedLines /\ q.words = l.words /\ q.at = l.at /\ q.indent = l.indent - m + d
    BY <1>3, <2>1
  <2> QED BY <2>1, <2>2 DEF l, q
<1>7. p = [i \in 1 .. n |-> p[i]]
  BY <1>2
<1>8. p \in [1 .. n -> PlacedLines]
  BY <1>6, <1>7
<1>9. p \in Seq(PlacedLines) /\ Len(p) = n
  BY <1>1, <1>8 DEF n
<1> QED BY <1>6, <1>9 DEF n

(* A line at the margin that configures something opens a view. *)
TopAt(ls, mode, i) == ls[i].indent = MarginOf(ls, mode) /\ ls[i].words \notin Structural
(* The lines in force among the views of a text (InUse). *)
Lives(bs, v) ==
    UNION {{d.at : d \in ToSet(b.commands)} \cup (IF b.known /\ v = <<>> THEN {b.at} ELSE {}) : b \in ToSet(bs)}
(* Each configuring line is in force or dropped, or its header is dropped. *)
Settled(ls, mode, v, live, gone) ==
    /\ live \cap gone = {}
    /\ \A i \in live \cup gone : i \in 1 .. Len(ls) /\ ls[i].words \notin Structural
    /\ \A i \in 1 .. Len(ls) : ls[i].words \notin Structural =>
          \/ i \in live \/ i \in gone
          \/ \E h \in gone : /\ h \in 1 .. Len(ls) /\ TopAt(ls, mode, h) /\ h < i
                             /\ \A t \in 1 .. i : h < t => ~ TopAt(ls, mode, t)

(* What the Huawei parser reads: a text for the reduction, whose views in force it keeps. *)
LEMMA HuaweiReads ==
    ASSUME NEW ls, TextOk(ls), NEW mode, NEW v \in Seq(Word), ~ Undone(v),
           NEW c, c = Huawei!HuaweiParsed(ls, mode, v),
           NEW p, p = PlacedAt(ls, MarginOf(ls, mode), IF v = <<>> THEN 0 ELSE 1)
    PROVE  /\ Huawei!Reduction!Text(p, v)
           /\ Lives(c.blocks, v) = Huawei!Reduction!LiveLines(Huawei!Reduction!Effective(Huawei!Reduction!IndexBlocks(p, v)), v)
<1> DEFINE m == MarginOf(ls, mode)
           d == IF v = <<>> THEN 0 ELSE 1
           n == Len(ls)
<1>1. p = Huawei!Placed(ls, mode, v)
  BY Zenon DEF Huawei!Placed, Huawei!Min, Huawei!ToSet, PlacedAt, MarginOf, Min, ToSet
<1>2. c.blocks = Huawei!Effective(Huawei!IndexBlocks(p, v))
  BY <1>1, HuaweiParses
<1>3. m \in Nat /\ d \in Nat /\ \A i \in 1 .. n : m <= ls[i].indent
  BY MarginIs
<1>4. /\ p \in Seq(PlacedLines) /\ Len(p) = n
      /\ \A i \in 1 .. n : p[i].words = ls[i].words /\ p[i].at = i /\ p[i].indent = ls[i].indent - m + d
  <2> HIDE DEF m
  <2>1. p = PlacedAt(ls, m, d)
    BY DEF m
  <2> QED BY <1>3, <2>1, PlacedIs
<1> HIDE DEF m, n
<1>5. n \in Nat /\ \A i \in 1 .. n : ls[i].indent \in Nat
  <2> DEFINE W == Seq(Word)
  <2>1. Lines = [words : W, indent : Nat, prompt : {NoWord}, at : Nat]
    BY DEF Lines
  <2> HIDE DEF W
  <2>2. \A l \in Lines : l.indent \in Nat
    BY <2>1
  <2> QED BY <2>2 DEF TextOk, n
<1>6. \A i \in 1 .. n : v # <<>> => ~ Huawei!Reduction!TopLine(p, i)
  <2> SUFFICES ASSUME NEW i \in 1 .. n, v # <<>>, Huawei!Reduction!TopLine(p, i) PROVE FALSE
    OBVIOUS
  <2>1. p[i].indent = ls[i].indent - m + d /\ d = 1
    BY <1>4
  <2>2. p[i].indent = 0
    BY Zenon DEF Huawei!Reduction!TopLine
  <2> QED BY <1>3, <1>5, <2>1, <2>2
<1>7. ~ Huawei!Reduction!Undone(v)
  BY Zenon DEF Undone, Begins, IsPrefix, Huawei!Reduction!Undone, Huawei!Reduction!Begins, Huawei!Reduction!IsPrefix
<1>8. Huawei!Reduction!Text(p, v)
  <2>1. Huawei!Reduction!TextLines = PlacedLines /\ v \in Huawei!Reduction!Words
    BY Zenon DEF Huawei!Reduction!TextLines, Huawei!Reduction!Words, Huawei!Reduction!Word, Huawei!Reduction!NoWord, PlacedLines, Word, NoWord
  <2> QED BY <1>4, <1>6, <1>7, <2>1, Zenon DEF Huawei!Reduction!Text
<1>9. Lives(c.blocks, v) = Huawei!Reduction!LiveLines(Huawei!Reduction!Effective(Huawei!Reduction!IndexBlocks(p, v)), v)
  BY <1>2, Zenon DEF Huawei!Effective, Huawei!IndexBlocks, Huawei!Reduction!LiveLines, Huawei!Reduction!CmdLines, Huawei!Reduction!ToSet, ToSet, Lives
<1> QED BY <1>8, <1>9

(* Whatever the text, the Huawei parser accounts for each configuring line once. *)
LEMMA HuaweiSettles ==
    ASSUME NEW ls, TextOk(ls), NEW mode, NEW v \in Seq(Word), ~ Undone(v),
           NEW c, c = Huawei!HuaweiParsed(ls, mode, v)
    PROVE  Settled(ls, mode, v, Lives(c.blocks, v), c.ignored)
<1> DEFINE m == MarginOf(ls, mode)
           d == IF v = <<>> THEN 0 ELSE 1
           p == PlacedAt(ls, m, d)
           index == Huawei!IndexBlocks(p, v)
           live == Lives(c.blocks, v)
           gone == c.ignored
           n == Len(ls)
<1>1. p = Huawei!Placed(ls, mode, v)
  BY Zenon DEF Huawei!Placed, Huawei!Min, Huawei!ToSet, PlacedAt, MarginOf, Min, ToSet
<1>2. c.blocks = Huawei!Effective(index) /\ c.ignored = Huawei!Superseded(index)
  BY <1>1, HuaweiParses
<1>3. m \in Nat /\ d \in Nat /\ \A i \in 1 .. n : m <= ls[i].indent
  BY MarginIs
<1> HIDE DEF m, d, p
<1>4. /\ p \in Seq(PlacedLines) /\ Len(p) = n
      /\ \A i \in 1 .. n : p[i].words = ls[i].words /\ p[i].at = i /\ p[i].indent = ls[i].indent - m + d
  BY <1>3, PlacedIs DEF p
<1>5. n \in Nat /\ \A i \in 1 .. n : ls[i].indent \in Nat
  <2> DEFINE W == Seq(Word)
  <2>1. Lines = [words : W, indent : Nat, prompt : {NoWord}, at : Nat]
    BY DEF Lines
  <2> HIDE DEF W
  <2>2. \A l \in Lines : l.indent \in Nat
    BY <2>1
  <2> QED BY <2>2 DEF TextOk
<1>6. Huawei!Reduction!Structural = Structural
  BY Zenon DEF Huawei!Reduction!Structural, Structural
<1>7. \A i \in 1 .. n : Huawei!Reduction!Configures(p, i) <=> ls[i].words \notin Structural
  BY <1>4, <1>6, Zenon DEF Huawei!Reduction!Configures
<1>8. \A i \in 1 .. n : Huawei!Reduction!TopLine(p, i) <=> ls[i].indent - m + d = 0 /\ ls[i].words \notin Structural
  BY <1>4, <1>7 DEF Huawei!Reduction!TopLine
<1>9. v = <<>> => d = 0
  BY DEF d
<1>10. \A i \in 1 .. n : v = <<>> => (Huawei!Reduction!TopLine(p, i) <=> TopAt(ls, mode, i))
  <2> SUFFICES ASSUME NEW i \in 1 .. n, v = <<>> PROVE Huawei!Reduction!TopLine(p, i) <=> TopAt(ls, mode, i)
    OBVIOUS
  <2>1. ls[i].indent - m + d = 0 <=> ls[i].indent = m
    BY <1>3, <1>5, <1>9
  <2> QED BY <1>8, <2>1, Zenon DEF TopAt, m
<1>11. Huawei!Reduction!Text(p, v) /\ live = Huawei!Reduction!LiveLines(Huawei!Reduction!Effective(Huawei!Reduction!IndexBlocks(p, v)), v)
  <2> HIDE DEF live
  <2>1. p = PlacedAt(ls, MarginOf(ls, mode), IF v = <<>> THEN 0 ELSE 1)
    BY Zenon DEF p, m, d
  <2> QED BY <2>1, HuaweiReads DEF live
<1>12. Huawei!Reduction!OnceEach(p, v, Huawei!Reduction!LiveLines(Huawei!Reduction!Effective(Huawei!Reduction!IndexBlocks(p, v)), v), Huawei!Reduction!Superseded(Huawei!Reduction!IndexBlocks(p, v)))
  BY <1>11, HuaweiUnkeyed, Huawei!Reduction!LinesOnce, NumberAssumption, NetworkAssumption
<1>13. Huawei!Reduction!Superseded(Huawei!Reduction!IndexBlocks(p, v)) = gone
  BY <1>2, Zenon DEF Huawei!Superseded, Huawei!IndexBlocks
<1> HIDE DEF live, gone, index
<1>14. Huawei!Reduction!OnceEach(p, v, live, gone)
  BY <1>11, <1>12, <1>13, Zenon
<1> HIDE DEF n
<1>15. live \cap gone = {}
  BY <1>14, Zenon DEF Huawei!Reduction!OnceEach
<1>16. \A i \in live \cup gone : i \in 1 .. n /\ ls[i].words \notin Structural
  BY <1>4, <1>7, <1>14, Zenon DEF Huawei!Reduction!OnceEach
<1>17. ASSUME NEW i \in 1 .. n, ls[i].words \notin Structural
       PROVE  \/ i \in live \/ i \in gone
              \/ \E h \in gone : h \in 1 .. n /\ TopAt(ls, mode, h) /\ h < i /\ \A t \in 1 .. i : h < t => ~ TopAt(ls, mode, t)
  <2>1. i \in live \/ i \in gone \/ (v = <<>> /\ Huawei!Reduction!Under(p, gone, i))
    BY <1>4, <1>7, <1>14, <1>17, Zenon DEF Huawei!Reduction!OnceEach
  <2>2. ASSUME v = <<>>, Huawei!Reduction!Under(p, gone, i)
        PROVE  \E h \in gone : h \in 1 .. n /\ TopAt(ls, mode, h) /\ h < i /\ \A t \in 1 .. i : h < t => ~ TopAt(ls, mode, t)
    <3>1. PICK h \in gone : /\ h \in 1 .. n /\ Huawei!Reduction!TopLine(p, h) /\ h < i
                            /\ \A t \in 1 .. i : h < t => ~ Huawei!Reduction!TopLine(p, t)
      BY <1>4, <2>2, Zenon DEF Huawei!Reduction!Under
    <3>2. \A t \in 1 .. i : t \in 1 .. n
      BY <1>5
    <3> QED BY <1>10, <2>2, <3>1, <3>2, Zenon
  <2> QED BY <2>1, <2>2
<1> QED BY <1>15, <1>16, <1>17, Zenon DEF Settled, live, gone, n

(* What the H3C parser reads: a text for the reduction, whose views in force it keeps. *)
LEMMA H3CReads ==
    ASSUME NEW ls, TextOk(ls), NEW mode, NEW v \in Seq(Word), ~ Undone(v),
           NEW c, c = H3C!H3CParsed(ls, mode, v),
           NEW p, p = PlacedAt(ls, MarginOf(ls, mode), IF v = <<>> THEN 0 ELSE 1)
    PROVE  /\ H3C!Reduction!Text(p, v)
           /\ Lives(c.blocks, v) = H3C!Reduction!LiveLines(H3C!Reduction!Effective(H3C!Reduction!IndexBlocks(p, v)), v)
<1> DEFINE m == MarginOf(ls, mode)
           d == IF v = <<>> THEN 0 ELSE 1
           n == Len(ls)
<1>1. p = H3C!Placed(ls, mode, v)
  BY Zenon DEF H3C!Placed, H3C!Min, H3C!ToSet, PlacedAt, MarginOf, Min, ToSet
<1>2. c.blocks = H3C!Effective(H3C!IndexBlocks(p, v))
  BY <1>1, H3CParses
<1>3. m \in Nat /\ d \in Nat /\ \A i \in 1 .. n : m <= ls[i].indent
  BY MarginIs
<1>4. /\ p \in Seq(PlacedLines) /\ Len(p) = n
      /\ \A i \in 1 .. n : p[i].words = ls[i].words /\ p[i].at = i /\ p[i].indent = ls[i].indent - m + d
  <2> HIDE DEF m
  <2>1. p = PlacedAt(ls, m, d)
    BY DEF m
  <2> QED BY <1>3, <2>1, PlacedIs
<1> HIDE DEF m, n
<1>5. n \in Nat /\ \A i \in 1 .. n : ls[i].indent \in Nat
  <2> DEFINE W == Seq(Word)
  <2>1. Lines = [words : W, indent : Nat, prompt : {NoWord}, at : Nat]
    BY DEF Lines
  <2> HIDE DEF W
  <2>2. \A l \in Lines : l.indent \in Nat
    BY <2>1
  <2> QED BY <2>2 DEF TextOk, n
<1>6. \A i \in 1 .. n : v # <<>> => ~ H3C!Reduction!TopLine(p, i)
  <2> SUFFICES ASSUME NEW i \in 1 .. n, v # <<>>, H3C!Reduction!TopLine(p, i) PROVE FALSE
    OBVIOUS
  <2>1. p[i].indent = ls[i].indent - m + d /\ d = 1
    BY <1>4
  <2>2. p[i].indent = 0
    BY Zenon DEF H3C!Reduction!TopLine
  <2> QED BY <1>3, <1>5, <2>1, <2>2
<1>7. ~ H3C!Reduction!Undone(v)
  BY Zenon DEF Undone, Begins, IsPrefix, H3C!Reduction!Undone, H3C!Reduction!Begins, H3C!Reduction!IsPrefix
<1>8. H3C!Reduction!Text(p, v)
  <2>1. H3C!Reduction!TextLines = PlacedLines /\ v \in H3C!Reduction!Words
    BY Zenon DEF H3C!Reduction!TextLines, H3C!Reduction!Words, H3C!Reduction!Word, H3C!Reduction!NoWord, PlacedLines, Word, NoWord
  <2> QED BY <1>4, <1>6, <1>7, <2>1, Zenon DEF H3C!Reduction!Text
<1>9. Lives(c.blocks, v) = H3C!Reduction!LiveLines(H3C!Reduction!Effective(H3C!Reduction!IndexBlocks(p, v)), v)
  BY <1>2, Zenon DEF H3C!Effective, H3C!IndexBlocks, H3C!Reduction!LiveLines, H3C!Reduction!CmdLines, H3C!Reduction!ToSet, ToSet, Lives
<1> QED BY <1>8, <1>9

(* Whatever the text, the H3C parser accounts for each configuring line once. *)
LEMMA H3CSettles ==
    ASSUME NEW ls, TextOk(ls), NEW mode, NEW v \in Seq(Word), ~ Undone(v),
           NEW c, c = H3C!H3CParsed(ls, mode, v)
    PROVE  Settled(ls, mode, v, Lives(c.blocks, v), c.ignored)
<1> DEFINE m == MarginOf(ls, mode)
           d == IF v = <<>> THEN 0 ELSE 1
           p == PlacedAt(ls, m, d)
           index == H3C!IndexBlocks(p, v)
           live == Lives(c.blocks, v)
           gone == c.ignored
           n == Len(ls)
<1>1. p = H3C!Placed(ls, mode, v)
  BY Zenon DEF H3C!Placed, H3C!Min, H3C!ToSet, PlacedAt, MarginOf, Min, ToSet
<1>2. c.blocks = H3C!Effective(index) /\ c.ignored = H3C!Superseded(index)
  BY <1>1, H3CParses
<1>3. m \in Nat /\ d \in Nat /\ \A i \in 1 .. n : m <= ls[i].indent
  BY MarginIs
<1> HIDE DEF m, d, p
<1>4. /\ p \in Seq(PlacedLines) /\ Len(p) = n
      /\ \A i \in 1 .. n : p[i].words = ls[i].words /\ p[i].at = i /\ p[i].indent = ls[i].indent - m + d
  BY <1>3, PlacedIs DEF p
<1>5. n \in Nat /\ \A i \in 1 .. n : ls[i].indent \in Nat
  <2> DEFINE W == Seq(Word)
  <2>1. Lines = [words : W, indent : Nat, prompt : {NoWord}, at : Nat]
    BY DEF Lines
  <2> HIDE DEF W
  <2>2. \A l \in Lines : l.indent \in Nat
    BY <2>1
  <2> QED BY <2>2 DEF TextOk
<1>6. H3C!Reduction!Structural = Structural
  BY Zenon DEF H3C!Reduction!Structural, Structural
<1>7. \A i \in 1 .. n : H3C!Reduction!Configures(p, i) <=> ls[i].words \notin Structural
  BY <1>4, <1>6, Zenon DEF H3C!Reduction!Configures
<1>8. \A i \in 1 .. n : H3C!Reduction!TopLine(p, i) <=> ls[i].indent - m + d = 0 /\ ls[i].words \notin Structural
  BY <1>4, <1>7 DEF H3C!Reduction!TopLine
<1>9. v = <<>> => d = 0
  BY DEF d
<1>10. \A i \in 1 .. n : v = <<>> => (H3C!Reduction!TopLine(p, i) <=> TopAt(ls, mode, i))
  <2> SUFFICES ASSUME NEW i \in 1 .. n, v = <<>> PROVE H3C!Reduction!TopLine(p, i) <=> TopAt(ls, mode, i)
    OBVIOUS
  <2>1. ls[i].indent - m + d = 0 <=> ls[i].indent = m
    BY <1>3, <1>5, <1>9
  <2> QED BY <1>8, <2>1, Zenon DEF TopAt, m
<1>11. H3C!Reduction!Text(p, v) /\ live = H3C!Reduction!LiveLines(H3C!Reduction!Effective(H3C!Reduction!IndexBlocks(p, v)), v)
  <2> HIDE DEF live
  <2>1. p = PlacedAt(ls, MarginOf(ls, mode), IF v = <<>> THEN 0 ELSE 1)
    BY Zenon DEF p, m, d
  <2> QED BY <2>1, H3CReads DEF live
<1>12. H3C!Reduction!OnceEach(p, v, H3C!Reduction!LiveLines(H3C!Reduction!Effective(H3C!Reduction!IndexBlocks(p, v)), v), H3C!Reduction!Superseded(H3C!Reduction!IndexBlocks(p, v)))
  BY <1>11, H3CUnkeyed, H3C!Reduction!LinesOnce, NumberAssumption, NetworkAssumption
<1>13. H3C!Reduction!Superseded(H3C!Reduction!IndexBlocks(p, v)) = gone
  BY <1>2, Zenon DEF H3C!Superseded, H3C!IndexBlocks
<1> HIDE DEF live, gone, index
<1>14. H3C!Reduction!OnceEach(p, v, live, gone)
  BY <1>11, <1>12, <1>13, Zenon
<1> HIDE DEF n
<1>15. live \cap gone = {}
  BY <1>14, Zenon DEF H3C!Reduction!OnceEach
<1>16. \A i \in live \cup gone : i \in 1 .. n /\ ls[i].words \notin Structural
  BY <1>4, <1>7, <1>14, Zenon DEF H3C!Reduction!OnceEach
<1>17. ASSUME NEW i \in 1 .. n, ls[i].words \notin Structural
       PROVE  \/ i \in live \/ i \in gone
              \/ \E h \in gone : h \in 1 .. n /\ TopAt(ls, mode, h) /\ h < i /\ \A t \in 1 .. i : h < t => ~ TopAt(ls, mode, t)
  <2>1. i \in live \/ i \in gone \/ (v = <<>> /\ H3C!Reduction!Under(p, gone, i))
    BY <1>4, <1>7, <1>14, <1>17, Zenon DEF H3C!Reduction!OnceEach
  <2>2. ASSUME v = <<>>, H3C!Reduction!Under(p, gone, i)
        PROVE  \E h \in gone : h \in 1 .. n /\ TopAt(ls, mode, h) /\ h < i /\ \A t \in 1 .. i : h < t => ~ TopAt(ls, mode, t)
    <3>1. PICK h \in gone : /\ h \in 1 .. n /\ H3C!Reduction!TopLine(p, h) /\ h < i
                            /\ \A t \in 1 .. i : h < t => ~ H3C!Reduction!TopLine(p, t)
      BY <1>4, <2>2, Zenon DEF H3C!Reduction!Under
    <3>2. \A t \in 1 .. i : t \in 1 .. n
      BY <1>5
    <3> QED BY <1>10, <2>2, <3>1, <3>2, Zenon
  <2> QED BY <2>1, <2>2
<1> QED BY <1>15, <1>16, <1>17, Zenon DEF Settled, live, gone, n

----------------------------------------------------------------------------
(* The analysis *)

(* The parser of a topic is that of its vendor's plugin. *)
Plugins == \A ls, t : Parsed(ls, t) = PluginParsed(ls, t)

(* The text is well formed, and analysed. *)
TextInv ==
    /\ topic \in Topics
    /\ TextOk(lines)
    /\ config = Parsed(lines, topic)

(* Either plugin accounts for each configuring line once. *)
LEMMA PluginSettles ==
    ASSUME NEW ls, TextOk(ls), NEW t, t.view \in Seq(Word), ~ Undone(t.view),
           NEW c, c = PluginParsed(ls, t)
    PROVE  Settled(ls, t.mode, t.view, Lives(c.blocks, t.view), c.ignored)
<1>1. ASSUME t.vendor = "huawei"
      PROVE  Settled(ls, t.mode, t.view, Lives(c.blocks, t.view), c.ignored)
  <2>1. c = Huawei!HuaweiParsed(ls, t.mode, t.view)
    BY <1>1, Zenon DEF PluginParsed
  <2> QED BY <2>1, HuaweiSettles, NumberAssumption, NetworkAssumption
<1>2. ASSUME t.vendor # "huawei"
      PROVE  Settled(ls, t.mode, t.view, Lives(c.blocks, t.view), c.ignored)
  <2>1. c = H3C!H3CParsed(ls, t.mode, t.view)
    BY <1>2, Zenon DEF PluginParsed
  <2> QED BY <2>1, H3CSettles, NumberAssumption, NetworkAssumption
<1> QED BY <1>1, <1>2

(* A topic's text and lines are typed ones, and its view can be entered. *)
LEMMA TopicIs ==
    ASSUME NEW t \in Topics
    PROVE  /\ t.base \in Seq(TypedLines) /\ t.alphabet \subseteq TypedLines
           /\ t.view \in Seq(Word) /\ ~ Undone(t.view)
<1>1. t.base \in Seq(TypedLines) /\ t.alphabet \subseteq TypedLines /\ t.view \in Seq(STRING) /\ ~ Undone(t.view)
  BY TopicAssumption
<1>2. \A s \in Seq(STRING) : s \in Seq(Word)
  BY DEF Word
<1> QED BY <1>1, <1>2

(* Lines that follow n others are numbered after them. *)
LEMMA NumberedIs ==
    ASSUME NEW s \in Seq(TypedLines), NEW n \in Nat, NEW r, r = Numbered(s, n)
    PROVE  r \in Seq(Lines) /\ Len(r) = Len(s) /\ \A i \in 1 .. Len(s) : r[i].at = n + i
<1> DEFINE k == Len(s)
<1>1. k \in Nat /\ DOMAIN s = 1 .. k /\ \A i \in 1 .. k : s[i] \in TypedLines
  OBVIOUS
<1>2. r = [i \in 1 .. k |-> [words |-> s[i].words, indent |-> s[i].indent, prompt |-> s[i].prompt, at |-> n + i]]
  BY <1>1, Zenon DEF Numbered
<1>3. ASSUME NEW l \in TypedLines, NEW a \in Nat, NEW q,
             q = [words |-> l.words, indent |-> l.indent, prompt |-> l.prompt, at |-> a]
      PROVE  q \in Lines /\ q.at = a
  <2> DEFINE W == Seq(Word)
             V == Seq(STRING)
  <2>1. \A x \in V : x \in W
    BY DEF Word
  <2>2. Lines = [words : W, indent : Nat, prompt : {NoWord}, at : Nat]
        /\ TypedLines = [words : V, indent : Nat, prompt : {NoWord}]
    BY DEF Lines, TypedLines
  <2> HIDE DEF W, V
  <2>3. l.words \in W /\ l.indent \in Nat /\ l.prompt = NoWord
    BY <2>1, <2>2
  <2> QED BY <1>3, <2>2, <2>3
<1> HIDE DEF k
<1>4. \A i \in 1 .. k : r[i] \in Lines /\ r[i].at = n + i
  <2> SUFFICES ASSUME NEW i \in 1 .. k PROVE r[i] \in Lines /\ r[i].at = n + i
    OBVIOUS
  <2> DEFINE l == s[i]  a == n + i  q == r[i]
  <2>1. l \in TypedLines /\ q = [words |-> l.words, indent |-> l.indent, prompt |-> l.prompt, at |-> a]
    BY <1>1, <1>2
  <2>2. a \in Nat
    BY <1>1
  <2> HIDE DEF l, a, q
  <2>3. q \in Lines /\ q.at = a
    BY <1>3, <2>1, <2>2
  <2> QED BY <2>3 DEF a, q
<1>5. r = [i \in 1 .. k |-> r[i]]
  BY <1>2
<1>6. r \in [1 .. k -> Lines]
  BY <1>4, <1>5
<1>7. r \in Seq(Lines) /\ Len(r) = k
  BY <1>1, <1>6
<1> QED BY <1>4, <1>7 DEF k

(* A text to start from is well formed. *)
LEMMA StartOk ==
    ASSUME NEW s \in Seq(TypedLines)
    PROVE  TextOk(Numbered(s, 0))
<1> DEFINE r == Numbered(s, 0)
<1>1. r \in Seq(Lines) /\ Len(r) = Len(s) /\ \A i \in 1 .. Len(s) : r[i].at = 0 + i
  BY NumberedIs
<1> HIDE DEF r
<1>2. \A i \in 1 .. Len(s) : 0 + i = i
  OBVIOUS
<1>3. TextOk(r)
  BY <1>1, <1>2 DEF TextOk
<1> QED BY <1>3 DEF r

(* One more at the end of a sequence. *)
LEMMA OneMore ==
    ASSUME NEW X, NEW s \in Seq(X), NEW r \in Seq(X), Len(r) = 1
    PROVE  /\ s \o r \in Seq(X) /\ Len(s \o r) = Len(s) + 1
           /\ (s \o r)[Len(s) + 1] = r[1]
           /\ \A i \in 1 .. Len(s) : (s \o r)[i] = s[i]
<1> DEFINE c == s \o r
<1>1. c \in Seq(X) /\ Len(c) = Len(s) + Len(r)
  BY ConcatProperties, Zenon
<1>2. Len(s) \in Nat
  OBVIOUS
<1>3. \A i \in 1 .. Len(s) + Len(r) : c[i] = IF i <= Len(s) THEN s[i] ELSE r[i - Len(s)]
  BY ConcatProperties, Zenon
<1> HIDE DEF c
<1> DEFINE n == Len(s)
<1> HIDE DEF n
<1>4. n + 1 \in 1 .. n + 1 /\ ~ (n + 1 <= n) /\ n + 1 - n = 1 /\ \A i \in 1 .. n : i \in 1 .. n + 1 /\ i <= n
  BY <1>2 DEF n
<1>5. c[n + 1] = r[1] /\ \A i \in 1 .. n : c[i] = s[i]
  BY <1>2, <1>3, <1>4 DEF n
<1> QED BY <1>1, <1>2, <1>5 DEF n, c

(* A line typed leaves it so. *)
LEMMA TypedOk ==
    ASSUME NEW ls, TextOk(ls), NEW l \in TypedLines
    PROVE  TextOk(ls \o Numbered(<<l>>, Len(ls)))
<1> DEFINE s == <<l>>
           n == Len(ls)
           r == Numbered(s, n)
<1>1. s \in Seq(TypedLines) /\ Len(s) = 1
  OBVIOUS
<1>2. n \in Nat /\ ls \in Seq(Lines) /\ \A i \in 1 .. n : ls[i].at = i
  BY DEF TextOk
<1> HIDE DEF s, n
<1>3. r \in Seq(Lines) /\ Len(r) = 1 /\ r[1].at = n + 1
  <2>1. r \in Seq(Lines) /\ Len(r) = Len(s) /\ \A i \in 1 .. Len(s) : r[i].at = n + i
    BY <1>1, <1>2, NumberedIs
  <2> QED BY <1>1, <2>1
<1> HIDE DEF r
<1>4. ls \o r \in Seq(Lines) /\ Len(ls \o r) = n + 1
      /\ (ls \o r)[n + 1] = r[1] /\ \A i \in 1 .. n : (ls \o r)[i] = ls[i]
  BY <1>2, <1>3, OneMore DEF n
<1>5. \A i \in 1 .. n + 1 : (ls \o r)[i].at = i
  <2>1. \A i \in 1 .. n + 1 : i \in 1 .. n \/ i = n + 1
    BY <1>2
  <2> QED BY <1>2, <1>3, <1>4, <2>1
<1>6. TextOk(ls \o r)
  BY <1>4, <1>5 DEF TextOk
<1> QED BY <1>6 DEF s, n, r

(* The text starts well formed and stays so, whatever is typed. *)
LEMMA TextInvariant ==
    Spec => []TextInv
<1>1. Init => TextInv
  BY TopicIs, StartOk DEF Init, TextInv
<1>2. TextInv /\ [Next]_vars => TextInv'
  <2> SUFFICES ASSUME TextInv, [Next]_vars PROVE TextInv'
    OBVIOUS
  <2>1. ASSUME NEW l \in topic.alphabet, Type(l) PROVE TextInv'
    <3> DEFINE ls == lines \o Numbered(<<l>>, Len(lines))
    <3>1. lines' = ls /\ config' = Parsed(ls, topic) /\ topic' = topic
      BY <2>1, Zenon DEF Type, Analysed
    <3>2. l \in TypedLines
      BY <2>1, TopicIs DEF TextInv
    <3>3. TextOk(ls)
      BY <3>2, TypedOk DEF TextInv
    <3> HIDE DEF ls
    <3>4. config' = Parsed(lines', topic') /\ topic' \in Topics
      BY <3>1 DEF TextInv
    <3> QED BY <3>1, <3>3, <3>4 DEF TextInv
  <2>2. ASSUME UNCHANGED vars PROVE TextInv'
    <3>1. topic' = topic /\ lines' = lines /\ config' = config
      BY <2>2 DEF vars
    <3> QED BY <3>1 DEF TextInv
  <2> QED BY <2>1, <2>2 DEF Next
<1> QED BY <1>1, <1>2, PTL DEF Spec

(* The last of the lines at the margin up to a line is its header. *)
LEMMA HeaderIs ==
    ASSUME NEW i \in Nat, NEW h \in 1 .. i, TopAt(lines, topic.mode, h),
           \A t \in 1 .. i : h < t => ~ TopAt(lines, topic.mode, t)
    PROVE  HeaderOf(i) = h
<1> DEFINE Tops == {0} \cup {j \in 1 .. i : lines[j].indent = Margin /\ lines[j].words \notin Structural}
<1>1. Margin = MarginOf(lines, topic.mode)
  BY Zenon DEF Margin, MarginOf
<1>2. \A j \in 1 .. i : j \in Tops <=> TopAt(lines, topic.mode, j)
  BY <1>1 DEF TopAt
<1>3. Tops \subseteq 0 .. i
  OBVIOUS
<1>4. HeaderOf(i) = Max(Tops)
  BY Zenon DEF HeaderOf
<1> HIDE DEF Tops
<1>5. h \in Tops /\ \A t \in Tops : h >= t
  <2>1. \A t \in Tops : t = 0 \/ t \in 1 .. i
    BY <1>3
  <2>2. \A t \in Tops : t \in 1 .. i => ~ (h < t)
    BY <1>2
  <2> QED BY <1>2, <2>1, <2>2
<1>6. \A x \in Tops : (\A y \in Tops : x >= y) => x = h
  <2> SUFFICES ASSUME NEW x \in Tops, \A y \in Tops : x >= y PROVE x = h
    OBVIOUS
  <2>1. x >= h /\ h >= x /\ x \in 0 .. i
    BY <1>3, <1>5
  <2> QED BY <2>1
<1>7. Max(Tops) \in Tops /\ \A y \in Tops : Max(Tops) >= y
  BY <1>5, Zenon DEF Max
<1> QED BY <1>4, <1>6, <1>7

(* What a settled text says of each line. *)
LEMMA SettledIsOnce ==
    ASSUME TextOk(lines), NEW gone, gone = config.ignored, NEW live, live = Live,
           Settled(lines, topic.mode, topic.view, live, gone)
    PROVE  EachLineOnce
<1> DEFINE n == Len(lines)
<1>1. n \in Nat /\ DOMAIN lines = 1 .. n
  BY DEF TextOk
<1>2. Accounted = live \cup gone
  BY DEF Accounted
<1>3. live \cap gone = {}
  BY DEF Settled
<1>4. \A i \in 1 .. n : lines[i].words \in Structural => i \notin live \cup gone
  BY DEF Settled
<1> HIDE DEF n
<1>5. ASSUME NEW i \in 1 .. n
      PROVE  i \in live \cup gone \/ lines[i].words \in Structural \/ HeaderOf(i) \in gone
  <2>1. \/ i \in live \/ i \in gone \/ lines[i].words \in Structural
        \/ \E h \in gone : /\ h \in 1 .. n /\ TopAt(lines, topic.mode, h) /\ h < i
                           /\ \A t \in 1 .. i : h < t => ~ TopAt(lines, topic.mode, t)
    BY <1>5, Zenon DEF Settled, n
  <2>2. ASSUME NEW h \in gone, h \in 1 .. n, TopAt(lines, topic.mode, h), h < i,
               \A t \in 1 .. i : h < t => ~ TopAt(lines, topic.mode, t)
        PROVE  HeaderOf(i) \in gone
    <3>1. i \in Nat /\ h \in 1 .. i
      BY <1>1, <2>2
    <3>2. HeaderOf(i) = h
      BY <2>2, <3>1, HeaderIs
    <3> QED BY <3>2
  <2> QED BY <2>1, <2>2
<1> QED BY <1>1, <1>2, <1>3, <1>4, <1>5, Zenon DEF EachLineOnce

(* Every line is in force or superseded, never both, and neither only under a header that was
   itself superseded: whatever the texts, with the parsers of the two plugins (effective_blocks). *)
THEOREM LinesAreInForceOnce ==
    ASSUME Plugins PROVE Spec => []EachLineOnce
<1>1. TextInv => EachLineOnce
  <2> SUFFICES ASSUME TextInv PROVE EachLineOnce
    OBVIOUS
  <2> DEFINE v == topic.view
  <2>1. TextOk(lines) /\ v \in Seq(Word) /\ ~ Undone(v)
    BY TopicIs DEF TextInv
  <2>2. config = PluginParsed(lines, topic)
    BY Zenon DEF TextInv, Plugins
  <2>3. Settled(lines, topic.mode, topic.view, Lives(config.blocks, topic.view), config.ignored)
    BY <2>1, <2>2, PluginSettles
  <2>4. Live = Lives(config.blocks, topic.view)
    BY Zenon DEF Live, InUse, Lives
  <2> QED BY <2>1, <2>3, <2>4, SettledIsOnce
<1> QED BY <1>1, TextInvariant, PTL

----------------------------------------------------------------------------
(* One line more *)

(* The key of a header shows in it; first is the interface it names. *)
Tells(h, key, first) ==
    /\ Len(h) \in Nat /\ Len(h) >= 1 /\ key[1] = h[1]
    /\ Len(h) = 1 => h[1] \in {"isis", "aaa"}
    /\ h[1] = "aaa" => h = <<"aaa">>
    /\ h[1] \in {"traffic", "qos"} => Len(h) >= 3 /\ key[2] = h[2]
    /\ h[1] = "interface" => key[2] = first

(* As the ways to make a key tell. *)
KeyMade(h, key, name, acl) ==
    \/ Len(h) >= 2 /\ h[1] = "interface" /\ key = <<"interface">> \o name
    \/ Len(h) >= 2 /\ h[1] \in {"bgp", "ospf", "isis"} /\ key = SubSeq(h, 1, 2)
    \/ h[1] = "isis" /\ Len(h) = 1 /\ key = <<h[1], "1">>
    \/ h = <<"aaa">> /\ key = h
    \/ Len(h) >= 3 /\ h[1] \in {"ip", "traffic", "qos"} /\ key = SubSeq(h, 1, 3)
    \/ Len(h) >= 2 /\ h[1] \in {"user-interface", "line", "bridge-domain", "vni"} /\ key = h
    \/ Len(h) = 5 /\ h[1] = "route-policy" /\ key = <<"route-policy", h[2], "node", h[5]>>
    \/ Len(h) >= 2 /\ h[1] = "acl" /\ key = acl

(* Each of those ways tells. *)
LEMMA KeyTells ==
    ASSUME NEW h \in Seq(Word), NEW key, NEW name, NEW acl, KeyMade(h, key, name, acl),
           NEW X, Len(h) >= 2 => name \in Seq(X) /\ Len(name) >= 1, key = acl => acl[1] = "acl"
    PROVE  Tells(h, key, name[1])
<1>1. Len(h) \in Nat
  OBVIOUS
<1>long. ASSUME Len(h) >= 2, key[1] = h[1], h[1] \notin {"aaa", "traffic", "qos"}, h[1] = "interface" => key[2] = name[1]
         PROVE  Tells(h, key, name[1])
  <2> DEFINE n == Len(h)
  <2>0. n \in Nat /\ n >= 2
    BY <1>1, <1>long
  <2> HIDE DEF n
  <2>1. n >= 1 /\ n # 1
    BY <2>0
  <2>2. h[1] # "aaa" /\ h[1] \notin {"traffic", "qos"}
    BY <1>long
  <2> QED BY <1>1, <1>long, <2>1, <2>2, Zenon DEF Tells, n
<1>2. CASE Len(h) >= 2 /\ h[1] = "interface" /\ key = <<"interface">> \o name
  <2> DEFINE Y == X \cup {"interface"}
             one == <<"interface">>
  <2>1. one \in Seq(Y) /\ Len(one) = 1 /\ one[1] = "interface"
    OBVIOUS
  <2>2. name \in Seq(Y) /\ Len(name) >= 1
    BY <1>2
  <2>3. key = one \o name
    BY <1>2
  <2> HIDE DEF Y, one
  <2>4. /\ Len(one \o name) = Len(one) + Len(name)
        /\ \A i \in 1 .. Len(one) + Len(name) : (one \o name)[i] = IF i <= Len(one) THEN one[i] ELSE name[i - Len(one)]
    BY <2>1, <2>2, ConcatProperties
  <2>5. 1 \in 1 .. 1 + Len(name) /\ 2 \in 1 .. 1 + Len(name) /\ ~ (2 <= 1) /\ 1 <= 1 /\ 2 - 1 = 1
    BY <2>2
  <2>6. key[1] = "interface" /\ key[2] = name[1]
    BY <2>1, <2>3, <2>4, <2>5
  <2> QED BY <1>2, <2>6, <1>long
<1>3. CASE Len(h) >= 2 /\ h[1] \in {"bgp", "ospf", "isis"} /\ key = SubSeq(h, 1, 2)
  <2>1. key[1] = h[1]
    BY <1>1, <1>3
  <2>2. h[1] \notin {"aaa", "traffic", "qos", "interface"}
    BY <1>3
  <2> QED BY <1>3, <2>1, <2>2, <1>long
<1>4. CASE h[1] = "isis" /\ Len(h) = 1 /\ key = <<h[1], "1">>
  BY <1>1, <1>4 DEF Tells
<1>5. CASE h = <<"aaa">> /\ key = h
  BY <1>1, <1>5 DEF Tells
<1>6. CASE Len(h) >= 3 /\ h[1] \in {"ip", "traffic", "qos"} /\ key = SubSeq(h, 1, 3)
  <2>1. key[1] = h[1] /\ key[2] = h[2]
    BY <1>1, <1>6
  <2>2. h[1] \notin {"aaa", "interface"}
    BY <1>6
  <2> QED BY <1>1, <1>6, <2>1, <2>2 DEF Tells
<1>7. CASE Len(h) >= 2 /\ h[1] \in {"user-interface", "line", "bridge-domain", "vni"} /\ key = h
  <2>1. h[1] \notin {"aaa", "traffic", "qos", "interface"}
    BY <1>7
  <2> QED BY <1>7, <2>1, <1>long
<1>8. CASE Len(h) = 5 /\ h[1] = "route-policy" /\ key = <<"route-policy", h[2], "node", h[5]>>
  <2>1. h[1] \notin {"aaa", "traffic", "qos", "interface"} /\ key[1] = h[1] /\ Len(h) >= 2
    BY <1>8
  <2> QED BY <2>1, <1>long
<1>9. CASE Len(h) >= 2 /\ h[1] = "acl" /\ key = acl
  <2>1. h[1] \notin {"aaa", "traffic", "qos", "interface"}
    BY <1>9
  <2> QED BY <1>9, <2>1, <1>long
<1> QED BY <1>2, <1>3, <1>4, <1>5, <1>6, <1>7, <1>8, <1>9, Zenon DEF KeyMade

(* The words of an interface's name, a type and a number apart or not. *)
LEMMA NameIs ==
    ASSUME NEW h \in Seq(Word), Len(h) >= 2, NEW x, NEW name,
           name = <<x>> \o SubSeq(Tail(h), 3, Len(Tail(h))) \/ name = Tail(h)
    PROVE  name \in Seq(Word \cup {x}) /\ Len(name) >= 1
<1> DEFINE ws == Tail(h)
           rest == SubSeq(ws, 3, Len(ws))
           Y == Word \cup {x}
           one == <<x>>
<1>1. ws \in Seq(Word) /\ Len(ws) \in Nat /\ Len(ws) >= 1
  OBVIOUS
<1>2. rest \in Seq(Word)
  BY <1>1
<1>3. one \in Seq(Y) /\ Len(one) = 1
  OBVIOUS
<1>4. ws \in Seq(Y)
  BY <1>1
<1>5. rest \in Seq(Y) /\ Len(rest) \in Nat
  BY <1>2
<1> HIDE DEF ws, rest, Y, one
<1>6. one \o rest \in Seq(Y) /\ Len(one \o rest) = Len(one) + Len(rest)
  BY <1>3, <1>5, ConcatProperties
<1>7. name = one \o rest \/ name = ws
  BY DEF one, rest, ws
<1>8. CASE name = ws
  BY <1>1, <1>4, <1>8 DEF Y
<1>9. CASE name = one \o rest
  <2> DEFINE r == one \o rest
  <2>1. r \in Seq(Y) /\ Len(r) >= 1
    BY <1>3, <1>5, <1>6
  <2> QED BY <1>9, <2>1 DEF Y
<1> QED BY <1>7, <1>8, <1>9

(* What a header begins with, to the VRP commands. *)
LEMMA HuaweiBegins ==
    ASSUME NEW h \in Seq(Word)
    PROVE  /\ \A p : Huawei!Begins(h, p) <=> Huawei!Reduction!Begins(h, p)
           /\ \A x : Huawei!Begins(h, <<x>>) <=> Len(h) >= 2 /\ h[1] = x
           /\ \A x, y : Huawei!Begins(h, <<x, y>>) <=> Len(h) >= 3 /\ h[1] = x /\ h[2] = y
<1>1. h \in Huawei!Reduction!Words
  BY DEF Huawei!Reduction!Words, Huawei!Reduction!Word, Word
<1>2. \A p : Huawei!Begins(h, p) <=> Huawei!Reduction!Begins(h, p)
  BY Zenon DEF Huawei!Begins, Huawei!IsPrefix, Huawei!Reduction!Begins, Huawei!Reduction!IsPrefix
<1>3. \A x : Huawei!Reduction!Begins(h, <<x>>) <=> Len(h) >= 2 /\ h[1] = x
  BY <1>1, Huawei!Reduction!BeginsWord, NumberAssumption, NetworkAssumption
<1>4. \A x, y : Huawei!Reduction!Begins(h, <<x, y>>) <=> Len(h) >= 3 /\ h[1] = x /\ h[2] = y
  BY <1>1, Huawei!Reduction!BeginsTwo, NumberAssumption, NetworkAssumption
<1> QED BY <1>2, <1>3, <1>4, Zenon

(* A header of the VRP commands that has a key shows in it. *)
LEMMA HuaweiKeyTells ==
    ASSUME NEW h \in Seq(Word), NEW key, key = Huawei!BlockKey(h), key # NoKey, h # <<"ospf">>
    PROVE  Tells(h, key, Huawei!InterfaceName(h)[1])
<1>1. \A x : Huawei!Begins(h, <<x>>) <=> Len(h) >= 2 /\ h[1] = x
  BY HuaweiBegins
<1>2. \A x, y : Huawei!Begins(h, <<x, y>>) <=> Len(h) >= 3 /\ h[1] = x /\ h[2] = y
  BY HuaweiBegins
<1> DEFINE name == Huawei!InterfaceName(h)
           acl == Huawei!AclKey(Tail(h))
           C1 == Huawei!IsInterface(h)
           C2 == Len(h) >= 2 /\ h[1] \in {"bgp", "ospf", "isis"} /\ Huawei!Numeral(h[2]) /\ (h[1] = "bgp" => Len(h) = 2)
           C3 == h \in {<<"ospf">>, <<"isis">>}
           C4 == h = <<"aaa">>
           C5 == Huawei!BeginsAny(h, {<<"ip", "vpn-instance">>, <<"traffic", "classifier">>,
                                   <<"traffic", "behavior">>, <<"traffic", "policy">>})
           C6 == Huawei!Begins(h, <<"user-interface">>)
           C7 == Len(h) = 5 /\ h[1] = "route-policy" /\ h[3] \in {"permit", "deny"} /\ h[4] = "node"
           C8 == Len(h) = 2 /\ h[1] \in {"bridge-domain", "vni"} /\ Huawei!Numeral(h[2])
           C9 == Huawei!Begins(h, <<"acl">>)
           K1 == <<"interface">> \o name
           K2 == SubSeq(h, 1, 2)
           K3 == <<h[1], "1">>
           K5 == SubSeq(h, 1, 3)
           K7 == <<"route-policy", h[2], "node", h[5]>>
<1>3. key = CASE C1 -> K1 [] C2 -> K2 [] C3 -> K3 [] C4 -> h [] C5 -> K5 [] C6 -> h [] C7 -> K7
              [] C8 -> h [] C9 -> acl [] OTHER -> NoKey
  BY Zenon DEF Huawei!BlockKey, Huawei!Upto, Huawei!NoKey, NoKey
<1>4. C1 <=> Len(h) >= 2 /\ h[1] = "interface"
  BY <1>1 DEF Huawei!IsInterface
<1>5. C5 => Len(h) >= 3 /\ h[1] \in {"ip", "traffic", "qos"}
  BY <1>2 DEF Huawei!BeginsAny
<1>6. /\ C2 => Len(h) >= 2 /\ h[1] \in {"bgp", "ospf", "isis"}
      /\ C3 => h[1] = "isis" /\ Len(h) = 1
      /\ C6 => Len(h) >= 2 /\ h[1] \in {"user-interface", "line", "bridge-domain", "vni"}
      /\ C7 => Len(h) = 5 /\ h[1] = "route-policy"
      /\ C8 => Len(h) >= 2 /\ h[1] \in {"user-interface", "line", "bridge-domain", "vni"}
      /\ C9 => Len(h) >= 2 /\ h[1] = "acl"
  BY <1>1
<1>7. C4 => h = <<"aaa">>
  OBVIOUS
<1>8. key = acl => acl[1] = "acl"
  <2>1. acl = Huawei!Reduction!AclKey(Tail(h))
    BY Zenon DEF Huawei!AclKey, Huawei!AclIdentity, Huawei!Numeral, Huawei!NoKey, NoKey,
                 Huawei!Reduction!AclKey, Huawei!Reduction!AclIdentity, Huawei!Reduction!Numeral, Huawei!Reduction!NoKey
  <2>2. NoKey = Huawei!Reduction!NoKey
    BY DEF NoKey, Huawei!Reduction!NoKey
  <2> HIDE DEF acl
  <2>3. ASSUME key = acl PROVE acl[1] = "acl"
    BY <2>1, <2>2, <2>3, Huawei!Reduction!AclKeyIs, NumberAssumption, NetworkAssumption
  <2> QED BY <2>3
<1>9. PICK x : name = <<x>> \o SubSeq(Tail(h), 3, Len(Tail(h))) \/ name = Tail(h)
  BY Zenon DEF Huawei!InterfaceName, Huawei!Joined, Huawei!From
<1> HIDE DEF name, acl, C1, C2, C3, C4, C5, C6, C7, C8, C9
<1>10. Len(h) >= 2 => name \in Seq(Word \cup {x}) /\ Len(name) >= 1
  BY <1>9, NameIs
<1>11. KeyMade(h, key, name, acl)
  <2> HIDE DEF K1, K2, K3, K5, K7
  <2>1. \/ (C1 /\ key = K1) \/ (C2 /\ key = K2) \/ (C3 /\ key = K3)
        \/ (C4 /\ key = h) \/ (C5 /\ key = K5) \/ ((C6 \/ C8) /\ key = h)
        \/ (C7 /\ key = K7) \/ (C9 /\ key = acl)
    BY <1>3
  <2>2. CASE C1 /\ key = K1
    BY <1>4, <2>2, Zenon DEF KeyMade, K1
  <2>3. CASE C2 /\ key = K2
    BY <1>6, <2>3, Zenon DEF KeyMade, K2
  <2>4. CASE C3 /\ key = K3
    BY <1>6, <2>4, Zenon DEF KeyMade, K3
  <2>5. CASE C4 /\ key = h
    BY <1>7, <2>5, Zenon DEF KeyMade
  <2>6. CASE C5 /\ key = K5
    BY <1>5, <2>6, Zenon DEF KeyMade, K5
  <2>7. CASE (C6 \/ C8) /\ key = h
    BY <1>6, <2>7, Zenon DEF KeyMade
  <2>8. CASE C7 /\ key = K7
    BY <1>6, <2>8, Zenon DEF KeyMade, K7
  <2>9. CASE C9 /\ key = acl
    BY <1>6, <2>9, Zenon DEF KeyMade
  <2> QED BY <2>1, <2>2, <2>3, <2>4, <2>5, <2>6, <2>7, <2>8, <2>9, Zenon
<1>12. Tells(h, key, name[1])
  BY <1>8, <1>10, <1>11, KeyTells
<1> QED BY <1>12 DEF name

(* What a header begins with, to the Comware commands. *)
LEMMA H3CBegins ==
    ASSUME NEW h \in Seq(Word)
    PROVE  /\ \A p : H3C!Begins(h, p) <=> H3C!Reduction!Begins(h, p)
           /\ \A x : H3C!Begins(h, <<x>>) <=> Len(h) >= 2 /\ h[1] = x
           /\ \A x, y : H3C!Begins(h, <<x, y>>) <=> Len(h) >= 3 /\ h[1] = x /\ h[2] = y
<1>1. h \in H3C!Reduction!Words
  BY DEF H3C!Reduction!Words, H3C!Reduction!Word, Word
<1>2. \A p : H3C!Begins(h, p) <=> H3C!Reduction!Begins(h, p)
  BY Zenon DEF H3C!Begins, H3C!IsPrefix, H3C!Reduction!Begins, H3C!Reduction!IsPrefix
<1>3. \A x : H3C!Reduction!Begins(h, <<x>>) <=> Len(h) >= 2 /\ h[1] = x
  BY <1>1, H3C!Reduction!BeginsWord, NumberAssumption, NetworkAssumption
<1>4. \A x, y : H3C!Reduction!Begins(h, <<x, y>>) <=> Len(h) >= 3 /\ h[1] = x /\ h[2] = y
  BY <1>1, H3C!Reduction!BeginsTwo, NumberAssumption, NetworkAssumption
<1> QED BY <1>2, <1>3, <1>4, Zenon

(* A header of the Comware commands that has a key shows in it. *)
LEMMA H3CKeyTells ==
    ASSUME NEW h \in Seq(Word), NEW key, key = H3C!BlockKey(h), key # NoKey, h # <<"ospf">>
    PROVE  Tells(h, key, H3C!InterfaceName(h)[1])
<1>1. \A x : H3C!Begins(h, <<x>>) <=> Len(h) >= 2 /\ h[1] = x
  BY H3CBegins
<1>2. \A x, y : H3C!Begins(h, <<x, y>>) <=> Len(h) >= 3 /\ h[1] = x /\ h[2] = y
  BY H3CBegins
<1> DEFINE name == H3C!InterfaceName(h)
           acl == H3C!AclKey(Tail(h))
           C1 == H3C!IsInterface(h)
           C2 == Len(h) >= 2 /\ h[1] \in {"bgp", "ospf", "isis"} /\ H3C!Numeral(h[2]) /\ (h[1] = "bgp" => Len(h) = 2)
           C3 == h \in {<<"ospf">>, <<"isis">>}
           C4 == h = <<"aaa">>
           C5 == H3C!BeginsAny(h, {<<"ip", "vpn-instance">>, <<"traffic", "classifier">>,
                                   <<"traffic", "behavior">>, <<"qos", "policy">>})
           C6 == H3C!Begins(h, <<"line">>)
           C7 == Len(h) = 5 /\ h[1] = "route-policy" /\ h[3] \in {"permit", "deny"} /\ h[4] = "node"
           C8 == Len(h) = 2 /\ h[1] \in {"bridge-domain", "vni"} /\ H3C!Numeral(h[2])
           C9 == H3C!Begins(h, <<"acl">>)
           K1 == <<"interface">> \o name
           K2 == SubSeq(h, 1, 2)
           K3 == <<h[1], "1">>
           K5 == SubSeq(h, 1, 3)
           K7 == <<"route-policy", h[2], "node", h[5]>>
<1>3. key = CASE C1 -> K1 [] C2 -> K2 [] C3 -> K3 [] C4 -> h [] C5 -> K5 [] C6 -> h [] C7 -> K7
              [] C8 -> h [] C9 -> acl [] OTHER -> NoKey
  BY Zenon DEF H3C!BlockKey, H3C!Upto, H3C!NoKey, NoKey
<1>4. C1 <=> Len(h) >= 2 /\ h[1] = "interface"
  BY <1>1 DEF H3C!IsInterface
<1>5. C5 => Len(h) >= 3 /\ h[1] \in {"ip", "traffic", "qos"}
  BY <1>2 DEF H3C!BeginsAny
<1>6. /\ C2 => Len(h) >= 2 /\ h[1] \in {"bgp", "ospf", "isis"}
      /\ C3 => h[1] = "isis" /\ Len(h) = 1
      /\ C6 => Len(h) >= 2 /\ h[1] \in {"user-interface", "line", "bridge-domain", "vni"}
      /\ C7 => Len(h) = 5 /\ h[1] = "route-policy"
      /\ C8 => Len(h) >= 2 /\ h[1] \in {"user-interface", "line", "bridge-domain", "vni"}
      /\ C9 => Len(h) >= 2 /\ h[1] = "acl"
  BY <1>1
<1>7. C4 => h = <<"aaa">>
  OBVIOUS
<1>8. key = acl => acl[1] = "acl"
  <2>1. acl = H3C!Reduction!AclKey(Tail(h))
    BY Zenon DEF H3C!AclKey, H3C!AclIdentity, H3C!Numeral, H3C!NoKey, NoKey,
                 H3C!Reduction!AclKey, H3C!Reduction!AclIdentity, H3C!Reduction!Numeral, H3C!Reduction!NoKey
  <2>2. NoKey = H3C!Reduction!NoKey
    BY DEF NoKey, H3C!Reduction!NoKey
  <2> HIDE DEF acl
  <2>3. ASSUME key = acl PROVE acl[1] = "acl"
    BY <2>1, <2>2, <2>3, H3C!Reduction!AclKeyIs, NumberAssumption, NetworkAssumption
  <2> QED BY <2>3
<1>9. PICK x : name = <<x>> \o SubSeq(Tail(h), 3, Len(Tail(h))) \/ name = Tail(h)
  BY Zenon DEF H3C!InterfaceName, H3C!Joined, H3C!From
<1> HIDE DEF name, acl, C1, C2, C3, C4, C5, C6, C7, C8, C9
<1>10. Len(h) >= 2 => name \in Seq(Word \cup {x}) /\ Len(name) >= 1
  BY <1>9, NameIs
<1>11. KeyMade(h, key, name, acl)
  <2> HIDE DEF K1, K2, K3, K5, K7
  <2>1. \/ (C1 /\ key = K1) \/ (C2 /\ key = K2) \/ (C3 /\ key = K3)
        \/ (C4 /\ key = h) \/ (C5 /\ key = K5) \/ ((C6 \/ C8) /\ key = h)
        \/ (C7 /\ key = K7) \/ (C9 /\ key = acl)
    BY <1>3
  <2>2. CASE C1 /\ key = K1
    BY <1>4, <2>2, Zenon DEF KeyMade, K1
  <2>3. CASE C2 /\ key = K2
    BY <1>6, <2>3, Zenon DEF KeyMade, K2
  <2>4. CASE C3 /\ key = K3
    BY <1>6, <2>4, Zenon DEF KeyMade, K3
  <2>5. CASE C4 /\ key = h
    BY <1>7, <2>5, Zenon DEF KeyMade
  <2>6. CASE C5 /\ key = K5
    BY <1>5, <2>6, Zenon DEF KeyMade, K5
  <2>7. CASE (C6 \/ C8) /\ key = h
    BY <1>6, <2>7, Zenon DEF KeyMade
  <2>8. CASE C7 /\ key = K7
    BY <1>6, <2>8, Zenon DEF KeyMade, K7
  <2>9. CASE C9 /\ key = acl
    BY <1>6, <2>9, Zenon DEF KeyMade
  <2> QED BY <2>1, <2>2, <2>3, <2>4, <2>5, <2>6, <2>7, <2>8, <2>9, Zenon
<1>12. Tells(h, key, name[1])
  BY <1>8, <1>10, <1>11, KeyTells
<1> QED BY <1>12 DEF name

(* What two headers of one key have in common. *)
TellSame(h, k, f, g) ==
    /\ h[1] = k[1]
    /\ \A x : x \notin {"isis", "aaa"} => (Len(h) >= 2 /\ h[1] = x <=> Len(k) >= 2 /\ k[1] = x)
    /\ \A x, y : x \in {"traffic", "qos"} =>
          (Len(h) >= 3 /\ h[1] = x /\ h[2] = y <=> Len(k) >= 3 /\ k[1] = x /\ k[2] = y)
    /\ h = <<"aaa">> <=> k = <<"aaa">>
    /\ h[1] = "interface" => f = g

(* Headers whose keys are equal, or are those of lists, have that in common. *)
LEMMA SameTold ==
    ASSUME NEW h, NEW k, NEW a, NEW b, NEW f, NEW g, Tells(h, a, f), Tells(k, b, g),
           a = b \/ (a[1] = "acl" /\ b[1] = "acl")
    PROVE  TellSame(h, k, f, g)
<1>1. a[1] = b[1] /\ a[1] = h[1] /\ b[1] = k[1]
  BY DEF Tells
<1>2. h[1] = k[1]
  BY <1>1
<1>3. h[1] # "acl" => a = b
  BY <1>1
<1>4. ASSUME NEW x, x \notin {"isis", "aaa"} PROVE Len(h) >= 2 /\ h[1] = x <=> Len(k) >= 2 /\ k[1] = x
  <2> DEFINE m == Len(h)
             n == Len(k)
  <2>1. m \in Nat /\ n \in Nat /\ m >= 1 /\ n >= 1
    BY Zenon DEF Tells
  <2>2. h[1] = x => m # 1
    BY <1>4, Zenon DEF Tells
  <2>3. k[1] = x => n # 1
    BY <1>4, Zenon DEF Tells
  <2> HIDE DEF m, n
  <2>4. m >= 2 /\ h[1] = x <=> n >= 2 /\ k[1] = x
    BY <1>2, <2>1, <2>2, <2>3
  <2> QED BY <2>4 DEF m, n
<1>5. ASSUME NEW x, NEW y, x \in {"traffic", "qos"}
      PROVE  Len(h) >= 3 /\ h[1] = x /\ h[2] = y <=> Len(k) >= 3 /\ k[1] = x /\ k[2] = y
  <2>1. ASSUME h[1] = x PROVE Len(h) >= 3 /\ Len(k) >= 3 /\ h[2] = k[2]
    <3>1. h[1] \in {"traffic", "qos"} /\ k[1] \in {"traffic", "qos"}
      BY <1>2, <1>5, <2>1, Zenon
    <3>2. Len(h) >= 3 /\ a[2] = h[2] /\ Len(k) >= 3 /\ b[2] = k[2]
      BY <3>1, Zenon DEF Tells
    <3>3. h[1] # "acl"
      BY <3>1
    <3> QED BY <1>3, <3>2, <3>3, Zenon
  <2> QED BY <1>2, <2>1, Zenon
<1>6. h = <<"aaa">> <=> k = <<"aaa">>
  <2>1. ASSUME NEW x, x = <<"aaa">> PROVE x[1] = "aaa"
    BY <2>1
  <2> QED BY <1>2, <2>1, Zenon DEF Tells
<1>7. h[1] = "interface" => f = g
  <2>1. h[1] = "interface" => h[1] # "acl"
    OBVIOUS
  <2> QED BY <1>2, <1>3, <2>1, Zenon DEF Tells
<1> QED BY <1>2, <1>4, <1>5, <1>6, <1>7, Zenon DEF TellSame

(* Headers of one key, or of two lists, read the same to the VRP tables. *)
LEMMA HuaweiTables ==
    ASSUME NEW h \in Seq(Word), NEW k \in Seq(Word), h # <<"ospf">>, k # <<"ospf">>,
           Huawei!BlockKey(h) # NoKey, Huawei!BlockKey(k) # NoKey,
           Huawei!BlockKey(h) = Huawei!BlockKey(k) \/ (Huawei!BlockKey(h)[1] = "acl" /\ Huawei!BlockKey(k)[1] = "acl")
    PROVE  Huawei!Reduction!SameTables(h, k)
<1> DEFINE a == Huawei!BlockKey(h)
           b == Huawei!BlockKey(k)
           f == Huawei!InterfaceName(h)[1]
           g == Huawei!InterfaceName(k)[1]
           B(x, p) == Huawei!Begins(x, p)
<1>1. Tells(h, a, f) /\ Tells(k, b, g)
  BY HuaweiKeyTells
<1>2. a = b \/ (a[1] = "acl" /\ b[1] = "acl")
  OBVIOUS
<1> HIDE DEF a, b, f, g
<1>3. TellSame(h, k, f, g)
  BY <1>1, <1>2, SameTold
<1>4. ASSUME NEW x, x \notin {"isis", "aaa"} PROVE B(h, <<x>>) <=> B(k, <<x>>)
  <2>1. (B(h, <<x>>) <=> Len(h) >= 2 /\ h[1] = x) /\ (B(k, <<x>>) <=> Len(k) >= 2 /\ k[1] = x)
    BY HuaweiBegins
  <2> QED BY <1>3, <1>4, <2>1, Zenon DEF TellSame
<1>5. ASSUME NEW x, NEW y, x \in {"traffic", "qos"} PROVE B(h, <<x, y>>) <=> B(k, <<x, y>>)
  <2>1. /\ B(h, <<x, y>>) <=> Len(h) >= 3 /\ h[1] = x /\ h[2] = y
        /\ B(k, <<x, y>>) <=> Len(k) >= 3 /\ k[1] = x /\ k[2] = y
    BY HuaweiBegins
  <2>2. (Len(h) >= 3 /\ h[1] = x /\ h[2] = y) <=> (Len(k) >= 3 /\ k[1] = x /\ k[2] = y)
    <3> DEFINE D == {"traffic", "qos"}
    <3>1. \A p, q : p \in D =>
            ((Len(h) >= 3 /\ h[1] = p /\ h[2] = q) <=> (Len(k) >= 3 /\ k[1] = p /\ k[2] = q))
      BY <1>3, Zenon DEF TellSame
    <3>2. x \in D
      BY <1>5
    <3> HIDE DEF D
    <3> QED BY <3>1, <3>2, Zenon
  <2> QED BY <2>1, <2>2, Zenon
<1>6. /\ (B(h, <<"bgp">>) <=> B(k, <<"bgp">>)) /\ (B(h, <<"ospf">>) <=> B(k, <<"ospf">>)) /\ (B(h, <<"ospfv3">>) <=> B(k, <<"ospfv3">>))
      /\ (B(h, <<"route-policy">>) <=> B(k, <<"route-policy">>)) /\ (B(h, <<"acl">>) <=> B(k, <<"acl">>)) /\ (B(h, <<"bridge-domain">>) <=> B(k, <<"bridge-domain">>)) /\ (B(h, <<"user-interface">>) <=> B(k, <<"user-interface">>))
      /\ (B(h, <<"interface">>) <=> B(k, <<"interface">>))
  BY <1>4
<1>7. /\ B(h, <<"traffic", "classifier">>) <=> B(k, <<"traffic", "classifier">>)
      /\ B(h, <<"traffic", "policy">>) <=> B(k, <<"traffic", "policy">>)
  BY <1>5
<1> HIDE DEF B
<1>8. (Huawei!IsInterface(h) <=> Huawei!IsInterface(k)) /\ (Huawei!IsUserInterface(h) <=> Huawei!IsUserInterface(k))
  BY <1>6, Zenon DEF Huawei!IsInterface, Huawei!IsUserInterface, B
<1>9. Huawei!BeginsAny(h, {<<"ospf">>, <<"ospfv3">>}) <=> Huawei!BeginsAny(k, {<<"ospf">>, <<"ospfv3">>})
  BY <1>6 DEF Huawei!BeginsAny, B
<1>10. Huawei!BeginsAny(h, {<<"route-policy">>, <<"traffic", "classifier">>}) <=>
         Huawei!BeginsAny(k, {<<"route-policy">>, <<"traffic", "classifier">>})
  BY <1>6, <1>7 DEF Huawei!BeginsAny, B
<1>11. (h[1] = "isis" <=> k[1] = "isis") /\ (h = <<"aaa">> <=> k = <<"aaa">>)
  BY <1>3, Zenon DEF TellSame
<1>12. ASSUME NEW ws, Huawei!IsInterface(h) PROVE Huawei!InterfaceKey(h, ws) = Huawei!InterfaceKey(k, ws)
  <2>1. h[1] = "interface"
    <3>1. Huawei!Begins(h, <<"interface">>)
      BY <1>12, Zenon DEF Huawei!IsInterface
    <3> QED BY <3>1, HuaweiBegins
  <2>2. Huawei!InterfaceName(h)[1] = Huawei!InterfaceName(k)[1]
    BY <1>3, <2>1, Zenon DEF TellSame, f, g
  <2> QED BY <2>2, Zenon DEF Huawei!InterfaceKey
<1>13. ASSUME NEW ws PROVE Huawei!MatchKey(h, ws) = Huawei!MatchKey(k, ws)
  <2> DEFINE t(x) == Huawei!Begins(x, <<"traffic", "classifier">>)
  <2>1. t(h) <=> t(k)
    BY <1>7 DEF B
  <2> HIDE DEF t
  <2>2. (t(h) <=> t(k)) => Huawei!MatchKey(h, ws) = Huawei!MatchKey(k, ws)
    BY SMT DEF Huawei!MatchKey, t
  <2> QED BY <2>1, <2>2
<1>14. ASSUME NEW ws, NEW vs PROVE Huawei!ClauseKey(h, ws, vs) = Huawei!ClauseKey(k, ws, vs)
  BY <1>6, <1>7, <1>8, <1>10, <1>11, <1>12, <1>13 DEF Huawei!ClauseKey, B
<1>15. ASSUME NEW ws PROVE Huawei!UndoSupported(h, ws) <=> Huawei!UndoSupported(k, ws)
  BY <1>6, <1>7, <1>8, <1>9, <1>10, <1>11 DEF Huawei!UndoSupported, B
<1>16. /\ Huawei!Reduction!IsInterface(h) <=> Huawei!Reduction!IsInterface(k)
       /\ Huawei!Reduction!Begins(h, <<"bgp">>) <=> Huawei!Reduction!Begins(k, <<"bgp">>)
  <2>1. \A p : (Huawei!Begins(h, p) <=> Huawei!Reduction!Begins(h, p)) /\ (Huawei!Begins(k, p) <=> Huawei!Reduction!Begins(k, p))
    BY HuaweiBegins
  <2> QED BY <1>6, <2>1, Zenon DEF Huawei!Reduction!IsInterface, B
<1> QED BY <1>14, <1>15, <1>16, Zenon DEF Huawei!Reduction!SameTables

(* So the views of the VRP commands are reduced alike under any of their headers. *)
LEMMA HuaweiHeadersAlike == Huawei!Reduction!HeadersAlike
<1>1. ASSUME NEW h \in Huawei!Reduction!Words, NEW k \in Huawei!Reduction!Words,
             h # <<"ospf">>, k # <<"ospf">>, Huawei!BlockKey(h) # Huawei!Reduction!NoKey, Huawei!BlockKey(k) # Huawei!Reduction!NoKey,
             Huawei!BlockKey(h) = Huawei!BlockKey(k) \/ (Huawei!BlockKey(h)[1] = "acl" /\ Huawei!BlockKey(k)[1] = "acl")
      PROVE  Huawei!Reduction!SameTables(h, k)
  <2>1. h \in Seq(Word) /\ k \in Seq(Word)
    BY DEF Huawei!Reduction!Words, Huawei!Reduction!Word, Word
  <2>2. Huawei!Reduction!NoKey = NoKey
    BY DEF Huawei!Reduction!NoKey, NoKey
  <2>3. Huawei!BlockKey(h) # NoKey /\ Huawei!BlockKey(k) # NoKey
    BY <1>1, <2>2, Zenon
  <2> QED BY <1>1, <2>1, <2>3, HuaweiTables
<1> QED BY <1>1, Huawei!Reduction!HeadersAlikeBy, NumberAssumption, NetworkAssumption

(* Headers of one key, or of two lists, read the same to the Comware tables. *)
LEMMA H3CTables ==
    ASSUME NEW h \in Seq(Word), NEW k \in Seq(Word), h # <<"ospf">>, k # <<"ospf">>,
           H3C!BlockKey(h) # NoKey, H3C!BlockKey(k) # NoKey,
           H3C!BlockKey(h) = H3C!BlockKey(k) \/ (H3C!BlockKey(h)[1] = "acl" /\ H3C!BlockKey(k)[1] = "acl")
    PROVE  H3C!Reduction!SameTables(h, k)
<1> DEFINE a == H3C!BlockKey(h)
           b == H3C!BlockKey(k)
           f == H3C!InterfaceName(h)[1]
           g == H3C!InterfaceName(k)[1]
           B(x, p) == H3C!Begins(x, p)
<1>1. Tells(h, a, f) /\ Tells(k, b, g)
  BY H3CKeyTells
<1>2. a = b \/ (a[1] = "acl" /\ b[1] = "acl")
  OBVIOUS
<1> HIDE DEF a, b, f, g
<1>3. TellSame(h, k, f, g)
  BY <1>1, <1>2, SameTold
<1>4. ASSUME NEW x, x \notin {"isis", "aaa"} PROVE B(h, <<x>>) <=> B(k, <<x>>)
  <2>1. (B(h, <<x>>) <=> Len(h) >= 2 /\ h[1] = x) /\ (B(k, <<x>>) <=> Len(k) >= 2 /\ k[1] = x)
    BY H3CBegins
  <2> QED BY <1>3, <1>4, <2>1, Zenon DEF TellSame
<1>5. ASSUME NEW x, NEW y, x \in {"traffic", "qos"} PROVE B(h, <<x, y>>) <=> B(k, <<x, y>>)
  <2>1. /\ B(h, <<x, y>>) <=> Len(h) >= 3 /\ h[1] = x /\ h[2] = y
        /\ B(k, <<x, y>>) <=> Len(k) >= 3 /\ k[1] = x /\ k[2] = y
    BY H3CBegins
  <2>2. (Len(h) >= 3 /\ h[1] = x /\ h[2] = y) <=> (Len(k) >= 3 /\ k[1] = x /\ k[2] = y)
    <3> DEFINE D == {"traffic", "qos"}
    <3>1. \A p, q : p \in D =>
            ((Len(h) >= 3 /\ h[1] = p /\ h[2] = q) <=> (Len(k) >= 3 /\ k[1] = p /\ k[2] = q))
      BY <1>3, Zenon DEF TellSame
    <3>2. x \in D
      BY <1>5
    <3> HIDE DEF D
    <3> QED BY <3>1, <3>2, Zenon
  <2> QED BY <2>1, <2>2, Zenon
<1>6. /\ (B(h, <<"bgp">>) <=> B(k, <<"bgp">>)) /\ (B(h, <<"ospf">>) <=> B(k, <<"ospf">>)) /\ (B(h, <<"ospfv3">>) <=> B(k, <<"ospfv3">>))
      /\ (B(h, <<"route-policy">>) <=> B(k, <<"route-policy">>)) /\ (B(h, <<"acl">>) <=> B(k, <<"acl">>)) /\ (B(h, <<"bridge-domain">>) <=> B(k, <<"bridge-domain">>)) /\ (B(h, <<"line">>) <=> B(k, <<"line">>)) /\ (B(h, <<"local-user">>) <=> B(k, <<"local-user">>))
      /\ (B(h, <<"interface">>) <=> B(k, <<"interface">>))
  BY <1>4
<1>7. /\ B(h, <<"traffic", "classifier">>) <=> B(k, <<"traffic", "classifier">>)
      /\ B(h, <<"qos", "policy">>) <=> B(k, <<"qos", "policy">>)
  BY <1>5
<1> HIDE DEF B
<1>8. (H3C!IsInterface(h) <=> H3C!IsInterface(k)) /\ (H3C!IsLine(h) <=> H3C!IsLine(k)) /\ (H3C!IsBgp(h) <=> H3C!IsBgp(k)) /\ (H3C!IsLocalUser(h) <=> H3C!IsLocalUser(k))
  BY <1>6, Zenon DEF H3C!IsInterface, H3C!IsLine, H3C!IsBgp, H3C!IsLocalUser, B
<1>9. H3C!IsOspf(h) <=> H3C!IsOspf(k)
  BY <1>6 DEF H3C!BeginsAny, B, H3C!IsOspf
<1>10. H3C!BeginsAny(h, {<<"route-policy">>, <<"traffic", "classifier">>}) <=>
         H3C!BeginsAny(k, {<<"route-policy">>, <<"traffic", "classifier">>})
  BY <1>6, <1>7 DEF H3C!BeginsAny, B
<1>11. (h[1] = "isis" <=> k[1] = "isis") /\ (h = <<"aaa">> <=> k = <<"aaa">>)
  BY <1>3, Zenon DEF TellSame
<1>12. ASSUME NEW ws, H3C!IsInterface(h) PROVE H3C!InterfaceKey(h, ws) = H3C!InterfaceKey(k, ws)
  <2>1. h[1] = "interface"
    <3>1. H3C!Begins(h, <<"interface">>)
      BY <1>12, Zenon DEF H3C!IsInterface
    <3> QED BY <3>1, H3CBegins
  <2>2. H3C!InterfaceName(h)[1] = H3C!InterfaceName(k)[1]
    BY <1>3, <2>1, Zenon DEF TellSame, f, g
  <2> QED BY <2>2, Zenon DEF H3C!InterfaceKey, H3C!IsAggregate
<1>13. ASSUME NEW ws PROVE H3C!MatchKey(h, ws) = H3C!MatchKey(k, ws)
  <2> DEFINE t(x) == H3C!Begins(x, <<"traffic", "classifier">>)
  <2>1. t(h) <=> t(k)
    BY <1>7 DEF B
  <2> HIDE DEF t
  <2>2. (t(h) <=> t(k)) => H3C!MatchKey(h, ws) = H3C!MatchKey(k, ws)
    BY SMT DEF H3C!MatchKey, t
  <2> QED BY <2>1, <2>2
<1>14. ASSUME NEW ws, NEW vs PROVE H3C!ClauseKey(h, ws, vs) = H3C!ClauseKey(k, ws, vs)
  BY <1>6, <1>7, <1>8, <1>10, <1>11, <1>12, <1>13 DEF H3C!ClauseKey, B
<1>15. ASSUME NEW ws PROVE H3C!UndoSupported(h, ws) <=> H3C!UndoSupported(k, ws)
  BY <1>6, <1>7, <1>8, <1>9, <1>10, <1>11 DEF H3C!UndoSupported, B
<1>16. /\ H3C!Reduction!IsInterface(h) <=> H3C!Reduction!IsInterface(k)
       /\ H3C!Reduction!Begins(h, <<"bgp">>) <=> H3C!Reduction!Begins(k, <<"bgp">>)
  <2>1. \A p : (H3C!Begins(h, p) <=> H3C!Reduction!Begins(h, p)) /\ (H3C!Begins(k, p) <=> H3C!Reduction!Begins(k, p))
    BY H3CBegins
  <2> QED BY <1>6, <2>1, Zenon DEF H3C!Reduction!IsInterface, B
<1> QED BY <1>14, <1>15, <1>16, Zenon DEF H3C!Reduction!SameTables

(* So the views of the Comware commands are reduced alike under any of their headers. *)
LEMMA H3CHeadersAlike == H3C!Reduction!HeadersAlike
<1>1. ASSUME NEW h \in H3C!Reduction!Words, NEW k \in H3C!Reduction!Words,
             h # <<"ospf">>, k # <<"ospf">>, H3C!BlockKey(h) # H3C!Reduction!NoKey, H3C!BlockKey(k) # H3C!Reduction!NoKey,
             H3C!BlockKey(h) = H3C!BlockKey(k) \/ (H3C!BlockKey(h)[1] = "acl" /\ H3C!BlockKey(k)[1] = "acl")
      PROVE  H3C!Reduction!SameTables(h, k)
  <2>1. h \in Seq(Word) /\ k \in Seq(Word)
    BY DEF H3C!Reduction!Words, H3C!Reduction!Word, Word
  <2>2. H3C!Reduction!NoKey = NoKey
    BY DEF H3C!Reduction!NoKey, NoKey
  <2>3. H3C!BlockKey(h) # NoKey /\ H3C!BlockKey(k) # NoKey
    BY <1>1, <2>2, Zenon
  <2> QED BY <1>1, <2>1, <2>3, H3CTables
<1> QED BY <1>1, H3C!Reduction!HeadersAlikeBy, NumberAssumption, NetworkAssumption

(* A text and a longer one of the same margin, as NothingRevived compares them: the new
   line does not rename a list, and no header means the default process. *)
OneLineMore(ls, ms, mode, v) ==
    /\ TextOk(ls) /\ TextOk(ms)
    /\ Len(ms) = Len(ls) + 1 /\ \A i \in 1 .. Len(ls) : ms[i] = ls[i]
    /\ MarginOf(ms, mode) = MarginOf(ls, mode)
    /\ v = <<>> => (\A i \in 1 .. Len(ms) : ms[i].words # <<"ospf">>) /\ ~ Renames(ms[Len(ms)].words)

(* One line more puts nothing back in force among the Huawei commands. *)
LEMMA HuaweiRevives ==
    ASSUME NEW ls, NEW ms, NEW mode, NEW v \in Seq(Word), ~ Undone(v), OneLineMore(ls, ms, mode, v),
           NEW c, c = Huawei!HuaweiParsed(ls, mode, v), NEW e, e = Huawei!HuaweiParsed(ms, mode, v)
    PROVE  Lives(e.blocks, v) \subseteq Lives(c.blocks, v) \cup {Len(ms)}
<1> DEFINE m == MarginOf(ls, mode)
           d == IF v = <<>> THEN 0 ELSE 1
           p == PlacedAt(ls, m, d)
           q == PlacedAt(ms, m, d)
           live == Lives(c.blocks, v)
           new == Lives(e.blocks, v)
           n == Len(ls)
           k == Len(ms)
<1>1. TextOk(ls) /\ TextOk(ms) /\ n \in Nat /\ k = n + 1 /\ \A i \in 1 .. n : ms[i] = ls[i]
  BY DEF OneLineMore, TextOk
<1>2. m \in Nat /\ d \in Nat /\ MarginOf(ms, mode) = m
  BY <1>1, MarginIs DEF OneLineMore
<1> HIDE DEF m, d
<1>3. /\ p = PlacedAt(ls, MarginOf(ls, mode), IF v = <<>> THEN 0 ELSE 1)
      /\ q = PlacedAt(ms, MarginOf(ms, mode), IF v = <<>> THEN 0 ELSE 1)
  BY <1>2, Zenon DEF m, d
<1> HIDE DEF p, q, live, new
<1>4. Huawei!Reduction!Text(p, v) /\ live = Huawei!Reduction!LiveLines(Huawei!Reduction!Effective(Huawei!Reduction!IndexBlocks(p, v)), v)
  BY <1>1, <1>3, HuaweiReads DEF live
<1>5. Huawei!Reduction!Text(q, v) /\ new = Huawei!Reduction!LiveLines(Huawei!Reduction!Effective(Huawei!Reduction!IndexBlocks(q, v)), v)
  BY <1>1, <1>3, HuaweiReads DEF new
<1>6. /\ Len(p) = n /\ Len(q) = k
      /\ \A i \in 1 .. k : q[i].words = ms[i].words
  <2>1. p = PlacedAt(ls, m, d) /\ q = PlacedAt(ms, m, d)
    BY DEF p, q
  <2>2. TextOk(ls) /\ TextOk(ms)
    BY <1>1
  <2> HIDE DEF n, k
  <2>3. Len(p) = Len(ls)
    BY <1>2, <2>1, <2>2, PlacedIs
  <2>4. /\ q \in Seq(PlacedLines) /\ Len(q) = Len(ms)
        /\ \A i \in 1 .. Len(ms) : q[i].words = ms[i].words /\ q[i].at = i /\ q[i].indent = ms[i].indent - m + d
    BY <1>2, <2>1, <2>2, PlacedIs
  <2> QED BY <2>3, <2>4 DEF n, k
<1>7. \A i \in 1 .. n : q[i] = p[i]
  <2>1. DOMAIN ls = 1 .. n /\ DOMAIN ms = 1 .. k
    BY <1>1 DEF TextOk
  <2>2. \A i \in 1 .. n : i \in 1 .. k
    BY <1>1
  <2> HIDE DEF n, k
  <2>3. /\ p = [i \in 1 .. n |-> [ls[i] EXCEPT !.indent = @ - m + d]]
        /\ q = [i \in 1 .. k |-> [ms[i] EXCEPT !.indent = @ - m + d]]
    BY <2>1, Zenon DEF p, q, PlacedAt
  <2>4. /\ \A i \in 1 .. n : p[i] = [ls[i] EXCEPT !.indent = @ - m + d]
        /\ \A i \in 1 .. k : q[i] = [ms[i] EXCEPT !.indent = @ - m + d]
    BY <2>3
  <2> QED BY <1>1, <2>2, <2>4
<1>8. Huawei!Reduction!Longer(p, q)
  BY <1>1, <1>6, <1>7 DEF Huawei!Reduction!Longer
<1>9. v = <<>> => (\A i \in 1 .. Len(q) : q[i].words # <<"ospf">>) /\ ~ Huawei!Reduction!Renaming(q[Len(q)].words)
  <2> SUFFICES ASSUME v = <<>>
               PROVE  (\A i \in 1 .. k : q[i].words # <<"ospf">>) /\ ~ Huawei!Reduction!Renaming(q[k].words)
    BY <1>6
  <2>1. (\A i \in 1 .. k : ms[i].words # <<"ospf">>) /\ ~ Renames(ms[k].words)
    BY Zenon DEF OneLineMore
  <2>2. k \in 1 .. k
    BY <1>1
  <2>3. q[k].words = ms[k].words
    BY <1>6, <2>2
  <2>4. ~ Huawei!Reduction!Renaming(ms[k].words)
    BY <2>1, Zenon DEF Renames, Huawei!Reduction!Renaming, Begins, IsPrefix, Has, Huawei!Reduction!Begins, Huawei!Reduction!IsPrefix, Huawei!Reduction!Has
  <2> QED BY <1>6, <2>1, <2>3, <2>4
<1> HIDE DEF n, k
<1>10. Huawei!Reduction!LiveLines(Huawei!Reduction!Effective(Huawei!Reduction!IndexBlocks(q, v)), v)
         \subseteq Huawei!Reduction!LiveLines(Huawei!Reduction!Effective(Huawei!Reduction!IndexBlocks(p, v)), v) \cup {Len(q)}
  BY <1>4, <1>5, <1>8, <1>9, HuaweiUnkeyed, HuaweiHeadersAlike, Huawei!Reduction!NoneRevived, NumberAssumption, NetworkAssumption
<1>11. new \subseteq live \cup {k}
  BY <1>4, <1>5, <1>6, <1>10, Zenon
<1> QED BY <1>11 DEF new, live, k

(* One line more puts nothing back in force among the H3C commands. *)
LEMMA H3CRevives ==
    ASSUME NEW ls, NEW ms, NEW mode, NEW v \in Seq(Word), ~ Undone(v), OneLineMore(ls, ms, mode, v),
           NEW c, c = H3C!H3CParsed(ls, mode, v), NEW e, e = H3C!H3CParsed(ms, mode, v)
    PROVE  Lives(e.blocks, v) \subseteq Lives(c.blocks, v) \cup {Len(ms)}
<1> DEFINE m == MarginOf(ls, mode)
           d == IF v = <<>> THEN 0 ELSE 1
           p == PlacedAt(ls, m, d)
           q == PlacedAt(ms, m, d)
           live == Lives(c.blocks, v)
           new == Lives(e.blocks, v)
           n == Len(ls)
           k == Len(ms)
<1>1. TextOk(ls) /\ TextOk(ms) /\ n \in Nat /\ k = n + 1 /\ \A i \in 1 .. n : ms[i] = ls[i]
  BY DEF OneLineMore, TextOk
<1>2. m \in Nat /\ d \in Nat /\ MarginOf(ms, mode) = m
  BY <1>1, MarginIs DEF OneLineMore
<1> HIDE DEF m, d
<1>3. /\ p = PlacedAt(ls, MarginOf(ls, mode), IF v = <<>> THEN 0 ELSE 1)
      /\ q = PlacedAt(ms, MarginOf(ms, mode), IF v = <<>> THEN 0 ELSE 1)
  BY <1>2, Zenon DEF m, d
<1> HIDE DEF p, q, live, new
<1>4. H3C!Reduction!Text(p, v) /\ live = H3C!Reduction!LiveLines(H3C!Reduction!Effective(H3C!Reduction!IndexBlocks(p, v)), v)
  BY <1>1, <1>3, H3CReads DEF live
<1>5. H3C!Reduction!Text(q, v) /\ new = H3C!Reduction!LiveLines(H3C!Reduction!Effective(H3C!Reduction!IndexBlocks(q, v)), v)
  BY <1>1, <1>3, H3CReads DEF new
<1>6. /\ Len(p) = n /\ Len(q) = k
      /\ \A i \in 1 .. k : q[i].words = ms[i].words
  <2>1. p = PlacedAt(ls, m, d) /\ q = PlacedAt(ms, m, d)
    BY DEF p, q
  <2>2. TextOk(ls) /\ TextOk(ms)
    BY <1>1
  <2> HIDE DEF n, k
  <2>3. Len(p) = Len(ls)
    BY <1>2, <2>1, <2>2, PlacedIs
  <2>4. /\ q \in Seq(PlacedLines) /\ Len(q) = Len(ms)
        /\ \A i \in 1 .. Len(ms) : q[i].words = ms[i].words /\ q[i].at = i /\ q[i].indent = ms[i].indent - m + d
    BY <1>2, <2>1, <2>2, PlacedIs
  <2> QED BY <2>3, <2>4 DEF n, k
<1>7. \A i \in 1 .. n : q[i] = p[i]
  <2>1. DOMAIN ls = 1 .. n /\ DOMAIN ms = 1 .. k
    BY <1>1 DEF TextOk
  <2>2. \A i \in 1 .. n : i \in 1 .. k
    BY <1>1
  <2> HIDE DEF n, k
  <2>3. /\ p = [i \in 1 .. n |-> [ls[i] EXCEPT !.indent = @ - m + d]]
        /\ q = [i \in 1 .. k |-> [ms[i] EXCEPT !.indent = @ - m + d]]
    BY <2>1, Zenon DEF p, q, PlacedAt
  <2>4. /\ \A i \in 1 .. n : p[i] = [ls[i] EXCEPT !.indent = @ - m + d]
        /\ \A i \in 1 .. k : q[i] = [ms[i] EXCEPT !.indent = @ - m + d]
    BY <2>3
  <2> QED BY <1>1, <2>2, <2>4
<1>8. H3C!Reduction!Longer(p, q)
  BY <1>1, <1>6, <1>7 DEF H3C!Reduction!Longer
<1>9. v = <<>> => (\A i \in 1 .. Len(q) : q[i].words # <<"ospf">>) /\ ~ H3C!Reduction!Renaming(q[Len(q)].words)
  <2> SUFFICES ASSUME v = <<>>
               PROVE  (\A i \in 1 .. k : q[i].words # <<"ospf">>) /\ ~ H3C!Reduction!Renaming(q[k].words)
    BY <1>6
  <2>1. (\A i \in 1 .. k : ms[i].words # <<"ospf">>) /\ ~ Renames(ms[k].words)
    BY Zenon DEF OneLineMore
  <2>2. k \in 1 .. k
    BY <1>1
  <2>3. q[k].words = ms[k].words
    BY <1>6, <2>2
  <2>4. ~ H3C!Reduction!Renaming(ms[k].words)
    BY <2>1, Zenon DEF Renames, H3C!Reduction!Renaming, Begins, IsPrefix, Has, H3C!Reduction!Begins, H3C!Reduction!IsPrefix, H3C!Reduction!Has
  <2> QED BY <1>6, <2>1, <2>3, <2>4
<1> HIDE DEF n, k
<1>10. H3C!Reduction!LiveLines(H3C!Reduction!Effective(H3C!Reduction!IndexBlocks(q, v)), v)
         \subseteq H3C!Reduction!LiveLines(H3C!Reduction!Effective(H3C!Reduction!IndexBlocks(p, v)), v) \cup {Len(q)}
  BY <1>4, <1>5, <1>8, <1>9, H3CUnkeyed, H3CHeadersAlike, H3C!Reduction!NoneRevived, NumberAssumption, NetworkAssumption
<1>11. new \subseteq live \cup {k}
  BY <1>4, <1>5, <1>6, <1>10, Zenon
<1> QED BY <1>11 DEF new, live, k

(* Nor with either plugin. *)
LEMMA PluginRevives ==
    ASSUME NEW ls, NEW ms, NEW t, t.view \in Seq(Word), ~ Undone(t.view), OneLineMore(ls, ms, t.mode, t.view),
           NEW c, c = PluginParsed(ls, t), NEW e, e = PluginParsed(ms, t)
    PROVE  Lives(e.blocks, t.view) \subseteq Lives(c.blocks, t.view) \cup {Len(ms)}
<1>1. ASSUME t.vendor = "huawei"
      PROVE  Lives(e.blocks, t.view) \subseteq Lives(c.blocks, t.view) \cup {Len(ms)}
  <2>1. c = Huawei!HuaweiParsed(ls, t.mode, t.view) /\ e = Huawei!HuaweiParsed(ms, t.mode, t.view)
    BY <1>1, Zenon DEF PluginParsed
  <2> QED BY <2>1, HuaweiRevives, NumberAssumption, NetworkAssumption
<1>2. ASSUME t.vendor # "huawei"
      PROVE  Lives(e.blocks, t.view) \subseteq Lives(c.blocks, t.view) \cup {Len(ms)}
  <2>1. c = H3C!H3CParsed(ls, t.mode, t.view) /\ e = H3C!H3CParsed(ms, t.mode, t.view)
    BY <1>2, Zenon DEF PluginParsed
  <2> QED BY <2>1, H3CRevives, NumberAssumption, NetworkAssumption
<1> QED BY <1>1, <1>2

(* The line typed is one more of the text. *)
LEMMA TypedGrown ==
    ASSUME TextOk(lines), NEW l \in TypedLines, lines' = lines \o Numbered(<<l>>, Len(lines)), topic' = topic,
           NEW v, ~ (Margin' # Margin), ~ Renames(Typed.words), ~ DefaultProcess
    PROVE  OneLineMore(lines, lines', topic.mode, v) /\ Typed.at = Len(lines')
<1> DEFINE n == Len(lines)
           s == <<l>>
           r == Numbered(s, n)
           ms == lines'
<1>1. TextOk(ms)
  BY TypedOk
<1>2. lines \in Seq(Lines) /\ n \in Nat
  BY DEF TextOk
<1>3. r \in Seq(Lines) /\ Len(r) = 1
  <2>1. s \in Seq(TypedLines) /\ Len(s) = 1
    OBVIOUS
  <2> HIDE DEF s, n, r
  <2>2. r \in Seq(Lines) /\ Len(r) = Len(s)
    BY <1>2, <2>1, NumberedIs DEF r
  <2> QED BY <2>1, <2>2
<1> HIDE DEF r
<1>4. Len(ms) = n + 1 /\ \A i \in 1 .. n : ms[i] = lines[i]
  <2>1. lines' = lines \o r
    BY DEF r
  <2> QED BY <1>2, <1>3, <2>1, OneMore
<1> HIDE DEF n
<1>5. Margin = MarginOf(lines, topic.mode) /\ Margin' = MarginOf(lines', topic.mode)
  BY Zenon DEF Margin, MarginOf
<1>6. DOMAIN ms = 1 .. Len(ms) /\ Len(ms) \in 1 .. Len(ms) /\ ms[Len(ms)].at = Len(ms)
  BY <1>1, <1>2, <1>4 DEF TextOk
<1>7. (\A i \in 1 .. Len(ms) : ms[i].words # <<"ospf">>) /\ ~ Renames(ms[Len(ms)].words)
  BY <1>6, Zenon DEF DefaultProcess, Typed
<1>8. MarginOf(ms, topic.mode) = MarginOf(lines, topic.mode)
  BY <1>5
<1>9. OneLineMore(lines, ms, topic.mode, v)
  BY <1>1, <1>4, <1>7, <1>8, Zenon DEF OneLineMore, n
<1> QED BY <1>6, <1>9, Zenon DEF Typed

(* No line brings a superseded line back into force, whatever the texts, with the parsers of
   the two plugins (effective_blocks): but for an ACL header that renames a list, a header of
   the default process, and a line that moves the margin of a snippet. *)
THEOREM NothingComesBack ==
    ASSUME Plugins PROVE Spec => NothingRevived
<1>1. ASSUME TextInv, TextInv', [Next]_vars
      PROVE  [NewLive \subseteq Live \cup {Typed.at} \/ Renames(Typed.words) \/ DefaultProcess \/ Margin' # Margin]_vars
  <2> SUFFICES ASSUME NEW l \in topic.alphabet, Type(l),
                      ~ (Margin' # Margin), ~ Renames(Typed.words), ~ DefaultProcess
               PROVE  NewLive \subseteq Live \cup {Typed.at}
    BY <1>1, Zenon DEF Next
  <2> DEFINE v == topic.view
  <2>1. lines' = lines \o Numbered(<<l>>, Len(lines)) /\ topic' = topic
    BY Zenon DEF Type, Analysed
  <2>2. TextOk(lines) /\ v \in Seq(Word) /\ ~ Undone(v) /\ l \in TypedLines
    BY <1>1, TopicIs DEF TextInv
  <2>3. config = PluginParsed(lines, topic) /\ config' = PluginParsed(lines', topic)
    <3>1. config = Parsed(lines, topic) /\ config' = Parsed(lines', topic')
      BY <1>1, Zenon DEF TextInv
    <3> QED BY <2>1, <3>1, Zenon DEF Plugins
  <2>4. OneLineMore(lines, lines', topic.mode, v) /\ Typed.at = Len(lines')
    BY <2>1, <2>2, TypedGrown
  <2> DEFINE live == Lives(config.blocks, v)
             new == Lives(config'.blocks, v)
  <2>5. new \subseteq live \cup {Len(lines')}
    <3> DEFINE c == config  e == config'  ms == lines'
    <3>1. c = PluginParsed(lines, topic) /\ e = PluginParsed(ms, topic) /\ OneLineMore(lines, ms, topic.mode, v)
      BY <2>3, <2>4
    <3> HIDE DEF c, e, ms
    <3>2. Lives(e.blocks, v) \subseteq Lives(c.blocks, v) \cup {Len(ms)}
      BY <2>2, <3>1, PluginRevives
    <3> QED BY <3>2 DEF c, e, ms
  <2>6. Live = live /\ NewLive = new
    BY <2>1, Zenon DEF Live, NewLive, InUse, Lives
  <2> QED BY <2>4, <2>5, <2>6, Zenon
<1> QED BY <1>1, TextInvariant, PTL DEF Spec, NothingRevived

=============================================================================
