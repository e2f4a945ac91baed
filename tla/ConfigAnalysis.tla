--------------------------- MODULE ConfigAnalysis --------------------------
(***************************************************************************)
(* A configuration is typed line by line and analysed after each line, as  *)
(* the workspace does: a vendor's parser reduces the text to the commands  *)
(* in force and its rules report over them.  A topic is a text to start    *)
(* from, the lines that may follow, and how the text is analysed.          *)
(***************************************************************************)
EXTENDS CommandText

CONSTANTS Parsed(_, _),        \* the plugin's parser, over the lines of a topic
          Diagnostics(_, _),   \* its rules, over the configuration
          Detected(_),         \* the vendor the detectors name
          Topics, MaxTyped

\* Lines before they have a place in a text; the view of a snippet is one that
\* can be entered.
TypedLines == [words : Seq(STRING), indent : Nat, prompt : {NoWord}]
ASSUME TopicAssumption ==
  \A t \in Topics : /\ t.base \in Seq(TypedLines) /\ t.alphabet \subseteq TypedLines
                    /\ t.view \in Seq(STRING) /\ ~Undone(t.view)

VARIABLES topic,     \* what this text is about
          lines,     \* the lines typed so far
          config,    \* the normalized configuration of the lines
          reports,   \* the diagnostics over it
          past       \* what was in force and reported before the last line

vars == <<topic, lines, config, reports, past>>

\* Lines that end a view and configure nothing.
Structural == {<<"return">>, <<"system-view">>, <<"quit">>, <<"#">>}
Numbered(s, n) ==
  [i \in DOMAIN s |-> [words |-> s[i].words, indent |-> s[i].indent, prompt |-> s[i].prompt, at |-> n + i]]
\* The lines whose commands are in force.
InUse(c, t) ==
  UNION {{d.at : d \in ToSet(b.commands)} \cup (IF b.known /\ t.view = <<>> THEN {b.at} ELSE {}) : b \in ToSet(c.blocks)}
Live == InUse(config, topic)

\* _analyze: parse the whole text, then run the rules.
Analysed(ls, t) ==
  LET c == Parsed(ls, t) IN lines' = ls /\ config' = c /\ reports' = Diagnostics(c, t)

Init ==
  /\ topic \in Topics
  /\ lines = Numbered(topic.base, 0)
  /\ config = Parsed(lines, topic)
  /\ reports = Diagnostics(config, topic)
  /\ past = [live |-> {}, reports |-> {}]

Type(l) ==
  /\ Len(lines) < Len(topic.base) + MaxTyped
  /\ Analysed(lines \o Numbered(<<l>>, Len(lines)), topic)
  /\ past' = [live |-> Live, reports |-> reports]
  /\ UNCHANGED topic

Next == \E l \in topic.alphabet : Type(l)
Spec == Init /\ [][Next]_vars

(* --- properties -------------------------------------------------------------- *)

\* Lines that configure something, in force or accounted for as superseded.
Accounted == Live \cup config.ignored
\* The header line a line stands under, 0 where there is none; a snippet may
\* stand deeper than the lines of a text.
Margin == IF topic.mode = "snippet" /\ lines # <<>> THEN Min({l.indent : l \in ToSet(lines)}) ELSE 0
HeaderOf(i) == Max({0} \cup {j \in 1..i : lines[j].indent = Margin /\ lines[j].words \notin Structural})
\* A line is in force or superseded, never both (the coverage figure and the
\* "superseded" marks of the editor count on it); it is neither only under a
\* header that was itself superseded.
EachLineOnce ==
  /\ Live \cap config.ignored = {}
  /\ \A i \in DOMAIN lines : lines[i].words \in Structural => i \notin Accounted
  /\ \A i \in DOMAIN lines : i \in Accounted \/ lines[i].words \in Structural \/ HeaderOf(i) \in config.ignored

\* The header of a snippet's view is no line of the text: what its view leaves
\* unset is reported at line 1 (index_blocks: SourceRange(1)), undone or not.
LoginSetting(rule) == IF rule = "SEC-009" THEN <<"protocol", "inbound">> ELSE <<"authentication-mode">>
LeftUnset(r) ==
  /\ topic.view # <<>> /\ r.at = 1 /\ r.rule \in {"SEC-009", "SEC-010"}
  /\ \A b \in ToSet(config.blocks) : b.header = topic.view =>
        \A d \in ToSet(b.commands) : ~Begins(d.words, LoginSetting(r.rule))

\* A report points at a line still in force: nothing is reported of a command a
\* later line replaced or undid, but for the notice that the text holds secrets
\* and the stack ports of H3C, which count removed lines too, what the device
\* shows, and what a snippet leaves unset in its view.
ReportsAreLive ==
  \A r \in reports : r.rule \in {"SEC-001", "IRF-001", "IF-004", "BGP-003"} \/ r.at \in Live \/ LeftUnset(r)

Typed == lines'[Len(lines')]
NewLive == InUse(config', topic)
Verdicts(rs) == {<<r.rule, r.severity>> : r \in rs}

\* An ACL header with a name and a number decides which headers, earlier ones
\* too, mean the same list.
Renames(ws) == Begins(ws, <<"acl">>) /\ Has(ws, "number")
\* Under a header without its number, undo is not obeyed (StaleStaysStale).
DefaultProcess == \E i \in DOMAIN lines' : lines'[i].words = <<"ospf">>
\* No other line brings a superseded line back into force; a snippet whose margin
\* the line moves is another text.
NothingRevived ==
  [][NewLive \subseteq Live \cup {Typed.at} \/ Renames(Typed.words) \/ DefaultProcess \/ Margin' # Margin]_vars

\* "Merge re-entered views and remove known stale commands" (effective_blocks):
\* what a line removed or replaced stays out, whatever header is typed.
StaleStaysStale == [][NewLive \subseteq Live \cup {Typed.at}]_vars

\* Commands are given twice, and views left and re-entered, at will: a command
\* just given reports nothing more, and a header that is in force changes
\* neither what is reported nor where.
ViewWords == {"interface", "bgp", "ospf", "isis", "route-policy", "traffic", "qos", "aaa",
              "user-interface", "line", "bridge-domain", "acl"}
Repeats == lines # <<>> /\ Typed.words = Last(lines).words /\ Typed.indent = Last(lines).indent
ReEnters ==
  /\ Typed.indent = 0 /\ Typed.words[1] \in ViewWords /\ topic.view = <<>>
  /\ \E i \in Live : lines[i].indent = 0 /\ lines[i].words = Typed.words
RestatingChangesNothing ==
  [][/\ Repeats => Verdicts(reports') = Verdicts(reports)
     /\ ReEnters /\ ~DefaultProcess => reports' = reports]_vars

\* The undo of the line just typed, where the parser obeys it, leaves what was
\* in force and reported before that line.
UndoCancels ==
  [][lines = <<>> \/ LET l == Last(lines) IN
     /\ Typed.words = <<"undo">> \o l.words /\ Typed.indent = l.indent
     /\ Live = past.live \cup {l.at} /\ l.at \notin past.live
     /\ ~\E i \in past.live : lines[i].words = l.words
     /\ Typed.at \notin NewLive
     => NewLive = past.live /\ reports' = past.reports]_vars

\* The objects a reference may name: typing one more definition settles what
\* was missing and makes nothing else missing.
References == {"VLAN-001", "VLAN-002", "VLAN-004", "VLAN-005", "IF-003", "IF-006", "ROUTE-003", "BGP-001", "BGP-004",
               "RPOL-001", "RPOL-003", "ACL-001", "POL-001", "POL-002", "VPN-001", "VPN-002", "OSPF-003", "ISIS-001"}
Definitions == {<<"vlan">>, <<"ip", "vpn-instance">>, <<"ip", "ip-prefix">>, <<"ip", "prefix-list">>,
                <<"route-policy">>, <<"traffic">>, <<"qos", "policy">>, <<"acl">>}
Unresolved(rs) == {r \in rs : r.rule \in References}
DefinitionsOnlyResolve ==
  [][Typed.indent = 0 /\ BeginsAny(Typed.words, Definitions) /\ ~Renames(Typed.words)
       => Unresolved(reports') \subseteq Unresolved(reports)]_vars

\* A VPN's BGP scope is a namespace of its own: no line changes it together with
\* a scope of the public network, but for one that opens or removes the process.
VpnScopesApart ==
  [][LET public(c) == {s \in c.bgp.scopes : s.root = NoWord /\ s.vpn = NoWord}
         private(c) == c.bgp.scopes \ public(c)
     IN \/ public(config') = public(config) \/ private(config') = private(config)
        \/ BeginsAny(Base(Typed.words), {<<"bgp">>})]_vars

\* Two vendors' commands in one text are mixed evidence (detect_vendor_plugin):
\* a line more never turns one vendor's text into the other's.
VendorStable == [][Detected(lines) = {} \/ Detected(lines') \in {{}, Detected(lines)}]_vars
=============================================================================
