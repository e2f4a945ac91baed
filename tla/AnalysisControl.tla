--------------------------- MODULE AnalysisControl ---------------------------
(***************************************************************************)
(* One analysis under its budgets: core/analyzer/api.py and control.py,    *)
(* rules/engine.py, core/analyzer/messages.py.                             *)
(*                                                                         *)
(* The worker thread scans the lines, parses, runs the rules and, in some  *)
(* modes, interprets the lines as messages; the GUI thread may cancel at   *)
(* any moment.  Whatever the parser and the rules do, they do in steps     *)
(* that pass a checkpoint, and the diagnostics they find are counted as    *)
(* they are constructed.  A diagnostic is a number, in order of creation.  *)
(***************************************************************************)
EXTENDS Naturals, Sequences

CONSTANTS
    Lines,              \* bound: lines of the input
    Rules,              \* rules of the vendor
    MaxWork, MaxDiagnostics, MaxMemberships     \* AnalysisLimits

ASSUME Budgets ==
    /\ Lines \in Nat /\ Rules \in Nat
    /\ MaxWork \in Nat \ {0} /\ MaxDiagnostics \in Nat \ {0} /\ MaxMemberships \in Nat \ {0}

VARIABLES
    run,        \* the analysis: see Run
    cancelled,  \* the CancellationToken
    expired     \* max_seconds are over

vars == <<run, cancelled, expired>>

Modes == {"message", "view", "snippet", "full"}     \* snapshot is as full

\* Where the RuleEngine's own handler catches an exhausted budget.
InEngine == {"record", "rules", "rule"}

Run == [mode: Modes,
        pc: {"start", "scan", "parse", "record", "rules", "rule", "messages", "message", "done"},
        lines: Nat, left: Nat,          \* lines of the input; items left in this stage
        work: Nat, memberships: Nat,
        counting: BOOLEAN,              \* control.emitted is a list
        emitted: Seq(Nat),
        issues: Seq(Nat),               \* config.parse_issues
        local: Seq(Nat),                \* constructed by the current rule
        found: Seq(Nat),                \* the diagnostics returned so far
        incomplete: BOOLEAN,            \* incomplete_reasons, and their marker
        outcome: {"none", "result", "cancelled", "error"},
        made: Nat,                      \* diagnostics constructed
        output: Seq(Nat)]               \* history: what the rule engine returned

Holds(s, n) == \E i \in 1..Len(s) : s[i] = n

-----------------------------------------------------------------------------
(* Ends *)

Ends(r, outcome) == [r EXCEPT !.pc = "done", !.outcome = outcome, !.counting = FALSE]

\* Variant: the engine leaves without its finally clause.
CompletedCounting(r) ==
    LET e == [r EXCEPT !.output = r.found] IN
    IF r.mode = "full" THEN [e EXCEPT !.pc = "messages", !.left = r.lines]
    ELSE Ends(e, "result")

\* _analyze after the rules: only full input is also read as messages.
Completed(r) ==
    LET e == [r EXCEPT !.counting = FALSE, !.emitted = <<>>, !.output = r.found] IN
    IF r.mode = "full" THEN [e EXCEPT !.pc = "messages", !.left = r.lines]
    ELSE Ends(e, "result")

\* Variant: the engine returns what the rules that ended found.
LimitDropsRule(r) ==
    IF r.pc \in InEngine
    THEN Completed([r EXCEPT !.incomplete = TRUE])
    ELSE Ends([r EXCEPT !.found = <<>>, !.incomplete = TRUE], "result")

\* Variant: the engine evaluates the rule again with a new work budget.
LimitRetries(r) ==
    IF r.pc \in InEngine
    THEN [r EXCEPT !.pc = "rules", !.work = 0]
    ELSE Ends([r EXCEPT !.found = <<>>, !.incomplete = TRUE], "result")

\* RuleEngine.run keeps what was emitted; analyze keeps nothing but the marker.
LimitReached(r) ==
    IF r.pc \in InEngine
    THEN Completed([r EXCEPT !.found = r.emitted, !.incomplete = TRUE])
    ELSE Ends([r EXCEPT !.found = <<>>, !.incomplete = TRUE], "result")

\* AnalysisControl.checkpoint, then the rest of the step.
Checked(r, next) ==
    IF cancelled THEN Ends([r EXCEPT !.found = <<>>], "cancelled")
    ELSE IF r.work + 1 > MaxWork \/ expired THEN LimitReached([r EXCEPT !.work = r.work + 1])
    ELSE [next EXCEPT !.work = r.work + 1]

\* Variant: the budget is checked after the diagnostic was stored.
RecordedFirst(r, n, next) ==
    IF ~r.counting THEN next
    ELSE Checked(r, IF Len(r.emitted) > MaxDiagnostics
                    THEN LimitReached(r)
                    ELSE [next EXCEPT !.emitted = Append(r.emitted, n)])

\* record_diagnostic(n), then the rest of the step.
Recorded(r, n, next) ==
    IF ~r.counting THEN next
    ELSE Checked(r, IF Len(r.emitted) >= MaxDiagnostics
                    THEN LimitReached(r)
                    ELSE [next EXCEPT !.emitted = Append(r.emitted, n)])

-----------------------------------------------------------------------------
Init ==
    /\ \E mode \in Modes, lines \in 0..Lines :
          run = [mode |-> mode, pc |-> "start", lines |-> lines, left |-> lines, work |-> 0,
                 memberships |-> 0, counting |-> FALSE, emitted |-> <<>>, issues |-> <<>>,
                 local |-> <<>>, found |-> <<>>, incomplete |-> FALSE, outcome |-> "none",
                 made |-> 0, output |-> <<>>]
    /\ cancelled = FALSE
    /\ expired = FALSE

At(pc) == run.pc = pc

Steps(next) == run' = next /\ UNCHANGED <<cancelled, expired>>

\* The first checkpoint; an input that is too long ends here.
Start ==
    /\ At("start")
    /\ \E long \in BOOLEAN :
          Steps(Checked(run, IF long THEN LimitReached(run) ELSE [run EXCEPT !.pc = "scan"]))

\* One line of the scan: too long, too many, or fine.
ScanLine ==
    /\ At("scan")
    /\ run.left > 0
    /\ \E exceeds \in BOOLEAN :
          Steps(Checked(run, IF exceeds THEN LimitReached(run)
                             ELSE [run EXCEPT !.left = run.left - 1]))

\* From here parser diagnostics count.  Automatic detection may fail.
ScanEnds ==
    /\ At("scan")
    /\ run.left = 0
    /\ LET counting == [run EXCEPT !.counting = TRUE, !.emitted = <<>>] IN
       IF run.mode = "message"
       THEN Steps([counting EXCEPT !.pc = "messages", !.left = run.lines])
       ELSE Steps([counting EXCEPT !.pc = "parse"]) \/ Steps(Ends(run, "error"))

-----------------------------------------------------------------------------
(* The parser and the rules *)

Works ==
    /\ run.pc \in {"parse", "rule"}
    /\ Steps(Checked(run, run))

\* A numeric parameter of more than 128 digits.
NumberTooLong ==
    /\ run.pc \in {"parse", "rule"}
    /\ Steps(LimitReached(run))

\* charge_vlan_memberships, of the parser of configurations only
Charges(count) ==
    /\ At("parse")
    /\ run.mode # "view"
    /\ LET charged == [run EXCEPT !.memberships = run.memberships + count] IN
       Steps(Checked(run, IF charged.memberships > MaxMemberships THEN LimitReached(charged)
                          ELSE charged))

\* A diagnostic is constructed, and recorded by its constructor.
New == run.made + 1

ParseIssue ==
    /\ At("parse")
    /\ run.mode # "view"
    /\ Steps(Recorded(run, New, [run EXCEPT !.issues = Append(run.issues, New), !.made = New]))

\* Variant: the list is not begun anew, so parser issues count twice.
ParseEndsCounting ==
    /\ At("parse")
    /\ Steps([run EXCEPT !.pc = "record", !.left = Len(run.issues), !.found = run.issues])

\* RuleEngine.run begins: the parser's issues are counted again.
ParseEnds ==
    /\ At("parse")
    /\ Steps([run EXCEPT !.pc = "record", !.left = Len(run.issues), !.found = run.issues,
                         !.emitted = <<>>])

RecordIssue ==
    /\ At("record")
    /\ run.left > 0
    /\ Steps(Recorded(run, run.issues[Len(run.issues) - run.left + 1],
                      [run EXCEPT !.left = run.left - 1]))

RecordEnds ==
    /\ At("record")
    /\ run.left = 0
    /\ Steps([run EXCEPT !.pc = "rules", !.left = Rules])

BeginRule ==
    /\ At("rules")
    /\ run.left > 0
    /\ Steps(Checked(run, [run EXCEPT !.pc = "rule", !.local = <<>>]))

Diagnoses ==
    /\ At("rule")
    /\ Steps(Recorded(run, New, [run EXCEPT !.local = Append(run.local, New), !.made = New]))

\* evaluate returns what it constructed.
RuleEnds ==
    /\ At("rule")
    /\ Steps([run EXCEPT !.pc = "rules", !.left = run.left - 1, !.found = run.found \o run.local])

RulesEnd ==
    /\ At("rules")
    /\ run.left = 0
    /\ Steps(Completed(run))

-----------------------------------------------------------------------------
(* interpret_messages *)

MessageLine ==
    /\ At("messages")
    /\ run.left > 0
    /\ \/ Steps(Checked(run, [run EXCEPT !.left = run.left - 1]))
       \/ Steps(Checked(run, [run EXCEPT !.pc = "message"]))

\* The line is one of the known events, or none and reported as such.
Interprets ==
    /\ At("message")
    /\ Steps(Recorded(run, New, [run EXCEPT !.pc = "messages", !.left = run.left - 1,
                                           !.found = Append(run.found, New), !.made = New]))

MessagesEnd ==
    /\ At("messages")
    /\ run.left = 0
    /\ Steps(Ends(run, "result"))

-----------------------------------------------------------------------------
Step ==
    \/ Start \/ ScanLine \/ ScanEnds
    \/ Works \/ NumberTooLong
    \/ \E count \in 1..2 : Charges(count)
    \/ ParseIssue \/ ParseEnds \/ RecordIssue \/ RecordEnds
    \/ BeginRule \/ Diagnoses \/ RuleEnds \/ RulesEnd
    \/ MessageLine \/ Interprets \/ MessagesEnd

\* CancellationToken.cancel, from the GUI thread.
Cancel ==
    /\ ~cancelled
    /\ cancelled' = TRUE
    /\ UNCHANGED <<run, expired>>

TimePasses ==
    /\ ~expired
    /\ expired' = TRUE
    /\ UNCHANGED <<run, cancelled>>

Next == Step \/ Cancel \/ TimePasses

Spec == Init /\ [][Next]_vars

FairSpec == Spec /\ WF_vars(Step)

-----------------------------------------------------------------------------
(* Properties *)

\* Types; and diagnostics are counted from the parser to the end of the rules,
\* in message mode to the end, and never when the marker is constructed.
TypeOK ==
    /\ run \in Run
    /\ cancelled \in BOOLEAN
    /\ expired \in BOOLEAN
    /\ run.counting <=> \/ run.pc \in {"parse", "record", "rules", "rule"}
                        \/ run.pc \in {"messages", "message"} /\ run.mode = "message"

\* An analysis that is not marked incomplete returns every diagnostic the
\* parser, the rules and the messages made, and no analysis returns one twice:
\* parser issues are counted twice, by their constructor and by the engine.
EachOnce ==
    /\ \A i, j \in 1..Len(run.found) : run.found[i] = run.found[j] => i = j
    /\ run.outcome = "result" /\ ~run.incomplete => \A n \in 1..run.made : Holds(run.found, n)

\* The diagnostic budget bounds what the rule engine returns, with the issues
\* of the parser, whichever budget ended it, and what messages give.
Bounded ==
    /\ Len(run.output) <= MaxDiagnostics
    /\ run.mode # "full" => Len(run.found) <= MaxDiagnostics

\* A budget that ends between or within rules loses no diagnostic made so far:
\* not those of the parser, of the rules that ended, or of the rule it ended.
RulesKept ==
    [][run.pc \in {"rules", "rule"} /\ run'.pc \notin InEngine /\ run'.outcome # "cancelled"
       => \A n \in 1..run'.made : Holds(run'.output, n)]_vars

\* Whatever the parser and the rules would do, the budgets end the analysis.
Terminates == <>At("done")

\* docs/architecture.md: partial rule output remains available, with the marker.
PartialOutputKept ==
    [][At("done")' /\ run'.outcome = "result"
       => \A i \in 1..Len(run'.output) : Holds(run'.found, run'.output[i])]_vars

=============================================================================
