------------------------ MODULE AnalysisControlProofs ------------------------
(***************************************************************************)
(* Proofs about AnalysisControl, for any input, rules and budgets.         *)
(***************************************************************************)
EXTENDS AnalysisControl, SequenceTheorems, TLAPS

\* s holds the diagnostics 1 to n, each once.
Numbered(s, n) == Len(s) = n /\ \A i \in 1..n : s[i] = i

\* s holds some of the diagnostics 1 to n, each at most once.
Ascending(s, n) ==
    \A i \in 1..Len(s) : s[i] \in 1..n /\ \A j \in 1..Len(s) : j < i => s[j] < s[i]

Counts(r) ==
    \/ r.pc \in {"parse", "record", "rules", "rule"}
    \/ r.pc \in {"messages", "message"} /\ r.mode = "message"

\* The inductive invariant: where the diagnostics made so far are at each stage.
Sound(r) ==
    /\ r \in Run
    /\ r.counting <=> Counts(r)
    /\ r.pc = "done" <=> r.outcome # "none"
    /\ Ascending(r.found, r.made)
    /\ Len(r.output) <= MaxDiagnostics
    /\ r.mode # "full" => Len(r.found) <= MaxDiagnostics
    /\ r.counting => ~r.incomplete /\ r.made <= MaxDiagnostics
    /\ r.pc \in {"parse", "record", "rules", "rule"} => r.mode # "message"
    /\ r.pc \in {"start", "scan"} =>
          r.found = <<>> /\ r.issues = <<>> /\ r.made = 0 /\ ~r.incomplete
    /\ r.pc = "parse" =>
          r.found = <<>> /\ Numbered(r.issues, r.made) /\ Numbered(r.emitted, r.made)
    /\ r.pc = "record" =>
          /\ Numbered(r.found, r.made) /\ Numbered(r.issues, r.made)
          /\ r.left <= r.made /\ Numbered(r.emitted, r.made - r.left)
    /\ r.pc = "rules" => Numbered(r.found, r.made) /\ Numbered(r.emitted, r.made)
    /\ r.pc = "rule" =>
          /\ r.left > 0
          /\ Numbered(r.emitted, r.made)
          /\ Len(r.found) + Len(r.local) = r.made
          /\ \A i \in 1..Len(r.found) : r.found[i] = i
          /\ \A i \in 1..Len(r.local) : r.local[i] = Len(r.found) + i
    /\ r.pc \in {"messages", "message"} =>
          /\ r.mode \in {"message", "full"}
          /\ r.pc = "message" => r.left > 0
          /\ ~r.incomplete => Numbered(r.found, r.made)
          /\ r.mode = "message" => Numbered(r.emitted, r.made)
    /\ r.outcome = "result" /\ ~r.incomplete => Numbered(r.found, r.made)

\* What RulesKept says of a step from r to s.
Kept(r, s) ==
    r.pc \in {"rules", "rule"} /\ s.pc \notin InEngine /\ s.outcome # "cancelled"
    => \A n \in 1..s.made : Holds(s.output, n)

AnalysisInv == Sound(run) /\ cancelled \in BOOLEAN /\ expired \in BOOLEAN

-----------------------------------------------------------------------------
(* The helpers keep it *)

LEMMA InitialAnalysis == Init => AnalysisInv
<1> SUFFICES ASSUME Init PROVE AnalysisInv
  OBVIOUS
<1>1. run \in Run /\ run.pc = "start" /\ ~run.counting /\ run.outcome = "none"
      /\ run.found = <<>> /\ run.issues = <<>> /\ run.output = <<>> /\ run.made = 0
      /\ ~run.incomplete
  BY Budgets DEF Init, Run, Modes
<1>2. Sound(run)
  BY <1>1, Budgets DEF Sound, Counts, Ascending, Numbered
<1> QED
  BY <1>2 DEF Init, AnalysisInv

\* Work is counted nowhere else.
Worked(r, w) == [r EXCEPT !.work = w]

LEMMA WorkIsFree ==
    ASSUME NEW r, Sound(r), NEW w \in Nat
    PROVE  /\ Sound(Worked(r, w))
           /\ Worked(r, w).pc = r.pc /\ Worked(r, w).outcome = r.outcome
           /\ Worked(r, w).made = r.made /\ Worked(r, w).output = r.output
<1> DEFINE s == [r EXCEPT !.work = w]
<1>0. r \in Run
  BY DEF Sound
<1>1. s \in Run
  BY <1>0 DEF Run
<1>2. /\ s.mode = r.mode /\ s.pc = r.pc /\ s.left = r.left /\ s.counting = r.counting
      /\ s.emitted = r.emitted /\ s.issues = r.issues /\ s.local = r.local
      /\ s.found = r.found /\ s.incomplete = r.incomplete /\ s.outcome = r.outcome
      /\ s.made = r.made /\ s.output = r.output
  BY <1>0 DEF Run
<1> HIDE DEF s
<1>3. Sound(s)
  BY <1>1, <1>2 DEF Sound, Counts
<1> QED
  BY <1>2, <1>3 DEF s, Worked

LEMMA Emptied ==
    /\ \A r \in Run : [r EXCEPT !.found = <<>>] \in Run
    /\ \A r \in Run : [r EXCEPT !.emitted = <<>>] \in Run
    /\ \A r \in Run : [r EXCEPT !.local = <<>>] \in Run
<1>1. \A r \in Run, s \in Seq(Nat) :
         /\ [r EXCEPT !.found = s] \in Run
         /\ [r EXCEPT !.emitted = s] \in Run
         /\ [r EXCEPT !.local = s] \in Run
  BY DEF Run
<1>2. <<>> \in Seq(Nat)
  OBVIOUS
<1> QED
  BY <1>1, <1>2

LEMMA EndsTyped ==
    ASSUME NEW r \in Run, NEW outcome \in {"result", "cancelled", "error"}
    PROVE  Ends(r, outcome) \in Run
<1>1. [r EXCEPT !.pc = "done"] \in Run
  BY DEF Run
<1>2. \A t \in Run : [t EXCEPT !.outcome = outcome] \in Run
  BY DEF Run
<1>3. \A t \in Run : [t EXCEPT !.counting = FALSE] \in Run
  BY DEF Run
<1> QED
  BY <1>1, <1>2, <1>3 DEF Ends

\* An analysis that ends with nothing but its outcome, or the marker.
LEMMA EndsEmpty ==
    ASSUME NEW r, Sound(r), NEW outcome \in {"cancelled", "result"}, NEW marked \in BOOLEAN,
           outcome = "result" => marked
    PROVE  /\ Sound(Ends([r EXCEPT !.found = <<>>, !.incomplete = marked], outcome))
           /\ Ends([r EXCEPT !.found = <<>>, !.incomplete = marked], outcome).outcome = outcome
<1> DEFINE s == Ends([r EXCEPT !.found = <<>>, !.incomplete = marked], outcome)
<1>0. r \in Run
  BY DEF Sound
<1>1. s \in Run
  <2>1. [r EXCEPT !.found = <<>>] \in Run
    BY <1>0, Emptied
  <2>2. \A t \in Run : [t EXCEPT !.incomplete = marked] \in Run
    BY DEF Run
  <2> QED
    BY <2>1, <2>2, EndsTyped
<1>2. /\ s.pc = "done" /\ s.counting = FALSE /\ s.found = <<>> /\ s.incomplete = marked
      /\ s.outcome = outcome /\ s.output = r.output
  BY <1>0 DEF Run, Ends
<1> HIDE DEF s
<1>3. Sound(s)
  BY <1>0, <1>1, <1>2, Budgets DEF Sound, Counts, Ascending, Numbered
<1> QED
  BY <1>2, <1>3 DEF s

\* The rules end with the diagnostics they counted.
LEMMA CompletedKeeps ==
    ASSUME NEW r \in Run, Ascending(r.found, r.made),
           Len(r.found) <= MaxDiagnostics, r.incomplete \/ Numbered(r.found, r.made),
           r.mode # "message", r.outcome = "none"
    PROVE  Sound(Completed(r)) /\ Completed(r).output = r.found /\ Completed(r).made = r.made
<1> DEFINE s == Completed(r)
<1>1. s \in Run
  <2> DEFINE e == [r EXCEPT !.counting = FALSE, !.emitted = <<>>, !.output = r.found]
  <2>1. [r EXCEPT !.counting = FALSE] \in Run
    BY DEF Run
  <2>2. \A t \in Run : [t EXCEPT !.emitted = <<>>] \in Run
    BY Emptied
  <2>3. \A t \in Run : [t EXCEPT !.output = r.found] \in Run
    BY DEF Run
  <2>4. e \in Run
    BY <2>1, <2>2, <2>3
  <2>5. [e EXCEPT !.pc = "messages"] \in Run
    BY <2>4 DEF Run
  <2>6. \A t \in Run : [t EXCEPT !.left = r.lines] \in Run
    BY DEF Run
  <2>7. e.lines = r.lines
    BY DEF Run
  <2> QED
    BY <2>4, <2>5, <2>6, <2>7, EndsTyped DEF Completed
<1>2. /\ s.pc \in {"messages", "done"} /\ (s.pc = "messages" <=> r.mode = "full")
      /\ s.mode = r.mode /\ s.counting = FALSE /\ s.found = r.found /\ s.output = r.found
      /\ s.incomplete = r.incomplete /\ s.made = r.made
      /\ s.outcome = IF r.mode = "full" THEN "none" ELSE "result"
  BY DEF Completed, Ends, Run
<1> HIDE DEF s
<1>3. Sound(s)
  BY <1>1, <1>2 DEF Sound, Counts
<1> QED
  BY <1>2, <1>3 DEF s

LEMMA CancelledKeeps ==
    ASSUME NEW r, Sound(r)
    PROVE  LET s == Ends([r EXCEPT !.found = <<>>], "cancelled") IN Sound(s) /\ Kept(r, s)
<1>0. r \in Run
  BY DEF Sound
<1>1. [r EXCEPT !.found = <<>>, !.incomplete = r.incomplete] = [r EXCEPT !.found = <<>>]
  BY <1>0 DEF Run
<1>2. r.incomplete \in BOOLEAN
  BY <1>0 DEF Run
<1> DEFINE s == Ends([r EXCEPT !.found = <<>>, !.incomplete = r.incomplete], "cancelled")
<1>3. Sound(s) /\ s.outcome = "cancelled"
  BY <1>2, EndsEmpty
<1>4. Kept(r, s)
  BY <1>3 DEF Kept
<1> QED
  BY <1>1, <1>3, <1>4

\* An exhausted budget, wherever it ends the analysis.
LEMMA LimitKeeps ==
    ASSUME NEW r, Sound(r), r.pc # "done"
    PROVE  Sound(LimitReached(r)) /\ Kept(r, LimitReached(r))
<1>0. r \in Run
  BY DEF Sound
<1>1. CASE r.pc \in InEngine
  <2> DEFINE t == [r EXCEPT !.found = r.emitted, !.incomplete = TRUE]
  <2>1. t \in Run
    BY <1>0 DEF Run
  <2>2. /\ t.found = r.emitted /\ t.incomplete = TRUE /\ t.made = r.made
        /\ t.mode = r.mode /\ t.outcome = r.outcome
    BY <1>0 DEF Run
  <2>3. PICK k \in Nat : Numbered(r.emitted, k) /\ k <= r.made /\ (r.pc # "record" => k = r.made)
    <3>1. CASE r.pc = "record"
      <4>1. r.made - r.left \in Nat
        BY <1>0, <3>1 DEF Sound, Run
      <4>2. Numbered(r.emitted, r.made - r.left) /\ r.made - r.left <= r.made
        BY <1>0, <3>1 DEF Sound, Run
      <4> QED
        BY <3>1, <4>1, <4>2
    <3>2. CASE r.pc \in {"rules", "rule"}
      BY <1>0, <3>2 DEF Sound, Run
    <3> QED
      BY <1>1, <3>1, <3>2 DEF InEngine
  <2>4. r.counting /\ r.mode # "message" /\ r.made <= MaxDiagnostics /\ r.outcome = "none"
        /\ r.made \in Nat
    BY <1>0, <1>1 DEF Sound, Counts, InEngine, Run
  <2>5. Ascending(r.emitted, r.made) /\ Len(r.emitted) <= MaxDiagnostics
    BY <2>3, <2>4, Budgets DEF Numbered, Ascending
  <2>6. LimitReached(r) = Completed(t)
    BY <1>1 DEF LimitReached
  <2> HIDE DEF t
  <2>7. Sound(Completed(t)) /\ Completed(t).output = r.emitted /\ Completed(t).made = r.made
    BY <2>1, <2>2, <2>4, <2>5, CompletedKeeps
  <2>8. Kept(r, Completed(t))
    BY <2>3, <2>7 DEF Kept, Holds, Numbered
  <2> QED
    BY <2>6, <2>7, <2>8
<1>2. CASE r.pc \notin InEngine
  <2>1. LimitReached(r) = Ends([r EXCEPT !.found = <<>>, !.incomplete = TRUE], "result")
    BY <1>2 DEF LimitReached
  <2>2. Kept(r, LimitReached(r))
    BY <1>2 DEF Kept, InEngine
  <2> QED
    BY <2>1, <2>2, EndsEmpty
<1> QED
  BY <1>1, <1>2

\* A checkpoint before a step that keeps the invariant.
LEMMA CheckedKeeps ==
    ASSUME NEW r, Sound(r), r.pc # "done", NEW next, Sound(next), Kept(r, next)
    PROVE  Sound(Checked(r, next)) /\ Kept(r, Checked(r, next))
<1> DEFINE spent == r.work + 1
           t == Worked(r, spent)
<1>0. r \in Run
  BY DEF Sound
<1>1. spent \in Nat
  BY <1>0 DEF Run
<1> HIDE DEF spent
<1>2. Sound(t) /\ t.pc = r.pc
  BY <1>1, WorkIsFree
<1>3. Sound(LimitReached(t)) /\ Kept(r, LimitReached(t))
  <2> HIDE DEF t
  <2>1. Sound(LimitReached(t)) /\ Kept(t, LimitReached(t))
    BY <1>2, LimitKeeps
  <2> QED
    BY <1>2, <2>1 DEF Kept
<1>4. Sound(Worked(next, spent)) /\ Kept(r, Worked(next, spent))
  BY <1>1, WorkIsFree DEF Kept
<1> QED
  BY <1>3, <1>4, CancelledKeeps DEF Checked, Worked, spent

\* A diagnostic that is counted, or not, before such a step.
LEMMA RecordedKeeps ==
    ASSUME NEW r, Sound(r), r.pc # "done", NEW n, NEW next,
           ~r.counting => Sound(next) /\ Kept(r, next),
           r.counting /\ Len(r.emitted) < MaxDiagnostics =>
               /\ Sound([next EXCEPT !.emitted = Append(r.emitted, n)])
               /\ Kept(r, [next EXCEPT !.emitted = Append(r.emitted, n)])
    PROVE  Sound(Recorded(r, n, next)) /\ Kept(r, Recorded(r, n, next))
<1>1. Len(r.emitted) \in Nat
  BY DEF Sound, Run
<1> DEFINE step == IF Len(r.emitted) >= MaxDiagnostics THEN LimitReached(r)
                   ELSE [next EXCEPT !.emitted = Append(r.emitted, n)]
<1>2. CASE ~r.counting
  BY <1>2 DEF Recorded
<1>3. CASE r.counting
  <2>1. Sound(step) /\ Kept(r, step)
    BY <1>1, <1>3, LimitKeeps, Budgets
  <2>2. Recorded(r, n, next) = Checked(r, step)
    BY <1>3 DEF Recorded
  <2> HIDE DEF step
  <2> QED
    BY <2>1, <2>2, CheckedKeeps
<1> QED
  BY <1>2, <1>3

-----------------------------------------------------------------------------
(* One lemma per action *)

LEMMA NotRules == \A r, s : r.pc \notin {"rules", "rule"} => Kept(r, s)
BY DEF Kept

\* The first checkpoint, and the length of the input.
LEMMA StartKeeps == AnalysisInv /\ Start => Sound(run') /\ Kept(run, run')
<1> SUFFICES ASSUME AnalysisInv, Start PROVE Sound(run') /\ Kept(run, run')
  OBVIOUS
<1>0. Sound(run) /\ run \in Run
  BY DEF AnalysisInv, Sound
<1> DEFINE next == [run EXCEPT !.pc = "scan"]
<1>1. run.pc = "start"
  BY DEF Start, At
<1>2. next \in Run
  BY <1>0 DEF Run
<1>3. /\ next.pc = "scan" /\ next.mode = run.mode /\ next.counting = run.counting
      /\ next.found = run.found /\ next.issues = run.issues /\ next.output = run.output
      /\ next.made = run.made /\ next.incomplete = run.incomplete /\ next.outcome = run.outcome
  BY <1>0 DEF Run
<1>4. run' = Checked(run, LimitReached(run)) \/ run' = Checked(run, next)
  BY DEF Start, Steps
<1> HIDE DEF next
<1>5. Sound(next)
  BY <1>0, <1>1, <1>2, <1>3 DEF Sound, Counts
<1> QED
  BY <1>0, <1>1, <1>4, <1>5, LimitKeeps, CheckedKeeps, NotRules

LEMMA ScanLineKeeps == AnalysisInv /\ ScanLine => Sound(run') /\ Kept(run, run')
<1> SUFFICES ASSUME AnalysisInv, ScanLine PROVE Sound(run') /\ Kept(run, run')
  OBVIOUS
<1>0. Sound(run) /\ run \in Run
  BY DEF AnalysisInv, Sound
<1> DEFINE next == [run EXCEPT !.left = run.left - 1]
<1>1. run.pc = "scan" /\ run.left > 0 /\ run.left - 1 \in Nat
  BY <1>0 DEF ScanLine, At, Run
<1>2. next \in Run
  BY <1>0, <1>1 DEF Run
<1>3. /\ next.pc = run.pc /\ next.mode = run.mode /\ next.counting = run.counting
      /\ next.found = run.found /\ next.issues = run.issues /\ next.output = run.output
      /\ next.made = run.made /\ next.incomplete = run.incomplete /\ next.outcome = run.outcome
  BY <1>0 DEF Run
<1>4. run' = Checked(run, LimitReached(run)) \/ run' = Checked(run, next)
  BY DEF ScanLine, Steps
<1> HIDE DEF next
<1>5. Sound(next)
  BY <1>0, <1>1, <1>2, <1>3 DEF Sound, Counts
<1> QED
  BY <1>0, <1>1, <1>4, <1>5, LimitKeeps, CheckedKeeps, NotRules

\* The diagnostics begin to count, from none.
LEMMA ScanEndsKeeps == AnalysisInv /\ ScanEnds => Sound(run') /\ Kept(run, run')
<1> SUFFICES ASSUME AnalysisInv, ScanEnds PROVE Sound(run') /\ Kept(run, run')
  OBVIOUS
<1>0. Sound(run) /\ run \in Run
  BY DEF AnalysisInv, Sound
<1> DEFINE counting == [run EXCEPT !.counting = TRUE, !.emitted = <<>>]
<1>1. run.pc = "scan"
  BY DEF ScanEnds, At
<1>2. counting \in Run
  <2>1. [run EXCEPT !.counting = TRUE] \in Run
    BY <1>0 DEF Run
  <2> QED
    BY <2>1, Emptied
<1>3. /\ counting.mode = run.mode /\ counting.counting = TRUE /\ counting.emitted = <<>>
      /\ counting.found = run.found /\ counting.issues = run.issues
      /\ counting.output = run.output /\ counting.made = run.made
      /\ counting.incomplete = run.incomplete /\ counting.outcome = run.outcome
  BY <1>0 DEF Run
<1>4. \/ run.mode = "message" /\ run' = [counting EXCEPT !.pc = "messages", !.left = run.lines]
      \/ run.mode # "message" /\ run' = [counting EXCEPT !.pc = "parse"]
      \/ run' = Ends(run, "error")
  BY DEF ScanEnds, Steps
<1>5. run.found = <<>> /\ run.issues = <<>> /\ run.made = 0 /\ ~run.incomplete
      /\ run.outcome = "none" /\ Len(run.output) <= MaxDiagnostics /\ run.mode \in Modes
  BY <1>0, <1>1 DEF Sound, Run
<1> HIDE DEF counting
<1>6. CASE run.mode = "message" /\ run' = [counting EXCEPT !.pc = "messages", !.left = run.lines]
  <2>1. run' \in Run
    BY <1>0, <1>2, <1>6 DEF Run
  <2>2. /\ run'.pc = "messages" /\ run'.mode = counting.mode /\ run'.counting = counting.counting
        /\ run'.emitted = counting.emitted /\ run'.found = counting.found
        /\ run'.output = counting.output /\ run'.made = counting.made
        /\ run'.incomplete = counting.incomplete /\ run'.outcome = counting.outcome
    BY <1>2, <1>6 DEF Run
  <2>3. Sound(run')
    BY <1>3, <1>5, <1>6, <2>1, <2>2, Budgets DEF Sound, Counts, Ascending, Numbered
  <2> QED
    BY <1>1, <2>3, NotRules
<1>7. CASE run.mode # "message" /\ run' = [counting EXCEPT !.pc = "parse"]
  <2>1. run' \in Run
    BY <1>0, <1>2, <1>7 DEF Run
  <2>2. /\ run'.pc = "parse" /\ run'.mode = counting.mode /\ run'.counting = counting.counting
        /\ run'.emitted = counting.emitted /\ run'.found = counting.found
        /\ run'.issues = counting.issues
        /\ run'.output = counting.output /\ run'.made = counting.made
        /\ run'.incomplete = counting.incomplete /\ run'.outcome = counting.outcome
    BY <1>2, <1>7 DEF Run
  <2>3. Sound(run')
    BY <1>3, <1>5, <1>7, <2>1, <2>2, Budgets DEF Sound, Counts, Ascending, Numbered
  <2> QED
    BY <1>1, <2>3, NotRules
<1>8. CASE run' = Ends(run, "error")
  <2>1. run' \in Run
    BY <1>0, <1>8, EndsTyped
  <2>2. /\ run'.pc = "done" /\ run'.counting = FALSE /\ run'.outcome = "error"
        /\ run'.found = run.found /\ run'.output = run.output /\ run'.made = run.made
        /\ run'.mode = run.mode
    BY <1>0, <1>8 DEF Ends, Run
  <2>3. Sound(run')
    BY <1>0, <2>1, <2>2 DEF Sound, Counts
  <2> QED
    BY <1>1, <2>3, NotRules
<1> QED
  BY <1>4, <1>6, <1>7, <1>8

LEMMA WorksKeeps == AnalysisInv /\ Works => Sound(run') /\ Kept(run, run')
<1> SUFFICES ASSUME AnalysisInv, Works PROVE Sound(run') /\ Kept(run, run')
  OBVIOUS
<1>0. Sound(run) /\ run \in Run
  BY DEF AnalysisInv, Sound
<1>1. run.pc \in {"parse", "rule"} /\ run' = Checked(run, run)
  BY DEF Works, Steps
<1>2. Kept(run, run)
  BY <1>1 DEF Kept, InEngine
<1> QED
  BY <1>0, <1>1, <1>2, CheckedKeeps

LEMMA NumberTooLongKeeps == AnalysisInv /\ NumberTooLong => Sound(run') /\ Kept(run, run')
<1> SUFFICES ASSUME AnalysisInv, NumberTooLong PROVE Sound(run') /\ Kept(run, run')
  OBVIOUS
<1>0. Sound(run) /\ run \in Run
  BY DEF AnalysisInv, Sound
<1>1. run.pc \in {"parse", "rule"} /\ run' = LimitReached(run)
  BY DEF NumberTooLong, Steps
<1> QED
  BY <1>0, <1>1, LimitKeeps

LEMMA ChargesKeeps ==
    ASSUME AnalysisInv, NEW count \in Nat, Charges(count)
    PROVE  Sound(run') /\ Kept(run, run')
<1>0. Sound(run) /\ run \in Run
  BY DEF AnalysisInv, Sound
<1> DEFINE charged == [run EXCEPT !.memberships = run.memberships + count]
<1>1. run.pc = "parse"
  BY DEF Charges, At
<1>2. charged \in Run
  <2>1. run.memberships + count \in Nat
    BY <1>0 DEF Run
  <2> QED
    BY <1>0, <2>1 DEF Run
<1>3. /\ charged.pc = run.pc /\ charged.mode = run.mode /\ charged.counting = run.counting
      /\ charged.emitted = run.emitted /\ charged.found = run.found
      /\ charged.issues = run.issues /\ charged.output = run.output
      /\ charged.made = run.made /\ charged.incomplete = run.incomplete
      /\ charged.outcome = run.outcome
  BY <1>0 DEF Run
<1>4. \/ run' = Checked(run, LimitReached(charged))
      \/ run' = Checked(run, charged)
  BY DEF Charges, Steps
<1> HIDE DEF charged
<1>5. Sound(charged)
  BY <1>0, <1>1, <1>2, <1>3 DEF Sound, Counts
<1>6. charged.pc # "done"
  BY <1>1, <1>3
<1>7. Sound(LimitReached(charged))
  BY <1>5, <1>6, LimitKeeps
<1> QED
  BY <1>0, <1>1, <1>4, <1>5, <1>7, CheckedKeeps, NotRules

\* One more diagnostic, with the next number.
LEMMA OneMore ==
    ASSUME NEW s \in Seq(Nat), NEW n \in Nat, Numbered(s, n)
    PROVE  Append(s, n + 1) \in Seq(Nat) /\ Numbered(Append(s, n + 1), n + 1)
BY DEF Numbered

\* t goes on where s ends.
Continues(s, t) ==
    /\ \A i \in 1..Len(s) : s[i] = i
    /\ \A i \in 1..Len(t) : t[i] = Len(s) + i

LEMMA Positions ==
    ASSUME NEW a \in Nat, NEW b \in Nat
    PROVE  /\ \A i \in 1..(b + 1) : i # b + 1 => i \in 1..b
           /\ a + (b + 1) = a + b + 1
           /\ \A i \in 1..(a + b) : i <= a => i \in 1..a
           /\ \A i \in 1..(a + b) : ~(i <= a) => i - a \in 1..b /\ a + (i - a) = i
OBVIOUS

LEMMA OneMoreAfter ==
    ASSUME NEW s \in Seq(Nat), NEW t \in Seq(Nat), Continues(s, t), NEW n \in Nat,
           n = Len(s) + Len(t)
    PROVE  /\ Append(t, n + 1) \in Seq(Nat) /\ Len(Append(t, n + 1)) = Len(t) + 1
           /\ Continues(s, Append(t, n + 1))
<1> DEFINE more == Append(t, n + 1)
<1>1. /\ more \in Seq(Nat) /\ Len(more) = Len(t) + 1
      /\ \A i \in 1..Len(t) : more[i] = t[i]
      /\ more[Len(t) + 1] = n + 1
  BY AppendProperties
<1> HIDE DEF more
<1>2. ASSUME NEW i \in 1..Len(more) PROVE more[i] = Len(s) + i
  <2>0. Len(s) \in Nat /\ Len(t) \in Nat /\ i \in 1..(Len(t) + 1)
    BY <1>1, <1>2
  <2>1. CASE i = Len(t) + 1
    BY <1>1, <2>0, <2>1
  <2>2. CASE i # Len(t) + 1
    <3>1. i \in 1..Len(t)
      BY <2>0, <2>2, Positions
    <3> QED
      BY <1>1, <3>1 DEF Continues
  <2> QED
    BY <2>1, <2>2
<1> QED
  BY <1>1, <1>2 DEF Continues, more

LEMMA Joined ==
    ASSUME NEW s \in Seq(Nat), NEW t \in Seq(Nat), Continues(s, t)
    PROVE  s \o t \in Seq(Nat) /\ Numbered(s \o t, Len(s) + Len(t))
<1> DEFINE both == s \o t
<1>1. /\ both \in Seq(Nat) /\ Len(both) = Len(s) + Len(t)
      /\ \A i \in 1..Len(s) + Len(t) :
            both[i] = IF i <= Len(s) THEN s[i] ELSE t[i - Len(s)]
  BY ConcatProperties
<1> HIDE DEF both
<1>2. ASSUME NEW i \in 1..Len(s) + Len(t) PROVE both[i] = i
  <2>0. Len(s) \in Nat /\ Len(t) \in Nat
    OBVIOUS
  <2>1. CASE i <= Len(s)
    <3>1. i \in 1..Len(s)
      BY <1>2, <2>0, <2>1, Positions
    <3> QED
      BY <1>1, <2>1, <3>1 DEF Continues
  <2>2. CASE ~(i <= Len(s))
    <3>1. i - Len(s) \in 1..Len(t) /\ Len(s) + (i - Len(s)) = i
      BY <1>2, <2>0, <2>2, Positions
    <3>2. both[i] = t[i - Len(s)]
      BY <1>1, <2>2
    <3> QED
      BY <3>1, <3>2 DEF Continues
  <2> QED
    BY <2>1, <2>2
<1> QED
  BY <1>1, <1>2 DEF Numbered, both

LEMMA ParseIssueKeeps == AnalysisInv /\ ParseIssue => Sound(run') /\ Kept(run, run')
<1> SUFFICES ASSUME AnalysisInv, ParseIssue PROVE Sound(run') /\ Kept(run, run')
  OBVIOUS
<1>0. Sound(run) /\ run \in Run
  BY DEF AnalysisInv, Sound
<1> DEFINE issues == Append(run.issues, New)
           next == [run EXCEPT !.issues = issues, !.made = New]
           emitted == Append(run.emitted, New)
           counted == [next EXCEPT !.emitted = emitted]
<1>1. run.pc = "parse" /\ run.counting /\ run.made \in Nat /\ Len(run.emitted) = run.made
  BY <1>0 DEF ParseIssue, At, Sound, Counts, Run, Numbered
<1>2. run' = Recorded(run, New, next)
  BY DEF ParseIssue, Steps
<1>3. /\ issues \in Seq(Nat) /\ Numbered(issues, run.made + 1)
      /\ emitted \in Seq(Nat) /\ Numbered(emitted, run.made + 1)
  BY <1>0, <1>1, OneMore DEF New, Sound, Run
<1>4. New = run.made + 1 /\ New \in Nat
  BY <1>1 DEF New
<1> HIDE DEF issues, emitted
<1>5. next \in Run
  BY <1>0, <1>3, <1>4 DEF Run
<1>6. counted \in Run
  <2> HIDE DEF next
  <2> QED
    BY <1>3, <1>5 DEF Run
<1>7. /\ counted.pc = run.pc /\ counted.mode = run.mode /\ counted.counting = run.counting
      /\ counted.emitted = emitted /\ counted.found = run.found
      /\ counted.issues = issues /\ counted.output = run.output
      /\ counted.made = New /\ counted.incomplete = run.incomplete
      /\ counted.outcome = run.outcome
  BY <1>0 DEF Run
<1> HIDE DEF counted
<1>8. Len(run.emitted) < MaxDiagnostics => Sound(counted)
  BY <1>0, <1>1, <1>3, <1>4, <1>6, <1>7, Budgets DEF Sound, Counts, Ascending
<1> HIDE DEF next
<1> QED
  BY <1>0, <1>1, <1>2, <1>8, RecordedKeeps, NotRules DEF counted, emitted

LEMMA ParseEndsKeeps == AnalysisInv /\ ParseEnds => Sound(run') /\ Kept(run, run')
<1> SUFFICES ASSUME AnalysisInv, ParseEnds PROVE Sound(run') /\ Kept(run, run')
  OBVIOUS
<1>0. Sound(run) /\ run \in Run
  BY DEF AnalysisInv, Sound
<1>1. run.pc = "parse" /\ run.counting /\ run.made \in Nat /\ run.made <= MaxDiagnostics
      /\ Numbered(run.issues, run.made) /\ ~run.incomplete /\ run.outcome = "none"
      /\ run.mode # "message"
  BY <1>0 DEF ParseEnds, At, Sound, Counts, Run
<1>2. run' = [run EXCEPT !.pc = "record", !.left = Len(run.issues), !.found = run.issues,
                         !.emitted = <<>>]
  BY DEF ParseEnds, Steps
<1>3. run' \in Run
  <2>1. [run EXCEPT !.pc = "record"] \in Run
    BY <1>0 DEF Run
  <2>2. Len(run.issues) \in Nat /\ run.issues \in Seq(Nat)
    BY <1>0 DEF Run
  <2>3. \A t \in Run : [t EXCEPT !.left = Len(run.issues)] \in Run
    BY <2>2 DEF Run
  <2>4. \A t \in Run : [t EXCEPT !.found = run.issues] \in Run
    BY <2>2 DEF Run
  <2> QED
    BY <1>2, <2>1, <2>3, <2>4, Emptied
<1>4. /\ run'.pc = "record" /\ run'.mode = run.mode /\ run'.left = run.made
      /\ run'.counting = run.counting /\ run'.emitted = <<>> /\ run'.found = run.issues
      /\ run'.issues = run.issues /\ run'.output = run.output /\ run'.made = run.made
      /\ run'.incomplete = run.incomplete /\ run'.outcome = run.outcome
  BY <1>0, <1>1, <1>2 DEF Run, Numbered
<1>5. Numbered(<<>>, run.made - run.made)
  BY <1>1 DEF Numbered
<1>6. Sound(run')
  BY <1>0, <1>1, <1>3, <1>4, <1>5, Budgets DEF Sound, Counts, Ascending, Numbered
<1> QED
  BY <1>1, <1>6, NotRules

\* The issues of the parser are counted a second time, in their order.
LEMMA RecordIssueKeeps == AnalysisInv /\ RecordIssue => Sound(run') /\ Kept(run, run')
<1> SUFFICES ASSUME AnalysisInv, RecordIssue PROVE Sound(run') /\ Kept(run, run')
  OBVIOUS
<1>0. Sound(run) /\ run \in Run
  BY DEF AnalysisInv, Sound
<1> DEFINE n == run.issues[Len(run.issues) - run.left + 1]
           next == [run EXCEPT !.left = run.left - 1]
           emitted == Append(run.emitted, n)
           counted == [next EXCEPT !.emitted = emitted]
<1>1. run.pc = "record" /\ run.counting /\ run.made \in Nat /\ run.left \in Nat
      /\ run.left > 0 /\ run.left <= run.made
  BY <1>0 DEF RecordIssue, At, Sound, Counts, Run
<1>2. run' = Recorded(run, n, next)
  BY DEF RecordIssue, Steps
<1>3. n = run.made - run.left + 1
  BY <1>0, <1>1, SMTT(30) DEF Sound, Run, Numbered
<1>4. emitted \in Seq(Nat) /\ Numbered(emitted, run.made - (run.left - 1))
  <2>1. run.made - run.left \in Nat /\ run.emitted \in Seq(Nat)
        /\ Numbered(run.emitted, run.made - run.left)
    BY <1>0, <1>1 DEF Sound, Run
  <2>2. run.made - (run.left - 1) = run.made - run.left + 1
    BY <1>1
  <2> QED
    BY <1>3, <2>1, <2>2, OneMore
<1> HIDE DEF emitted, n
<1>5. next \in Run
  <2>1. run.left - 1 \in Nat
    BY <1>1
  <2> QED
    BY <1>0, <2>1 DEF Run
<1>6. counted \in Run
  <2> HIDE DEF next
  <2> QED
    BY <1>4, <1>5 DEF Run
<1>7. /\ counted.pc = run.pc /\ counted.mode = run.mode /\ counted.counting = run.counting
      /\ counted.left = run.left - 1
      /\ counted.emitted = emitted /\ counted.found = run.found
      /\ counted.issues = run.issues /\ counted.output = run.output
      /\ counted.made = run.made /\ counted.incomplete = run.incomplete
      /\ counted.outcome = run.outcome
  BY <1>0 DEF Run
<1> HIDE DEF counted
<1>8. Sound(counted)
  BY <1>0, <1>1, <1>4, <1>6, <1>7 DEF Sound, Counts
<1> HIDE DEF next
<1> QED
  BY <1>0, <1>1, <1>2, <1>8, RecordedKeeps, NotRules DEF counted, emitted

LEMMA RecordEndsKeeps == AnalysisInv /\ RecordEnds => Sound(run') /\ Kept(run, run')
<1> SUFFICES ASSUME AnalysisInv, RecordEnds PROVE Sound(run') /\ Kept(run, run')
  OBVIOUS
<1>0. Sound(run) /\ run \in Run
  BY DEF AnalysisInv, Sound
<1>1. run.pc = "record" /\ run.left = 0 /\ run.made \in Nat
      /\ run' = [run EXCEPT !.pc = "rules", !.left = Rules]
  BY <1>0 DEF RecordEnds, At, Steps, Run
<1>2. run' \in Run
  BY <1>0, <1>1, Budgets DEF Run
<1>3. /\ run'.pc = "rules" /\ run'.mode = run.mode /\ run'.counting = run.counting
      /\ run'.emitted = run.emitted /\ run'.found = run.found
      /\ run'.output = run.output /\ run'.made = run.made
      /\ run'.incomplete = run.incomplete /\ run'.outcome = run.outcome
  BY <1>0, <1>1 DEF Run
<1>4. run.made - run.left = run.made
  BY <1>1
<1>5. Sound(run')
  BY <1>0, <1>1, <1>2, <1>3, <1>4 DEF Sound, Counts
<1> QED
  BY <1>1, <1>5, NotRules

LEMMA BeginRuleKeeps == AnalysisInv /\ BeginRule => Sound(run') /\ Kept(run, run')
<1> SUFFICES ASSUME AnalysisInv, BeginRule PROVE Sound(run') /\ Kept(run, run')
  OBVIOUS
<1>0. Sound(run) /\ run \in Run
  BY DEF AnalysisInv, Sound
<1> DEFINE next == [run EXCEPT !.pc = "rule", !.local = <<>>]
<1>1. run.pc = "rules" /\ run.left > 0 /\ run.made \in Nat /\ run' = Checked(run, next)
  BY <1>0 DEF BeginRule, At, Steps, Run
<1>2. next \in Run
  <2>1. [run EXCEPT !.pc = "rule"] \in Run
    BY <1>0 DEF Run
  <2> QED
    BY <2>1, Emptied
<1>3. /\ next.pc = "rule" /\ next.mode = run.mode /\ next.counting = run.counting
      /\ next.left = run.left /\ next.local = <<>>
      /\ next.emitted = run.emitted /\ next.found = run.found
      /\ next.output = run.output /\ next.made = run.made
      /\ next.incomplete = run.incomplete /\ next.outcome = run.outcome
  BY <1>0 DEF Run
<1> HIDE DEF next
<1>4. Sound(next)
  BY <1>0, <1>1, <1>2, <1>3 DEF Sound, Counts, Numbered
<1>5. Kept(run, next)
  BY <1>3 DEF Kept, InEngine
<1> QED
  BY <1>0, <1>1, <1>4, <1>5, CheckedKeeps

LEMMA DiagnosesKeeps == AnalysisInv /\ Diagnoses => Sound(run') /\ Kept(run, run')
<1> SUFFICES ASSUME AnalysisInv, Diagnoses PROVE Sound(run') /\ Kept(run, run')
  OBVIOUS
<1>0. Sound(run) /\ run \in Run
  BY DEF AnalysisInv, Sound
<1> DEFINE local == Append(run.local, New)
           next == [run EXCEPT !.local = local, !.made = New]
           emitted == Append(run.emitted, New)
           counted == [next EXCEPT !.emitted = emitted]
<1>1. run.pc = "rule" /\ run.counting /\ run.made \in Nat /\ Len(run.emitted) = run.made
  BY <1>0 DEF Diagnoses, At, Sound, Counts, Run, Numbered
<1>2. run' = Recorded(run, New, next)
  BY DEF Diagnoses, Steps
<1>3. New = run.made + 1 /\ New \in Nat
  BY <1>1 DEF New
<1>4. emitted \in Seq(Nat) /\ Numbered(emitted, run.made + 1)
  BY <1>0, <1>1, OneMore DEF New, Sound, Run
<1>5. run.local \in Seq(Nat) /\ run.found \in Seq(Nat)
  BY <1>0 DEF Run
<1>6. Continues(run.found, run.local) /\ run.made = Len(run.found) + Len(run.local)
  BY <1>0, <1>1 DEF Sound, Continues
<1>7. /\ local \in Seq(Nat) /\ Len(local) = Len(run.local) + 1 /\ Continues(run.found, local)
  BY <1>1, <1>3, <1>5, <1>6, OneMoreAfter
<1> HIDE DEF local, emitted
<1>8. next \in Run
  BY <1>0, <1>3, <1>7 DEF Run
<1>9. counted \in Run
  <2> HIDE DEF next
  <2> QED
    BY <1>4, <1>8 DEF Run
<1>10. /\ counted.pc = run.pc /\ counted.mode = run.mode /\ counted.counting = run.counting
       /\ counted.left = run.left /\ counted.local = local
       /\ counted.emitted = emitted /\ counted.found = run.found
       /\ counted.output = run.output
       /\ counted.made = New /\ counted.incomplete = run.incomplete
       /\ counted.outcome = run.outcome
  BY <1>0 DEF Run
<1> HIDE DEF counted
<1>11. Ascending(run.found, New)
  BY <1>0, <1>1, <1>3, <1>5 DEF Sound, Ascending
<1>12. Len(run.found) + Len(local) = New
  <2>1. Len(run.found) \in Nat /\ Len(run.local) \in Nat
    BY <1>5
  <2>2. Len(local) = Len(run.local) + 1
    BY <1>7
  <2>3. run.made = Len(run.found) + Len(run.local)
    BY <1>6
  <2>4. New = Len(run.found) + Len(run.local) + 1
    BY <1>3, <2>3
  <2>5. Len(run.found) + (Len(run.local) + 1) = Len(run.found) + Len(run.local) + 1
    BY <2>1, Positions
  <2> QED
    BY <2>2, <2>4, <2>5
<1>13. ASSUME Len(run.emitted) < MaxDiagnostics PROVE Sound(counted)
  <2>1. New <= MaxDiagnostics
    BY <1>1, <1>3, <1>13, Budgets
  <2>2. /\ run.left > 0 /\ ~run.incomplete /\ run.outcome = "none" /\ run.mode # "message"
        /\ Len(run.output) <= MaxDiagnostics
        /\ run.mode # "full" => Len(run.found) <= MaxDiagnostics
    BY <1>0, <1>1 DEF Sound
  <2>3. /\ \A i \in 1..Len(run.found) : run.found[i] = i
        /\ \A i \in 1..Len(local) : local[i] = Len(run.found) + i
    BY <1>7 DEF Continues
  <2>4. Numbered(emitted, New)
    BY <1>3, <1>4
  <2> QED
    BY <1>1, <1>9, <1>10, <1>11, <1>12, <2>1, <2>2, <2>3, <2>4 DEF Sound, Counts
<1>14. Kept(run, counted)
  BY <1>1, <1>10 DEF Kept, InEngine
<1> HIDE DEF next
<1> QED
  BY <1>0, <1>1, <1>2, <1>13, <1>14, RecordedKeeps DEF counted, emitted

\* What the rule found joins what the earlier rules found.
LEMMA RuleEndsKeeps == AnalysisInv /\ RuleEnds => Sound(run') /\ Kept(run, run')
<1> SUFFICES ASSUME AnalysisInv, RuleEnds PROVE Sound(run') /\ Kept(run, run')
  OBVIOUS
<1>0. Sound(run) /\ run \in Run
  BY DEF AnalysisInv, Sound
<1> DEFINE found == run.found \o run.local
<1>1. run.pc = "rule" /\ run.left > 0 /\ run.left - 1 \in Nat /\ run.made \in Nat
  BY <1>0 DEF RuleEnds, At, Sound, Run
<1>2. run' = [run EXCEPT !.pc = "rules", !.left = run.left - 1, !.found = found]
  BY DEF RuleEnds, Steps
<1>3. run.local \in Seq(Nat) /\ run.found \in Seq(Nat)
  BY <1>0 DEF Run
<1>4. Continues(run.found, run.local) /\ Len(run.found) + Len(run.local) = run.made
  BY <1>0, <1>1 DEF Sound, Continues
<1>5. found \in Seq(Nat) /\ Numbered(found, run.made)
  BY <1>3, <1>4, Joined
<1> HIDE DEF found
<1>6. Numbered(found, run.made) /\ Ascending(found, run.made)
  BY <1>1, <1>5 DEF Numbered, Ascending
<1>7. run' \in Run
  BY <1>0, <1>1, <1>2, <1>5 DEF Run
<1>8. /\ run'.pc = "rules" /\ run'.mode = run.mode /\ run'.counting = run.counting
      /\ run'.emitted = run.emitted /\ run'.found = found
      /\ run'.output = run.output /\ run'.made = run.made
      /\ run'.incomplete = run.incomplete /\ run'.outcome = run.outcome
  BY <1>0, <1>2 DEF Run
<1>9. Sound(run')
  <2>1. Len(found) <= MaxDiagnostics
    BY <1>0, <1>1, <1>6 DEF Sound, Counts, Numbered
  <2> QED
    BY <1>0, <1>1, <1>6, <1>7, <1>8, <2>1 DEF Sound, Counts
<1> QED
  BY <1>8, <1>9 DEF Kept, InEngine

LEMMA RulesEndKeeps == AnalysisInv /\ RulesEnd => Sound(run') /\ Kept(run, run')
<1> SUFFICES ASSUME AnalysisInv, RulesEnd PROVE Sound(run') /\ Kept(run, run')
  OBVIOUS
<1>0. Sound(run) /\ run \in Run
  BY DEF AnalysisInv, Sound
<1>1. run.pc = "rules" /\ run' = Completed(run)
  BY DEF RulesEnd, At, Steps
<1>2. /\ run.made \in Nat /\ Numbered(run.found, run.made) /\ Ascending(run.found, run.made)
      /\ run.made <= MaxDiagnostics /\ run.mode # "message" /\ run.outcome = "none"
  BY <1>0, <1>1 DEF Sound, Counts, Run
<1>3. Sound(run') /\ run'.output = run.found /\ run'.made = run.made
  BY <1>0, <1>1, <1>2, CompletedKeeps DEF Numbered
<1>4. Kept(run, run')
  BY <1>2, <1>3 DEF Kept, Holds, Numbered
<1> QED
  BY <1>3, <1>4

LEMMA MessageLineKeeps == AnalysisInv /\ MessageLine => Sound(run') /\ Kept(run, run')
<1> SUFFICES ASSUME AnalysisInv, MessageLine PROVE Sound(run') /\ Kept(run, run')
  OBVIOUS
<1>0. Sound(run) /\ run \in Run
  BY DEF AnalysisInv, Sound
<1> DEFINE skipped == [run EXCEPT !.left = run.left - 1]
           read == [run EXCEPT !.pc = "message"]
<1>1. run.pc = "messages" /\ run.left > 0 /\ run.left - 1 \in Nat
  BY <1>0 DEF MessageLine, At, Run
<1>2. run' = Checked(run, skipped) \/ run' = Checked(run, read)
  BY DEF MessageLine, Steps
<1>3. skipped \in Run /\ read \in Run
  BY <1>0, <1>1 DEF Run
<1>4. /\ skipped.pc = "messages" /\ skipped.mode = run.mode /\ skipped.counting = run.counting
      /\ skipped.emitted = run.emitted /\ skipped.found = run.found
      /\ skipped.output = run.output /\ skipped.made = run.made
      /\ skipped.incomplete = run.incomplete /\ skipped.outcome = run.outcome
  BY <1>0, <1>1 DEF Run
<1>5. /\ read.pc = "message" /\ read.mode = run.mode /\ read.counting = run.counting
      /\ read.left = run.left
      /\ read.emitted = run.emitted /\ read.found = run.found
      /\ read.output = run.output /\ read.made = run.made
      /\ read.incomplete = run.incomplete /\ read.outcome = run.outcome
  BY <1>0 DEF Run
<1> HIDE DEF skipped, read
<1>6. Sound(skipped)
  BY <1>0, <1>1, <1>3, <1>4 DEF Sound, Counts
<1>7. Sound(read)
  BY <1>0, <1>1, <1>3, <1>5 DEF Sound, Counts
<1> QED
  BY <1>0, <1>1, <1>2, <1>6, <1>7, CheckedKeeps, NotRules

\* A later diagnostic, to the ones returned so far.
LEMMA OneMoreFound ==
    ASSUME NEW s \in Seq(Nat), NEW n \in Nat, Ascending(s, n)
    PROVE  /\ Append(s, n + 1) \in Seq(Nat) /\ Len(Append(s, n + 1)) = Len(s) + 1
           /\ Ascending(Append(s, n + 1), n + 1)
<1> DEFINE more == Append(s, n + 1)
<1>1. /\ more \in Seq(Nat) /\ Len(more) = Len(s) + 1
      /\ \A i \in 1..Len(s) : more[i] = s[i]
      /\ more[Len(s) + 1] = n + 1
  BY AppendProperties
<1> HIDE DEF more
<1>2. ASSUME NEW i \in 1..Len(more), NEW j \in 1..Len(more)
      PROVE  more[i] \in 1..(n + 1) /\ (j < i => more[j] < more[i])
  <2>0. Len(s) \in Nat /\ i \in 1..(Len(s) + 1) /\ j \in 1..(Len(s) + 1)
    BY <1>1, <1>2
  <2>1. CASE i = Len(s) + 1
    <3>1. ASSUME j < i PROVE j \in 1..Len(s)
      BY <2>0, <2>1, <3>1
    <3>2. more[i] = n + 1
      BY <1>1, <2>1
    <3>3. ASSUME j < i PROVE more[j] \in 1..n
      <4>1. j \in 1..Len(s)
        BY <3>1, <3>3
      <4>2. s[j] \in 1..n /\ more[j] = s[j]
        BY <1>1, <4>1 DEF Ascending
      <4> QED
        BY <4>2
    <3>4. \A k \in 1..n : k < n + 1
      OBVIOUS
    <3>5. n + 1 \in 1..(n + 1)
      OBVIOUS
    <3> QED
      BY <3>2, <3>3, <3>4, <3>5
  <2>2. CASE i # Len(s) + 1
    <3>1. i \in 1..Len(s)
      BY <2>0, <2>2, Positions
    <3>2. ASSUME j < i PROVE j \in 1..Len(s)
      BY <2>0, <3>1, <3>2
    <3>3. s[i] \in 1..n /\ (j < i => s[j] < s[i])
      BY <3>1, <3>2 DEF Ascending
    <3> QED
      BY <1>1, <3>1, <3>2, <3>3
  <2> QED
    BY <2>1, <2>2
<1> QED
  BY <1>1, <1>2 DEF Ascending, more

\* In message mode it is counted, in full mode it is not.
LEMMA InterpretsKeeps == AnalysisInv /\ Interprets => Sound(run') /\ Kept(run, run')
<1> SUFFICES ASSUME AnalysisInv, Interprets PROVE Sound(run') /\ Kept(run, run')
  OBVIOUS
<1>0. Sound(run) /\ run \in Run
  BY DEF AnalysisInv, Sound
<1> DEFINE found == Append(run.found, New)
           next == [run EXCEPT !.pc = "messages", !.left = run.left - 1,
                               !.found = found, !.made = New]
           emitted == Append(run.emitted, New)
           counted == [next EXCEPT !.emitted = emitted]
<1>1. /\ run.pc = "message" /\ run.left - 1 \in Nat /\ run.made \in Nat
      /\ run.mode \in {"message", "full"} /\ run.outcome = "none"
      /\ run.mode = "message" <=> run.counting
      /\ run.mode = "message" => Numbered(run.emitted, run.made) /\ ~run.incomplete
      /\ ~run.incomplete => Numbered(run.found, run.made)
      /\ Ascending(run.found, run.made)
      /\ Len(run.output) <= MaxDiagnostics
      /\ run.emitted \in Seq(Nat) /\ run.found \in Seq(Nat)
  BY <1>0 DEF Interprets, At, Sound, Counts, Run
<1>2. run' = Recorded(run, New, next)
  BY DEF Interprets, Steps
<1>3. New = run.made + 1 /\ New \in Nat
  BY <1>1 DEF New
<1>4. /\ found \in Seq(Nat) /\ Ascending(found, New)
      /\ ~run.incomplete => Numbered(found, New)
  BY <1>1, <1>3, OneMore, OneMoreFound
<1>5. emitted \in Seq(Nat) /\ (run.mode = "message" => Numbered(emitted, New))
  BY <1>1, <1>3, OneMore
<1> HIDE DEF found, emitted
<1>6. next \in Run
  BY <1>0, <1>1, <1>3, <1>4 DEF Run
<1>7. /\ next.pc = "messages" /\ next.mode = run.mode /\ next.counting = run.counting
      /\ next.emitted = run.emitted /\ next.found = found
      /\ next.output = run.output /\ next.made = New
      /\ next.incomplete = run.incomplete /\ next.outcome = run.outcome
  BY <1>0 DEF Run
<1> HIDE DEF next
<1>8. counted \in Run
  BY <1>5, <1>6 DEF Run
<1>9. /\ counted.pc = "messages" /\ counted.mode = run.mode /\ counted.counting = run.counting
      /\ counted.emitted = emitted /\ counted.found = found
      /\ counted.output = run.output /\ counted.made = New
      /\ counted.incomplete = run.incomplete /\ counted.outcome = run.outcome
  BY <1>6, <1>7 DEF Run
<1> HIDE DEF counted
<1>10. ~run.counting => Sound(next)
  BY <1>1, <1>3, <1>4, <1>6, <1>7 DEF Sound, Counts
<1>11. ASSUME run.counting, Len(run.emitted) < MaxDiagnostics PROVE Sound(counted)
  <2>1. New <= MaxDiagnostics
    BY <1>1, <1>3, <1>11, Budgets DEF Numbered
  <2>2. Len(found) <= MaxDiagnostics
    BY <1>1, <1>4, <1>11, <2>1 DEF Numbered
  <2> QED
    BY <1>1, <1>4, <1>5, <1>8, <1>9, <1>11, <2>1, <2>2 DEF Sound, Counts
<1> QED
  BY <1>0, <1>1, <1>2, <1>10, <1>11, RecordedKeeps, NotRules DEF counted, emitted

LEMMA MessagesEndKeeps == AnalysisInv /\ MessagesEnd => Sound(run') /\ Kept(run, run')
<1> SUFFICES ASSUME AnalysisInv, MessagesEnd PROVE Sound(run') /\ Kept(run, run')
  OBVIOUS
<1>0. Sound(run) /\ run \in Run
  BY DEF AnalysisInv, Sound
<1>1. run.pc = "messages" /\ run' = Ends(run, "result")
  BY DEF MessagesEnd, At, Steps
<1>2. run' \in Run
  BY <1>0, <1>1, EndsTyped
<1>3. /\ run'.pc = "done" /\ run'.counting = FALSE /\ run'.outcome = "result"
      /\ run'.found = run.found /\ run'.output = run.output /\ run'.made = run.made
      /\ run'.mode = run.mode /\ run'.incomplete = run.incomplete
  BY <1>0, <1>1 DEF Ends, Run
<1>4. Sound(run')
  BY <1>0, <1>1, <1>2, <1>3 DEF Sound, Counts
<1> QED
  BY <1>1, <1>4, NotRules

-----------------------------------------------------------------------------
(* Theorems *)

\* Every step keeps the invariant, and what RulesKept says.
LEMMA AnalysisSteps ==
    AnalysisInv /\ [Next]_vars => AnalysisInv' /\ (run' = run \/ Kept(run, run'))
<1> SUFFICES ASSUME AnalysisInv, [Next]_vars
             PROVE  AnalysisInv' /\ (run' = run \/ Kept(run, run'))
  OBVIOUS
<1>1. CASE Step
  <2>1. Sound(run') /\ Kept(run, run')
    BY <1>1, StartKeeps, ScanLineKeeps, ScanEndsKeeps, WorksKeeps, NumberTooLongKeeps,
       ChargesKeeps, ParseIssueKeeps, ParseEndsKeeps, RecordIssueKeeps, RecordEndsKeeps,
       BeginRuleKeeps, DiagnosesKeeps, RuleEndsKeeps, RulesEndKeeps, MessageLineKeeps,
       InterpretsKeeps, MessagesEndKeeps DEF Step
  <2>2. UNCHANGED <<cancelled, expired>>
    BY <1>1 DEF Step, Start, ScanLine, ScanEnds, Works, NumberTooLong, Charges, ParseIssue,
       ParseEnds, RecordIssue, RecordEnds, BeginRule, Diagnoses, RuleEnds, RulesEnd,
       MessageLine, Interprets, MessagesEnd, Steps
  <2> QED
    BY <2>1, <2>2 DEF AnalysisInv
<1>2. CASE Cancel \/ TimePasses \/ UNCHANGED vars
  BY <1>2 DEF Cancel, TimePasses, vars, AnalysisInv
<1> QED
  BY <1>1, <1>2 DEF Next

THEOREM AnalysisSound == Spec => []AnalysisInv
<1>1. AnalysisInv /\ [Next]_vars => AnalysisInv'
  BY AnalysisSteps
<1> QED
  BY <1>1, InitialAnalysis, PTL DEF Spec

\* Types, and where diagnostics are counted (control.emitted).
THEOREM AnalysisTypeCorrect == Spec => []TypeOK
<1>1. AnalysisInv => TypeOK
  BY DEF AnalysisInv, Sound, Counts, TypeOK
<1> QED
  BY <1>1, AnalysisSound, PTL

\* An unmarked result is complete, and no diagnostic is returned twice, for any
\* budgets, cancel or timeout.
THEOREM ReturnedOnce == Spec => []EachOnce
<1>1. AnalysisInv => EachOnce
  <2> SUFFICES ASSUME AnalysisInv PROVE EachOnce
    OBVIOUS
  <2>1. run \in Run /\ Ascending(run.found, run.made)
        /\ (run.outcome = "result" /\ ~run.incomplete => Numbered(run.found, run.made))
    BY DEF AnalysisInv, Sound
  <2>2. run.found \in Seq(Nat) /\ run.made \in Nat
    BY <2>1 DEF Run
  <2>3. ASSUME NEW i \in 1..Len(run.found), NEW j \in 1..Len(run.found),
               run.found[i] = run.found[j]
        PROVE  i = j
    <3>1. run.found[i] \in Nat /\ run.found[j] \in Nat
      BY <2>2
    <3>2. ~(i < j) /\ ~(j < i)
      BY <2>1, <2>3, <3>1 DEF Ascending
    <3> QED
      BY <2>2, <3>2
  <2>4. ASSUME run.outcome = "result", ~run.incomplete, NEW n \in 1..run.made
        PROVE  Holds(run.found, n)
    BY <2>1, <2>4 DEF Numbered, Holds
  <2> QED
    BY <2>3, <2>4 DEF EachOnce
<1> QED
  BY <1>1, AnalysisSound, PTL

\* The rules and messages return at most MaxDiagnostics diagnostics.
THEOREM BudgetHolds == Spec => []Bounded
<1>1. AnalysisInv => Bounded
  BY DEF AnalysisInv, Sound, Bounded
<1> QED
  BY <1>1, AnalysisSound, PTL

\* A budget that ends the rules loses no diagnostic made so far.
THEOREM RuleOutputKept == Spec => RulesKept
<1>1. AnalysisInv /\ [Next]_vars =>
        [run.pc \in {"rules", "rule"} /\ run'.pc \notin InEngine /\ run'.outcome # "cancelled"
         => \A n \in 1..run'.made : Holds(run'.output, n)]_vars
  <2> SUFFICES ASSUME AnalysisInv, [Next]_vars
               PROVE  \/ run.pc \in {"rules", "rule"} /\ run'.pc \notin InEngine
                            /\ run'.outcome # "cancelled"
                         => \A n \in 1..run'.made : Holds(run'.output, n)
                      \/ UNCHANGED vars
    OBVIOUS
  <2>1. CASE run' = run
    BY <2>1 DEF InEngine
  <2>2. CASE Kept(run, run')
    BY <2>2 DEF Kept
  <2> QED
    BY <2>1, <2>2, AnalysisSteps
<1> QED
  BY <1>1, AnalysisSound, PTL DEF Spec, RulesKept

=============================================================================
