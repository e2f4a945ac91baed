--------------------------- MODULE WorkspaceProofs ---------------------------
(***************************************************************************)
(* The safety of Workspace for any documents, options, files and bounds.   *)
(***************************************************************************)
EXTENDS Workspace, FiniteSetTheorems, SequenceTheorems, TLAPS

-----------------------------------------------------------------------------
(* What the controller's methods do to a document *)

Belongs(d) == d.result \cup d.active \subseteq {Input(d)}

\* Text and options change only together with the revision.
Evolves(d, e) ==
    /\ e \in Document
    /\ Belongs(d) => Belongs(e)
    /\ \/ e.revision > d.revision
       \/ e.revision = d.revision /\ Input(e) = Input(d)

\* The file of a document is forgotten or stays with what was saved in it.
KeepsFile(d, e) ==
    e.path = NoPath \/ (e.path = d.path /\ e.identity = d.identity /\ e.saved = d.saved)

LEMMA EvolvesTwice ==
    ASSUME NEW d \in Document, NEW e, NEW f, Evolves(d, e), Evolves(e, f)
    PROVE  Evolves(d, f)
<1>1. e \in Document /\ f \in Document /\ d.revision \in Nat /\ e.revision \in Nat /\ f.revision \in Nat
  BY DEF Evolves, Document
<1> QED
  BY <1>1 DEF Evolves

LEMMA InvalidatedFields ==
    ASSUME NEW d \in Document
    PROVE  LET e == Invalidated(d)
           IN  /\ e \in Document
               /\ e.revision = d.revision + 1 /\ e.result = {} /\ e.active = d.active
               /\ e.text = d.text /\ e.options = d.options
               /\ e.saved = d.saved /\ e.path = d.path /\ e.identity = d.identity
<1> DEFINE s == IF d.text = Empty THEN "none"
                ELSE IF d.result # {} \/ d.status = "failed" THEN "changed" ELSE d.status
<1>1. s \in Statuses
  BY DEF Document, Statuses
<1>2. Invalidated(d) = [d EXCEPT !.cancelled = TRUE, !.revision = d.revision + 1,
                                 !.result = {}, !.status = s]
  BY DEF Invalidated
<1> HIDE DEF s
<1>3. d.revision + 1 \in Nat /\ {} \in SUBSET Entries
  BY DEF Document
<1> QED
  BY <1>1, <1>2, <1>3 DEF Document

LEMMA SetTextEvolves ==
    ASSUME NEW d \in Document, NEW text \in Texts
    PROVE  /\ Evolves(d, SetText(d, text))
           /\ SetText(d, text).text = text /\ SetText(d, text).options = d.options
           /\ SetText(d, text).saved = d.saved /\ SetText(d, text).path = d.path
           /\ SetText(d, text).identity = d.identity
<1> DEFINE e == Invalidated([d EXCEPT !.text = text, !.active = {}])
<1>1. CASE text = d.text
  BY <1>1 DEF SetText, Evolves
<1>2. CASE text # d.text
  <2>1. [d EXCEPT !.text = text, !.active = {}] \in Document
    BY DEF Document
  <2>2. e \in Document
    BY <2>1, InvalidatedFields
  <2>3. /\ e.revision = d.revision + 1 /\ e.result = {} /\ e.active = {} /\ e.text = text
        /\ e.options = d.options /\ e.saved = d.saved /\ e.path = d.path /\ e.identity = d.identity
    BY <2>1, InvalidatedFields DEF Document
  <2>4. d.revision \in Nat
    BY DEF Document
  <2> HIDE DEF e
  <2>5. SetText(d, text) = e
    BY <1>2 DEF SetText, e
  <2> QED
    BY <2>2, <2>3, <2>4, <2>5 DEF Evolves, Belongs
<1> QED
  BY <1>1, <1>2

LEMMA SetOptionsEvolves ==
    ASSUME NEW d \in Document, NEW options \in Options
    PROVE  /\ Evolves(d, SetOptions(d, options))
           /\ SetOptions(d, options).text = d.text /\ SetOptions(d, options).options = options
           /\ SetOptions(d, options).saved = d.saved /\ SetOptions(d, options).path = d.path
           /\ SetOptions(d, options).identity = d.identity
<1> DEFINE e == Invalidated([d EXCEPT !.options = options, !.active = {}])
<1>1. CASE options = d.options
  BY <1>1 DEF SetOptions, Evolves
<1>2. CASE options # d.options
  <2>1. [d EXCEPT !.options = options, !.active = {}] \in Document
    BY DEF Document
  <2>2. e \in Document
    BY <2>1, InvalidatedFields
  <2>3. /\ e.revision = d.revision + 1 /\ e.result = {} /\ e.active = {} /\ e.text = d.text
        /\ e.options = options /\ e.saved = d.saved /\ e.path = d.path /\ e.identity = d.identity
    BY <2>1, InvalidatedFields DEF Document
  <2>4. d.revision \in Nat
    BY DEF Document
  <2> HIDE DEF e
  <2>5. SetOptions(d, options) = e
    BY <1>2 DEF SetOptions, e
  <2> QED
    BY <2>2, <2>3, <2>4, <2>5 DEF Evolves, Belongs
<1> QED
  BY <1>1, <1>2

LEMMA ClearedEvolves ==
    ASSUME NEW d \in Document
    PROVE  Evolves(d, Cleared(d)) /\ KeepsFile(d, Cleared(d))
<1>1. CASE worker.busy
  BY <1>1 DEF Cleared, Evolves, KeepsFile
<1>2. CASE ~worker.busy
  <2> DEFINE e == SetText(d, Empty)
  <2>1. Evolves(d, e) /\ e \in Document
    BY SetTextEvolves, Documents DEF Evolves
  <2>2. Cleared(d) = [e EXCEPT !.active = {}, !.path = NoPath, !.saved = Empty, !.status = "none"]
    BY <1>2 DEF Cleared
  <2> HIDE DEF e
  <2>3. /\ Cleared(d) \in Document /\ Input(Cleared(d)) = Input(e) /\ Cleared(d).path = NoPath
        /\ Cleared(d).revision = e.revision /\ Cleared(d).result = e.result /\ Cleared(d).active = {}
    <3>1. "none" \in Statuses /\ Empty \in Texts
      BY Documents DEF Statuses
    <3> QED
      BY <2>1, <2>2, <3>1 DEF Document, Input
  <2> QED
    BY <2>1, <2>3 DEF Evolves, KeepsFile, Belongs
<1> QED
  BY <1>1, <1>2

\* The sample, the draft: cleared, with other options and another text.
LEMMA RewrittenEvolves ==
    ASSUME NEW d \in Document, NEW e \in Document, NEW text \in Texts, NEW options \in Options,
           Evolves(d, e), KeepsFile(d, e)
    PROVE  LET f == SetText(SetOptions(e, options), text)
           IN  Evolves(d, f) /\ KeepsFile(d, f)
<1> DEFINE g == SetOptions(e, options)
           f == SetText(g, text)
<1>1. Evolves(e, g) /\ g \in Document /\ g.path = e.path /\ g.identity = e.identity /\ g.saved = e.saved
  BY SetOptionsEvolves DEF Evolves
<1> HIDE DEF g
<1>2. Evolves(g, f) /\ f.path = g.path /\ f.identity = g.identity /\ f.saved = g.saved
  BY <1>1, SetTextEvolves
<1> HIDE DEF f
<1>3. Evolves(e, f)
  BY <1>1, <1>2, EvolvesTwice
<1>4. Evolves(d, f)
  BY <1>3, EvolvesTwice
<1> QED
  BY <1>1, <1>2, <1>4 DEF KeepsFile, f, g

LEMMA SampleEvolves ==
    ASSUME NEW d \in Document
    PROVE  Evolves(d, Sample(d)) /\ KeepsFile(d, Sample(d))
<1>1. Cleared(d) \in Document
  BY ClearedEvolves DEF Evolves
<1> QED
  BY <1>1, ClearedEvolves, RewrittenEvolves, Documents DEF Sample

LEMMA ScratchEvolves ==
    ASSUME NEW d \in Document, draft.text \in Texts
    PROVE  Evolves(d, Scratch(d)) /\ KeepsFile(d, Scratch(d))
<1> DEFINE e == Cleared(d)
<1>1. Evolves(d, e) /\ KeepsFile(d, e) /\ e \in Document
  BY ClearedEvolves DEF Evolves
<1> HIDE DEF e
<1>2. /\ Evolves(e, SetText(e, draft.text)) /\ SetText(e, draft.text).saved = e.saved
      /\ SetText(e, draft.text).path = e.path /\ SetText(e, draft.text).identity = e.identity
  BY <1>1, SetTextEvolves
<1>3. Evolves(d, SetText(e, draft.text)) /\ KeepsFile(d, SetText(e, draft.text))
  BY <1>1, <1>2, EvolvesTwice DEF KeepsFile
<1> QED
  BY <1>3 DEF Scratch, e

LEMMA OpenedEvolves ==
    ASSUME NEW d \in Document, history \in SUBSET Entries, NEW e
    PROVE  Evolves(d, Opened(d, e)) /\ KeepsFile(d, Opened(d, e))
<1>1. CASE e \notin history \/ worker.busy
  BY <1>1 DEF Opened, Evolves, KeepsFile
<1>2. CASE ~(e \notin history \/ worker.busy)
  <2> DEFINE f == SetText(d, e.text)
             g == [f EXCEPT !.path = NoPath, !.saved = Empty]
             h == Invalidated(g)
  <2>1. e \in Entries /\ e.text \in Texts /\ e.options \in Options
    BY <1>2 DEF Entries
  <2>2. Evolves(d, f) /\ f \in Document /\ f.text = e.text
    BY <2>1, SetTextEvolves DEF Evolves
  <2> HIDE DEF f
  <2>3. g \in Document /\ g.text = e.text /\ g.revision = f.revision /\ g.path = NoPath
    BY <2>2, Documents DEF Document
  <2> HIDE DEF g
  <2>4. h \in Document /\ h.text = e.text /\ h.revision = g.revision + 1 /\ h.path = NoPath
    BY <2>3, InvalidatedFields
  <2>5. Opened(d, e) = [h EXCEPT !.options = e.options, !.result = {e}, !.active = {e},
                                 !.status = "completed"]
    BY <1>2 DEF Opened, h, g, f
  <2> HIDE DEF h
  <2>6. Opened(d, e) \in Document
    <3>1. {e} \in SUBSET Entries /\ "completed" \in Statuses
      BY <2>1 DEF Statuses
    <3> QED
      BY <2>1, <2>4, <2>5, <3>1 DEF Document
  <2>7. /\ Opened(d, e).revision = h.revision /\ Opened(d, e).text = e.text
        /\ Opened(d, e).options = e.options /\ Opened(d, e).path = NoPath
        /\ Opened(d, e).result = {e} /\ Opened(d, e).active = {e}
    BY <2>4, <2>5 DEF Document
  <2>8. Input(Opened(d, e)) = e
    BY <2>1, <2>7 DEF Input, Entries
  <2>9. Opened(d, e).revision > d.revision
    <3>1. d.revision \in Nat /\ f.revision \in Nat /\ f.revision >= d.revision
      BY <2>2 DEF Evolves, Document
    <3> QED
      BY <2>3, <2>4, <2>7, <3>1
  <2> QED
    BY <2>6, <2>7, <2>8, <2>9 DEF Evolves, KeepsFile, Belongs
<1> QED
  BY <1>1, <1>2

LEMMA UndoneEvolves ==
    ASSUME NEW d \in Document, NEW old \in Replaced
    PROVE  /\ Evolves(d, Undone(d, old)) /\ Undone(d, old).path = old.path
           /\ Undone(d, old).identity = old.identity /\ Undone(d, old).saved = old.saved
<1> DEFINE e == SetText(SetOptions(d, old.options), old.text)
<1>1. old.text \in Texts /\ old.options \in Options /\ old.saved \in Texts
      /\ old.path \in Paths \cup {NoPath} /\ old.identity \in Nat
  BY DEF Replaced
<1>2. Evolves(d, e) /\ e \in Document
  <2>1. Evolves(d, d) /\ KeepsFile(d, d)
    BY DEF Evolves, KeepsFile
  <2> HIDE DEF e
  <2>2. Evolves(d, e)
    BY <1>1, <2>1, RewrittenEvolves DEF e
  <2> QED
    BY <2>2 DEF Evolves
<1>3. Undone(d, old) = [e EXCEPT !.saved = old.saved, !.path = old.path, !.identity = old.identity]
  BY DEF Undone
<1> HIDE DEF e
<1>4. /\ Undone(d, old) \in Document /\ Input(Undone(d, old)) = Input(e)
      /\ Undone(d, old).revision = e.revision /\ Undone(d, old).path = old.path
      /\ Undone(d, old).result = e.result /\ Undone(d, old).active = e.active
      /\ Undone(d, old).identity = old.identity /\ Undone(d, old).saved = old.saved
  BY <1>1, <1>2, <1>3 DEF Document, Input
<1> QED
  BY <1>2, <1>4 DEF Evolves, Belongs

LEMMA LoadedEvolves ==
    ASSUME NEW d \in Document, NEW path \in Paths, NEW file \in Files
    PROVE  /\ Evolves(d, Loaded(d, path, file)) /\ ~Dirty(Loaded(d, path, file))
           /\ Loaded(d, path, file).path = path /\ Loaded(d, path, file).saved = file.text
           /\ Loaded(d, path, file).identity = file.version
<1> DEFINE b == [d EXCEPT !.active = {}]
           e == SetText(b, file.text)
<1>1. file.text \in Texts /\ file.version \in Nat
  BY DEF Files
<1>2. b \in Document /\ Evolves(d, b)
  BY DEF Document, Evolves, Belongs, Input
<1> HIDE DEF b
<1>3. Evolves(b, e) /\ e \in Document /\ e.text = file.text
  BY <1>1, <1>2, SetTextEvolves DEF Evolves
<1>4. Loaded(d, path, file) = [e EXCEPT !.path = path, !.identity = file.version,
                                        !.saved = file.text]
  BY DEF Loaded, b
<1> HIDE DEF e
<1>5. Evolves(d, e)
  BY <1>2, <1>3, EvolvesTwice
<1>6. LET f == Loaded(d, path, file)
      IN  /\ f \in Document /\ Input(f) = Input(e) /\ f.revision = e.revision
          /\ f.result = e.result /\ f.active = e.active /\ f.text = file.text
          /\ f.path = path /\ f.saved = file.text /\ f.identity = file.version
  BY <1>1, <1>3, <1>4 DEF Document, Input
<1> QED
  BY <1>5, <1>6 DEF Evolves, Belongs, Dirty

LEMMA SavedAsEvolves ==
    ASSUME NEW d \in Document, NEW path \in Paths, NEW version \in Nat
    PROVE  LET e == SavedAs(d, path, version)
           IN  /\ Evolves(d, e) /\ ~Dirty(e) /\ e.revision = d.revision /\ e.text = d.text
               /\ e.path = path /\ e.identity = version /\ e.saved = d.text
<1> DEFINE e == SavedAs(d, path, version)
<1>1. /\ e \in Document /\ Input(e) = Input(d) /\ e.revision = d.revision /\ e.text = d.text
      /\ e.result = d.result /\ e.active = d.active
      /\ e.path = path /\ e.identity = version /\ e.saved = d.text
  BY DEF SavedAs, Document, Input
<1> QED
  BY <1>1 DEF Evolves, Belongs, Dirty

-----------------------------------------------------------------------------
(* What is on its way to the document: the signals, then the tasks *)

Flight == signals \o tasks

IsAnalysis(x) == x.kind \in {"analysis", "result", "error"}

IsLoad(x) == x.kind \in {"load", "loaded", "loadFailed"}

Latest(x, w) == IsLoad(x) /\ x.revision = w.loadRevision

\* While the latest load is under way the worker is loading, and nothing that
\* ends the busy mark is behind it; an analysis of the revision that runs has
\* the document's own input.
Orderly(f, w, d) ==
    /\ \A i \in 1..Len(f) : IsAnalysis(f[i]) => w.busy
    /\ \A i, j \in 1..Len(f) : IsAnalysis(f[i]) /\ IsAnalysis(f[j]) => i = j
    /\ \A i, j \in 1..Len(f) :
          i < j /\ Latest(f[i], w) => ~IsAnalysis(f[j]) /\ ~Latest(f[j], w)
    /\ \A i \in 1..Len(f) : Latest(f[i], w) => w.loading
    /\ \A i \in 1..Len(f) : IsLoad(f[i]) => f[i].revision \in 0..w.loadRevision
    /\ w.loadRevision <= d.revision /\ w.running <= d.revision
    /\ \A i \in 1..Len(f) :
          f[i].kind \in {"analysis", "result"} /\ w.running = d.revision => f[i].entry = Input(d)

Workers == [busy: BOOLEAN, loading: BOOLEAN, loadRevision: Int, running: Int, epoch: Nat]

\* y is what became of x.
Follows(x, y) ==
    /\ IsAnalysis(y) => IsAnalysis(x)
    /\ IsLoad(y) => IsLoad(x) /\ y.revision = x.revision
    /\ y.kind \in {"analysis", "result"} => x.kind \in {"analysis", "result"} /\ y.entry = x.entry

\* The running revision and the latest load stay what they are.
SameRuns(w, v) == v.loadRevision = w.loadRevision /\ v.running = w.running

LEMMA OrderlyEvolves ==
    ASSUME NEW f, Len(f) \in Nat, NEW d \in Document, NEW e, NEW w \in Workers, NEW v,
           Orderly(f, w, d), Evolves(d, e), SameRuns(w, v), v.busy = w.busy, v.loading = w.loading
    PROVE  Orderly(f, v, e)
<1>1. d.revision \in Nat /\ e.revision \in Nat /\ w.loadRevision \in Int /\ w.running \in Int
  BY DEF Document, Evolves, Workers
<1> QED
  BY <1>1 DEF Orderly, Evolves, SameRuns, Latest

LEMMA OrderlyReplaced ==
    ASSUME NEW f, Len(f) \in Nat, NEW g, Len(g) = Len(f), NEW w, NEW d, Orderly(f, w, d),
           \A i \in 1..Len(f) : Follows(f[i], g[i])
    PROVE  Orderly(g, w, d)
<1>1. \A i \in 1..Len(f) : Latest(g[i], w) => Latest(f[i], w)
  BY DEF Follows, Latest
<1> QED
  BY <1>1 DEF Orderly, Follows

LEMMA OrderlyDropped ==
    ASSUME NEW f, NEW g, Len(f) \in Nat, Len(g) \in Nat, Len(f) = Len(g) + 1,
           \A i \in 1..Len(g) : g[i] = f[i + 1], NEW w, NEW d, Orderly(f, w, d)
    PROVE  Orderly(g, w, d)
<1>1. \A i \in 1..Len(g) : i + 1 \in 1..Len(f) /\ g[i] = f[i + 1]
  OBVIOUS
<1>2. \A i, j \in 1..Len(g) : (i < j <=> i + 1 < j + 1) /\ (i = j <=> i + 1 = j + 1)
  OBVIOUS
<1>3. \A i \in 1..Len(g) :
        /\ IsAnalysis(g[i]) => w.busy
        /\ Latest(g[i], w) => w.loading
        /\ IsLoad(g[i]) => g[i].revision \in 0..w.loadRevision
        /\ g[i].kind \in {"analysis", "result"} /\ w.running = d.revision => g[i].entry = Input(d)
  BY <1>1 DEF Orderly
<1>4. \A i, j \in 1..Len(g) : IsAnalysis(g[i]) /\ IsAnalysis(g[j]) => i = j
  BY <1>1, <1>2 DEF Orderly
<1>5. \A i, j \in 1..Len(g) : i < j /\ Latest(g[i], w) => ~IsAnalysis(g[j]) /\ ~Latest(g[j], w)
  BY <1>1, <1>2 DEF Orderly
<1> QED
  BY <1>3, <1>4, <1>5 DEF Orderly

\* The latest load ends: what is behind it keeps no one busy.
LEMMA OrderlyLoadEnds ==
    ASSUME NEW f, NEW g, Len(f) \in Nat, Len(g) \in Nat, Len(f) = Len(g) + 1,
           \A i \in 1..Len(g) : g[i] = f[i + 1],
           NEW w \in Workers, NEW v, NEW d, Orderly(f, w, d),
           Latest(f[1], w), SameRuns(w, v)
    PROVE  Orderly(g, v, d)
<1>1. Orderly(g, w, d)
  BY OrderlyDropped
<1>2. \A i \in 1..Len(g) : 1 \in 1..Len(f) /\ i + 1 \in 1..Len(f) /\ 1 < i + 1
  OBVIOUS
<1>3. \A i \in 1..Len(g) : ~IsAnalysis(g[i]) /\ ~Latest(g[i], w)
  BY <1>2 DEF Orderly
<1>4. \A i \in 1..Len(g) : Latest(g[i], v) <=> Latest(g[i], w)
  BY DEF Latest, SameRuns
<1> QED
  BY <1>1, <1>3, <1>4 DEF Orderly, SameRuns

\* The analysis ends: it was the only one.
LEMMA OrderlyAnalysisEnds ==
    ASSUME NEW f, NEW g, Len(f) \in Nat, Len(g) \in Nat, Len(f) = Len(g) + 1,
           \A i \in 1..Len(g) : g[i] = f[i + 1],
           NEW w \in Workers, NEW v, NEW d, Orderly(f, w, d),
           IsAnalysis(f[1]), SameRuns(w, v), v.loading = w.loading
    PROVE  Orderly(g, v, d)
<1>1. Orderly(g, w, d)
  BY OrderlyDropped
<1>2. \A i \in 1..Len(g) : 1 \in 1..Len(f) /\ i + 1 \in 1..Len(f) /\ 1 # i + 1
  OBVIOUS
<1>3. \A i \in 1..Len(g) : ~IsAnalysis(g[i])
  BY <1>2 DEF Orderly
<1>4. \A i \in 1..Len(g) : Latest(g[i], v) <=> Latest(g[i], w)
  BY DEF Latest, SameRuns
<1> QED
  BY <1>1, <1>3, <1>4 DEF Orderly, SameRuns

\* loadFile: a load with a new revision is the latest one.
LEMMA OrderlyLoadStarts ==
    ASSUME NEW f, NEW g, Len(f) \in Nat, Len(g) = Len(f) + 1,
           \A i \in 1..Len(f) : g[i] = f[i],
           NEW w \in Workers, NEW v, NEW d \in Document, NEW e, Orderly(f, w, d),
           g[Len(f) + 1].kind = "load", g[Len(f) + 1].revision = d.revision + 1,
           e.revision = d.revision + 1,
           v.busy, v.loading, v.loadRevision = d.revision + 1, v.running = w.running
    PROVE  Orderly(g, v, e)
<1>1. d.revision \in Nat /\ w.loadRevision \in Int /\ w.running \in Int
  BY DEF Document, Workers
<1>2. w.loadRevision <= d.revision /\ w.running <= d.revision
  BY DEF Orderly
<1>3. \A i \in 1..Len(g) : i \in 1..Len(f) \/ i = Len(f) + 1
  OBVIOUS
<1>4. \A i \in 1..Len(f) : ~Latest(g[i], v)
  BY <1>1, <1>2 DEF Orderly, Latest
<1>5. ~IsAnalysis(g[Len(f) + 1]) /\ g[Len(f) + 1].kind \notin {"analysis", "result"}
  BY DEF IsAnalysis
<1>6. \A i \in 1..Len(g) : IsLoad(g[i]) => g[i].revision \in 0..v.loadRevision
  BY <1>1, <1>2, <1>3 DEF Orderly
<1>7. \A i, j \in 1..Len(g) :
        i < j /\ Latest(g[i], v) => ~IsAnalysis(g[j]) /\ ~Latest(g[j], v)
  BY <1>3, <1>4
<1>8. \A i, j \in 1..Len(g) : IsAnalysis(g[i]) /\ IsAnalysis(g[j]) => i = j
  BY <1>3, <1>5 DEF Orderly
<1>9. v.loadRevision <= e.revision /\ v.running <= e.revision /\ v.running # e.revision
  BY <1>1, <1>2
<1> QED
  BY <1>6, <1>7, <1>8, <1>9 DEF Orderly

\* analyzeConfig: idle, so neither an analysis nor the latest load is under way.
LEMMA OrderlyAnalysisStarts ==
    ASSUME NEW f, NEW g, Len(f) \in Nat, Len(g) = Len(f) + 1,
           \A i \in 1..Len(f) : g[i] = f[i],
           NEW w \in Workers, NEW v, NEW d \in Document, NEW e, Orderly(f, w, d),
           g[Len(f) + 1].kind = "analysis", g[Len(f) + 1].entry = Input(d),
           e.revision = d.revision, Input(e) = Input(d), ~w.busy, ~w.loading,
           v.busy, v.loadRevision = w.loadRevision, v.running = d.revision
    PROVE  Orderly(g, v, e)
<1>1. d.revision \in Nat /\ w.loadRevision \in Int
  BY DEF Document, Workers
<1>2. \A i \in 1..Len(g) : i \in 1..Len(f) \/ i = Len(f) + 1
  OBVIOUS
<1>3. \A i \in 1..Len(f) : ~IsAnalysis(g[i]) /\ ~Latest(g[i], v)
  BY DEF Orderly, Latest
<1>4. ~IsLoad(g[Len(f) + 1]) /\ ~Latest(g[Len(f) + 1], v)
  BY DEF IsLoad, Latest
<1>5. \A i \in 1..Len(g) : ~Latest(g[i], v)
  BY <1>2, <1>3, <1>4
<1>6. \A i, j \in 1..Len(g) : IsAnalysis(g[i]) /\ IsAnalysis(g[j]) => i = j
  BY <1>2, <1>3
<1>7. \A i \in 1..Len(g) : IsLoad(g[i]) => g[i].revision \in 0..v.loadRevision
  BY <1>2, <1>4 DEF Orderly
<1>8. \A i \in 1..Len(g) : g[i].kind \in {"analysis", "result"} => i = Len(f) + 1
  BY <1>2, <1>3 DEF IsAnalysis
<1>9. v.loadRevision <= e.revision /\ v.running <= e.revision
  BY <1>1 DEF Orderly
<1> QED
  BY <1>5, <1>6, <1>7, <1>8, <1>9 DEF Orderly

-----------------------------------------------------------------------------
(* What finishing an action and saving a file come to *)

\* The file that a document, or a snapshot of one, was taken from.
SameFile(a, b) == a.path = b.path /\ a.identity = b.identity /\ a.saved = b.saved

\* The file of the document is forgotten, kept or the snapshot's.
FileFrom(d) == KeepsFile(d, doc') \/ \E old \in snapshot : SameFile(doc', old)

\* Finish on document d replaces it, or starts the load that will.
Moved(d) == tasks' = tasks /\ worker' = worker /\ Evolves(d, doc')

Started(d) == \E path \in Paths : StartLoad(d, path)

Settled(d) ==
    \/ Finish(d, pending)
    \/ /\ doc' = d
       /\ scopes' \subseteq scopes \ {"configuration"}
       /\ UNCHANGED <<pending, worker, tasks, snapshot, window>>
       /\ scopes' # {} => scopes # {}

Names(request) == request.action = "load" => request.path \in Paths

LEMMA FinishEffect ==
    ASSUME TypeOK, NEW d \in Document, NEW request \in Requests, Names(request),
           Finish(d, request)
    PROVE  /\ pending' = NoRequest /\ scopes' = {}
           /\ Moved(d) \/ Started(d)
           /\ FileFrom(d)
           /\ snapshot' \in SUBSET Replaced
           /\ \A old \in snapshot' : old \in snapshot \/ SameFile(old, d)
           /\ window' \in {window, "closed"}
           /\ request.action \in {"none", "close"} => doc' = d /\ worker' = worker
<1>0. draft.text \in Texts /\ snapshot \in SUBSET Replaced /\ history \in SUBSET Entries
  BY DEF TypeOK
<1>1. pending' = NoRequest /\ scopes' = {}
  BY DEF Finish
<1>2. window' \in {window, "closed"}
  BY DEF Finish
<1>3. /\ snapshot' \in SUBSET Replaced
      /\ \A old \in snapshot' : old \in snapshot \/ SameFile(old, d)
  <2>1. CASE request.action = "example"
    <3> DEFINE old == [text |-> d.text, options |-> d.options, saved |-> d.saved,
                       path |-> d.path, identity |-> d.identity]
    <3>1. old \in Replaced /\ SameFile(old, d)
      BY DEF Document, Replaced, SameFile
    <3>2. snapshot' = {old}
      BY <2>1 DEF Finish
    <3> QED
      BY <3>1, <3>2
  <2>2. CASE request.action # "example"
    <3>1. snapshot' = {} \/ snapshot' = snapshot
      BY <2>2 DEF Finish
    <3> QED
      BY <1>0, <3>1
  <2> QED
    BY <2>1, <2>2
<1>4. Evolves(d, d) /\ KeepsFile(d, d)
  BY DEF Evolves, KeepsFile
<1>5. CASE request.action = "load"
  <2>1. StartLoad(d, request.path) /\ request.path \in Paths
    BY <1>5 DEF Finish, Names
  <2>2. doc' = [d EXCEPT !.revision = d.revision + 1]
    BY <2>1 DEF StartLoad
  <2>3. KeepsFile(d, doc')
    BY <2>2 DEF KeepsFile, Document
  <2> QED
    BY <1>1, <1>2, <1>3, <1>5, <2>1, <2>3 DEF Started, FileFrom
<1>6. CASE request.action # "load"
  <2> DEFINE e == CHOOSE x \in request.entry : TRUE
             o == CHOOSE x \in snapshot : TRUE
  <2>1. /\ worker' = worker /\ tasks' = tasks
        /\ doc' = CASE request.action = "history" -> Opened(d, e)
                    [] request.action = "clear" -> Cleared(d)
                    [] request.action = "example" -> Sample(d)
                    [] request.action = "scratch" -> Scratch(d)
                    [] request.action = "undo_example" /\ snapshot # {} -> Undone(d, o)
                    [] OTHER -> d
    BY <1>6 DEF Finish
  <2>2. snapshot # {} => o \in snapshot
    OBVIOUS
  <2> HIDE DEF e, o
  <2>3. \/ doc' = Opened(d, e) \/ doc' = Cleared(d) \/ doc' = Sample(d) \/ doc' = Scratch(d)
        \/ doc' = d \/ (snapshot # {} /\ doc' = Undone(d, o))
    BY <2>1
  <2>4. request.action \in {"none", "close"} => doc' = d
    BY <2>1
  <2>5. ASSUME snapshot # {}, doc' = Undone(d, o)
        PROVE  Evolves(d, doc') /\ FileFrom(d)
    <3>1. o \in Replaced
      BY <1>0, <2>2, <2>5
    <3> QED
      BY <2>2, <2>5, <3>1, UndoneEvolves DEF FileFrom, SameFile
  <2>6. Evolves(d, doc') /\ FileFrom(d)
    BY <1>0, <1>4, <2>3, <2>5, OpenedEvolves, ClearedEvolves, SampleEvolves, ScratchEvolves DEF FileFrom
  <2> QED
    BY <1>1, <1>2, <1>3, <2>1, <2>4, <2>6 DEF Moved
<1> QED
  BY <1>5, <1>6

\* What is on disk changes by new versions, and by files that are lost.
OnlyNewer ==
    /\ disk' \in [Paths -> Files] /\ made' \in Nat /\ made' >= made
    /\ mistaken' \in SUBSET Files /\ mistaken \subseteq mistaken'
    /\ \A path \in Paths :
          \/ disk'[path] = disk[path]
          \/ disk'[path].version = 0
          \/ disk'[path].version \in (made + 1)..made'

LEMMA WritesEffect ==
    ASSUME TypeOK, NEW path \in Paths, NEW text \in Texts, Writes(path, text),
           mistaken' = mistaken
    PROVE  /\ OnlyNewer /\ made' = made + 1
           /\ disk'[path] = [version |-> made + 1, text |-> text]
<1> DEFINE file == [version |-> made + 1, text |-> text]
<1>1. disk \in [Paths -> Files] /\ made \in Nat /\ mistaken \in SUBSET Files
  BY DEF TypeOK
<1>2. file \in Files /\ file.version = made + 1
  BY <1>1 DEF Files
<1>3. disk' = [disk EXCEPT ![path] = file] /\ made' = made + 1
  BY DEF Writes
<1> HIDE DEF file
<1> QED
  BY <1>1, <1>2, <1>3 DEF OnlyNewer, file

LEMMA LostEffect ==
    ASSUME TypeOK, NEW path \in Paths, disk' = [disk EXCEPT ![path] = NoFile], made' = made,
           mistaken' = mistaken
    PROVE  OnlyNewer
<1>1. disk \in [Paths -> Files] /\ made \in Nat /\ mistaken \in SUBSET Files
  BY DEF TypeOK
<1>2. NoFile \in Files /\ NoFile.version = 0
  BY Documents DEF Files, NoFile
<1> QED
  BY <1>1, <1>2 DEF OnlyNewer

\* The file at path is version, made by this step, and either still holds the
\* text that the save wrote or was taken for it.
TakenFor(path, text) ==
    /\ made' > made
    /\ disk'[path].version = made'
    /\ disk'[path].text = text \/ [version |-> made', text |-> text] \in mistaken'

LEMMA WritesUntilReadEffect ==
    ASSUME TypeOK, NEW path \in Paths, WritesUntilRead(path)
    PROVE  OnlyNewer /\ TakenFor(path, doc.text) /\ others' \in Nat
<1>0. /\ disk \in [Paths -> Files] /\ made \in Nat /\ others \in Nat /\ doc.text \in Texts
      /\ mistaken \in SUBSET Files
  BY DEF TypeOK, Document
<1>1. CASE Writes(path, doc.text) /\ UNCHANGED <<mistaken, others>>
  <2>1. OnlyNewer /\ made' = made + 1
        /\ disk'[path] = [version |-> made + 1, text |-> doc.text]
    BY <1>0, <1>1, WritesEffect
  <2> QED
    BY <1>0, <1>1, <2>1 DEF TakenFor
<1>2. ASSUME NEW text \in Texts, disk' = [disk EXCEPT ![path] = [version |-> made + 2, text |-> text]],
             made' = made + 2, others > 0, others' = others - 1,
             mistaken' = mistaken \cup {[version |-> made + 2, text |-> doc.text]}
      PROVE  OnlyNewer /\ TakenFor(path, doc.text) /\ others' \in Nat
  <2> DEFINE file == [version |-> made + 2, text |-> text]
             mine == [version |-> made + 2, text |-> doc.text]
  <2>1. file \in Files /\ file.version = made + 2 /\ mine \in Files
    BY <1>0 DEF Files
  <2>2. disk' = [disk EXCEPT ![path] = file] /\ mistaken' = mistaken \cup {mine}
    BY <1>2
  <2>3. TakenFor(path, doc.text)
    BY <1>0, <1>2 DEF TakenFor
  <2> HIDE DEF file, mine
  <2>4. OnlyNewer
    BY <1>0, <1>2, <2>1, <2>2 DEF OnlyNewer
  <2> QED
    BY <1>0, <1>2, <2>3, <2>4
<1> QED
  BY <1>1, <1>2 DEF WritesUntilRead

\* A save shows what the dialogs over it allow, and keeps the document or
\* makes it the file's.
SaveEffects(open) ==
    /\ OnlyNewer
    /\ dialogs' \in {open, open \cup {"conflict"}, open \cup {"saveas"}}
    /\ conflict' \in Conflicts
    /\ "conflict" \in dialogs' => conflict'.path # NoPath
    /\ draft' \in [text: Texts, saved: Texts]
    /\ faults' \in Nat /\ others' \in Nat
    /\ \/ UNCHANGED held
       \/ \E path \in Paths : TakenFor(path, doc.text) /\ Settled(SavedAs(doc, path, made'))

LEMMA NextEffect ==
    ASSUME TypeOK, NEW d, NEW rest, rest \subseteq scopes \ {"configuration"}, SaveNext(d, rest)
    PROVE  Settled(d) /\ draft' \in [text: Texts, saved: Texts] /\ faults' \in Nat
<1>1. draft \in [text: Texts, saved: Texts] /\ faults \in Nat
  BY DEF TypeOK
<1>2. CASE rest = {} /\ Finish(d, pending) /\ UNCHANGED <<draft, faults>>
  BY <1>1, <1>2 DEF Settled
<1>3. CASE /\ draft' = [draft EXCEPT !.saved = draft.text]
           /\ Finish(d, pending) /\ UNCHANGED faults
  BY <1>1, <1>3 DEF Settled
<1>4. CASE /\ MayFail /\ doc' = d /\ scopes' = rest
           /\ UNCHANGED <<draft, pending, worker, tasks, snapshot, window>>
  BY <1>1, <1>4 DEF Settled, MayFail
<1> QED
  BY <1>2, <1>3, <1>4 DEF SaveNext

LEMMA ConflictShown ==
    ASSUME TypeOK, NEW path \in Paths, NEW version \in Nat, NEW overwrite \in BOOLEAN,
           NEW reload \in BOOLEAN, NEW open, ShowConflict(path, version, overwrite, reload, open)
    PROVE  /\ conflict' \in Conflicts /\ conflict'.path # NoPath
           /\ dialogs' = open \cup {"conflict"}
BY Documents DEF ShowConflict, Conflicts

LEMMA ConflictKept ==
    ASSUME TypeOK, NEW open \in SUBSET dialogs, KeepsConflict(open)
    PROVE  conflict' \in Conflicts /\ ("conflict" \in open => conflict'.path # NoPath)
BY DEF TypeOK, KeepsConflict, Conflicts, NoConflict

LEMMA SaveSourceEffect ==
    ASSUME TypeOK, NEW path \in Paths, NEW open \in SUBSET dialogs, SaveSource(path, open)
    PROVE  SaveEffects(open)
<1>0. /\ disk \in [Paths -> Files] /\ made \in Nat /\ faults \in Nat /\ doc.text \in Texts
      /\ draft \in [text: Texts, saved: Texts] /\ others \in Nat /\ mistaken \in SUBSET Files
  BY DEF TypeOK, Document
<1>1. UNCHANGED <<disk, made, mistaken>> => OnlyNewer
  BY <1>0 DEF OnlyNewer
<1>2. Writes(path, doc.text) /\ mistaken' = mistaken => OnlyNewer
  BY <1>0, WritesEffect
<1>3. dialogs' = open /\ KeepsConflict(open) =>
        /\ dialogs' \in {open, open \cup {"conflict"}, open \cup {"saveas"}}
        /\ conflict' \in Conflicts /\ ("conflict" \in dialogs' => conflict'.path # NoPath)
  BY ConflictKept
<1>4. MayFail => faults' \in Nat
  BY <1>0 DEF MayFail
<1>5. UNCHANGED held => draft' \in [text: Texts, saved: Texts]
  BY <1>0 DEF held
<1>6. CASE /\ WritesUntilRead(path)
           /\ LET d == SavedAs(doc, path, made') IN
              IF "configuration" \in scopes
              THEN SaveNext(d, scopes \ {"configuration"})
              ELSE doc' = d /\ UNCHANGED <<draft, pending, scopes, worker, tasks, snapshot, window,
                                           faults>>
           /\ dialogs' = open
           /\ KeepsConflict(open)
  <2> DEFINE d == SavedAs(doc, path, made')
  <2>1. /\ Settled(d) /\ draft' \in [text: Texts, saved: Texts] /\ faults' \in Nat
    <3>1. CASE "configuration" \in scopes
      BY <1>6, <3>1, NextEffect
    <3>2. CASE "configuration" \notin scopes
      BY <1>0, <1>6, <3>2 DEF Settled
    <3> QED
      BY <3>1, <3>2
  <2>2. OnlyNewer /\ TakenFor(path, doc.text) /\ others' \in Nat
    BY <1>6, WritesUntilReadEffect
  <2> HIDE DEF d
  <2> QED
    BY <1>3, <1>6, <2>1, <2>2 DEF SaveEffects, d
<1>7. CASE /\ MayFail
           /\ Writes(path, doc.text) \/ UNCHANGED <<disk, made>>
           /\ dialogs' = open
           /\ KeepsConflict(open)
           /\ UNCHANGED <<held, mistaken, others>>
  BY <1>0, <1>1, <1>2, <1>3, <1>4, <1>5, <1>7 DEF SaveEffects
<1>8. CASE /\ MayFail
           /\ \/ Writes(path, doc.text)
              \/ disk' = [disk EXCEPT ![path] = NoFile] /\ UNCHANGED made
              \/ UNCHANGED <<disk, made>>
           /\ ShowConflict(path, disk[path].version, FALSE, disk'[path].version # 0, open)
           /\ UNCHANGED <<held, mistaken, others>>
  <2>1. OnlyNewer
    BY <1>1, <1>2, <1>8, LostEffect
  <2>2. disk[path].version \in Nat
    BY <1>0 DEF Files
  <2>3. /\ conflict' \in Conflicts /\ conflict'.path # NoPath
        /\ dialogs' = open \cup {"conflict"}
    BY <1>8, <2>2, ConflictShown
  <2> QED
    BY <1>0, <1>4, <1>5, <1>8, <2>1, <2>3 DEF SaveEffects
<1> QED
  BY <1>6, <1>7, <1>8 DEF SaveSource

LEMMA ConflictEffect ==
    ASSUME TypeOK, NEW path \in Paths, NEW overwrite \in BOOLEAN, NEW reload \in BOOLEAN,
           NEW open, ShowConflict(path, disk[path].version, overwrite, reload, open),
           UNCHANGED <<held, disk, mistaken, made, others>>, faults' \in Nat
    PROVE  SaveEffects(open)
<1>0. /\ disk \in [Paths -> Files] /\ made \in Nat /\ draft \in [text: Texts, saved: Texts]
      /\ mistaken \in SUBSET Files /\ others \in Nat
  BY DEF TypeOK
<1>1. disk[path].version \in Nat
  BY <1>0 DEF Files
<1>2. /\ conflict' \in Conflicts /\ conflict'.path # NoPath
      /\ dialogs' = open \cup {"conflict"}
  BY <1>1, ConflictShown
<1>3. OnlyNewer
  BY <1>0 DEF OnlyNewer
<1>4. draft' = draft
  BY DEF held
<1> QED
  BY <1>0, <1>2, <1>3, <1>4 DEF SaveEffects

LEMMA AskPathEffect ==
    ASSUME TypeOK, NEW open \in SUBSET dialogs, AskPath(open)
    PROVE  SaveEffects(open)
<1>0. /\ disk \in [Paths -> Files] /\ made \in Nat /\ draft \in [text: Texts, saved: Texts]
      /\ faults \in Nat /\ mistaken \in SUBSET Files /\ others \in Nat
  BY DEF TypeOK
<1>1. OnlyNewer
  BY <1>0 DEF OnlyNewer, AskPath
<1>2. /\ conflict' \in Conflicts /\ ("conflict" \in open => conflict'.path # NoPath)
      /\ dialogs' = open \cup {"saveas"}
  BY ConflictKept DEF AskPath
<1>3. draft' = draft /\ faults' = faults /\ others' = others /\ UNCHANGED held
  BY DEF held, AskPath
<1> QED
  BY <1>0, <1>1, <1>2, <1>3 DEF SaveEffects

LEMMA SaveSourceFileEffect ==
    ASSUME TypeOK, NEW path \in Paths, NEW open \in SUBSET dialogs, SaveSourceFile(path, open)
    PROVE  SaveEffects(open)
<1> DEFINE now == disk[path].version
           asks == IF path = doc.path THEN now # doc.identity ELSE now # 0
<1>1. faults \in Nat
  BY DEF TypeOK
<1>2. CASE ShowConflict(path, now, TRUE, now # 0, open) /\ UNCHANGED <<held, disk, mistaken, made, others, faults>>
  BY <1>1, <1>2, ConflictEffect
<1>3. CASE MayFail /\ ShowConflict(path, now, FALSE, TRUE, open) /\ UNCHANGED <<held, disk, mistaken, made, others>>
  <2>1. faults' \in Nat
    BY <1>1, <1>3 DEF MayFail
  <2> QED
    BY <1>3, <2>1, ConflictEffect
<1>4. CASE SaveSource(path, open)
  BY <1>4, SaveSourceEffect
<1> QED
  BY <1>2, <1>3, <1>4 DEF SaveSourceFile

LEMMA SaveConfigurationEffect ==
    ASSUME TypeOK, NEW open \in SUBSET dialogs, SaveConfiguration(open)
    PROVE  SaveEffects(open)
<1>1. doc.path \in Paths \cup {NoPath}
  BY DEF TypeOK, Document
<1> QED
  BY <1>1, AskPathEffect, SaveSourceFileEffect DEF SaveConfiguration

\* The actions that save: the document, or nothing, over the dialogs that stay.
SaveStep ==
    /\ SaveEffects({}) \/ ("unsaved" \in dialogs /\ SaveEffects(dialogs \ {"unsaved"}))
                       \/ ("saveas" \in dialogs /\ SaveEffects(dialogs \ {"saveas"}))
    /\ inputs' \in Nat /\ window = "open"
    /\ UNCHANGED <<signals, history, agreed>>

LEMMA ActsTypes ==
    ASSUME TypeOK, NEW dialog, UserActs(dialog)
    PROVE  inputs' \in Nat /\ window = "open" /\ inputs' # inputs
BY DEF TypeOK, UserActs

LEMMA SavesEffect ==
    ASSUME TypeOK
    PROVE  /\ Save => SaveStep
           /\ \A path \in Paths : SaveAs(path) => SaveStep
           /\ AnswerSaveAs => SaveStep
           /\ Overwrite => SaveStep
           /\ SaveFirst /\ "configuration" \in scopes => SaveStep
<1>0. {} \in SUBSET dialogs /\ \A x : dialogs \ {x} \in SUBSET dialogs
  OBVIOUS
<1>1. Save => SaveStep
  BY <1>0, ActsTypes, SaveConfigurationEffect, AskPathEffect DEF Save, SaveStep
<1>2. ASSUME NEW path \in Paths, SaveAs(path)
      PROVE  SaveStep
  <2>1. "saveas" \in dialogs
    BY <1>2 DEF SaveAs, UserActs
  <2> QED
    BY <1>0, <1>2, <2>1, ActsTypes, SaveSourceFileEffect DEF SaveAs, SaveStep
<1>3. AnswerSaveAs => SaveStep
  BY <1>0, ActsTypes, AskPathEffect DEF AnswerSaveAs, Answers, SaveStep
<1>4. ASSUME Overwrite
      PROVE  SaveStep
  <2>1. conflict.path \in Paths /\ faults \in Nat
    BY <1>4 DEF Overwrite, Answers, TypeOK, Conflicts
  <2>2. SaveEffects({})
    BY <1>0, <1>4, <2>1, ConflictEffect, SaveSourceEffect DEF Overwrite
  <2> QED
    BY <1>4, <2>2, ActsTypes DEF Overwrite, Answers, SaveStep
<1>5. ASSUME SaveFirst, "configuration" \in scopes
      PROVE  SaveStep
  <2>1. "unsaved" \in dialogs
    BY <1>5 DEF SaveFirst, UserActs
  <2> QED
    BY <1>0, <1>5, <2>1, ActsTypes, SaveConfigurationEffect DEF SaveFirst, SaveStep
<1> QED
  BY <1>1, <1>2, <1>3, <1>4, <1>5

-----------------------------------------------------------------------------
(* The other actions that replace the document *)

\* Actions that ask about unsaved changes; only closing interrupts a task.
AskStep ==
    \E request \in Requests :
        /\ Names(request) /\ request.action # "none"
        /\ RequestAction(request)
        /\ inputs' \in Nat /\ window = "open"
        /\ \/ ~worker.busy /\ dialogs = {}
           \/ request.action = "close" /\ ToSave(request) # {} /\ "saveas" \notin dialogs

\* A clean window starts to fade out.
ClosesClean ==
    /\ inputs' \in Nat /\ window' = "closing"
    /\ ~Dirty(doc)
    /\ UNCHANGED <<doc, draft, disk, pending, scopes, dialogs, conflict, snapshot, worker,
                   tasks, signals, history, agreed, mistaken, made, others, faults>>

LEMMA AskFields ==
    \A action \in {"clear", "example", "close", "scratch", "undo_example"} :
        Ask(action) \in Requests /\ Names(Ask(action)) /\ Ask(action).action = action
BY DEF Ask, Requests, Names

LEMMA AsksEffect ==
    ASSUME TypeOK
    PROVE  /\ \A path \in Paths : Load(path) => AskStep
           /\ \A e \in history : OpenHistory(e) => AskStep
           /\ New \/ OpenExample \/ UndoExample \/ CopyDraft => AskStep
           /\ CloseWindow => AskStep \/ ClosesClean
<1>0. UserActs("none") => dialogs = {} /\ inputs' \in Nat /\ window = "open"
  BY ActsTypes DEF UserActs
<1>1. ASSUME NEW path \in Paths, Load(path)
      PROVE  AskStep
  <2> DEFINE request == [Ask("load") EXCEPT !.path = path]
  <2>1. request \in Requests /\ Names(request) /\ request.action # "none"
    BY DEF Ask, Requests, Names
  <2>2. RequestAction(request) /\ ~worker.busy /\ UserActs("none")
    BY <1>1 DEF Load
  <2> HIDE DEF request
  <2> QED
    BY <1>0, <2>1, <2>2 DEF AskStep
<1>2. ASSUME NEW e \in history, OpenHistory(e)
      PROVE  AskStep
  <2> DEFINE request == [Ask("history") EXCEPT !.entry = {e}]
  <2>1. {e} \in SUBSET Entries
    BY DEF TypeOK
  <2>2. request \in Requests /\ Names(request) /\ request.action # "none"
    BY <2>1 DEF Ask, Requests, Names
  <2>3. RequestAction(request) /\ ~worker.busy /\ UserActs("none")
    BY <1>2 DEF OpenHistory
  <2> HIDE DEF request
  <2> QED
    BY <1>0, <2>2, <2>3 DEF AskStep
<1>3. New => AskStep
  BY <1>0, AskFields DEF New, AskStep
<1>4. OpenExample => AskStep
  BY <1>0, AskFields DEF OpenExample, AskStep
<1>5. UndoExample => AskStep
  BY <1>0, AskFields DEF UndoExample, AskStep
<1>6. CopyDraft => AskStep
  BY <1>0, AskFields DEF CopyDraft, AskStep
<1>7. ASSUME CloseWindow
      PROVE  AskStep \/ ClosesClean
  <2>1. inputs' \in Nat /\ window = "open" /\ "saveas" \notin dialogs
    BY <1>7 DEF CloseWindow, TypeOK
  <2>2. CASE ToSave(Ask("close")) # {}
    BY <1>7, <2>1, <2>2, AskFields DEF CloseWindow, AskStep
  <2>3. CASE ToSave(Ask("close")) = {}
    <3>1. ~Dirty(doc)
      BY <2>3 DEF ToSave
    <3> QED
      BY <1>7, <2>1, <2>3, <3>1 DEF CloseWindow, ClosesClean
  <2> QED
    BY <2>2, <2>3
<1> QED
  BY <1>1, <1>2, <1>3, <1>4, <1>5, <1>6, <1>7

LEMMA RequestEffect ==
    ASSUME TypeOK, NEW request \in Requests, Names(request), RequestAction(request)
    PROVE  /\ agreed' = IF worker.loading THEN agreed ELSE {}
           /\ UNCHANGED <<draft, disk, conflict, signals, history, mistaken, made, others, faults>>
           /\ \/ /\ ToSave(request) # {}
                 /\ pending' = request /\ scopes' = ToSave(request)
                 /\ dialogs' = dialogs \cup {"unsaved"}
                 /\ UNCHANGED <<doc, worker, tasks, snapshot, window>>
              \/ /\ ToSave(request) = {}
                 /\ Finish(doc, request)
                 /\ dialogs' = dialogs
BY DEF RequestAction

\* What a document that evolves, or is about to be replaced by a load, leaves.
LEMMA MoveTypes ==
    ASSUME TypeOK, NEW d \in Document, Moved(d) \/ Started(d)
    PROVE  /\ tasks' \in Seq(Tasks) /\ worker' \in Workers
           /\ worker'.loading => worker'.busy
           /\ Evolves(d, doc')
<1>0. tasks \in Seq(Tasks) /\ worker \in Workers /\ (worker.loading => worker.busy)
  BY DEF TypeOK, Workers
<1>1. CASE Moved(d)
  BY <1>0, <1>1 DEF Moved
<1>2. ASSUME NEW path \in Paths, StartLoad(d, path)
      PROVE  /\ tasks' \in Seq(Tasks) /\ worker' \in Workers
             /\ worker'.loading => worker'.busy
             /\ Evolves(d, doc')
  <2> DEFINE task == [kind |-> "load", path |-> path, revision |-> d.revision + 1]
  <2>1. d.revision \in Nat /\ d.revision + 1 \in Nat
    BY DEF Document
  <2>2. task \in Tasks
    BY <2>1 DEF Tasks
  <2>3. tasks' = Append(tasks, task)
    BY <1>2 DEF StartLoad
  <2> HIDE DEF task
  <2>4. tasks' \in Seq(Tasks)
    BY <1>0, <2>2, <2>3, AppendProperties
  <2>5. worker' = [worker EXCEPT !.busy = TRUE, !.loading = TRUE, !.loadRevision = d.revision + 1]
    BY <1>2 DEF StartLoad
  <2>6. worker' \in Workers /\ worker'.busy
    <3>1. d.revision + 1 \in Int /\ TRUE \in BOOLEAN
      BY <2>1
    <3> QED
      BY <1>0, <2>5, <3>1, Zenon DEF Workers
  <2>7. doc' = [d EXCEPT !.revision = d.revision + 1]
    BY <1>2 DEF StartLoad
  <2>8. /\ doc' \in Document /\ doc'.revision = d.revision + 1
        /\ doc'.result = d.result /\ doc'.active = d.active /\ Input(doc') = Input(d)
    BY <2>1, <2>7 DEF Document, Input
  <2> QED
    BY <2>1, <2>4, <2>6, <2>8 DEF Evolves, Belongs
<1> QED
  BY <1>1, <1>2 DEF Started

LEMMA SettledEffect ==
    ASSUME TypeOK, Names(pending), NEW d \in Document, Settled(d)
    PROVE  /\ pending' \in Requests /\ Names(pending')
           /\ pending' = NoRequest \/ (pending' = pending /\ worker' = worker)
           /\ scopes' \in SUBSET Scopes /\ scopes' \subseteq scopes \ {"configuration"}
           /\ scopes' # {} => pending'.action # "none"
           /\ Moved(d) \/ Started(d)
           /\ FileFrom(d)
           /\ snapshot' \in SUBSET Replaced
           /\ \A old \in snapshot' : old \in snapshot \/ SameFile(old, d)
           /\ window' \in {window, "closed"}
           /\ pending.action \in {"none", "close"} => doc' = d /\ worker' = worker
<1>0. /\ pending \in Requests /\ scopes \in SUBSET Scopes /\ snapshot \in SUBSET Replaced
      /\ scopes # {} => pending.action # "none"
  BY DEF TypeOK
<1>1. CASE Finish(d, pending)
  <2>1. NoRequest \in Requests /\ Names(NoRequest)
    BY DEF NoRequest, Ask, Requests, Names
  <2> QED
    BY <1>0, <1>1, <2>1, FinishEffect
<1>2. CASE /\ doc' = d
           /\ scopes' \subseteq scopes \ {"configuration"}
           /\ UNCHANGED <<pending, worker, tasks, snapshot, window>>
           /\ scopes' # {} => scopes # {}
  <2>1. Moved(d) /\ FileFrom(d)
    BY <1>2 DEF Moved, FileFrom, Evolves, KeepsFile
  <2> QED
    BY <1>0, <1>2, <2>1
<1> QED
  BY <1>1, <1>2 DEF Settled

-----------------------------------------------------------------------------
(* Types *)

Typed == TypeOK /\ Names(pending)

LEMMA InitTyped == Init => Typed
<1> SUFFICES ASSUME Init PROVE Typed
  OBVIOUS
<1>1. doc \in Document
  <2>1. "none" \in Statuses
    BY DEF Statuses
  <2> QED
    BY <2>1, Documents DEF Init, Document
<1>2. disk \in [Paths -> Files]
  <2>1. {NoFile} \cup [version: {1}, text: Texts] \subseteq Files
    BY Documents DEF NoFile, Files
  <2> QED
    BY <2>1 DEF Init
<1>3. pending \in Requests /\ Names(pending) /\ conflict \in Conflicts
  BY DEF Init, NoRequest, Ask, Requests, Names, NoConflict, Conflicts
<1>4. inputs \in Nat /\ others \in Nat /\ faults \in Nat
  BY Documents DEF Init
<1>5. worker \in [busy: BOOLEAN, loading: BOOLEAN, loadRevision: Int, running: Int, epoch: Nat]
      /\ (worker.loading => worker.busy)
  <2>1. -1 \in Int /\ FALSE \in BOOLEAN /\ 0 \in Nat
    OBVIOUS
  <2>2. worker = [busy |-> FALSE, loading |-> FALSE, loadRevision |-> -1, running |-> -1,
                  epoch |-> 0]
    BY DEF Init
  <2> QED
    BY <2>1, <2>2
<1>6. draft \in [text: Texts, saved: Texts] /\ tasks \in Seq(Tasks) /\ signals \in Seq(Signals)
  BY DEF Init
<1>7. /\ scopes = {} /\ dialogs = {} /\ snapshot = {} /\ history = {} /\ agreed = {}
      /\ window = "open" /\ made \in Nat /\ mistaken = {}
  BY DEF Init
<1> QED
  BY <1>1, <1>2, <1>3, <1>4, <1>5, <1>6, <1>7 DEF Typed, TypeOK

\* The document evolves under all that replaces or saves it.
LEMMA SaveStepTypes ==
    ASSUME Typed, SaveStep
    PROVE  Typed' /\ Evolves(doc, doc')
<1> USE DEF Typed
<1>0. doc \in Document /\ made \in Nat
  BY DEF TypeOK
<1>1. PICK open \in SUBSET dialogs : SaveEffects(open)
  BY DEF SaveStep
<1>2. /\ disk' \in [Paths -> Files] /\ made' \in Nat
      /\ dialogs' \in SUBSET {"unsaved", "conflict", "saveas"}
      /\ conflict' \in Conflicts /\ ("conflict" \in dialogs' => conflict'.path # NoPath)
      /\ draft' \in [text: Texts, saved: Texts] /\ faults' \in Nat
      /\ others' \in Nat /\ mistaken' \in SUBSET Files
  BY <1>1 DEF SaveEffects, OnlyNewer, TypeOK
<1>3. /\ inputs' \in Nat /\ signals' \in Seq(Signals)
      /\ history' \in SUBSET Entries /\ agreed' \in SUBSET Scopes
  BY DEF SaveStep, TypeOK
<1>4. CASE UNCHANGED held
  <2>1. Evolves(doc, doc')
    BY <1>0, <1>4 DEF held, Evolves
  <2> QED
    BY <1>2, <1>3, <1>4, <2>1 DEF TypeOK, held, Names
<1>5. ASSUME NEW path \in Paths, Settled(SavedAs(doc, path, made'))
      PROVE  Typed' /\ Evolves(doc, doc')
  <2> DEFINE d == SavedAs(doc, path, made')
  <2>1. Evolves(doc, d) /\ d \in Document
    BY <1>0, <1>2, SavedAsEvolves DEF Evolves
  <2> HIDE DEF d
  <2>2. Settled(d)
    BY <1>5 DEF d
  <2>3. /\ pending' \in Requests /\ Names(pending') /\ scopes' \in SUBSET Scopes
        /\ scopes' # {} => pending'.action # "none"
        /\ Moved(d) \/ Started(d)
        /\ snapshot' \in SUBSET Replaced /\ window' \in {window, "closed"}
    BY <2>1, <2>2, SettledEffect
  <2>4. /\ tasks' \in Seq(Tasks) /\ worker' \in Workers
        /\ worker'.loading => worker'.busy
        /\ Evolves(d, doc')
    BY <2>1, <2>3, MoveTypes
  <2>5. Evolves(doc, doc')
    BY <1>0, <2>1, <2>4, EvolvesTwice
  <2>6. doc' \in Document /\ window' \in {"open", "closing", "closed"}
    BY <2>3, <2>5 DEF Evolves, TypeOK
  <2>7. TypeOK'
    BY <1>2, <1>3, <2>3, <2>4, <2>6 DEF TypeOK, Workers
  <2> QED
    BY <2>3, <2>5, <2>7 DEF Names
<1> QED
  BY <1>1, <1>4, <1>5 DEF SaveEffects

LEMMA AskStepTypes ==
    ASSUME Typed, AskStep
    PROVE  Typed' /\ Evolves(doc, doc')
<1> USE DEF Typed
<1>0. doc \in Document
  BY DEF TypeOK
<1>1. PICK request \in Requests :
        Names(request) /\ request.action # "none" /\ RequestAction(request) /\ inputs' \in Nat
  BY DEF AskStep
<1>2. /\ agreed' \in SUBSET Scopes /\ draft' = draft /\ disk' = disk /\ conflict' = conflict
      /\ signals' = signals /\ history' = history /\ made' = made /\ others' = others
      /\ faults' = faults /\ mistaken' = mistaken
  BY <1>1, RequestEffect DEF TypeOK
<1>3. CASE /\ pending' = request /\ scopes' = ToSave(request)
           /\ dialogs' = dialogs \cup {"unsaved"}
           /\ UNCHANGED <<doc, worker, tasks, snapshot, window>>
  <2>1. ToSave(request) \in SUBSET Scopes
    BY DEF ToSave, Scopes
  <2>2. Evolves(doc, doc')
    BY <1>0, <1>3 DEF Evolves
  <2> QED
    BY <1>1, <1>2, <1>3, <2>1, <2>2 DEF TypeOK, Names
<1>4. CASE Finish(doc, request) /\ dialogs' = dialogs
  <2>1. /\ pending' = NoRequest /\ scopes' = {}
        /\ Moved(doc) \/ Started(doc)
        /\ snapshot' \in SUBSET Replaced /\ window' \in {window, "closed"}
    BY <1>0, <1>1, <1>4, FinishEffect
  <2>2. /\ tasks' \in Seq(Tasks) /\ worker' \in Workers
        /\ worker'.loading => worker'.busy
        /\ Evolves(doc, doc')
    BY <1>0, <2>1, MoveTypes
  <2>3. doc' \in Document /\ window' \in {"open", "closing", "closed"}
    BY <2>1, <2>2 DEF Evolves, TypeOK
  <2>4. pending' \in Requests /\ Names(pending')
    BY <2>1 DEF NoRequest, Ask, Requests, Names
  <2>5. TypeOK'
    BY <1>1, <1>2, <1>4, <2>1, <2>2, <2>3, <2>4 DEF TypeOK, Workers
  <2> QED
    BY <2>2, <2>4, <2>5 DEF Names
<1> QED
  BY <1>1, <1>3, <1>4, RequestEffect

LEMMA SaveDraftFirstTypes ==
    ASSUME Typed, SaveFirst, "configuration" \notin scopes
    PROVE  Typed' /\ Evolves(doc, doc')
<1> USE DEF Typed
<1>0. doc \in Document
  BY DEF TypeOK
<1>1. inputs' \in Nat
  BY ActsTypes DEF SaveFirst
<1>2. /\ SaveNext(doc, scopes) /\ dialogs' = dialogs \ {"unsaved"}
      /\ UNCHANGED <<disk, conflict, mistaken, made, signals, history, agreed, others>>
  BY DEF SaveFirst
<1>3. Settled(doc) /\ draft' \in [text: Texts, saved: Texts] /\ faults' \in Nat
  BY <1>2, NextEffect
<1>4. /\ pending' \in Requests /\ Names(pending') /\ scopes' \in SUBSET Scopes
      /\ scopes' # {} => pending'.action # "none"
      /\ Moved(doc) \/ Started(doc)
      /\ snapshot' \in SUBSET Replaced /\ window' \in {window, "closed"}
  BY <1>0, <1>3, SettledEffect
<1>5. /\ tasks' \in Seq(Tasks) /\ worker' \in Workers
      /\ worker'.loading => worker'.busy
      /\ Evolves(doc, doc')
  BY <1>0, <1>4, MoveTypes
<1>6. doc' \in Document /\ window' \in {"open", "closing", "closed"}
  BY <1>4, <1>5 DEF Evolves, TypeOK
<1>7. TypeOK'
  BY <1>1, <1>2, <1>3, <1>4, <1>5, <1>6 DEF TypeOK, Workers
<1> QED
  BY <1>4, <1>5, <1>7 DEF Names

LEMMA DiscardTypes ==
    ASSUME Typed, Discard
    PROVE  Typed' /\ Evolves(doc, doc')
<1> USE DEF Typed
<1>0. doc \in Document
  BY DEF TypeOK
<1>1. inputs' \in Nat
  BY ActsTypes DEF Discard
<1>2. /\ Finish(doc, pending) /\ agreed' = scopes /\ dialogs' = dialogs \ {"unsaved"}
      /\ UNCHANGED <<draft, disk, conflict, signals, history, mistaken, made, others, faults>>
  BY DEF Discard
<1>3. /\ pending' \in Requests /\ Names(pending') /\ scopes' \in SUBSET Scopes
      /\ scopes' # {} => pending'.action # "none"
      /\ Moved(doc) \/ Started(doc)
      /\ snapshot' \in SUBSET Replaced /\ window' \in {window, "closed"}
  BY <1>0, <1>2, SettledEffect DEF Settled
<1>4. /\ tasks' \in Seq(Tasks) /\ worker' \in Workers
      /\ worker'.loading => worker'.busy
      /\ Evolves(doc, doc')
  BY <1>0, <1>3, MoveTypes
<1>5. doc' \in Document /\ window' \in {"open", "closing", "closed"}
  BY <1>3, <1>4 DEF Evolves, TypeOK
<1>6. TypeOK'
  BY <1>1, <1>2, <1>3, <1>4, <1>5 DEF TypeOK, Workers
<1> QED
  BY <1>3, <1>4, <1>6 DEF Names

LEMMA ReloadTypes ==
    ASSUME Typed, Reload
    PROVE  Typed' /\ Evolves(doc, doc') /\ Started(doc)
<1> USE DEF Typed
<1>0. doc \in Document
  BY DEF TypeOK
<1>1. inputs' \in Nat
  BY ActsTypes DEF Reload, Answers
<1>2. /\ pending' = NoRequest /\ scopes' = {} /\ StartLoad(doc, conflict.path)
      /\ agreed' = {"configuration"} /\ dialogs' = {} /\ conflict' = NoConflict
      /\ UNCHANGED <<draft, disk, snapshot, signals, history, window, mistaken, made, others, faults>>
  BY DEF Reload, Forget
<1>3. Started(doc)
  <2>1. conflict.path \in Paths
    BY DEF Reload, Answers, TypeOK, Conflicts
  <2> QED
    BY <1>2, <2>1 DEF Started
<1>4. /\ tasks' \in Seq(Tasks) /\ worker' \in Workers
      /\ worker'.loading => worker'.busy
      /\ Evolves(doc, doc') /\ doc' \in Document
  BY <1>0, <1>3, MoveTypes DEF Evolves
<1>5. /\ pending' \in Requests /\ Names(pending') /\ conflict' \in Conflicts
      /\ agreed' \in SUBSET Scopes
  BY <1>2 DEF NoRequest, Ask, Requests, Names, NoConflict, Conflicts, Scopes
<1>6. TypeOK'
  BY <1>1, <1>2, <1>4, <1>5 DEF TypeOK, Workers
<1> QED
  BY <1>3, <1>4, <1>5, <1>6 DEF Names

LEMMA ForgetTypes ==
    ASSUME Typed, CancelRequest \/ CancelSave
    PROVE  Typed'
<1> USE DEF Typed
<1>1. inputs' \in Nat
  BY ActsTypes DEF CancelRequest, CancelSave, Answers
<1>2. pending' = NoRequest /\ NoRequest \in Requests /\ Names(NoRequest) /\ scopes' = {}
  BY DEF CancelRequest, CancelSave, Forget, NoRequest, Ask, Requests, Names
<1>3. /\ dialogs' \in SUBSET dialogs
      /\ UNCHANGED <<doc, draft, disk, snapshot, worker, tasks, signals, history, window,
                     agreed, mistaken, made, others, faults>>
      /\ conflict' = conflict \/ (conflict' = NoConflict /\ dialogs' = {})
  BY DEF CancelRequest, CancelSave
<1>4. NoConflict \in Conflicts
  BY DEF NoConflict, Conflicts
<1> QED
  BY <1>1, <1>2, <1>3, <1>4 DEF TypeOK, Names

\* Editing, and an analysis that is cancelled or forgotten, only evolve the
\* document; everything but the worker's epoch and the budgets stays.
EditStep ==
    /\ Evolves(doc, doc')
    /\ draft' \in [text: Texts, saved: Texts]
    /\ doc'.saved = doc.saved /\ doc'.path = doc.path /\ doc'.identity = doc.identity
    /\ worker' = worker \/ worker' = [worker EXCEPT !.epoch = worker.epoch + 1]
    /\ history' \in SUBSET Entries /\ agreed' \in SUBSET Scopes
    /\ inputs' \in Nat /\ others' \in Nat /\ faults' \in Nat
    /\ dialogs = {}
    /\ doc'.text # doc.text => EditSource(doc'.text)
    /\ "configuration" \in agreed => "configuration" \in agreed' \/ doc'.revision > doc.revision
    /\ UNCHANGED <<disk, pending, scopes, dialogs, conflict, snapshot, tasks, signals, window,
                   mistaken, made>>

LEMMA EditsEffect ==
    ASSUME TypeOK
    PROVE  /\ \A text \in Texts : EditSource(text) \/ EditDraft(text) => EditStep
           /\ \A options \in Options : ChooseOptions(options) => EditStep
           /\ SaveDraft => EditStep
           /\ CancelAnalysis => EditStep
           /\ \A entries : ForgetHistory(entries) => EditStep
<1>0. /\ doc \in Document /\ draft \in [text: Texts, saved: Texts] /\ history \in SUBSET Entries
      /\ agreed \in SUBSET Scopes /\ inputs \in Nat /\ others \in Nat /\ faults \in Nat
  BY DEF TypeOK
<1>1. Evolves(doc, doc)
  BY <1>0 DEF Evolves
<1>2. UserActs("none") \/ Types => dialogs = {} /\ inputs' \in Nat
  BY <1>0 DEF UserActs, Types
<1>3. ASSUME NEW text \in Texts, EditSource(text)
      PROVE  EditStep
  <2>1. /\ Evolves(doc, doc') /\ doc'.text = text /\ doc'.saved = doc.saved
        /\ doc'.path = doc.path /\ doc'.identity = doc.identity
    BY <1>0, <1>3, SetTextEvolves DEF EditSource
  <2>2. doc'.revision > doc.revision
    BY <1>3, <2>1 DEF Evolves, Input, EditSource
  <2>3. EditSource(doc'.text)
    BY <1>3, <2>1
  <2>4. agreed' \in SUBSET Scopes
    BY <1>0, <1>3 DEF EditSource
  <2> QED
    BY <1>0, <1>2, <1>3, <2>1, <2>2, <2>3, <2>4 DEF EditSource, EditStep
<1>4. ASSUME NEW text \in Texts, EditDraft(text)
      PROVE  EditStep
  BY <1>0, <1>1, <1>2, <1>4 DEF EditDraft, EditStep
<1>5. ASSUME NEW options \in Options, ChooseOptions(options)
      PROVE  EditStep
  BY <1>0, <1>2, <1>5, SetOptionsEvolves DEF ChooseOptions, EditStep
<1>6. SaveDraft => EditStep
  BY <1>0, <1>1, <1>2 DEF SaveDraft, EditStep
<1>7. ASSUME CancelAnalysis
      PROVE  EditStep
  <2>1. doc' = [doc EXCEPT !.cancelled = TRUE]
    BY <1>7 DEF CancelAnalysis
  <2>2. /\ doc' \in Document /\ Input(doc') = Input(doc) /\ doc'.result = doc.result
        /\ doc'.active = doc.active /\ doc'.revision = doc.revision
        /\ doc'.saved = doc.saved /\ doc'.path = doc.path /\ doc'.identity = doc.identity
    BY <1>0, <2>1 DEF Document, Input
  <2>3. Evolves(doc, doc')
    BY <2>2 DEF Evolves, Belongs
  <2> QED
    BY <1>0, <1>2, <1>7, <2>2, <2>3 DEF CancelAnalysis, EditStep
<1>8. ASSUME NEW entries, ForgetHistory(entries)
      PROVE  EditStep
  <2>1. CASE doc' = [doc EXCEPT !.active = doc.active \ entries] /\ history' = history \ entries
             /\ UNCHANGED faults
    <3>1. doc.active \ entries \in SUBSET Entries
      BY <1>0 DEF Document
    <3>2. /\ doc' \in Document /\ Input(doc') = Input(doc) /\ doc'.result = doc.result
          /\ doc'.active \subseteq doc.active /\ doc'.revision = doc.revision
          /\ doc'.saved = doc.saved /\ doc'.path = doc.path /\ doc'.identity = doc.identity
      BY <1>0, <2>1, <3>1 DEF Document, Input
    <3>3. Evolves(doc, doc')
      BY <3>2 DEF Evolves, Belongs
    <3> QED
      BY <1>0, <1>2, <1>8, <2>1, <3>2, <3>3 DEF ForgetHistory, EditStep
  <2>2. CASE MayFail /\ UNCHANGED <<doc, history>>
    <3>1. faults' \in Nat
      BY <1>0, <2>2 DEF MayFail
    <3> QED
      BY <1>0, <1>1, <1>2, <1>8, <2>2, <3>1 DEF ForgetHistory, EditStep
  <2> QED
    BY <1>8, <2>1, <2>2 DEF ForgetHistory
<1> QED
  BY <1>3, <1>4, <1>5, <1>6, <1>7, <1>8

LEMMA EditStepTypes ==
    ASSUME Typed, EditStep
    PROVE  Typed' /\ SameRuns(worker, worker')
           /\ worker'.busy = worker.busy /\ worker'.loading = worker.loading
<1> USE DEF Typed
<1>1. worker \in Workers /\ (worker.loading => worker.busy)
  BY DEF TypeOK, Workers
<1>2. worker' \in Workers /\ SameRuns(worker, worker')
      /\ worker'.busy = worker.busy /\ worker'.loading = worker.loading
  <2>1. CASE worker' = worker
    BY <1>1, <2>1 DEF SameRuns
  <2>2. CASE worker' = [worker EXCEPT !.epoch = worker.epoch + 1]
    <3>1. worker.epoch + 1 \in Nat
      BY <1>1 DEF Workers
    <3> QED
      BY <1>1, <2>2, <3>1, Zenon DEF Workers, SameRuns
  <2> QED
    BY <2>1, <2>2 DEF EditStep
<1>3. doc' \in Document
  BY DEF EditStep, Evolves
<1>4. TypeOK'
  BY <1>1, <1>2, <1>3 DEF TypeOK, EditStep, Workers
<1> QED
  BY <1>2, <1>4 DEF EditStep, Names

LEMMA AnalyzeTypes ==
    ASSUME Typed, Analyze
    PROVE  /\ Typed' /\ Evolves(doc, doc')
           /\ doc'.revision = doc.revision /\ Input(doc') = Input(doc)
           /\ doc'.saved = doc.saved /\ doc'.path = doc.path /\ doc'.identity = doc.identity
           /\ worker'.busy /\ worker'.loading = worker.loading
           /\ worker'.loadRevision = worker.loadRevision /\ worker'.running = doc.revision
<1> USE DEF Typed
<1>0. doc \in Document /\ worker \in Workers /\ tasks \in Seq(Tasks) /\ (worker.loading => worker.busy)
  BY DEF TypeOK, Workers
<1>1. inputs' \in Nat
  BY ActsTypes DEF Analyze
<1>2. doc' = [doc EXCEPT !.cancelled = FALSE, !.status = "running"]
  BY DEF Analyze
<1>3. /\ doc' \in Document /\ Input(doc') = Input(doc) /\ doc'.revision = doc.revision
      /\ doc'.result = doc.result /\ doc'.active = doc.active
      /\ doc'.saved = doc.saved /\ doc'.path = doc.path /\ doc'.identity = doc.identity
  <2>1. "running" \in Statuses /\ FALSE \in BOOLEAN
    BY DEF Statuses
  <2> QED
    BY <1>0, <1>2, <2>1 DEF Document, Input
<1>4. doc.revision \in Int
  BY <1>0 DEF Document
<1>5. worker' = [worker EXCEPT !.busy = TRUE, !.running = doc.revision]
  BY DEF Analyze
<1>6. worker' \in Workers /\ worker'.busy /\ worker'.loading = worker.loading
      /\ worker'.loadRevision = worker.loadRevision /\ worker'.running = doc.revision
  <2>1. TRUE \in BOOLEAN
    OBVIOUS
  <2> QED
    BY <1>0, <1>4, <1>5, <2>1, Zenon DEF Workers
<1>7. tasks' \in Seq(Tasks)
  <2> DEFINE task == [kind |-> "analysis", entry |-> Input(doc), record |-> doc.active = {},
                      epoch |-> worker.epoch]
  <2>1. Input(doc) \in Entries /\ (doc.active = {}) \in BOOLEAN /\ worker.epoch \in Nat
    BY <1>0 DEF Input, Document, Entries, Workers
  <2>2. task \in Tasks
    BY <2>1, Zenon DEF Tasks
  <2>3. tasks' = Append(tasks, task)
    BY DEF Analyze
  <2> HIDE DEF task
  <2> QED
    BY <1>0, <2>2, <2>3, AppendProperties
<1>8. /\ pending' = pending
      /\ UNCHANGED <<draft, disk, scopes, dialogs, conflict, snapshot, signals, history,
                     window, agreed, mistaken, made, others, faults>>
  BY DEF Analyze
<1>9. TypeOK'
  BY <1>0, <1>1, <1>3, <1>6, <1>7, <1>8 DEF TypeOK, Workers
<1> QED
  BY <1>3, <1>6, <1>8, <1>9 DEF Names, Evolves, Belongs

LEMMA TakesTypes ==
    ASSUME Typed, NEW kind, TakesTask(kind), NEW y \in Signals, signals' = Append(signals, y),
           history' \in SUBSET Entries, faults' \in Nat
    PROVE  Typed'
<1> USE DEF Typed
<1>1. tasks \in Seq(Tasks) /\ tasks # <<>> /\ tasks' = Tail(tasks) /\ signals \in Seq(Signals)
  BY DEF TypeOK, TakesTask
<1>2. tasks' \in Seq(Tasks) /\ signals' \in Seq(Signals)
  BY <1>1, HeadTailProperties, AppendProperties
<1>3. UNCHANGED <<doc, draft, disk, pending, scopes, dialogs, conflict, snapshot, worker, window,
                  agreed, mistaken, made, inputs, others>>
  BY DEF TakesTask
<1> QED
  BY <1>2, <1>3 DEF TypeOK, Names

\* A task that is done is followed by its signal.
LEMMA ReadFileEffect ==
    ASSUME Typed, ReadFile
    PROVE  /\ Typed' /\ TakesTask("load") /\ history' = history
           /\ \E y \in Signals :
                 /\ signals' = Append(signals, y) /\ Follows(Head(tasks), y)
                 /\ y.kind = "loaded" =>
                       y.path \in Paths /\ y.file = disk[y.path] /\ y.file.version # 0
<1> USE DEF Typed
<1>1. disk \in [Paths -> Files] /\ faults \in Nat /\ history \in SUBSET Entries
  BY DEF TypeOK
<1>2. TakesTask("load") /\ history' = history
  BY DEF ReadFile
<1>3. Head(tasks) \in Tasks /\ Head(tasks).kind = "load"
  BY <1>2, HeadTailProperties DEF TypeOK, TakesTask
<1> DEFINE task == Head(tasks)
           a == [kind |-> "loaded", revision |-> task.revision, path |-> task.path,
                 file |-> disk[task.path]]
           b == [kind |-> "loadFailed", revision |-> task.revision]
<1>4. task.path \in Paths /\ task.revision \in Nat
  BY <1>3 DEF Tasks
<1>5. a \in Signals /\ b \in Signals
  BY <1>1, <1>4 DEF Signals
<1>6. Follows(task, a) /\ Follows(task, b)
  BY <1>3 DEF Follows, IsAnalysis, IsLoad
<1>7. /\ a.kind = "loaded" /\ a.path = task.path /\ a.file = disk[task.path]
      /\ b.kind = "loadFailed"
  OBVIOUS
<1>8. \/ signals' = Append(signals, a) /\ disk[task.path].version # 0 /\ UNCHANGED faults
      \/ signals' = Append(signals, b) /\ (UNCHANGED faults \/ MayFail)
  BY DEF ReadFile
<1>9. faults' \in Nat
  BY <1>1, <1>8 DEF MayFail
<1> HIDE DEF task, a, b
<1>10. CASE signals' = Append(signals, a) /\ disk[task.path].version # 0
  <2>1. Typed'
    BY <1>1, <1>2, <1>5, <1>9, <1>10, TakesTypes
  <2> QED
    BY <1>2, <1>4, <1>5, <1>6, <1>7, <1>10, <2>1 DEF task
<1>11. CASE signals' = Append(signals, b)
  <2>1. Typed'
    BY <1>1, <1>2, <1>5, <1>9, <1>11, TakesTypes
  <2> QED
    BY <1>2, <1>5, <1>6, <1>7, <1>11, <2>1 DEF task
<1> QED
  BY <1>8, <1>10, <1>11

LEMMA RunAnalysisEffect ==
    ASSUME Typed, RunAnalysis
    PROVE  /\ Typed' /\ TakesTask("analysis")
           /\ \E y \in Signals :
                 /\ signals' = Append(signals, y) /\ Follows(Head(tasks), y)
                 /\ y.kind # "loaded"
<1> USE DEF Typed
<1>1. faults \in Nat /\ history \in SUBSET Entries
  BY DEF TypeOK
<1>2. TakesTask("analysis")
  BY DEF RunAnalysis
<1>3. Head(tasks) \in Tasks /\ Head(tasks).kind = "analysis"
  BY <1>2, HeadTailProperties DEF TypeOK, TakesTask
<1> DEFINE task == Head(tasks)
           r(recorded) == [kind |-> "result", entry |-> task.entry, recorded |-> recorded,
                           epoch |-> task.epoch]
           e(message) == [kind |-> "error", message |-> message]
<1>4. task.entry \in Entries /\ task.epoch \in Nat
  BY <1>3 DEF Tasks
<1>5. \A recorded \in BOOLEAN :
        r(recorded) \in Signals /\ Follows(task, r(recorded)) /\ r(recorded).kind # "loaded"
  BY <1>3, <1>4 DEF Signals, Follows, IsAnalysis, IsLoad
<1>6. \A message \in {"cancelled", "failed"} :
        e(message) \in Signals /\ Follows(task, e(message)) /\ e(message).kind # "loaded"
  BY <1>3 DEF Signals, Follows, IsAnalysis, IsLoad
<1>7. /\ \/ \E recorded \in BOOLEAN : signals' = Append(signals, r(recorded))
         \/ \E message \in {"cancelled", "failed"} : signals' = Append(signals, e(message))
      /\ history' = history \/ history' = history \cup {task.entry}
      /\ UNCHANGED faults \/ MayFail
  <2>1. CASE doc.cancelled
    BY <2>1 DEF RunAnalysis
  <2>2. CASE ~doc.cancelled
    <3>1. TRUE \in BOOLEAN /\ FALSE \in BOOLEAN
      OBVIOUS
    <3> QED
      BY <2>2, <3>1 DEF RunAnalysis
  <2> QED
    BY <2>1, <2>2
<1>8. faults' \in Nat /\ history' \in SUBSET Entries
  BY <1>1, <1>4, <1>7 DEF MayFail
<1>9. PICK y \in Signals : signals' = Append(signals, y) /\ Follows(task, y) /\ y.kind # "loaded"
  <2> HIDE DEF r, e
  <2> QED
    BY <1>5, <1>6, <1>7
<1>10. Typed'
  BY <1>2, <1>8, <1>9, TakesTypes
<1> QED
  BY <1>2, <1>9, <1>10

\* A delivered signal leaves the queue; the document and the worker change.
LEMMA ReceivesTypes ==
    ASSUME Typed, NEW kind, Receives(kind), doc' \in Document, worker' \in Workers,
           worker'.loading => worker'.busy
    PROVE  Typed'
<1> USE DEF Typed
<1>1. signals \in Seq(Signals) /\ signals # <<>> /\ signals' = Tail(signals)
  BY DEF TypeOK, Receives
<1>2. signals' \in Seq(Signals)
  BY <1>1, HeadTailProperties
<1>3. UNCHANGED <<draft, disk, pending, scopes, dialogs, conflict, snapshot, tasks, history,
                  window, agreed, mistaken, made, inputs, others, faults>>
  BY DEF Receives, bounds
<1> QED
  BY <1>2, <1>3 DEF TypeOK, Names, Workers

SameSource(d, e) ==
    e.saved = d.saved /\ e.path = d.path /\ e.identity = d.identity /\ e.text = d.text

LEMMA FailsEffect ==
    ASSUME TypeOK, NEW message \in {"cancelled", "failed"}, Fails(message)
    PROVE  /\ Evolves(doc, doc') /\ SameSource(doc, doc')
           /\ worker' = [worker EXCEPT !.busy = FALSE]
<1>0. doc \in Document
  BY DEF TypeOK
<1>1. worker' = [worker EXCEPT !.busy = FALSE]
  BY DEF Fails, Idles
<1>2. CASE doc' = StatusChanged(doc)
  <2> DEFINE s == IF doc.text = Empty THEN "none" ELSE "changed"
  <2>1. s \in Statuses
    BY DEF Statuses
  <2>2. doc' = [doc EXCEPT !.status = s]
    BY <1>2 DEF StatusChanged
  <2> HIDE DEF s
  <2>3. /\ doc' \in Document /\ Input(doc') = Input(doc) /\ doc'.result = doc.result
        /\ doc'.active = doc.active /\ doc'.revision = doc.revision /\ SameSource(doc, doc')
    BY <1>0, <2>1, <2>2 DEF Document, Input, SameSource
  <2> QED
    BY <1>1, <2>3 DEF Evolves, Belongs
<1>3. CASE doc' = [Invalidated(doc) EXCEPT !.status = message]
  <2> DEFINE e == Invalidated(doc)
  <2>1. /\ e \in Document /\ e.revision = doc.revision + 1 /\ e.result = {}
        /\ e.active = doc.active /\ Input(e) = Input(doc) /\ SameSource(doc, e)
    BY <1>0, InvalidatedFields DEF Input, SameSource
  <2> HIDE DEF e
  <2>2. message \in Statuses
    BY DEF Statuses
  <2>3. doc' = [e EXCEPT !.status = message]
    BY <1>3 DEF e
  <2>4. /\ doc' \in Document /\ Input(doc') = Input(e) /\ doc'.result = e.result
        /\ doc'.active = e.active /\ doc'.revision = e.revision /\ SameSource(e, doc')
    BY <2>1, <2>2, <2>3 DEF Document, Input, SameSource
  <2>5. doc.revision \in Nat
    BY <1>0 DEF Document
  <2> QED
    BY <1>1, <2>1, <2>4, <2>5 DEF Evolves, Belongs, SameSource
<1> QED
  BY <1>2, <1>3 DEF Fails

LEMMA IdlesTypes ==
    ASSUME TypeOK
    PROVE  LET w == [worker EXCEPT !.busy = FALSE]
               v == [worker EXCEPT !.busy = FALSE, !.loading = FALSE]
           IN  /\ w \in Workers /\ ~w.busy /\ w.loading = worker.loading /\ SameRuns(worker, w)
               /\ v \in Workers /\ ~v.busy /\ ~v.loading /\ SameRuns(worker, v)
<1>1. worker \in Workers /\ FALSE \in BOOLEAN
  BY DEF TypeOK, Workers
<1> QED
  BY <1>1, Zenon DEF Workers, SameRuns

LEMMA ApplyLoadedEffect ==
    ASSUME Typed, ApplyLoaded
    PROVE  /\ Typed' /\ Receives("loaded") /\ Evolves(doc, doc')
           /\ Head(signals) \in Signals /\ Head(signals).kind = "loaded"
           /\ Head(signals).path \in Paths /\ Head(signals).file \in Files
           /\ \/ doc' = doc /\ worker' = worker
              \/ /\ Latest(Head(signals), worker) /\ SameRuns(worker, worker')
                 /\ ~worker'.loading
                 /\ \/ doc' = doc
                    \/ /\ doc' = Loaded(doc, Head(signals).path, Head(signals).file)
                       /\ doc.revision = worker.loadRevision
<1> USE DEF Typed
<1>0. doc \in Document /\ worker \in Workers /\ (worker.loading => worker.busy)
  BY DEF TypeOK, Workers
<1>1. Receives("loaded")
  BY DEF ApplyLoaded
<1>2. Head(signals) \in Signals /\ Head(signals).kind = "loaded"
  BY <1>1, HeadTailProperties DEF TypeOK, Receives
<1>3. Head(signals).path \in Paths /\ Head(signals).file \in Files
  BY <1>2 DEF Signals
<1>4. CASE UNCHANGED <<doc, worker>>
  BY <1>0, <1>1, <1>2, <1>3, <1>4, ReceivesTypes DEF Evolves
<1>5. CASE /\ Head(signals).revision = worker.loadRevision
           /\ LoadEnds
           /\ doc' = IF Head(signals).revision = doc.revision
                     THEN Loaded(doc, Head(signals).path, Head(signals).file) ELSE doc
  <2>1. Latest(Head(signals), worker)
    BY <1>2, <1>5 DEF Latest, IsLoad
  <2>2. worker' \in Workers /\ ~worker'.busy /\ ~worker'.loading /\ SameRuns(worker, worker')
    BY <1>5, IdlesTypes DEF LoadEnds
  <2>3. Evolves(doc, doc') /\ doc' \in Document
    BY <1>0, <1>3, <1>5, LoadedEvolves DEF Evolves
  <2>4. Typed'
    BY <1>1, <2>2, <2>3, ReceivesTypes
  <2> QED
    BY <1>1, <1>2, <1>3, <1>5, <2>1, <2>2, <2>3, <2>4
<1> QED
  BY <1>4, <1>5 DEF ApplyLoaded

LEMMA ApplyFileErrorEffect ==
    ASSUME Typed, ApplyFileError
    PROVE  /\ Typed' /\ Receives("loadFailed") /\ doc' = doc
           /\ \/ worker' = worker
              \/ /\ Latest(Head(signals), worker) /\ SameRuns(worker, worker')
                 /\ ~worker'.loading
<1> USE DEF Typed
<1>0. doc \in Document /\ worker \in Workers /\ (worker.loading => worker.busy)
  BY DEF TypeOK, Workers
<1>1. Receives("loadFailed") /\ doc' = doc
  BY DEF ApplyFileError
<1>2. CASE UNCHANGED worker
  BY <1>0, <1>1, <1>2, ReceivesTypes
<1>3. CASE Head(signals).revision = worker.loadRevision /\ LoadEnds
  <2>1. Latest(Head(signals), worker)
    BY <1>1, <1>3 DEF Latest, IsLoad, Receives
  <2>2. worker' \in Workers /\ ~worker'.busy /\ ~worker'.loading /\ SameRuns(worker, worker')
    BY <1>3, IdlesTypes DEF LoadEnds
  <2> QED
    BY <1>0, <1>1, <2>1, <2>2, ReceivesTypes
<1> QED
  BY <1>2, <1>3 DEF ApplyFileError

\* An analysis that ends without a result.
Ends ==
    /\ Evolves(doc, doc') /\ SameSource(doc, doc')
    /\ \/ worker' = worker
       \/ ~worker.loading /\ worker' = [worker EXCEPT !.busy = FALSE]

LEMMA EndsTypes ==
    ASSUME Typed, NEW kind, Receives(kind), Ends
    PROVE  Typed'
<1>1. doc' \in Document
  BY DEF Ends, Evolves
<1>2. worker' \in Workers /\ (worker'.loading => worker'.busy)
  BY IdlesTypes DEF Typed, TypeOK, Workers, Ends
<1> QED
  BY <1>1, <1>2, ReceivesTypes

LEMMA ApplyErrorEffect ==
    ASSUME Typed, ApplyError
    PROVE  Typed' /\ Receives("error") /\ Ends
<1> USE DEF Typed
<1>1. Receives("error")
  BY DEF ApplyError
<1>2. Head(signals) \in Signals /\ Head(signals).kind = "error"
  BY <1>1, HeadTailProperties DEF TypeOK, Receives
<1>3. Head(signals).message \in {"cancelled", "failed"}
  BY <1>2 DEF Signals
<1>4. Ends
  <2>1. CASE worker.loading
    BY <2>1 DEF ApplyError, Ends, Evolves, SameSource, TypeOK
  <2>2. CASE ~worker.loading
    BY <1>3, <2>2, FailsEffect DEF ApplyError, Ends
  <2> QED
    BY <2>1, <2>2
<1> QED
  BY <1>1, <1>4, EndsTypes

\* The result of the analysis of the document as it is now.
Shows ==
    /\ ~worker.loading /\ worker.running = doc.revision
    /\ worker' = [worker EXCEPT !.busy = FALSE]
    /\ doc' \in Document /\ Input(doc') = Input(doc) /\ doc'.revision = doc.revision
    /\ doc'.result = {Head(signals).entry}
    /\ doc'.active \in {doc.active, {Head(signals).entry}}
    /\ SameSource(doc, doc')

LEMMA ApplyResultEffect ==
    ASSUME Typed, ApplyResult
    PROVE  Typed' /\ Receives("result") /\ (Ends \/ Shows)
<1> USE DEF Typed
<1>0. doc \in Document
  BY DEF TypeOK
<1>1. Receives("result")
  BY DEF ApplyResult
<1>2. Head(signals) \in Signals /\ Head(signals).kind = "result"
  BY <1>1, HeadTailProperties DEF TypeOK, Receives
<1>3. CASE worker.loading
  <2>1. Ends
    BY <1>0, <1>3 DEF ApplyResult, Ends, Evolves, SameSource
  <2> QED
    BY <1>1, <2>1, EndsTypes
<1>4. CASE ~worker.loading /\ worker.busy /\ doc.cancelled
  <2>1. Ends
    BY <1>4, FailsEffect DEF ApplyResult, Ends
  <2> QED
    BY <1>1, <2>1, EndsTypes
<1>5. CASE ~worker.loading /\ ~(worker.busy /\ doc.cancelled) /\ worker.running # doc.revision
  <2>1. Fails("cancelled")
    BY <1>5 DEF ApplyResult, Fails
  <2>2. Ends
    BY <1>5, <2>1, FailsEffect DEF Ends
  <2> QED
    BY <1>1, <2>2, EndsTypes
<1>6. CASE ~worker.loading /\ ~(worker.busy /\ doc.cancelled) /\ worker.running = doc.revision
  <2> DEFINE entry == Head(signals).entry
             active == IF /\ Head(signals).recorded /\ Head(signals).epoch = worker.epoch
                          /\ entry \in history
                       THEN {entry} ELSE doc.active
  <2>1. entry \in Entries
    BY <1>2 DEF Signals
  <2>2. active \in {doc.active, {entry}}
    OBVIOUS
  <2>3. {entry} \in SUBSET Entries /\ active \in SUBSET Entries /\ "completed" \in Statuses
    BY <1>0, <2>1, <2>2 DEF Document, Statuses
  <2>4. doc' = [doc EXCEPT !.result = {entry}, !.status = "completed", !.active = active]
    BY <1>6 DEF ApplyResult
  <2>5. worker' = [worker EXCEPT !.busy = FALSE]
    BY <1>6 DEF ApplyResult, Idles
  <2> HIDE DEF active, entry
  <2>6. /\ doc' \in Document /\ Input(doc') = Input(doc) /\ doc'.revision = doc.revision
        /\ doc'.result = {entry} /\ doc'.active = active /\ SameSource(doc, doc')
    BY <1>0, <2>3, <2>4 DEF Document, Input, SameSource
  <2>7. Shows
    BY <1>6, <2>2, <2>5, <2>6 DEF Shows, entry
  <2>8. worker' \in Workers /\ (worker'.loading => worker'.busy)
    BY <1>6, <2>5, IdlesTypes
  <2> QED
    BY <1>1, <2>6, <2>7, <2>8, ReceivesTypes
<1> QED
  BY <1>3, <1>4, <1>5, <1>6

LEMMA OtherTypes ==
    ASSUME Typed
    PROVE  /\ \A path \in Paths : OtherWrites(path) => Typed' /\ OnlyNewer
           /\ FadeOut \/ ClosesClean => Typed'
           /\ UNCHANGED vars => Typed'
<1> USE DEF Typed
<1>1. ASSUME NEW path \in Paths, OtherWrites(path)
      PROVE  Typed' /\ OnlyNewer
  <2>1. PICK text \in Texts : Writes(path, text) /\ mistaken' = mistaken
    BY <1>1 DEF OtherWrites
  <2>2. OnlyNewer
    BY <2>1, WritesEffect
  <2>3. /\ disk' \in [Paths -> Files] /\ made' \in Nat /\ others' \in Nat
        /\ UNCHANGED <<doc, draft, pending, scopes, dialogs, conflict, snapshot, worker, tasks,
                       signals, history, window, agreed, mistaken, inputs, faults>>
    BY <1>1, <2>2 DEF OtherWrites, OnlyNewer, TypeOK
  <2> QED
    BY <2>2, <2>3 DEF TypeOK, Names
<1>2. FadeOut \/ ClosesClean => Typed'
  BY DEF FadeOut, ClosesClean, bounds, TypeOK, Names
<1>3. UNCHANGED vars => Typed'
  BY DEF vars, TypeOK, Names
<1> QED
  BY <1>1, <1>2, <1>3

-----------------------------------------------------------------------------
(* One analysis at a time, and the latest load *)

LEMMA FlightParts ==
    ASSUME NEW s \in Seq(Signals), NEW t \in Seq(Tasks)
    PROVE  /\ Len(s) \in Nat /\ Len(t) \in Nat /\ Len(s \o t) = Len(s) + Len(t)
           /\ \A i \in 1..Len(s) + Len(t) :
                 (s \o t)[i] = IF i <= Len(s) THEN s[i] ELSE t[i - Len(s)]
<1> DEFINE Both == Signals \cup Tasks
<1>1. s \in Seq(Both) /\ t \in Seq(Both)
  BY SeqMonotonic
<1> HIDE DEF Both
<1> QED
  BY <1>1, ConcatProperties, LenProperties

LEMMA FlightAppended ==
    ASSUME NEW s \in Seq(Signals), NEW t \in Seq(Tasks), NEW x \in Tasks
    PROVE  LET f == s \o t
               g == s \o Append(t, x)
           IN  /\ Len(f) \in Nat /\ Len(g) = Len(f) + 1
               /\ \A i \in 1..Len(f) : g[i] = f[i]
               /\ g[Len(f) + 1] = x
<1> DEFINE u == Append(t, x)
<1>1. u \in Seq(Tasks) /\ Len(u) = Len(t) + 1 /\ u[Len(t) + 1] = x
      /\ \A i \in 1..Len(t) : u[i] = t[i]
  BY AppendProperties
<1> HIDE DEF u
<1>2. /\ Len(s) \in Nat /\ Len(t) \in Nat
      /\ Len(s \o t) = Len(s) + Len(t) /\ Len(s \o u) = Len(s) + Len(t) + 1
  <2>1. Len(s) \in Nat /\ Len(t) \in Nat /\ Len(s \o t) = Len(s) + Len(t)
    BY FlightParts
  <2>2. Len(s \o u) = Len(s) + Len(u)
    BY <1>1, FlightParts
  <2> QED
    BY <1>1, <2>1, <2>2
<1>3. \A i \in 1..Len(s) + Len(t) : (s \o u)[i] = (s \o t)[i]
  <2> TAKE i \in 1..Len(s) + Len(t)
  <2>1. (s \o u)[i] = IF i <= Len(s) THEN s[i] ELSE u[i - Len(s)]
    BY <1>1, <1>2, FlightParts
  <2>2. (s \o t)[i] = IF i <= Len(s) THEN s[i] ELSE t[i - Len(s)]
    BY FlightParts
  <2>3. ~(i <= Len(s)) => i - Len(s) \in 1..Len(t)
    BY <1>2
  <2>4. ~(i <= Len(s)) => u[i - Len(s)] = t[i - Len(s)]
    BY <1>1, <2>3
  <2> QED
    BY <2>1, <2>2, <2>4
<1>4. (s \o u)[Len(s) + Len(t) + 1] = x
  BY <1>1, <1>2, FlightParts
<1> QED
  BY <1>2, <1>3, <1>4 DEF u

\* A worker step turns the first task into the last signal.
LEMMA FlightReplaced ==
    ASSUME NEW s \in Seq(Signals), NEW t \in Seq(Tasks), t # <<>>, NEW y \in Signals,
           Follows(Head(t), y)
    PROVE  LET f == s \o t
               g == Append(s, y) \o Tail(t)
           IN  /\ Len(f) \in Nat /\ Len(g) = Len(f)
               /\ \A i \in 1..Len(f) : Follows(f[i], g[i])
<1> DEFINE u == Tail(t)
           r == Append(s, y)
<1>1. /\ u \in Seq(Tasks) /\ Len(u) = Len(t) - 1 /\ t[1] = Head(t)
      /\ \A i \in 1..Len(u) : u[i] = t[i + 1]
  BY HeadTailProperties
<1>2. r \in Seq(Signals) /\ Len(r) = Len(s) + 1 /\ r[Len(s) + 1] = y
      /\ \A i \in 1..Len(s) : r[i] = s[i]
  BY AppendProperties
<1> HIDE DEF u, r
<1>3. /\ Len(s) \in Nat /\ Len(t) \in Nat /\ Len(u) \in Nat
      /\ Len(s \o t) = Len(s) + Len(t) /\ Len(r \o u) = Len(s) + Len(t)
  <2>1. Len(s) \in Nat /\ Len(t) \in Nat /\ Len(s \o t) = Len(s) + Len(t)
    BY FlightParts
  <2>2. Len(u) \in Nat /\ Len(r \o u) = Len(r) + Len(u)
    BY <1>1, <1>2, FlightParts
  <2> QED
    BY <1>1, <1>2, <2>1, <2>2
<1>4. ASSUME NEW i \in 1..Len(s) + Len(t)
      PROVE  Follows((s \o t)[i], (r \o u)[i])
  <2>1. (s \o t)[i] = IF i <= Len(s) THEN s[i] ELSE t[i - Len(s)]
    BY FlightParts
  <2>2. (r \o u)[i] = IF i <= Len(r) THEN r[i] ELSE u[i - Len(r)]
    BY <1>1, <1>2, <1>3, FlightParts
  <2>3. \A x : Follows(x, x)
    BY DEF Follows
  <2>4. CASE i <= Len(s)
    BY <1>2, <1>3, <2>1, <2>2, <2>3, <2>4
  <2>5. CASE i = Len(s) + 1
    <3>1. (s \o t)[i] = t[1] /\ (r \o u)[i] = y
      BY <1>2, <1>3, <2>1, <2>2, <2>5
    <3> QED
      BY <1>1, <3>1
  <2>6. CASE i > Len(s) + 1
    <3> DEFINE j == i - Len(s) - 1
    <3>1. j \in 1..Len(u) /\ i - Len(s) = j + 1 /\ i - Len(r) = j
      BY <1>1, <1>2, <1>3, <2>6
    <3> HIDE DEF j
    <3>2. (s \o t)[i] = t[j + 1] /\ (r \o u)[i] = u[j]
      BY <1>2, <1>3, <2>1, <2>2, <2>6, <3>1
    <3> QED
      BY <1>1, <2>3, <3>1, <3>2
  <2> QED
    BY <1>3, <2>4, <2>5, <2>6
<1> QED
  BY <1>3, <1>4 DEF u, r

LEMMA FlightDropped ==
    ASSUME NEW s \in Seq(Signals), NEW t \in Seq(Tasks), s # <<>>
    PROVE  LET f == s \o t
               g == Tail(s) \o t
           IN  /\ Len(f) \in Nat /\ Len(g) \in Nat /\ Len(f) = Len(g) + 1
               /\ \A i \in 1..Len(g) : g[i] = f[i + 1]
               /\ f[1] = Head(s)
<1> DEFINE u == Tail(s)
<1>1. /\ u \in Seq(Signals) /\ Len(u) = Len(s) - 1 /\ s[1] = Head(s)
      /\ \A i \in 1..Len(u) : u[i] = s[i + 1]
  BY HeadTailProperties
<1> HIDE DEF u
<1>2. /\ Len(s) \in Nat /\ Len(t) \in Nat /\ Len(u) \in Nat
      /\ Len(s \o t) = Len(s) + Len(t) /\ Len(u \o t) = Len(s) + Len(t) - 1
  <2>1. Len(s) \in Nat /\ Len(t) \in Nat /\ Len(s \o t) = Len(s) + Len(t)
    BY FlightParts
  <2>2. Len(u) \in Nat /\ Len(u \o t) = Len(u) + Len(t)
    BY <1>1, FlightParts
  <2> QED
    BY <1>1, <2>1, <2>2
<1>3. ASSUME NEW i \in 1..Len(u) + Len(t)
      PROVE  (u \o t)[i] = (s \o t)[i + 1]
  <2>1. (u \o t)[i] = IF i <= Len(u) THEN u[i] ELSE t[i - Len(u)]
    BY <1>1, FlightParts
  <2>2. i + 1 \in 1..Len(s) + Len(t) /\ i + 1 - Len(s) = i - Len(u)
    BY <1>1, <1>2
  <2>3. (s \o t)[i + 1] = IF i + 1 <= Len(s) THEN s[i + 1] ELSE t[i + 1 - Len(s)]
    BY <2>2, FlightParts
  <2>4. (i <= Len(u) <=> i + 1 <= Len(s)) /\ (i <= Len(u) => u[i] = s[i + 1])
    BY <1>1, <1>2
  <2> QED
    BY <2>1, <2>2, <2>3, <2>4
<1>4. (s \o t)[1] = Head(s)
  BY <1>1, <1>2, FlightParts
<1> QED
  BY <1>1, <1>2, <1>3, <1>4 DEF u

Flying == Orderly(Flight, worker, doc)

LEMMA FlightTypes ==
    ASSUME TypeOK
    PROVE  /\ signals \in Seq(Signals) /\ tasks \in Seq(Tasks) /\ Len(Flight) \in Nat
           /\ worker \in Workers /\ doc \in Document /\ (worker.loading => worker.busy)
<1>1. signals \in Seq(Signals) /\ tasks \in Seq(Tasks)
  BY DEF TypeOK
<1>2. Len(Flight) \in Nat
  BY <1>1, FlightParts DEF Flight
<1> QED
  BY <1>1, <1>2 DEF TypeOK, Workers

\* The document evolves, by itself or before a load is started for it.
LEMMA MoveFlies ==
    ASSUME Typed, Flying, NEW d \in Document, Evolves(doc, d), Moved(d) \/ Started(d),
           signals' = signals
    PROVE  Flying'
<1> USE DEF Typed
<1>1. SameRuns(worker, worker)
  BY DEF SameRuns
<1>2. Orderly(Flight, worker, d)
  BY <1>1, FlightTypes, OrderlyEvolves DEF Flying
<1>3. CASE Moved(d)
  <2>1. Flight' = Flight /\ worker' = worker /\ Evolves(d, doc')
    BY <1>3 DEF Moved, Flight
  <2>2. Orderly(Flight, worker, doc')
    BY <1>1, <1>2, <2>1, FlightTypes, OrderlyEvolves
  <2> QED
    BY <2>1, <2>2 DEF Flying
<1>4. ASSUME NEW path \in Paths, StartLoad(d, path)
      PROVE  Flying'
  <2> DEFINE task == [kind |-> "load", path |-> path, revision |-> d.revision + 1]
  <2>1. task \in Tasks /\ task.kind = "load" /\ task.revision = d.revision + 1
    BY DEF Document, Tasks
  <2>2. tasks' = Append(tasks, task)
    BY <1>4 DEF StartLoad
  <2> HIDE DEF task
  <2>3. /\ Len(Flight') = Len(Flight) + 1
        /\ \A i \in 1..Len(Flight) : Flight'[i] = Flight[i]
        /\ Flight'[Len(Flight) + 1] = task
    BY <2>1, <2>2, FlightTypes, FlightAppended DEF Flight
  <2>4. doc' = [d EXCEPT !.revision = d.revision + 1]
        /\ worker' = [worker EXCEPT !.busy = TRUE, !.loading = TRUE, !.loadRevision = d.revision + 1]
    BY <1>4 DEF StartLoad
  <2>5. doc'.revision = d.revision + 1
    BY <2>4 DEF Document
  <2>6. /\ worker'.busy /\ worker'.loading /\ worker'.loadRevision = d.revision + 1
        /\ worker'.running = worker.running
    BY <2>4, FlightTypes, Zenon DEF Workers
  <2>7. Orderly(Flight', worker', doc')
    BY <1>2, <2>1, <2>3, <2>5, <2>6, FlightTypes, OrderlyLoadStarts
  <2> QED
    BY <2>7 DEF Flying
<1> QED
  BY <1>3, <1>4 DEF Started

LEMMA WorkFlies ==
    ASSUME Typed, Flying, NEW kind, TakesTask(kind), NEW y \in Signals,
           signals' = Append(signals, y), Follows(Head(tasks), y)
    PROVE  Flying'
<1> USE DEF Typed
<1>1. tasks # <<>> /\ tasks' = Tail(tasks) /\ worker' = worker /\ doc' = doc
  BY DEF TakesTask
<1>2. Flight' = Append(signals, y) \o Tail(tasks)
  BY <1>1 DEF Flight
<1>3. /\ Len(Flight') = Len(Flight)
      /\ \A i \in 1..Len(Flight) : Follows(Flight[i], Flight'[i])
  BY <1>1, <1>2, FlightTypes, FlightReplaced DEF Flight
<1>4. Orderly(Flight', worker, doc)
  BY <1>3, FlightTypes, OrderlyReplaced DEF Flying
<1> QED
  BY <1>1, <1>4 DEF Flying

\* What a delivered signal leaves on its way.
LEMMA ReceivesFlight ==
    ASSUME Typed, NEW kind, Receives(kind)
    PROVE  /\ Len(Flight) \in Nat /\ Len(Flight') \in Nat /\ Len(Flight) = Len(Flight') + 1
           /\ \A i \in 1..Len(Flight') : Flight'[i] = Flight[i + 1]
           /\ Flight[1] = Head(signals) /\ Head(signals).kind = kind
<1> USE DEF Typed
<1>1. signals # <<>> /\ signals' = Tail(signals) /\ tasks' = tasks /\ Head(signals).kind = kind
  BY DEF Receives
<1>2. Flight' = Tail(signals) \o tasks
  BY <1>1 DEF Flight
<1> QED
  BY <1>1, <1>2, FlightTypes, FlightDropped DEF Flight

\* Types, order and results hold together.
Core == Typed /\ Flying /\ Belongs(doc)

LEMMA EvolvesSelf ==
    ASSUME NEW d \in Document
    PROVE  Evolves(d, d)
BY DEF Evolves

\* Steps that leave the queues and the worker's runs alone.
LEMMA QuietFlies ==
    ASSUME Typed, Flying, Evolves(doc, doc'), UNCHANGED <<signals, tasks>>,
           SameRuns(worker, worker'), worker'.busy = worker.busy, worker'.loading = worker.loading
    PROVE  Flying'
<1>1. Flight' = Flight
  BY DEF Flight
<1>2. Orderly(Flight, worker', doc')
  BY FlightTypes, OrderlyEvolves DEF Typed, Flying
<1> QED
  BY <1>1, <1>2 DEF Flying

LEMMA ReplacesFlies ==
    ASSUME Typed, Flying
    PROVE  /\ SaveStep => Flying'
           /\ AskStep => Flying'
           /\ SaveFirst /\ "configuration" \notin scopes => Flying'
           /\ Discard \/ Reload => Flying'
<1> USE DEF Typed
<1>0. doc \in Document /\ Evolves(doc, doc) /\ made \in Nat /\ SameRuns(worker, worker)
  BY EvolvesSelf DEF TypeOK, SameRuns
<1>1. ASSUME SaveStep
      PROVE  Flying'
  <2>1. PICK open : SaveEffects(open)
    BY <1>1 DEF SaveStep
  <2>2. signals' = signals
    BY <1>1 DEF SaveStep
  <2>3. CASE UNCHANGED held
    BY <1>0, <2>2, <2>3, QuietFlies DEF held
  <2>4. ASSUME NEW path \in Paths, Settled(SavedAs(doc, path, made'))
        PROVE  Flying'
    <3> DEFINE d == SavedAs(doc, path, made')
    <3>0. made' \in Nat
      BY <2>1 DEF SaveEffects, OnlyNewer
    <3>1. Evolves(doc, d) /\ d \in Document
      BY <1>0, <3>0, SavedAsEvolves DEF Evolves
    <3> HIDE DEF d
    <3>2. Moved(d) \/ Started(d)
      BY <2>4, <3>1, SettledEffect DEF d
    <3> QED
      BY <2>2, <3>1, <3>2, MoveFlies
  <2> QED
    BY <2>1, <2>3, <2>4 DEF SaveEffects
<1>2. ASSUME AskStep
      PROVE  Flying'
  <2>1. PICK request \in Requests : Names(request) /\ RequestAction(request)
    BY <1>2 DEF AskStep
  <2>2. signals' = signals
    BY <2>1, RequestEffect
  <2>3. CASE UNCHANGED <<doc, worker, tasks, snapshot, window>>
    BY <1>0, <2>2, <2>3, QuietFlies
  <2>4. CASE Finish(doc, request)
    <3>1. Moved(doc) \/ Started(doc)
      BY <1>0, <2>1, <2>4, FinishEffect
    <3> QED
      BY <1>0, <2>2, <3>1, MoveFlies
  <2> QED
    BY <2>1, <2>3, <2>4, RequestEffect
<1>3. ASSUME SaveFirst, "configuration" \notin scopes
      PROVE  Flying'
  <2>1. Settled(doc) /\ signals' = signals
    BY <1>3, NextEffect DEF SaveFirst
  <2> QED
    BY <1>0, <2>1, SettledEffect, MoveFlies
<1>4. ASSUME Discard
      PROVE  Flying'
  <2>1. Settled(doc) /\ signals' = signals
    BY <1>4 DEF Discard, Settled
  <2> QED
    BY <1>0, <2>1, SettledEffect, MoveFlies
<1>5. ASSUME Reload
      PROVE  Flying'
  <2>1. Started(doc) /\ signals' = signals
    BY <1>5, ReloadTypes DEF Reload
  <2> QED
    BY <1>0, <2>1, MoveFlies
<1> QED
  BY <1>1, <1>2, <1>3, <1>4, <1>5

LEMMA AnalyzeFlies ==
    ASSUME Typed, Flying, Analyze
    PROVE  Flying'
<1> USE DEF Typed
<1> DEFINE task == [kind |-> "analysis", entry |-> Input(doc), record |-> doc.active = {},
                    epoch |-> worker.epoch]
<1>1. tasks' = Append(tasks, task) /\ signals' = signals /\ ~worker.busy
  BY DEF Analyze
<1>2. task \in Tasks /\ task.kind = "analysis" /\ task.entry = Input(doc)
  <2>1. Input(doc) \in Entries /\ (doc.active = {}) \in BOOLEAN /\ worker.epoch \in Nat
    BY FlightTypes DEF Input, Document, Entries, Workers
  <2> QED
    BY <2>1, Zenon DEF Tasks
<1> HIDE DEF task
<1>3. /\ Len(Flight') = Len(Flight) + 1
      /\ \A i \in 1..Len(Flight) : Flight'[i] = Flight[i]
      /\ Flight'[Len(Flight) + 1] = task
  BY <1>1, <1>2, FlightTypes, FlightAppended DEF Flight
<1>4. Orderly(Flight', worker', doc')
  BY <1>1, <1>2, <1>3, AnalyzeTypes, FlightTypes, OrderlyAnalysisStarts DEF Flying
<1> QED
  BY <1>4 DEF Flying

LEMMA DeliverFlies ==
    ASSUME Core
    PROVE  /\ ApplyLoaded \/ ApplyFileError => Flying'
           /\ ApplyError \/ ApplyResult => Flying'
           /\ ApplyResult => Belongs(doc')
<1> USE DEF Core, Typed
<1>0. /\ worker \in Workers /\ doc \in Document /\ Orderly(Flight, worker, doc)
      /\ Evolves(doc, doc) /\ SameRuns(worker, worker)
  BY FlightTypes, EvolvesSelf DEF Flying, SameRuns
<1>1. ASSUME NEW kind, Receives(kind), worker' = worker, Evolves(doc, doc')
      PROVE  Flying'
  <2>1. Orderly(Flight', worker, doc)
    BY <1>0, <1>1, ReceivesFlight, OrderlyDropped
  <2>2. Orderly(Flight', worker, doc')
    BY <1>0, <1>1, <2>1, ReceivesFlight, OrderlyEvolves
  <2> QED
    BY <1>1, <2>2 DEF Flying
<1>2. ASSUME NEW kind, Receives(kind), Latest(Head(signals), worker),
             SameRuns(worker, worker'), worker' \in Workers, Evolves(doc, doc')
      PROVE  Flying'
  <2>1. Orderly(Flight', worker', doc)
    BY <1>0, <1>2, ReceivesFlight, OrderlyLoadEnds
  <2>2. Orderly(Flight', worker', doc')
    BY <1>2, <1>0, <2>1, ReceivesFlight, OrderlyEvolves DEF SameRuns
  <2> QED
    BY <2>2 DEF Flying
<1>3. ASSUME NEW kind \in {"error", "result"}, Receives(kind), Ends
      PROVE  Flying'
  <2>1. CASE worker' = worker
    BY <1>1, <1>3, <2>1 DEF Ends
  <2>2. CASE ~worker.loading /\ worker' = [worker EXCEPT !.busy = FALSE]
    <3>1. worker' \in Workers /\ worker'.loading = worker.loading /\ SameRuns(worker, worker')
      BY <2>2, IdlesTypes
    <3>2. IsAnalysis(Flight[1])
      BY <1>3, ReceivesFlight DEF IsAnalysis
    <3>3. Orderly(Flight', worker', doc)
      BY <1>0, <1>3, <3>1, <3>2, ReceivesFlight, OrderlyAnalysisEnds
    <3>4. Orderly(Flight', worker', doc')
      BY <1>0, <1>3, <3>1, <3>3, ReceivesFlight, OrderlyEvolves DEF Ends, SameRuns
    <3> QED
      BY <3>4 DEF Flying
  <2> QED
    BY <1>3, <2>1, <2>2 DEF Ends
<1>4. ASSUME Receives("result"), Shows
      PROVE  Flying' /\ Belongs(doc')
  <2>1. worker' \in Workers /\ worker'.loading = worker.loading /\ SameRuns(worker, worker')
    BY <1>4, IdlesTypes DEF Shows
  <2>2. IsAnalysis(Flight[1]) /\ Flight[1].kind = "result" /\ Flight[1] = Head(signals)
    BY <1>4, ReceivesFlight DEF IsAnalysis
  <2>3. Head(signals).entry = Input(doc)
    <3>1. 1 \in 1..Len(Flight) /\ worker.running = doc.revision
      BY <1>4, ReceivesFlight DEF Shows
    <3> QED
      BY <1>0, <2>2, <3>1 DEF Orderly
  <2>4. Belongs(doc')
    BY <1>4, <2>3 DEF Shows, Belongs
  <2>5. Evolves(doc, doc')
    BY <1>4, <2>4 DEF Shows, Evolves
  <2>6. Orderly(Flight', worker', doc)
    BY <1>0, <1>4, <2>1, <2>2, ReceivesFlight, OrderlyAnalysisEnds
  <2>7. Orderly(Flight', worker', doc')
    BY <1>0, <1>4, <2>1, <2>5, <2>6, ReceivesFlight, OrderlyEvolves DEF SameRuns
  <2> QED
    BY <2>4, <2>7 DEF Flying
<1>5. ASSUME ApplyLoaded
      PROVE  Flying'
  <2>1. Receives("loaded") /\ Evolves(doc, doc') /\ worker' \in Workers
    BY <1>5, ApplyLoadedEffect DEF TypeOK, Workers
  <2>2. worker' = worker \/ (Latest(Head(signals), worker) /\ SameRuns(worker, worker'))
    BY <1>5, ApplyLoadedEffect
  <2> QED
    BY <1>1, <1>2, <2>1, <2>2
<1>6. ASSUME ApplyFileError
      PROVE  Flying'
  <2>1. Receives("loadFailed") /\ doc' = doc /\ worker' \in Workers
    BY <1>6, ApplyFileErrorEffect DEF TypeOK, Workers
  <2>2. worker' = worker \/ (Latest(Head(signals), worker) /\ SameRuns(worker, worker'))
    BY <1>6, ApplyFileErrorEffect
  <2> QED
    BY <1>0, <1>1, <1>2, <2>1, <2>2
<1>7. ApplyError => Flying'
  BY <1>3, ApplyErrorEffect
<1>8. ApplyResult => Flying' /\ Belongs(doc')
  <2>1. ApplyResult => Receives("result") /\ (Ends \/ Shows)
    BY ApplyResultEffect
  <2>2. Ends => Belongs(doc')
    BY DEF Ends, Evolves
  <2> QED
    BY <1>3, <1>4, <2>1, <2>2
<1> QED
  BY <1>5, <1>6, <1>7, <1>8

\* The steps of Next, by what they come to.
LEMMA NextCases ==
    ASSUME TypeOK, [Next]_vars
    PROVE  \/ EditStep \/ AskStep \/ ClosesClean \/ SaveStep
           \/ (SaveFirst /\ "configuration" \notin scopes)
           \/ Discard \/ Reload \/ CancelRequest \/ CancelSave
           \/ Analyze \/ ReadFile \/ RunAnalysis
           \/ ApplyLoaded \/ ApplyFileError \/ ApplyError \/ ApplyResult
           \/ FadeOut \/ (\E path \in Paths : OtherWrites(path))
           \/ UNCHANGED vars
<1>1. Edits \/ CancelAnalysis => EditStep
  BY EditsEffect DEF Edits
<1>2. Asks => EditStep \/ AskStep \/ ClosesClean
  BY EditsEffect, AsksEffect DEF Asks
<1>3. Answer \/ Save => \/ SaveStep \/ (SaveFirst /\ "configuration" \notin scopes)
                        \/ Discard \/ Reload \/ CancelRequest \/ CancelSave
  BY SavesEffect DEF Answer
<1> QED
  BY <1>1, <1>2, <1>3 DEF Next, Work, Deliver

\* All steps but a result that is shown only evolve the document.
LEMMA NextEvolves ==
    ASSUME Typed, [Next]_vars
    PROVE  Typed' /\ (ApplyResult \/ Evolves(doc, doc'))
<1> USE DEF Typed
<1>0. doc \in Document /\ Evolves(doc, doc)
  BY EvolvesSelf DEF TypeOK
<1>1. EditStep => Typed' /\ Evolves(doc, doc')
  BY EditStepTypes DEF EditStep
<1>2. AskStep => Typed' /\ Evolves(doc, doc')
  BY AskStepTypes
<1>3. ClosesClean \/ FadeOut => Typed' /\ Evolves(doc, doc')
  BY <1>0, OtherTypes DEF ClosesClean, FadeOut
<1>4. SaveStep => Typed' /\ Evolves(doc, doc')
  BY SaveStepTypes
<1>5. SaveFirst /\ "configuration" \notin scopes => Typed' /\ Evolves(doc, doc')
  BY SaveDraftFirstTypes
<1>6. Discard \/ Reload => Typed' /\ Evolves(doc, doc')
  BY DiscardTypes, ReloadTypes
<1>7. CancelRequest \/ CancelSave => Typed' /\ Evolves(doc, doc')
  BY <1>0, ForgetTypes DEF CancelRequest, CancelSave
<1>8. Analyze => Typed' /\ Evolves(doc, doc')
  BY AnalyzeTypes
<1>9. ReadFile \/ RunAnalysis => Typed' /\ Evolves(doc, doc')
  BY <1>0, ReadFileEffect, RunAnalysisEffect DEF TakesTask
<1>10. ApplyLoaded \/ ApplyFileError \/ ApplyError => Typed' /\ Evolves(doc, doc')
  BY <1>0, ApplyLoadedEffect, ApplyFileErrorEffect, ApplyErrorEffect DEF Ends
<1>11. ApplyResult => Typed'
  BY ApplyResultEffect
<1>12. (\E path \in Paths : OtherWrites(path)) => Typed' /\ Evolves(doc, doc')
  BY <1>0, OtherTypes DEF OtherWrites
<1>13. UNCHANGED vars => Typed' /\ Evolves(doc, doc')
  BY <1>0, OtherTypes DEF vars
<1> QED
  BY <1>1, <1>2, <1>3, <1>4, <1>5, <1>6, <1>7, <1>8, <1>9, <1>10, <1>11, <1>12, <1>13, NextCases

LEMMA InitCore == Init => Core
<1> SUFFICES ASSUME Init PROVE Core
  OBVIOUS
<1>1. Typed
  BY InitTyped
<1>2. Belongs(doc)
  BY DEF Init, Belongs
<1>3. Flight = <<>> /\ Len(<<>>) = 0
  BY DEF Init, Flight
<1>4. worker.loadRevision = -1 /\ worker.running = -1 /\ doc.revision = 0
  BY DEF Init
<1>5. Flying
  BY <1>3, <1>4 DEF Flying, Orderly
<1> QED
  BY <1>1, <1>2, <1>5 DEF Core

LEMMA CoreNext == Core /\ [Next]_vars => Core'
<1> SUFFICES ASSUME Core, [Next]_vars PROVE Core'
  OBVIOUS
<1> USE DEF Core, Typed
<1>0. Evolves(doc, doc) /\ SameRuns(worker, worker)
  BY EvolvesSelf DEF SameRuns, TypeOK
<1>1. Typed' /\ (ApplyResult \/ Evolves(doc, doc'))
  BY NextEvolves
<1>2. Belongs(doc')
  BY <1>1, DeliverFlies DEF Evolves
<1>3. EditStep => Flying'
  BY EditStepTypes, QuietFlies DEF EditStep
<1>4. AskStep \/ SaveStep \/ (SaveFirst /\ "configuration" \notin scopes) \/ Discard \/ Reload
        => Flying'
  BY ReplacesFlies
<1>5. ClosesClean \/ FadeOut \/ CancelRequest \/ CancelSave \/ UNCHANGED vars => Flying'
  BY <1>0, QuietFlies DEF ClosesClean, FadeOut, CancelRequest, CancelSave, vars
<1>6. Analyze => Flying'
  BY AnalyzeFlies
<1>7. ReadFile \/ RunAnalysis => Flying'
  BY ReadFileEffect, RunAnalysisEffect, WorkFlies
<1>8. ApplyLoaded \/ ApplyFileError \/ ApplyError \/ ApplyResult => Flying'
  BY DeliverFlies
<1>9. (\E path \in Paths : OtherWrites(path)) => Flying'
  BY <1>0, QuietFlies DEF OtherWrites
<1>10. Flying'
  BY <1>3, <1>4, <1>5, <1>6, <1>7, <1>8, <1>9, NextCases
<1> QED
  BY <1>1, <1>2, <1>10

LEMMA CoreHolds == Spec => []Core
BY InitCore, CoreNext, PTL DEF Spec

(* Every variable of the controller keeps its type, and an answered dialog  *)
(* or a running load always has what it is about.                           *)
THEOREM WorkspaceTypes == Spec => []TypeOK
<1>1. Core => TypeOK
  BY DEF Core, Typed
<1> QED
  BY <1>1, CoreHolds, PTL

(* _apply_result and every edit, load and history entry in between: the     *)
(* result and the active entry that are shown are of the document as it is. *)
THEOREM ResultsAreCurrent == Spec => []ResultsBelong
<1>1. Core => ResultsBelong
  BY DEF Core, Belongs, ResultsBelong
<1> QED
  BY <1>1, CoreHolds, PTL

\* A set without two different members has at most one.
LEMMA AtMostOne ==
    ASSUME NEW S, \A x, y \in S : x = y
    PROVE  IsFiniteSet(S) /\ Cardinality(S) \in {0, 1}
<1>1. CASE S = {}
  BY <1>1, FS_EmptySet
<1>2. CASE S # {}
  <2>1. PICK x \in S : TRUE
    BY <1>2
  <2>2. S = {x}
    BY <2>1
  <2> QED
    BY <2>2, FS_Singleton
<1> QED
  BY <1>1, <1>2

(* analyzeConfig and the handlers of its signals: there is never a second   *)
(* analysis on its way, and the window is busy as long as there is one.     *)
THEOREM OneAnalysisAtATime == Spec => []OneAnalysis
<1>1. ASSUME Core
      PROVE  OneAnalysis
  <2>0. /\ signals \in Seq(Signals) /\ tasks \in Seq(Tasks) /\ Orderly(Flight, worker, doc)
        /\ Len(signals) \in Nat /\ Len(tasks) \in Nat
        /\ Len(Flight) = Len(signals) + Len(tasks)
    BY <1>1, FlightTypes, FlightParts DEF Core, Typed, Flying, Flight
  <2>1. \A i \in Results : i \in 1..Len(Flight) /\ IsAnalysis(Flight[i])
    <3> TAKE i \in Results
    <3>1. i \in 1..Len(signals) /\ i \in 1..Len(signals) + Len(tasks)
      BY <2>0 DEF Results
    <3>2. Flight[i] = signals[i]
      BY <2>0, <3>1, FlightParts DEF Flight
    <3> QED
      BY <2>0, <3>1, <3>2 DEF Results, IsAnalysis
  <2>2. \A i \in Analyses :
          Len(signals) + i \in 1..Len(Flight) /\ IsAnalysis(Flight[Len(signals) + i])
    <3> TAKE i \in Analyses
    <3>1. i \in 1..Len(tasks) /\ Len(signals) + i \in 1..Len(signals) + Len(tasks)
      BY <2>0 DEF Analyses
    <3>2. Flight[Len(signals) + i] = tasks[i]
      BY <2>0, <3>1, FlightParts DEF Flight
    <3> QED
      BY <2>0, <3>1, <3>2 DEF Analyses, IsAnalysis
  <2>3. \A i, j \in Results : i = j
    BY <2>0, <2>1 DEF Orderly
  <2>4. \A i, j \in Analyses : i = j
    <3> TAKE i, j \in Analyses
    <3>1. Len(signals) + i = Len(signals) + j
      BY <2>0, <2>2 DEF Orderly
    <3> QED
      BY <2>0, <3>1 DEF Analyses
  <2>5. Results = {} \/ Analyses = {}
    <3> SUFFICES ASSUME NEW i \in Results, NEW j \in Analyses PROVE FALSE
      OBVIOUS
    <3>1. i = Len(signals) + j
      BY <2>0, <2>1, <2>2 DEF Orderly
    <3> QED
      BY <2>0, <3>1 DEF Results, Analyses
  <2>6. Cardinality(Analyses) + Cardinality(Results) <= 1
    <3>1. Cardinality(Analyses) \in {0, 1} /\ Cardinality(Results) \in {0, 1}
      BY <2>3, <2>4, AtMostOne
    <3>2. Cardinality(Analyses) = 0 \/ Cardinality(Results) = 0
      BY <2>5, FS_EmptySet
    <3> QED
      BY <3>1, <3>2
  <2>7. Analyses \cup Results # {} => worker.busy
    BY <2>0, <2>1, <2>2 DEF Orderly
  <2> QED
    BY <2>6, <2>7 DEF OneAnalysis
<1> QED
  BY <1>1, CoreHolds, PTL

-----------------------------------------------------------------------------
(* What is on disk *)

\* While the file at path is the version that was read or written, it holds
\* the text that was read or written, unless it was taken for that version.
Matches(files, count, taken, path, version, text) ==
    path # NoPath =>
        /\ version \in 1..count
        /\ files[path].version = version =>
              files[path].text = text \/ [version |-> version, text |-> text] \in taken

OnDisk(files, count, taken, d) == Matches(files, count, taken, d.path, d.identity, d.saved)

Loads(files, count, taken, queue) ==
    \A i \in 1..Len(queue) : queue[i].kind = "loaded" =>
        Matches(files, count, taken, queue[i].path, queue[i].file.version, queue[i].file.text)

Numbered(files, count) == \A path \in Paths : files[path].version <= count

Filed ==
    /\ Numbered(disk, made)
    /\ OnDisk(disk, made, mistaken, doc)
    /\ \A old \in snapshot : OnDisk(disk, made, mistaken, old)
    /\ Loads(disk, made, mistaken, signals)

LEMMA MatchesKept ==
    ASSUME TypeOK, OnlyNewer, Numbered(disk, made), NEW path \in Paths \cup {NoPath},
           NEW version \in Nat, NEW text, Matches(disk, made, mistaken, path, version, text)
    PROVE  Matches(disk', made', mistaken', path, version, text)
<1>1. /\ made \in Nat /\ made' \in Nat /\ made' >= made
      /\ disk \in [Paths -> Files] /\ disk' \in [Paths -> Files]
      /\ mistaken \subseteq mistaken'
  BY DEF TypeOK, OnlyNewer
<1>2. CASE path = NoPath
  BY <1>2 DEF Matches
<1>3. CASE path # NoPath
  <2>1. path \in Paths /\ version \in 1..made /\ version \in 1..made'
    BY <1>1, <1>3 DEF Matches
  <2>2. disk'[path] = disk[path] \/ disk'[path].version # version
    BY <1>1, <2>1 DEF OnlyNewer
  <2> QED
    BY <1>1, <2>1, <2>2 DEF Matches
<1> QED
  BY <1>2, <1>3

LEMMA NumberedKept ==
    ASSUME TypeOK, OnlyNewer, Numbered(disk, made)
    PROVE  Numbered(disk', made')
<1>1. /\ made \in Nat /\ made' \in Nat /\ made' >= made
      /\ \A path \in Paths : disk[path].version \in Nat /\ disk'[path].version \in Nat
  BY DEF TypeOK, OnlyNewer, Files
<1> QED
  BY <1>1 DEF OnlyNewer, Numbered

\* What was on disk stays so when files only get newer.
LEMMA FiledKept ==
    ASSUME TypeOK, OnlyNewer, Filed
    PROVE  /\ Numbered(disk', made')
           /\ OnDisk(disk', made', mistaken', doc)
           /\ \A old \in snapshot : OnDisk(disk', made', mistaken', old)
           /\ Loads(disk', made', mistaken', signals)
<1>1. Numbered(disk, made)
  BY DEF Filed
<1>2. Numbered(disk', made')
  BY <1>1, NumberedKept
<1>3. OnDisk(disk', made', mistaken', doc)
  <2>1. doc.path \in Paths \cup {NoPath} /\ doc.identity \in Nat
    BY DEF TypeOK, Document
  <2> QED
    BY <1>1, <2>1, MatchesKept DEF Filed, OnDisk
<1>4. ASSUME NEW old \in snapshot
      PROVE  OnDisk(disk', made', mistaken', old)
  <2>1. old.path \in Paths \cup {NoPath} /\ old.identity \in Nat
    BY DEF TypeOK, Replaced
  <2> QED
    BY <1>1, <2>1, MatchesKept DEF Filed, OnDisk
<1>5. ASSUME NEW i \in 1..Len(signals), signals[i].kind = "loaded"
      PROVE  Matches(disk', made', mistaken', signals[i].path, signals[i].file.version, signals[i].file.text)
  <2>1. signals[i] \in Signals
    BY ElementOfSeq DEF TypeOK
  <2>2. signals[i].path \in Paths \cup {NoPath} /\ signals[i].file.version \in Nat
    BY <1>5, <2>1 DEF Signals, Files
  <2> QED
    BY <1>1, <1>5, <2>2, MatchesKept DEF Filed, Loads
<1> QED
  BY <1>2, <1>3, <1>4, <1>5 DEF Loads

LEMMA SameFileOnDisk ==
    ASSUME NEW files, NEW count, NEW taken, NEW a, NEW b, SameFile(a, b), OnDisk(files, count, taken, b)
    PROVE  OnDisk(files, count, taken, a)
BY DEF SameFile, OnDisk

LEMMA KeepsFileOnDisk ==
    ASSUME NEW files, NEW count, NEW taken, NEW a, NEW b, KeepsFile(b, a), OnDisk(files, count, taken, b)
    PROVE  OnDisk(files, count, taken, a)
BY DEF KeepsFile, OnDisk, Matches

\* The document is replaced from d, a document that is on disk.
LEMMA SettledFiled ==
    ASSUME TypeOK, OnlyNewer, Filed, signals' = signals, NEW d, OnDisk(disk', made', mistaken', d), FileFrom(d),
           \A old \in snapshot' : old \in snapshot \/ SameFile(old, d)
    PROVE  Filed'
<1>1. OnDisk(disk', made', mistaken', doc')
  BY FiledKept, SameFileOnDisk, KeepsFileOnDisk DEF FileFrom
<1>2. \A old \in snapshot' : OnDisk(disk', made', mistaken', old)
  BY FiledKept, SameFileOnDisk
<1> QED
  BY <1>1, <1>2, FiledKept DEF Filed

\* Nothing but the files, and a document that keeps its file, changes.
LEMMA QuietFiled ==
    ASSUME TypeOK, OnlyNewer, Filed, UNCHANGED <<signals, snapshot>>, SameFile(doc', doc)
    PROVE  Filed'
BY FiledKept, SameFileOnDisk DEF Filed

LEMMA SaveStepFiled ==
    ASSUME Typed, Filed, SaveStep
    PROVE  Filed'
<1> USE DEF Typed
<1>0. doc \in Document /\ made \in Nat
  BY DEF TypeOK
<1>1. PICK open : SaveEffects(open)
  BY DEF SaveStep
<1>2. signals' = signals /\ OnlyNewer
  BY <1>1 DEF SaveStep, SaveEffects
<1>3. CASE UNCHANGED held
  BY <1>2, <1>3, QuietFiled DEF held, SameFile
<1>4. ASSUME NEW path \in Paths, TakenFor(path, doc.text),
             Settled(SavedAs(doc, path, made'))
      PROVE  Filed'
  <2> DEFINE d == SavedAs(doc, path, made')
  <2>0. made' \in Nat
    BY <1>2 DEF OnlyNewer
  <2>1. d \in Document /\ d.path = path /\ d.identity = made' /\ d.saved = doc.text
    BY <1>0, <2>0, SavedAsEvolves DEF Evolves
  <2> HIDE DEF d
  <2>2. /\ FileFrom(d)
        /\ \A old \in snapshot' : old \in snapshot \/ SameFile(old, d)
    BY <1>4, <2>1, SettledEffect DEF d
  <2>3. OnDisk(disk', made', mistaken', d)
    BY <1>0, <1>4, <2>0, <2>1 DEF OnDisk, Matches, TakenFor
  <2> QED
    BY <1>2, <2>2, <2>3, SettledFiled
<1> QED
  BY <1>1, <1>3, <1>4 DEF SaveEffects

LEMMA DiskStays ==
    ASSUME TypeOK, UNCHANGED <<disk, mistaken, made>>
    PROVE  OnlyNewer
BY DEF TypeOK, OnlyNewer

LEMMA ReplacesFiled ==
    ASSUME Typed, Filed
    PROVE  /\ AskStep => Filed'
           /\ SaveFirst /\ "configuration" \notin scopes => Filed'
           /\ Discard \/ Reload => Filed'
<1> USE DEF Typed
<1>0. doc \in Document
  BY DEF TypeOK
<1>1. ASSUME UNCHANGED <<disk, mistaken, made, signals>>, FileFrom(doc),
             \A old \in snapshot' : old \in snapshot \/ SameFile(old, doc)
      PROVE  Filed'
  <2>1. OnlyNewer
    BY <1>1, DiskStays
  <2>2. OnDisk(disk', made', mistaken', doc)
    BY <2>1, FiledKept
  <2> QED
    BY <1>1, <2>1, <2>2, SettledFiled
<1>2. ASSUME AskStep
      PROVE  Filed'
  <2>1. PICK request \in Requests : Names(request) /\ RequestAction(request)
    BY <1>2 DEF AskStep
  <2>2. UNCHANGED <<disk, mistaken, made, signals>>
    BY <2>1, RequestEffect
  <2>3. CASE UNCHANGED <<doc, worker, tasks, snapshot, window>>
    BY <2>2, <2>3, DiskStays, QuietFiled DEF SameFile
  <2>4. CASE Finish(doc, request)
    BY <1>0, <1>1, <2>1, <2>2, <2>4, FinishEffect
  <2> QED
    BY <2>1, <2>3, <2>4, RequestEffect
<1>3. ASSUME SaveFirst, "configuration" \notin scopes
      PROVE  Filed'
  <2>1. Settled(doc) /\ UNCHANGED <<disk, mistaken, made, signals>>
    BY <1>3, NextEffect DEF SaveFirst
  <2> QED
    BY <1>0, <1>1, <2>1, SettledEffect
<1>4. ASSUME Discard
      PROVE  Filed'
  <2>1. Settled(doc) /\ UNCHANGED <<disk, mistaken, made, signals>>
    BY <1>4 DEF Discard, Settled
  <2> QED
    BY <1>0, <1>1, <2>1, SettledEffect
<1>5. ASSUME Reload
      PROVE  Filed'
  <2>1. StartLoad(doc, conflict.path) /\ UNCHANGED <<disk, mistaken, made, signals, snapshot>>
    BY <1>5 DEF Reload
  <2>2. SameFile(doc', doc)
    BY <1>0, <2>1 DEF StartLoad, Document, SameFile
  <2> QED
    BY <2>1, <2>2, DiskStays, QuietFiled
<1> QED
  BY <1>2, <1>3, <1>4, <1>5

LEMMA WorkFiled ==
    ASSUME Typed, Filed, ReadFile \/ RunAnalysis
    PROVE  Filed'
<1> USE DEF Typed
<1>1. PICK y \in Signals :
        /\ signals' = Append(signals, y)
        /\ y.kind = "loaded" =>
              y.path \in Paths /\ y.file = disk[y.path] /\ y.file.version # 0
  BY ReadFileEffect, RunAnalysisEffect
<1>2. UNCHANGED <<doc, disk, snapshot, mistaken, made>>
  BY ReadFileEffect, RunAnalysisEffect DEF TakesTask
<1>3. y.kind = "loaded" => Matches(disk, made, mistaken, y.path, y.file.version, y.file.text)
  <2>1. made \in Nat /\ disk \in [Paths -> Files]
    BY DEF TypeOK
  <2>2. y.kind = "loaded" => y.file.version \in Nat /\ y.file.version <= made
    BY <1>1, <2>1 DEF Files, Filed, Numbered
  <2> QED
    BY <1>1, <2>1, <2>2 DEF Matches
<1>4. /\ Len(signals) \in Nat /\ Len(signals') = Len(signals) + 1 /\ signals'[Len(signals) + 1] = y
      /\ \A i \in 1..Len(signals) : signals'[i] = signals[i]
  BY <1>1, FlightTypes, AppendProperties, LenProperties
<1>5. Loads(disk, made, mistaken, signals')
  BY <1>3, <1>4 DEF Loads, Filed
<1> QED
  BY <1>2, <1>5 DEF Filed

LEMMA ReceivesFiled ==
    ASSUME Typed, Filed, NEW kind, Receives(kind)
    PROVE  /\ SameFile(doc', doc) => Filed'
           /\ doc' = Loaded(doc, Head(signals).path, Head(signals).file)
                /\ Head(signals).kind = "loaded" /\ Head(signals).path \in Paths
                /\ Head(signals).file \in Files => Filed'
<1> USE DEF Typed
<1>1. /\ signals # <<>> /\ signals' = Tail(signals)
      /\ disk' = disk /\ made' = made /\ mistaken' = mistaken /\ snapshot' = snapshot
  BY DEF Receives
<1>2. /\ Len(signals) \in Nat /\ Len(signals') = Len(signals) - 1 /\ signals # <<>> /\ Len(signals) > 0
      /\ \A i \in 1..Len(signals') : signals'[i] = signals[i + 1]
      /\ Head(signals) = signals[1]
  BY <1>1, FlightTypes, HeadTailProperties, LenProperties, EmptySeq
<1>3. Loads(disk, made, mistaken, signals')
  <2>1. \A i \in 1..Len(signals') : i + 1 \in 1..Len(signals)
    BY <1>2
  <2> QED
    BY <1>2, <2>1 DEF Filed, Loads
<1>4. ASSUME SameFile(doc', doc)
      PROVE  Filed'
  BY <1>1, <1>3, <1>4, SameFileOnDisk DEF Filed
<1>5. ASSUME doc' = Loaded(doc, Head(signals).path, Head(signals).file),
             Head(signals).kind = "loaded", Head(signals).path \in Paths, Head(signals).file \in Files
      PROVE  Filed'
  <2>1. Matches(disk, made, mistaken, Head(signals).path, Head(signals).file.version, Head(signals).file.text)
    <3>1. 1 \in 1..Len(signals)
      BY <1>2
    <3> QED
      BY <1>2, <1>5, <3>1 DEF Filed, Loads
  <2>2. /\ doc'.path = Head(signals).path /\ doc'.saved = Head(signals).file.text
        /\ doc'.identity = Head(signals).file.version
    BY <1>5, FlightTypes, LoadedEvolves
  <2>3. OnDisk(disk, made, mistaken, doc')
    BY <2>1, <2>2 DEF OnDisk
  <2> QED
    BY <1>1, <1>3, <2>3 DEF Filed
<1> QED
  BY <1>4, <1>5

LEMMA InitFiled == Init => Filed
<1> SUFFICES ASSUME Init PROVE Filed
  OBVIOUS
<1>1. Numbered(disk, made)
  <2>1. \A path \in Paths : disk[path] \in {NoFile} \cup [version: {1}, text: Texts]
    BY DEF Init
  <2>2. NoFile.version = 0 /\ \A file \in [version: {1}, text: Texts] : file.version = 1
    BY DEF NoFile
  <2> QED
    BY <2>1, <2>2 DEF Init, Numbered
<1>2. doc.path = NoPath /\ snapshot = {} /\ Len(signals) = 0
  BY DEF Init
<1> QED
  BY <1>1, <1>2 DEF Filed, OnDisk, Matches, Loads

LEMMA FiledNext == Core /\ Filed /\ [Next]_vars => Filed'
<1> SUFFICES ASSUME Core, Filed, [Next]_vars PROVE Filed'
  OBVIOUS
<1> USE DEF Core, Typed
<1>1. UNCHANGED <<disk, mistaken, made, signals, snapshot>> /\ SameFile(doc', doc) => Filed'
  BY DiskStays, QuietFiled
<1>2. EditStep \/ Analyze => Filed'
  BY <1>1, AnalyzeTypes DEF EditStep, Analyze, SameFile
<1>3. ClosesClean \/ FadeOut \/ CancelRequest \/ CancelSave \/ UNCHANGED vars => Filed'
  BY <1>1 DEF ClosesClean, FadeOut, bounds, CancelRequest, CancelSave, vars, SameFile
<1>4. SaveStep => Filed'
  BY SaveStepFiled
<1>5. AskStep \/ (SaveFirst /\ "configuration" \notin scopes) \/ Discard \/ Reload => Filed'
  BY ReplacesFiled
<1>6. ReadFile \/ RunAnalysis => Filed'
  BY WorkFiled
<1>7. ApplyLoaded => Filed'
  <2>1. ApplyLoaded => SameFile(doc', doc) \/ doc' = Loaded(doc, Head(signals).path, Head(signals).file)
    BY ApplyLoadedEffect DEF SameFile
  <2> QED
    BY <2>1, ApplyLoadedEffect, ReceivesFiled
<1>8. ApplyFileError \/ ApplyError \/ ApplyResult => Filed'
  <2>1. ApplyFileError \/ Ends \/ Shows => SameFile(doc', doc)
    BY ApplyFileErrorEffect DEF Ends, Shows, SameSource, SameFile
  <2> QED
    BY <2>1, ApplyFileErrorEffect, ApplyErrorEffect, ApplyResultEffect, ReceivesFiled
<1>9. (\E path \in Paths : OtherWrites(path)) => Filed'
  <2> SUFFICES ASSUME NEW path \in Paths, OtherWrites(path) PROVE Filed'
    OBVIOUS
  <2>1. OnlyNewer
    BY OtherTypes
  <2>2. UNCHANGED <<signals, snapshot>> /\ SameFile(doc', doc)
    BY DEF OtherWrites, SameFile
  <2> QED
    BY <2>1, <2>2, QuietFiled
<1> QED
  BY <1>2, <1>3, <1>4, <1>5, <1>6, <1>7, <1>8, <1>9, NextCases

LEMMA FiledHolds == Spec => [](Core /\ Filed)
BY InitCore, InitFiled, CoreNext, FiledNext, PTL DEF Spec

(* The version a document was loaded from or saved as stays with what it    *)
(* saved, through samples, cleared and reopened documents and undone ones:  *)
(* a clean document is what its file holds until someone else changes that, *)
(* unless that happened before the save had read the identity of its file.  *)
THEOREM CleanIsOnDisk == Spec => []SavedOnDisk
<1>1. Filed => SavedOnDisk
  BY DEF Filed, OnDisk, Matches, SavedOnDisk, Dirty, Mistaken
<1> QED
  BY <1>1, FiledHolds, PTL

-----------------------------------------------------------------------------
(* What the user was asked *)

\* Changes that a question is open about are in its scopes; changes that a
\* load under way will replace were given up.
Asked ==
    /\ "unsaved" \in dialogs =>
          ("configuration" \in scopes \/ ~Dirty(doc)) /\ "saveas" \notin dialogs
    /\ worker.loading => pending.action \in {"none", "close"}
    /\ worker.loading /\ doc.revision = worker.loadRevision =>
          ~Dirty(doc) \/ "configuration" \in agreed

LEMMA InitAsked == Init => Asked
BY DEF Init, Asked

\* A load is started for a document that keeps its text until it is read.
LEMMA StartedDirty ==
    ASSUME NEW d \in Document, Started(d)
    PROVE  Dirty(doc') => Dirty(d)
BY DEF Started, StartLoad, Document, Dirty

\* A request settled over a document that is clean or that was given up.
LEMMA SettledAsked ==
    ASSUME Typed, Asked, NEW d \in Document, Settled(d), "unsaved" \notin dialogs',
           ~Dirty(d) \/ "configuration" \in agreed'
    PROVE  Asked'
<1> USE DEF Typed
<1>1. /\ pending' = NoRequest \/ (pending' = pending /\ worker' = worker)
      /\ Moved(d) \/ Started(d)
      /\ pending.action \in {"none", "close"} => doc' = d
  BY SettledEffect
<1>2. worker'.loading => pending'.action \in {"none", "close"}
  BY <1>1 DEF NoRequest, Ask, Asked
<1>3. worker'.loading => ~Dirty(doc') \/ "configuration" \in agreed'
  <2>1. CASE Started(d)
    BY <2>1, StartedDirty
  <2>2. CASE Moved(d)
    BY <1>1, <2>2 DEF Moved, Asked
  <2> QED
    BY <1>1, <2>1, <2>2
<1> QED
  BY <1>2, <1>3 DEF Asked

\* Nothing is asked or answered; the text stays what it is.
LEMMA QuietAsked ==
    ASSUME Core, Asked, UNCHANGED <<pending, scopes, dialogs, agreed>>,
           Typed', Evolves(doc, doc'), SameSource(doc, doc'),
           worker'.loading => worker.loading /\ worker'.loadRevision = worker.loadRevision
    PROVE  Asked'
<1>1. /\ doc.revision \in Nat /\ doc'.revision \in Nat /\ worker.loadRevision \in Int
      /\ worker.loadRevision <= doc.revision
  BY DEF Core, Typed, TypeOK, Flying, Orderly, Evolves, Document
<1>2. Dirty(doc') = Dirty(doc)
  BY DEF SameSource, Dirty
<1>3. worker'.loading /\ doc'.revision = worker'.loadRevision =>
        worker.loading /\ doc.revision = worker.loadRevision
  BY <1>1 DEF Evolves
<1> QED
  BY <1>2, <1>3 DEF Asked

LEMMA SaveStepAsked ==
    ASSUME Core, Asked, SaveStep
    PROVE  Asked'
<1> USE DEF Core, Typed
<1>0. doc \in Document /\ made \in Nat
  BY DEF TypeOK
<1>1. PICK open : SaveEffects(open) /\ "unsaved" \notin open
  BY DEF SaveStep, Asked
<1>2. "unsaved" \notin dialogs'
  BY <1>1 DEF SaveEffects
<1>3. CASE UNCHANGED held
  BY <1>2, <1>3 DEF held, SaveStep, Asked
<1>4. ASSUME NEW path \in Paths, Settled(SavedAs(doc, path, made'))
      PROVE  Asked'
  <2> DEFINE d == SavedAs(doc, path, made')
  <2>0. made' \in Nat
    BY <1>1 DEF SaveEffects, OnlyNewer
  <2>1. d \in Document /\ ~Dirty(d)
    BY <1>0, <2>0, SavedAsEvolves DEF Evolves
  <2> HIDE DEF d
  <2> QED
    BY <1>2, <1>4, <2>1, SettledAsked DEF d
<1> QED
  BY <1>1, <1>3, <1>4 DEF SaveEffects

LEMMA AskStepAsked ==
    ASSUME Core, Asked, AskStep
    PROVE  Asked'
<1> USE DEF Core, Typed
<1>0. doc \in Document /\ (worker.loading => worker.busy)
  BY DEF TypeOK
<1>1. PICK request \in Requests :
        /\ Names(request) /\ RequestAction(request)
        /\ \/ ~worker.busy /\ dialogs = {}
           \/ request.action = "close" /\ ToSave(request) # {} /\ "saveas" \notin dialogs
  BY DEF AskStep
<1>2. ToSave(request) = {} => ~Dirty(doc)
  BY DEF ToSave
<1>3. "configuration" \in ToSave(request) \/ ~Dirty(doc)
  BY DEF ToSave
<1>4. agreed' = IF worker.loading THEN agreed ELSE {}
  BY <1>1, RequestEffect
<1>5. CASE /\ pending' = request /\ scopes' = ToSave(request)
           /\ dialogs' = dialogs \cup {"unsaved"}
           /\ UNCHANGED <<doc, worker, tasks, snapshot, window>>
  <2>1. "saveas" \notin dialogs' /\ (worker.loading => request.action = "close")
    BY <1>0, <1>1, <1>5
  <2> QED
    BY <1>3, <1>4, <1>5, <2>1 DEF Asked
<1>6. CASE ToSave(request) = {} /\ Finish(doc, request) /\ dialogs' = dialogs
  <2>1. pending' = NoRequest /\ (Moved(doc) \/ Started(doc))
    BY <1>0, <1>1, <1>6, FinishEffect
  <2>2. dialogs' = {} /\ ~worker.loading
    BY <1>0, <1>1, <1>6
  <2>3. worker'.loading => ~Dirty(doc')
    BY <1>0, <1>2, <1>6, <2>1, <2>2, StartedDirty DEF Moved
  <2> QED
    BY <2>1, <2>2, <2>3 DEF NoRequest, Ask, Asked
<1> QED
  BY <1>1, <1>5, <1>6, RequestEffect

LEMMA AnswersAsked ==
    ASSUME Core, Asked
    PROVE  /\ SaveFirst /\ "configuration" \notin scopes => Asked'
           /\ Discard \/ Reload => Asked'
           /\ CancelRequest \/ CancelSave => Asked'
<1> USE DEF Core, Typed
<1>0. doc \in Document
  BY DEF TypeOK
<1>1. ASSUME SaveFirst, "configuration" \notin scopes
      PROVE  Asked'
  <2>1. Settled(doc) /\ "unsaved" \in dialogs /\ dialogs' = dialogs \ {"unsaved"}
    BY <1>1, NextEffect DEF SaveFirst, UserActs
  <2>2. ~Dirty(doc)
    BY <1>1, <2>1 DEF Asked
  <2> QED
    BY <1>0, <2>1, <2>2, SettledAsked
<1>2. ASSUME Discard
      PROVE  Asked'
  <2>1. /\ Settled(doc) /\ "unsaved" \in dialogs /\ dialogs' = dialogs \ {"unsaved"}
        /\ agreed' = scopes
    BY <1>2 DEF Discard, Settled, UserActs
  <2>2. ~Dirty(doc) \/ "configuration" \in agreed'
    BY <2>1 DEF Asked
  <2> QED
    BY <1>0, <2>1, <2>2, SettledAsked
<1>3. Reload => Asked'
  BY DEF Reload, Forget, NoRequest, Ask, Asked
<1>4. ASSUME CancelRequest
      PROVE  Asked'
  <2>1. "unsaved" \notin dialogs'
    BY <1>4 DEF CancelRequest, UserActs, Asked
  <2> QED
    BY <1>4, <2>1 DEF CancelRequest, Forget, NoRequest, Ask, Asked
<1>5. CancelSave => Asked'
  BY DEF CancelSave, Forget, NoRequest, Ask, Asked
<1> QED
  BY <1>1, <1>2, <1>3, <1>4, <1>5

LEMMA EditStepAsked ==
    ASSUME Core, Asked, EditStep
    PROVE  Asked'
<1> USE DEF Core, Typed
<1>1. /\ doc.revision \in Nat /\ doc'.revision \in Nat /\ worker.loadRevision \in Int
      /\ worker.loadRevision <= doc.revision
  BY DEF TypeOK, Flying, Orderly, EditStep, Evolves, Document
<1>2. worker'.loading = worker.loading /\ worker'.loadRevision = worker.loadRevision
  BY EditStepTypes DEF SameRuns
<1>3. doc'.revision = worker.loadRevision =>
        /\ doc.revision = worker.loadRevision /\ Dirty(doc') = Dirty(doc)
        /\ "configuration" \in agreed => "configuration" \in agreed'
  <2> SUFFICES ASSUME doc'.revision = worker.loadRevision
               PROVE  /\ doc.revision = worker.loadRevision /\ Dirty(doc') = Dirty(doc)
                      /\ "configuration" \in agreed => "configuration" \in agreed'
    OBVIOUS
  <2>1. ~(doc'.revision > doc.revision)
    BY <1>1
  <2>2. doc'.revision = doc.revision /\ Input(doc') = Input(doc)
    BY <2>1 DEF EditStep, Evolves
  <2>3. doc'.text = doc.text /\ doc'.saved = doc.saved
    BY <2>2 DEF Input, EditStep
  <2> QED
    BY <2>1, <2>2, <2>3 DEF EditStep, Dirty
<1> QED
  BY <1>2, <1>3 DEF EditStep, Asked

LEMMA AskedNext == Core /\ Asked /\ [Next]_vars => Asked'
<1> SUFFICES ASSUME Core, Asked, [Next]_vars PROVE Asked'
  OBVIOUS
<1> USE DEF Core, Typed
<1>0. doc \in Document /\ Evolves(doc, doc) /\ SameSource(doc, doc)
  BY EvolvesSelf DEF TypeOK, SameSource
<1>1. Typed'
  BY NextEvolves
<1>2. EditStep => Asked'
  BY EditStepAsked
<1>3. AskStep \/ SaveStep => Asked'
  BY AskStepAsked, SaveStepAsked
<1>4. (SaveFirst /\ "configuration" \notin scopes) \/ Discard \/ Reload
        \/ CancelRequest \/ CancelSave => Asked'
  BY AnswersAsked
<1>5. ClosesClean \/ FadeOut \/ UNCHANGED vars => Asked'
  BY <1>0, <1>1, QuietAsked DEF ClosesClean, FadeOut, vars
<1>6. Analyze => Asked'
  <2>1. Analyze => UNCHANGED <<pending, scopes, dialogs, agreed>>
    BY DEF Analyze
  <2>2. Analyze => Evolves(doc, doc') /\ SameSource(doc, doc')
                   /\ worker'.loading = worker.loading /\ worker'.loadRevision = worker.loadRevision
    BY AnalyzeTypes DEF Input, SameSource
  <2> QED
    BY <1>1, <2>1, <2>2, QuietAsked
<1>7. ReadFile \/ RunAnalysis => Asked'
  <2>1. ReadFile \/ RunAnalysis => UNCHANGED <<doc, worker, pending, scopes, dialogs, agreed>>
    BY ReadFileEffect, RunAnalysisEffect DEF TakesTask
  <2> QED
    BY <1>0, <1>1, <2>1, QuietAsked
<1>8. (\E path \in Paths : OtherWrites(path)) => Asked'
  BY <1>0, <1>1, QuietAsked DEF OtherWrites
<1>9. ASSUME ApplyLoaded
      PROVE  Asked'
  <2>1. UNCHANGED <<pending, scopes, dialogs, agreed>>
    BY <1>9, ApplyLoadedEffect DEF Receives
  <2>2. CASE doc' = doc /\ worker' = worker
    BY <1>0, <1>1, <2>1, <2>2, QuietAsked
  <2>3. CASE /\ ~worker'.loading
             /\ doc' = doc \/ doc' = Loaded(doc, Head(signals).path, Head(signals).file)
    <3>1. Dirty(doc') => Dirty(doc)
      BY <1>0, <1>9, <2>3, ApplyLoadedEffect, LoadedEvolves
    <3> QED
      BY <2>1, <2>3, <3>1 DEF Asked
  <2> QED
    BY <1>9, <2>2, <2>3, ApplyLoadedEffect
<1>10. ASSUME ApplyFileError
       PROVE  Asked'
  <2>1. UNCHANGED <<doc, pending, scopes, dialogs, agreed>>
    BY <1>10, ApplyFileErrorEffect DEF Receives
  <2>2. worker'.loading => worker.loading /\ worker'.loadRevision = worker.loadRevision
    BY <1>10, ApplyFileErrorEffect
  <2> QED
    BY <1>0, <1>1, <2>1, <2>2, QuietAsked
<1>11. ASSUME NEW kind, Receives(kind), Ends
       PROVE  Asked'
  <2>1. UNCHANGED <<pending, scopes, dialogs, agreed>>
    BY <1>11 DEF Receives
  <2>2. worker'.loading => worker.loading /\ worker'.loadRevision = worker.loadRevision
    BY <1>11, IdlesTypes DEF Ends, SameRuns
  <2> QED
    BY <1>1, <1>11, <2>1, <2>2, QuietAsked DEF Ends
<1>12. ASSUME NEW kind, Receives(kind), Shows
       PROVE  Asked'
  <2>1. UNCHANGED <<pending, scopes, dialogs, agreed>>
    BY <1>12 DEF Receives
  <2>2. ~worker'.loading /\ Dirty(doc') = Dirty(doc)
    BY <1>12, IdlesTypes DEF Shows, SameSource, Dirty
  <2> QED
    BY <2>1, <2>2 DEF Asked
<1>13. ApplyError \/ ApplyResult => Asked'
  BY <1>11, <1>12, ApplyErrorEffect, ApplyResultEffect
<1> QED
  BY <1>2, <1>3, <1>4, <1>5, <1>6, <1>7, <1>8, <1>9, <1>10, <1>13, NextCases

LEMMA AskedHolds == Spec => [](Core /\ Asked)
BY InitCore, InitAsked, CoreNext, AskedNext, PTL DEF Spec

\* Changes that a step takes out of the editor.
Kept ==
    Dirty(doc) /\ (doc'.text # doc.text \/ window' # window) =>
        \/ EditSource(doc'.text)
        \/ "configuration" \in agreed'
        \/ SavesChanges
        \/ FadeOut

LEMMA NextKeepsText == Core /\ Asked /\ [Next]_vars => Kept
<1> SUFFICES ASSUME Core, Asked, [Next]_vars PROVE Kept
  OBVIOUS
<1> USE DEF Core, Typed
<1>0. doc \in Document /\ made \in Nat
  BY DEF TypeOK
<1>1. doc'.text = doc.text /\ window' = window => Kept
  BY DEF Kept
<1>2. EditStep => Kept
  BY DEF EditStep, Kept
<1>3. ASSUME AskStep
      PROVE  Kept
  <2>1. PICK request \in Requests : Names(request) /\ RequestAction(request)
    BY <1>3 DEF AskStep
  <2>2. ToSave(request) = {} => ~Dirty(doc)
    BY DEF ToSave
  <2> QED
    BY <1>1, <2>1, <2>2, RequestEffect DEF Kept
<1>4. ASSUME SaveStep
      PROVE  Kept
  <2>1. PICK open : SaveEffects(open)
    BY <1>4 DEF SaveStep
  <2>2. CASE UNCHANGED held
    BY <1>1, <2>2 DEF held
  <2>3. ASSUME NEW path \in Paths, TakenFor(path, doc.text)
        PROVE  Kept
    <3>1. SavesChanges
      BY <2>3 DEF TakenFor, SavesChanges
    <3> QED
      BY <3>1 DEF Kept
  <2> QED
    BY <2>1, <2>2, <2>3 DEF SaveEffects
<1>5. SaveFirst /\ "configuration" \notin scopes => Kept
  BY DEF SaveFirst, UserActs, Asked, Kept
<1>6. Discard \/ Reload => Kept
  BY DEF Discard, Reload, UserActs, Asked, Kept
<1>7. ClosesClean \/ CancelRequest \/ CancelSave \/ UNCHANGED vars => Kept
  BY <1>1 DEF ClosesClean, CancelRequest, CancelSave, vars, Kept
<1>8. FadeOut \/ (\E path \in Paths : OtherWrites(path)) => Kept
  BY <1>1 DEF FadeOut, OtherWrites, Kept
<1>9. Analyze => Kept
  <2>1. Analyze => doc'.text = doc.text
    BY AnalyzeTypes DEF Input
  <2>2. Analyze => window' = window
    BY DEF Analyze
  <2> QED
    BY <1>1, <2>1, <2>2
<1>10. ReadFile \/ RunAnalysis => Kept
  BY <1>1, ReadFileEffect, RunAnalysisEffect DEF TakesTask
<1>11. ASSUME ApplyLoaded
       PROVE  Kept
  <2>1. window' = window /\ agreed' = agreed /\ Receives("loaded")
    BY <1>11, ApplyLoadedEffect DEF Receives
  <2>2. CASE doc' = doc
    BY <1>1, <2>1, <2>2
  <2>3. CASE Latest(Head(signals), worker) /\ doc.revision = worker.loadRevision
    <3>1. worker.loading
      <4>1. 1 \in 1..Len(Flight) /\ Flight[1] = Head(signals)
        BY <2>1, ReceivesFlight
      <4> QED
        BY <2>3, <4>1 DEF Flying, Orderly
    <3> QED
      BY <2>1, <2>3, <3>1 DEF Asked, Kept
  <2> QED
    BY <1>11, <2>2, <2>3, ApplyLoadedEffect
<1>12. ApplyFileError \/ ApplyError \/ ApplyResult => Kept
  <2>1. ASSUME NEW kind, Receives(kind), doc' = doc \/ Ends \/ Shows
        PROVE  Kept
    <3>1. window' = window /\ doc'.text = doc.text
      BY <2>1 DEF Receives, Ends, Shows, SameSource
    <3> QED
      BY <1>1, <3>1
  <2> QED
    BY <2>1, ApplyFileErrorEffect, ApplyErrorEffect, ApplyResultEffect
<1> QED
  BY <1>2, <1>3, <1>4, <1>5, <1>6, <1>7, <1>8, <1>9, <1>10, <1>11, <1>12, NextCases

(* requestAction, the dialogs and _apply_loaded_input: changes leave the    *)
(* editor by the user's typing, given up, or written to a file in the step  *)
(* that takes them out; but for those typed into a window that fades out.   *)
THEOREM EditsAreKept == Spec => NoEditLost
<1>1. Core /\ Asked /\ [Next]_vars =>
        [Dirty(doc) /\ (doc'.text # doc.text \/ window' # window) =>
            \/ EditSource(doc'.text)
            \/ "configuration" \in agreed'
            \/ SavesChanges
            \/ FadeOut]_vars
  BY NextKeepsText DEF Kept
<1> QED
  BY <1>1, AskedHolds, PTL DEF Spec, NoEditLost
=============================================================================
