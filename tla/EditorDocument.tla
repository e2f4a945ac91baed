--------------------------- MODULE EditorDocument ---------------------------
(***************************************************************************)
(* One configuration editor: the text area of ConfigEditor.qml, which may  *)
(* show one page of a long text, the page table and the undo history that  *)
(* SyntaxHighlighterBridge keeps for it, and the text of the controller    *)
(* that its text property is bound to.                                     *)
(*                                                                         *)
(* A text is a short sequence of symbols; a symbol in Wide takes two       *)
(* UTF-16 units.  Python counts symbols, QML counts units.                 *)
(***************************************************************************)
EXTENDS Integers, Sequences, FiniteSets, SequencesExt

CONSTANTS Symbols, NewLine, Wide,
          None,          \* no page table, no jump
          PageSize,      \* symbols of a page before the search for a line end
          BoundarySearch,\* symbols that are searched for it
          PagedAbove,    \* a longer text is shown in pages
          Documents,     \* texts that are opened, pasted or extracted
          MaxLength,     \* bound: length of a text
          MaxInsert,     \* bound: symbols typed or pasted at once
          MaxInputs      \* bound: inputs of the user and of the controller

ASSUME EditorBounds ==
    /\ NewLine \in Symbols /\ Wide \subseteq Symbols
    /\ PageSize \in Nat \ {0} /\ BoundarySearch \in Nat
    /\ PagedAbove \in Nat /\ MaxLength \in Nat
    /\ Documents \subseteq Seq(Symbols)
    /\ MaxInsert \in Nat /\ MaxInputs \in Nat

Ranges == [start : Nat, end : Nat, line : Nat]
Previews == [text : Seq(Symbols), ranges : Seq(Ranges), lines : Nat, page : Nat]
(* An undo entry: a span that two texts differ in. *)
Spans == [start : Nat, removed : Seq(Symbols), inserted : Seq(Symbols)]
Marks == [at : Int, want : Int] \cup [text : Seq(Symbols)]

ASSUME NoneIsNoRecord == None \notin Previews \cup Spans \cup Marks

TextsUpTo(n) == UNION {[1 .. k -> Symbols] : k \in 0 .. n}

VARIABLES
    editor,    \* the text area and what the bridge keeps for it, see Editor
    rebinds,   \* TRUE: sourceText; FALSE: the local draft, whose setter
               \* does not notify the binding
    source,    \* the text of the controller
    readOnly,  \* editorReadOnly: the extract of a bundle is shown
    mark,      \* what the last jump (its local offset and the global offset
               \* wanted) or the last edit (the text wanted) should have done
    slipped,   \* a key arrived while the area was marked as loading
    inputs

vars == <<editor, rebinds, source, readOnly, mark, slipped, inputs>>

----------------------------------------------------------------------------
(* Texts *)

Units(t) == Len(t) + Cardinality({i \in DOMAIN t : t[i] \in Wide})
Lines(t) == Cardinality({i \in DOMAIN t : t[i] = NewLine})
Part(t, from, to) == SubSeq(t, from + 1, to)
Spliced(t, from, to, s) == Part(t, 0, from) \o s \o Part(t, to, Len(t))
Least(S) == CHOOSE n \in S : \A m \in S : n <= m
Smaller(a, b) == IF a < b THEN a ELSE b

----------------------------------------------------------------------------
(* _TextPreview *)

PageEnd(t, start) ==
    LET end == Smaller(Len(t), start + PageSize)
        breaks == {k \in end + 1 .. Smaller(Len(t), end + BoundarySearch) :
                      t[k] = NewLine}
    IN  IF breaks = {} THEN end ELSE Least(breaks)

(* The pages from a position on. *)
PagesFrom(t) ==
    LET from[start \in 0 .. Len(t)] ==
            IF start = Len(t) THEN <<>>
            ELSE << [start |-> start, end |-> PageEnd(t, start),
                     line |-> 1 + Lines(Part(t, 0, start))] >>
                 \o from[PageEnd(t, start)]
    IN  from

Pages(t) == IF t = <<>> THEN <<[start |-> 0, end |-> 0, line |-> 1]>> ELSE PagesFrom(t)[0]

Created(t) == [text |-> t, ranges |-> Pages(t), lines |-> 1 + Lines(t), page |-> 1]

PageRange(p) == p.ranges[p.page]
Visible(p) == Part(p.text, PageRange(p).start, PageRange(p).end)

(* The last page that does not begin behind the position (bisect_right). *)
PageAt(p, position) ==
    LET begun == Cardinality({k \in DOMAIN p.ranges : p.ranges[k].start <= position})
    IN  IF begun = 0 THEN 1 ELSE begun

(* Mutant: an edit moves the later pages but not the lines they begin in. *)
ReplacedForgetsLines(p, t) ==
    LET r == PageRange(p)
        delta == Len(t) - (r.end - r.start)
        Moved(k) == IF k < p.page THEN p.ranges[k]
                    ELSE [p.ranges[k] EXCEPT !.start = IF k = p.page THEN @ ELSE @ + delta,
                                             !.end = @ + delta]
    IN  [p EXCEPT !.text = Spliced(@, r.start, r.end, t),
                  !.ranges = [k \in DOMAIN @ |-> Moved(k)],
                  !.lines = @ + Lines(t) - Lines(Visible(p))]

(* Mutant: the page is put back where the first page begins. *)
ReplacedInFront(p, t) ==
    [p EXCEPT !.text = t \o Part(@, PageRange(p).end - PageRange(p).start, Len(@)),
              !.ranges = Pages(t \o Part(p.text, PageRange(p).end - PageRange(p).start, Len(p.text))),
              !.page = 1]

Replaced(p, t) ==
    LET r == PageRange(p)
        delta == Len(t) - (r.end - r.start)
        lines == Lines(t) - Lines(Visible(p))
        Moved(k) == IF k < p.page THEN p.ranges[k]
                    ELSE IF k = p.page THEN [r EXCEPT !.end = @ + delta]
                    ELSE [start |-> p.ranges[k].start + delta,
                          end |-> p.ranges[k].end + delta,
                          line |-> p.ranges[k].line + lines]
    IN  [p EXCEPT !.text = Spliced(@, r.start, r.end, t),
                  !.ranges = [k \in DOMAIN @ |-> Moved(k)],
                  !.lines = @ + lines]

----------------------------------------------------------------------------
(* _EditorHistory *)

Fresh(t) == [text |-> t, undo |-> <<>>, redo |-> <<>>, open |-> FALSE]

(* The span in which two texts differ: longest common prefix, then suffix. *)
Difference(before, after, offset) ==
    LET limit == Smaller(Len(before), Len(after))
        start == CHOOSE n \in 0 .. limit :
                    /\ Part(before, 0, n) = Part(after, 0, n)
                    /\ n = limit \/ before[n + 1] # after[n + 1]
        Same(n) == Part(before, Len(before) - n, Len(before))
                       = Part(after, Len(after) - n, Len(after))
        suffix == CHOOSE n \in 0 .. limit - start :
                    /\ Same(n)
                    /\ n = limit - start \/ ~ Same(n + 1)
    IN  [start |-> offset + start,
         removed |-> Part(before, start, Len(before) - suffix),
         inserted |-> Part(after, start, Len(after) - suffix)]

(* Mutant: a key anywhere continues the group of keys. *)
TypesAnywhere(last, edit) ==
    /\ edit.removed = <<>> /\ Len(edit.inserted) = 1 /\ edit.inserted # <<NewLine>>
    /\ last.removed = <<>>

TypesOn(last, edit) ==
    /\ edit.removed = <<>> /\ Len(edit.inserted) = 1 /\ edit.inserted # <<NewLine>>
    /\ last.removed = <<>> /\ last.start + Len(last.inserted) = edit.start

Erases(last, edit) ==
    edit.inserted = <<>> /\ Len(edit.removed) = 1 /\ last.inserted = <<>>

(* The edit as a continuation of the last one, None when it is not. *)
Merged(last, edit) ==
    IF TypesOn(last, edit)
    THEN [last EXCEPT !.inserted = @ \o edit.inserted]
    ELSE IF Erases(last, edit) /\ edit.start + 1 = last.start
    THEN [last EXCEPT !.start = edit.start, !.removed = edit.removed \o @]
    ELSE IF Erases(last, edit) /\ edit.start = last.start
    THEN [last EXCEPT !.removed = @ \o edit.removed]
    ELSE None

Recorded(h, before, after, offset) ==
    IF before = after THEN h
    ELSE LET edit == Difference(before, after, offset)
             merged == IF h.open /\ h.undo # <<>> /\ h.redo = <<>>
                       THEN Merged(Last(h.undo), edit) ELSE None
         IN  [h EXCEPT !.undo = IF merged = None THEN Append(@, edit)
                                ELSE Append(Front(@), merged),
                       !.redo = <<>>,
                       !.open = Len(edit.removed) + Len(edit.inserted) = 1]

Closed(h) == [h EXCEPT !.open = FALSE]

Undone(t, edit) == Spliced(t, edit.start, edit.start + Len(edit.inserted), edit.removed)
Redone(t, edit) == Spliced(t, edit.start, edit.start + Len(edit.removed), edit.inserted)

----------------------------------------------------------------------------
(* The bridge as functions of the editor record:
     shown     editor.text              paged     pagedPreview
     loading   previewLoading           selected  fullDocumentSelected
     preview   its _TextPreview, None   history   its _EditorHistory          *)

Full(e) == IF e.preview # None THEN e.preview.text ELSE e.shown
PageStart(e) == IF e.preview # None THEN PageRange(e.preview).start ELSE 0

Showing(e, p) == [e EXCEPT !.preview = p, !.shown = Visible(p), !.loading = FALSE,
                           !.selected = FALSE, !.history = Closed(@)]

(* commitPreviewText: the text area holds t. *)
Committed(e, t) ==
    LET p == IF e.selected THEN None ELSE e.preview
        previous == IF p # None THEN Visible(p) ELSE e.history.text
        h == Recorded(e.history, previous, t, IF p # None THEN PageStart(e) ELSE 0)
        after == IF p # None THEN Replaced(p, t) ELSE None
    IN  [e EXCEPT !.shown = t, !.selected = FALSE, !.preview = after,
                  !.history = [h EXCEPT !.text = IF p # None THEN after.text ELSE t]]

(* Mutant: a page table that is there is kept, whatever the text. *)
PreparedKeepsPages(e, t) ==
    LET large == Len(t) > PagedAbove
        p == IF ~ large THEN None ELSE IF e.preview # None THEN e.preview ELSE Created(t)
    IN  [e EXCEPT !.loading = @ \/ Full(e) # t, !.paged = large, !.preview = p,
                  !.history = IF @.text # t THEN Fresh(t) ELSE @,
                  !.shown = IF large THEN Visible(p) ELSE t]

(* prepareText: the controller's text is t. *)
Prepared(e, t) ==
    LET large == Len(t) > PagedAbove
        p == IF ~ large THEN None
             ELSE IF e.preview # None /\ Full(e) = t THEN e.preview ELSE Created(t)
    IN  [e EXCEPT !.loading = @ \/ Full(e) # t, !.paged = large, !.preview = p,
                  !.history = IF @.text # t THEN Fresh(t) ELSE @,
                  !.shown = IF large THEN Visible(p) ELSE t]

(* Qt.callLater of onSelectionStartChanged and onSelectionEndChanged, after *)
(* the text of e was replaced by that of p: the document stays selected     *)
(* while all that is shown is.  New text is not selected, but nothing is    *)
(* all of nothing.                                                          *)
Reselected(e, p) == [p EXCEPT !.selected = @ /\ p.shown \in {e.shown, <<>>}]

(* The binding writes what prepareText returns; outside a load the text    *)
(* area reports the change like one of the user.                           *)
Bound(e, t) ==
    LET p == Prepared(e, t)
    IN  IF p.shown # e.shown /\ ~ p.loading /\ ~ readOnly
        THEN Committed(p, p.shown) ELSE Reselected(e, p)

(* _apply_document: show history text h.text at a position, not as an edit. *)
Applied(e, h, position) ==
    LET large == Len(h.text) > PagedAbove
        p == IF large THEN [Created(h.text) EXCEPT !.page = PageAt(Created(h.text), position)]
             ELSE None
    IN  [e EXCEPT !.loading = FALSE, !.selected = FALSE, !.paged = large,
                  !.preview = p, !.history = h,
                  !.shown = IF large THEN Visible(p) ELSE h.text]

----------------------------------------------------------------------------
(* Steps *)

Init ==
    /\ editor = [shown |-> <<>>, paged |-> FALSE, loading |-> FALSE,
                 selected |-> FALSE, preview |-> None, history |-> Fresh(<<>>)]
    /\ rebinds \in BOOLEAN
    /\ source = <<>>
    /\ readOnly = FALSE
    /\ mark = None
    /\ slipped = FALSE
    /\ inputs = 0

Input == inputs < MaxInputs /\ inputs' = inputs + 1

(* textEdited(t) after the bridge made e of the editor. *)
Edited(e, t) ==
    /\ editor' = IF rebinds /\ t # source THEN Bound(e, t) ELSE e
    /\ source' = IF rebinds /\ t # source THEN Full(editor') ELSE t
    /\ slipped' = FALSE

(* The user replaces the symbols from + 1 to to of the visible text: keys,  *)
(* paste, cut, an accepted completion.  With the whole document selected    *)
(* only an input method gets here: it replaces the page, with less than     *)
(* what is shown in pages.  While the area is marked as loading the change  *)
(* is not reported.                                                         *)
Type(from, to, s) ==
    LET t == Spliced(editor.shown, from, to, s)
        e == Committed(editor, t)
    IN  /\ Input
        /\ ~ readOnly /\ t # editor.shown /\ Len(Full(e)) <= MaxLength
        /\ editor.selected => from = 0 /\ to = Len(editor.shown) /\ Len(s) <= PagedAbove
        /\ IF editor.loading
           THEN /\ editor' = Reselected(editor, [editor EXCEPT !.shown = t])
                /\ slipped' = TRUE
                /\ source' = source
                /\ mark' = None
           ELSE /\ Edited(e, Full(e))
                /\ mark' = IF slipped THEN None
                           ELSE [text |-> IF editor.selected THEN s
                                          ELSE Spliced(source, PageStart(editor) + from,
                                                       PageStart(editor) + to, s)]
        /\ UNCHANGED <<readOnly, rebinds>>

ClearPage ==
    LET e == Committed([editor EXCEPT !.selected = FALSE], <<>>)
    IN  /\ Input
        /\ ~ readOnly /\ ~ editor.loading /\ editor.paged /\ editor.shown # <<>>
        /\ Edited(e, Full(e))
        /\ mark' = None
        /\ UNCHANGED <<readOnly, rebinds>>

(* clearDocument, and paste or a key with the whole document selected. *)
ReplaceDocument(t) ==
    LET h == Recorded(Closed(editor.history), editor.history.text, t, 0)
        e == Applied(editor, [Closed(h) EXCEPT !.text = t], Len(t))
    IN  /\ Input
        /\ ~ readOnly /\ (editor.selected \/ t = <<>>)
        /\ Edited(e, t)
        /\ mark' = [at |-> Units(Part(t, PageStart(e), Len(t))), want |-> Units(t)]
        /\ UNCHANGED <<readOnly, rebinds>>

(* Undo and redo: edit goes from one stack to the other. *)
Stepped(t, undo, redo, position) ==
    LET e == Applied(editor, [text |-> t, undo |-> undo, redo |-> redo, open |-> FALSE],
                     position)
    IN  /\ Edited(e, t)
        /\ mark' = [at |-> Units(Part(t, PageStart(e), position)),
                    want |-> Units(Part(t, 0, position))]
        /\ UNCHANGED <<readOnly, rebinds>>

UndoDocument ==
    LET h == editor.history
        edit == Last(h.undo)
    IN  /\ Input
        /\ ~ readOnly /\ h.undo # <<>>
        /\ Stepped(Undone(h.text, edit), Front(h.undo), Append(h.redo, edit),
                   edit.start + Len(edit.removed))

RedoDocument ==
    LET h == editor.history
        edit == Last(h.redo)
    IN  /\ Input
        /\ ~ readOnly /\ h.redo # <<>>
        /\ Stepped(Redone(h.text, edit), Append(h.undo, edit), Front(h.redo),
                   edit.start + Len(edit.inserted))

(* The controller has another text: a file, a sample, an entry, ... *)
Load(t) ==
    /\ Input
    /\ source' = t
    /\ readOnly' = FALSE
    /\ IF t = editor.history.text
       THEN editor' = editor /\ slipped' = slipped
       ELSE editor' = Bound(editor, t) /\ slipped' = FALSE
    /\ mark' = None
    /\ UNCHANGED rebinds

(* After the analysis of a bundle the extracted configuration is shown. *)
ShowExtract(t) ==
    /\ Input
    /\ rebinds /\ ~ readOnly /\ t # editor.history.text
    /\ readOnly' = TRUE
    /\ editor' = Reselected(editor, Prepared(editor, t))
    /\ slipped' = FALSE
    /\ mark' = None
    /\ UNCHANGED <<source, rebinds>>

(* saveTemporaryText(fullText(editor)) notifies the binding. *)
SaveDraft ==
    /\ Input
    /\ ~ rebinds
    /\ editor' = Bound(editor, Full(editor))
    /\ source' = Full(editor')
    /\ slipped' = FALSE
    /\ mark' = None
    /\ UNCHANGED <<readOnly, rebinds>>

(* QTimer.singleShot(0): the load is over. *)
Settle ==
    /\ editor.loading
    /\ editor' = [editor EXCEPT !.loading = FALSE]
    /\ UNCHANGED <<rebinds, source, readOnly, mark, slipped, inputs>>

(* A second passes, or the focus is lost. *)
BreakGroup ==
    /\ editor.history.open
    /\ editor' = [editor EXCEPT !.history = Closed(@)]
    /\ UNCHANGED <<rebinds, source, readOnly, mark, slipped, inputs>>

(* A press in the area, or a key that moves the caret. *)
MoveCaret ==
    /\ editor.selected \/ editor.history.open
    /\ editor' = [editor EXCEPT !.selected = FALSE, !.history = Closed(@)]
    /\ UNCHANGED <<rebinds, source, readOnly, mark, slipped, inputs>>

SelectAll ==
    /\ Input
    /\ ~ editor.selected
    /\ editor' = [editor EXCEPT !.selected = editor.paged]
    /\ UNCHANGED <<rebinds, source, readOnly, mark, slipped>>

StepPage(delta) ==
    LET p == editor.preview
        page == IF p.page + delta < 1 THEN 1
                ELSE Smaller(p.page + delta, Len(p.ranges))
    IN  /\ Input
        /\ p # None
        /\ editor' = Showing(editor, [p EXCEPT !.page = page])
        /\ slipped' = FALSE
        /\ mark' = None
        /\ UNCHANGED <<rebinds, source, readOnly>>

(* Jumps: the page that holds the position is shown, the caret put there. *)
Turned(position) ==
    IF editor.preview = None THEN editor
    ELSE Showing(editor, [editor.preview EXCEPT !.page = PageAt(editor.preview, position)])

LineStart(t, line) ==
    IF line = 1 THEN 0
    ELSE CHOOSE k \in DOMAIN t : t[k] = NewLine /\ Lines(Part(t, 0, k)) = line - 1

(* Mutant: units are taken for symbols. *)
SymbolsAsUnits(t, units) == Smaller(units, Len(t))

SymbolsIn(t, units) ==
    CHOOSE n \in 0 .. Len(t) :
        /\ Units(Part(t, 0, n)) <= units
        /\ n = Len(t) \/ Units(Part(t, 0, n + 1)) > units

Jump(e, at, want) ==
    /\ Input
    /\ editor' = e
    /\ slipped' = (slipped /\ editor.preview = None)
    /\ mark' = [at |-> at, want |-> want]
    /\ UNCHANGED <<rebinds, source, readOnly>>

(* jumpToLine with lineInPreview. *)
JumpToLine(line) ==
    LET t == Full(editor)
        position == LineStart(t, line)
        e == Turned(position)
        relative == IF e.preview = None THEN line
                    ELSE line - PageRange(e.preview).line + 1
        safe == IF relative < 1 THEN 1 ELSE Smaller(relative, 1 + Lines(e.shown))
    IN  Jump(e, Units(Part(e.shown, 0, LineStart(e.shown, safe))),
             Units(Part(t, 0, position)))

(* selectGlobalRange with positionInPreview: a hit of the search. *)
JumpToUnit(unit) ==
    LET t == Full(editor)
        e == Turned(SymbolsIn(t, unit))
    IN  Jump(e, unit - Units(Part(t, 0, PageStart(e))), unit)

TypeAny == \E from, to \in 0 .. Len(editor.shown), s \in TextsUpTo(MaxInsert) :
               from <= to /\ Type(from, to, s)

Next ==
    \/ TypeAny
    \/ ClearPage
    \/ \E t \in Documents : ReplaceDocument(t) \/ Load(t) \/ ShowExtract(t)
    \/ UndoDocument
    \/ RedoDocument
    \/ SaveDraft
    \/ Settle
    \/ BreakGroup
    \/ MoveCaret
    \/ SelectAll
    \/ \E delta \in {-1, 1} : StepPage(delta)
    \/ \E line \in 1 .. 1 + Lines(Full(editor)) : JumpToLine(line)
    \/ \E unit \in 0 .. Units(Full(editor)) : JumpToUnit(unit)

Spec == Init /\ [][Next]_vars

----------------------------------------------------------------------------
(* Properties *)

Histories == [text : Seq(Symbols), undo : Seq(Spans), redo : Seq(Spans), open : BOOLEAN]
Editors == [shown : Seq(Symbols), paged : BOOLEAN, loading : BOOLEAN, selected : BOOLEAN,
            preview : Previews \cup {None}, history : Histories]

(* Types of the state. *)
TypeOK ==
    /\ editor \in Editors
    /\ rebinds \in BOOLEAN
    /\ source \in Seq(Symbols)
    /\ readOnly \in BOOLEAN
    /\ mark \in Marks \cup {None}
    /\ slipped \in BOOLEAN
    /\ inputs \in 0 .. MaxInputs

(* commitPreviewText, prepareText and _apply_document keep five copies of   *)
(* the document in step: the page table, the history, the area, the paging  *)
(* mark and the controller's text.  Only a key that slipped into a load     *)
(* leaves the area different, until the next report.                        *)
CopiesAgree ==
    /\ ~ readOnly => source = editor.history.text
    /\ editor.preview # None =>
          /\ editor.preview.text = editor.history.text
          /\ editor.paged
    /\ slipped \/ editor.shown = IF editor.preview # None THEN Visible(editor.preview)
                                 ELSE editor.history.text
    /\ rebinds /\ ~ slipped =>
          (editor.paged <=> Len(editor.history.text) > PagedAbove)
          /\ (editor.paged <=> editor.preview # None)

(* replace_visible shifts the later pages by what an edit adds or removes:  *)
(* after any edits, on any pages, with line ends at the seams removed, the  *)
(* pages still tile the text and still know the line they begin in.         *)
PagesTile ==
    editor.preview # None =>
        LET p == editor.preview
            r == p.ranges
        IN  /\ p.page \in DOMAIN r
            /\ r[1].start = 0 /\ r[Len(r)].end = Len(p.text)
            /\ \A k \in 1 .. Len(r) - 1 : r[k].end = r[k + 1].start
            /\ \A k \in DOMAIN r :
                  /\ r[k].start <= r[k].end
                  /\ r[k].line = 1 + Lines(Part(p.text, 0, r[k].start))
            /\ p.lines = 1 + Lines(p.text)

(* A jump to a line or a search hit, and the caret after undo and redo, is  *)
(* on the page shown and at the place wanted in the whole document, counted *)
(* in UTF-16 units on one side and in symbols on the other.                 *)
MarkHolds ==
    mark # None /\ "at" \in DOMAIN mark =>
        /\ mark.at \in 0 .. Units(editor.shown)
        /\ slipped \/ Units(Part(Full(editor), 0, PageStart(editor))) + mark.at = mark.want

(* Typing on a page changes this place of the document and nothing else;    *)
(* with the whole document selected it replaces the document.               *)
EditIsLocal == mark # None /\ "text" \in DOMAIN mark => source = mark.text

(* Compact undo entries are as good as kept texts: going back from the      *)
(* document through the entries gives the texts a plain editor would keep.  *)
UndoTexts(h) ==
    LET before[k \in 1 .. Len(h.undo) + 1] ==
            IF k > Len(h.undo) THEN h.text ELSE Undone(before[k + 1], h.undo[k])
    IN  [k \in 1 .. Len(h.undo) |-> before[k]]
RedoTexts(h) ==
    LET after[k \in 1 .. Len(h.redo) + 1] ==
            IF k > Len(h.redo) THEN h.text ELSE Redone(after[k + 1], h.redo[k])
    IN  [k \in 1 .. Len(h.redo) |-> after[k]]

Plain == INSTANCE PlainEditor WITH Texts <- Seq(Symbols), text <- editor.history.text,
                                   past <- UndoTexts(editor.history),
                                   future <- RedoTexts(editor.history)

(* Undo, redo and the merging of keys in one group implement PlainEditor.   *)
ImplementsPlainEditor == Plain!Spec
=============================================================================
