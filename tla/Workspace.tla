------------------------------ MODULE Workspace ------------------------------
(***************************************************************************)
(* gui/controllers/analysis.py: AnalysisController, the document a window  *)
(* edits, with its source file, its local draft, its analysis result, the  *)
(* action that waits for the save dialogs, and the one worker thread whose *)
(* results come back as queued signals while the user goes on editing.     *)
(*                                                                         *)
(* Texts stand for whole documents, options for the mode, vendor and       *)
(* starting view.  One save is one step here (FileSaving has its steps),   *)
(* and a history entry is the input it records (HistoryStore has the rest).*)
(***************************************************************************)
EXTENDS Integers, Sequences, FiniteSets

CONSTANTS
    Texts, Empty, Example,      \* documents; the empty one and the sample
    Options, ExampleOptions,    \* mode, vendor and view; those of the sample
    Paths, NoPath,
    Budgets                     \* bound: what the user does, writes by other
                                \* programs and operations that fail

ASSUME Documents ==
    /\ Empty \in Texts /\ Example \in Texts \ {Empty}
    /\ ExampleOptions \in Options
    /\ NoPath \notin Paths
    /\ Budgets \subseteq Nat \X Nat \X Nat

VARIABLES
    doc,            \* the document: see Document
    draft,          \* _temporary_text and what is stored of it
    disk,           \* per path: a version (0: no file) and its text
    pending,        \* _pending_action
    scopes,         \* _pending_save_scopes
    dialogs,        \* open modal dialogs
    conflict,       \* _conflict_path, _conflict_identity, canOverwrite
    snapshot,       \* _example_snapshot
    worker,         \* busy, loading and what the running tasks were started for
    tasks,          \* the executor's queue
    signals,        \* finished tasks whose signal is not delivered yet
    history,        \* the history store's entries
    window,         \* "open", "closing" (fading out) or "closed"
    agreed,         \* history: the user gave up the changes of these scopes
    mistaken,       \* history: the versions of another program that a save took
                    \* for its own, each with the text that the save wrote
    made,           \* versions written so far
    inputs, others, faults

vars == <<doc, draft, disk, pending, scopes, dialogs, conflict, snapshot, worker, tasks, signals,
          history, window, agreed, mistaken, made, inputs, others, faults>>

bounds == <<inputs, others, faults>>

Entries == [text: Texts, options: Options]

Scopes == {"configuration", "temporary"}

Statuses == {"none", "changed", "running", "completed", "cancelled", "failed"}

\* identity is the version _file_identity was taken of; result and active are
\* {} or the input the shown result and the active history entry belong to.
Document == [text: Texts, options: Options, saved: Texts, path: Paths \cup {NoPath},
             identity: Nat, revision: Nat,
             result: SUBSET Entries, active: SUBSET Entries,
             status: Statuses, cancelled: BOOLEAN]

\* What _example_snapshot holds of the document the sample took the place of.
Replaced == [text: Texts, options: Options, saved: Texts, path: Paths \cup {NoPath},
             identity: Nat]

Requests == [action: {"none", "load", "history", "clear", "example", "close", "scratch",
                      "undo_example"},
             path: Paths \cup {NoPath}, entry: SUBSET Entries]

Ask(action) == [action |-> action, path |-> NoPath, entry |-> {}]

NoRequest == Ask("none")

Conflicts == [path: Paths \cup {NoPath}, version: Nat, overwrite: BOOLEAN, reload: BOOLEAN]

NoConflict == [path |-> NoPath, version |-> 0, overwrite |-> FALSE, reload |-> FALSE]

Files == [version: Nat, text: Texts]

NoFile == [version |-> 0, text |-> Empty]

-----------------------------------------------------------------------------
(* What the controller's methods do to the document *)

Input(d) == [text |-> d.text, options |-> d.options]

Dirty(d) == d.text # d.saved

\* _invalidate, with the new text or options already in place.
Invalidated(d) ==
    [d EXCEPT !.cancelled = TRUE, !.revision = d.revision + 1, !.result = {},
              !.status = IF d.text = Empty THEN "none"
                         ELSE IF d.result # {} \/ d.status = "failed" THEN "changed"
                         ELSE d.status]

SetText(d, text) ==
    IF text = d.text THEN d ELSE Invalidated([d EXCEPT !.text = text, !.active = {}])

\* Variant: the history entry of the document stays active.
SetOnlyOptions(d, options) ==
    IF options = d.options THEN d ELSE Invalidated([d EXCEPT !.options = options])

SetOptions(d, options) ==
    IF options = d.options THEN d ELSE Invalidated([d EXCEPT !.options = options, !.active = {}])

\* clear does nothing while a task runs; it forgets the path, not the identity.
Cleared(d) ==
    IF worker.busy THEN d
    ELSE [SetText(d, Empty) EXCEPT !.active = {}, !.path = NoPath,
                                   !.saved = Empty, !.status = "none"]

\* Variant: the identity is taken when the text is shown, not when it is read.
LoadedLate(d, path, file) ==
    [SetText([d EXCEPT !.active = {}], file.text)
        EXCEPT !.path = path, !.identity = disk[path].version, !.saved = file.text]

Loaded(d, path, file) ==
    [SetText([d EXCEPT !.active = {}], file.text)
        EXCEPT !.path = path, !.identity = file.version, !.saved = file.text]

SavedAs(d, path, version) ==
    [d EXCEPT !.path = path, !.identity = version, !.saved = d.text]

\* openHistory: an entry that is gone, or a running task, and nothing happens.
Opened(d, e) ==
    IF e \notin history \/ worker.busy THEN d
    ELSE [Invalidated([SetText(d, e.text) EXCEPT !.path = NoPath, !.saved = Empty])
            EXCEPT !.options = e.options, !.result = {e}, !.active = {e},
                   !.status = "completed"]

Sample(d) == SetText(SetOptions(Cleared(d), ExampleOptions), Example)

Scratch(d) == SetText(Cleared(d), draft.text)

\* undo_example puts back what the sample took the place of.
Undone(d, old) ==
    [SetText(SetOptions(d, old.options), old.text)
        EXCEPT !.saved = old.saved, !.path = old.path, !.identity = old.identity]

-----------------------------------------------------------------------------
(* Helpers *)

MayFail == faults > 0 /\ faults' = faults - 1

\* The user acts on the window, or on a dialog that covers it.
UserActs(dialog) ==
    /\ inputs > 0
    /\ inputs' = inputs - 1
    /\ window = "open"
    /\ IF dialog = "none" THEN dialogs = {} ELSE dialog \in dialogs
    /\ dialog = "conflict" => "unsaved" \notin dialogs

Writes(path, text) ==
    /\ made' = made + 1
    /\ disk' = [disk EXCEPT ![path] = [version |-> made + 1, text |-> text]]

\* What a save does to the destination before file_identity reads what it has
\* made there: another program may write once more in between, and its version
\* is then taken for the saved one.
WritesUntilRead(path) ==
    \/ Writes(path, doc.text) /\ UNCHANGED <<mistaken, others>>
    \/ /\ others > 0
       /\ others' = others - 1
       /\ made' = made + 2
       /\ \E text \in Texts :
             disk' = [disk EXCEPT ![path] = [version |-> made + 2, text |-> text]]
       /\ mistaken' = mistaken \cup {[version |-> made + 2, text |-> doc.text]}

-----------------------------------------------------------------------------
(* The parts the handlers are made of *)

\* loadFile: the worker will read the file; earlier loads are superseded.
StartLoad(d, path) ==
    /\ doc' = [d EXCEPT !.revision = d.revision + 1]
    /\ worker' = [worker EXCEPT !.busy = TRUE, !.loading = TRUE, !.loadRevision = d.revision + 1]
    /\ tasks' = Append(tasks, [kind |-> "load", path |-> path, revision |-> d.revision + 1])

\* _finish_pending_action, on document d.
Finish(d, request) ==
    /\ pending' = NoRequest
    /\ scopes' = {}
    /\ IF request.action = "load"
       THEN StartLoad(d, request.path)
       ELSE /\ doc' = CASE request.action = "history" -> Opened(d, CHOOSE e \in request.entry : TRUE)
                        [] request.action = "clear" -> Cleared(d)
                        [] request.action = "example" -> Sample(d)
                        [] request.action = "scratch" -> Scratch(d)
                        [] request.action = "undo_example" /\ snapshot # {} ->
                               Undone(d, CHOOSE old \in snapshot : TRUE)
                        [] OTHER -> d
            /\ UNCHANGED <<worker, tasks>>
    /\ snapshot' = CASE request.action = "example" ->
                            {[text |-> d.text, options |-> d.options, saved |-> d.saved,
                              path |-> d.path, identity |-> d.identity]}
                     [] request.action = "undo_example" -> {}
                     [] OTHER -> snapshot
    /\ window' = IF request.action = "close" THEN "closed" ELSE window

\* _save_next_pending, once the configuration is saved as document d.
SaveNext(d, rest) ==
    \/ /\ rest = {}
       /\ Finish(d, pending)
       /\ UNCHANGED <<draft, faults>>
    \/ /\ rest = {"temporary"}
       /\ draft' = [draft EXCEPT !.saved = draft.text]
       /\ Finish(d, pending)
       /\ UNCHANGED faults
    \/ /\ rest = {"temporary"}
       /\ MayFail
       /\ doc' = d
       /\ scopes' = rest
       /\ UNCHANGED <<draft, pending, worker, tasks, snapshot, window>>

\* What a failing save leaves alone.
held == <<doc, draft, pending, scopes, worker, tasks, snapshot, window>>

\* _request_file_conflict, over the dialogs that stay open.
ShowConflict(path, version, overwrite, reload, open) ==
    /\ conflict' = [path |-> path, version |-> version, overwrite |-> overwrite,
                    reload |-> reload]
    /\ dialogs' = open \cup {"conflict"}

\* An answered conflict is over; one whose dialog is covered stays.
KeepsConflict(open) == conflict' = IF "conflict" \in open THEN conflict ELSE NoConflict

\* _save_source: saved; an error with or without the new text in place; or
\* files that are kept for recovery, whatever is at the destination by then.
SaveSource(path, open) ==
    \/ /\ WritesUntilRead(path)
       /\ LET d == SavedAs(doc, path, made') IN
          IF "configuration" \in scopes
          THEN SaveNext(d, scopes \ {"configuration"})
          ELSE doc' = d /\ UNCHANGED <<draft, pending, scopes, worker, tasks, snapshot, window, faults>>
       /\ dialogs' = open
       /\ KeepsConflict(open)
    \/ /\ MayFail
       /\ Writes(path, doc.text) \/ UNCHANGED <<disk, made>>
       /\ dialogs' = open
       /\ KeepsConflict(open)
       /\ UNCHANGED <<held, mistaken, others>>
    \/ /\ MayFail
       /\ \/ Writes(path, doc.text)
          \/ disk' = [disk EXCEPT ![path] = NoFile] /\ UNCHANGED made
          \/ UNCHANGED <<disk, made>>
       /\ ShowConflict(path, disk[path].version, FALSE, disk'[path].version # 0, open)
       /\ UNCHANGED <<held, mistaken, others>>

\* saveSourceFile: what is at the destination decides whether to ask first.
SaveSourceFile(path, open) ==
    LET now == disk[path].version
        asks == IF path = doc.path THEN now # doc.identity ELSE now # 0
    IN  \/ /\ asks
           /\ ShowConflict(path, now, TRUE, now # 0, open)
           /\ UNCHANGED <<held, disk, mistaken, made, others, faults>>
        \/ /\ now # 0          \* read-only
           /\ MayFail
           /\ ShowConflict(path, now, FALSE, TRUE, open)
           /\ UNCHANGED <<held, disk, mistaken, made, others>>
        \/ ~asks /\ SaveSource(path, open)

AskPath(open) ==
    /\ dialogs' = open \cup {"saveas"}
    /\ KeepsConflict(open)
    /\ UNCHANGED <<held, disk, mistaken, made, others, faults>>

SaveConfiguration(open) ==
    IF doc.path = NoPath THEN AskPath(open) ELSE SaveSourceFile(doc.path, open)

-----------------------------------------------------------------------------
Init ==
    /\ \E options \in Options :
          doc = [text |-> Empty, options |-> options, saved |-> Empty, path |-> NoPath,
                 identity |-> 0, revision |-> 0, result |-> {}, active |-> {},
                 status |-> "none", cancelled |-> FALSE]
    /\ \E text \in Texts : draft = [text |-> text, saved |-> text]
    /\ made = 1
    /\ disk \in [Paths -> {NoFile} \cup [version: {1}, text: Texts]]
    /\ pending = NoRequest
    /\ scopes = {} /\ dialogs = {} /\ snapshot = {} /\ history = {} /\ agreed = {}
    /\ mistaken = {}
    /\ conflict = NoConflict
    /\ worker = [busy |-> FALSE, loading |-> FALSE, loadRevision |-> -1, running |-> -1,
                 epoch |-> 0]
    /\ tasks = <<>> /\ signals = <<>>
    /\ window = "open"
    /\ \E budget \in Budgets : inputs = budget[1] /\ others = budget[2] /\ faults = budget[3]

-----------------------------------------------------------------------------
(* Editing *)

\* Typing reaches a window that is fading out, too.
Types ==
    /\ inputs > 0
    /\ inputs' = inputs - 1
    /\ window # "closed"
    /\ dialogs = {}

EditSource(text) ==
    /\ Types
    /\ text # doc.text
    /\ doc' = SetText(doc, text)
    /\ agreed' = agreed \ {"configuration"}
    /\ UNCHANGED <<draft, disk, pending, scopes, dialogs, conflict, snapshot, worker, tasks,
                   signals, history, window, mistaken, made, others, faults>>

ChooseOptions(options) ==
    /\ UserActs("none")
    /\ options # doc.options
    /\ doc' = SetOptions(doc, options)
    /\ UNCHANGED <<draft, disk, pending, scopes, dialogs, conflict, snapshot, worker, tasks,
                   signals, history, window, agreed, mistaken, made, others, faults>>

\* updateTemporaryText
EditDraft(text) ==
    /\ Types
    /\ text # draft.text
    /\ draft' = [draft EXCEPT !.text = text]
    /\ agreed' = agreed \ {"temporary"}
    /\ UNCHANGED <<doc, disk, pending, scopes, dialogs, conflict, snapshot, worker, tasks,
                   signals, history, window, mistaken, made, others, faults>>

\* saveTemporaryText; a failing write changes nothing.
SaveDraft ==
    /\ UserActs("none")
    /\ draft' = [draft EXCEPT !.saved = draft.text]
    /\ UNCHANGED <<doc, disk, pending, scopes, dialogs, conflict, snapshot, worker, tasks,
                   signals, history, window, agreed, mistaken, made, others, faults>>

-----------------------------------------------------------------------------
(* Actions that replace the document *)

\* The dirty parts, as requestAction lists them.
ToSave(request) ==
    (IF Dirty(doc) THEN {"configuration"} ELSE {})
      \cup (IF request.action = "close" /\ draft.text # draft.saved THEN {"temporary"} ELSE {})

\* requestAction: with something unsaved the dialog asks first.  (What a load
\* under way may replace stays agreed.)
RequestAction(request) ==
    /\ agreed' = IF worker.loading THEN agreed ELSE {}
    /\ IF ToSave(request) # {}
       THEN /\ pending' = request
            /\ scopes' = ToSave(request)
            /\ dialogs' = dialogs \cup {"unsaved"}
            /\ UNCHANGED <<doc, worker, tasks, snapshot, window>>
       ELSE Finish(doc, request) /\ UNCHANGED dialogs
    /\ UNCHANGED <<draft, disk, conflict, signals, history, mistaken, made, others, faults>>

Load(path) ==
    /\ UserActs("none")
    /\ ~worker.busy
    /\ RequestAction([Ask("load") EXCEPT !.path = path])

\* The entry that is shown already is not opened again.
OpenHistory(e) ==
    /\ UserActs("none")
    /\ ~worker.busy
    /\ e \in history
    /\ ~(doc.active = {e} /\ doc.result # {} /\ e = Input(doc))
    /\ RequestAction([Ask("history") EXCEPT !.entry = {e}])

New == UserActs("none") /\ ~worker.busy /\ RequestAction(Ask("clear"))

OpenExample == UserActs("none") /\ ~worker.busy /\ RequestAction(Ask("example"))

UndoExample ==
    /\ UserActs("none")
    /\ ~worker.busy
    /\ snapshot # {}
    /\ RequestAction(Ask("undo_example"))

CopyDraft == UserActs("none") /\ ~worker.busy /\ RequestAction(Ask("scratch"))

\* Main.qml onClosing; the window can be closed over its own dialogs.  A clean
\* window fades out and closes without asking again.
CloseWindow ==
    /\ inputs > 0
    /\ inputs' = inputs - 1
    /\ window = "open"
    /\ "saveas" \notin dialogs
    /\ IF ToSave(Ask("close")) # {}
       THEN RequestAction(Ask("close"))
       ELSE /\ window' = "closing"
            /\ UNCHANGED <<doc, draft, disk, pending, scopes, dialogs, conflict, snapshot, worker,
                           tasks, signals, history, agreed, mistaken, made, others, faults>>

FadeOut ==
    /\ window = "closing"
    /\ window' = "closed"
    /\ UNCHANGED <<doc, draft, disk, pending, scopes, dialogs, conflict, snapshot, worker, tasks,
                   signals, history, agreed, mistaken, made, bounds>>

-----------------------------------------------------------------------------
(* The answers to the dialogs *)

\* resolveUnsaved
SaveFirst ==
    /\ UserActs("unsaved")
    /\ LET open == dialogs \ {"unsaved"} IN
       IF "configuration" \in scopes
       THEN SaveConfiguration(open)
       ELSE /\ SaveNext(doc, scopes)
            /\ dialogs' = open
            /\ UNCHANGED <<disk, conflict, mistaken, made, others>>
    /\ UNCHANGED <<signals, history, agreed>>

Discard ==
    /\ UserActs("unsaved")
    /\ agreed' = scopes
    /\ Finish(doc, pending)
    /\ dialogs' = dialogs \ {"unsaved"}
    /\ UNCHANGED <<draft, disk, conflict, signals, history, mistaken, made, others, faults>>

Forget ==
    /\ pending' = NoRequest
    /\ scopes' = {}

CancelRequest ==
    /\ \/ UserActs("unsaved") /\ dialogs' = dialogs \ {"unsaved"}
       \/ UserActs("saveas") /\ dialogs' = dialogs \ {"saveas"}
    /\ Forget
    /\ UNCHANGED <<doc, draft, disk, conflict, snapshot, worker, tasks, signals, history, window,
                   agreed, mistaken, made, others, faults>>

\* saveConfiguration from the toolbar or with Ctrl+S, and Save as.
Save ==
    /\ UserActs("none")
    /\ SaveConfiguration({}) \/ AskPath({})
    /\ UNCHANGED <<signals, history, agreed>>

SaveAs(path) ==
    /\ UserActs("saveas")
    /\ SaveSourceFile(path, dialogs \ {"saveas"})
    /\ UNCHANGED <<signals, history, agreed>>

\* resolveFileConflict
Answers == UserActs("conflict") /\ conflict.path # NoPath

AnswerSaveAs ==
    /\ Answers
    /\ AskPath({})
    /\ UNCHANGED <<signals, history, agreed>>

Overwrite ==
    /\ Answers
    /\ conflict.overwrite
    /\ IF disk[conflict.path].version # conflict.version
       THEN /\ ShowConflict(conflict.path, disk[conflict.path].version, TRUE,
                            disk[conflict.path].version # 0, {})
            /\ UNCHANGED <<held, disk, mistaken, made, others, faults>>
       ELSE SaveSource(conflict.path, {})
    /\ UNCHANGED <<signals, history, agreed>>

Reload ==
    /\ Answers
    /\ conflict.reload
    /\ Forget
    /\ StartLoad(doc, conflict.path)
    /\ agreed' = {"configuration"}
    /\ dialogs' = {}
    /\ conflict' = NoConflict
    /\ UNCHANGED <<draft, disk, snapshot, signals, history, window, mistaken, made, others, faults>>

CancelSave ==
    /\ Answers
    /\ Forget
    /\ dialogs' = {}
    /\ conflict' = NoConflict
    /\ UNCHANGED <<doc, draft, disk, snapshot, worker, tasks, signals, history, window, agreed,
                   mistaken, made, others, faults>>

-----------------------------------------------------------------------------
(* Analysis and history *)

\* Variant: Analyze is accepted while a task runs.
AnalyzeAnyTime ==
    /\ UserActs("none")
    /\ doc.text # Empty
    /\ doc' = [doc EXCEPT !.cancelled = FALSE, !.status = "running"]
    /\ worker' = [worker EXCEPT !.busy = TRUE, !.running = doc.revision]
    /\ tasks' = Append(tasks, [kind |-> "analysis", entry |-> Input(doc),
                               record |-> doc.active = {}, epoch |-> worker.epoch])
    /\ UNCHANGED <<draft, disk, pending, scopes, dialogs, conflict, snapshot, signals, history,
                   window, agreed, mistaken, made, others, faults>>

\* analyzeConfig
Analyze ==
    /\ UserActs("none")
    /\ ~worker.busy
    /\ doc.text # Empty
    /\ doc' = [doc EXCEPT !.cancelled = FALSE, !.status = "running"]
    /\ worker' = [worker EXCEPT !.busy = TRUE, !.running = doc.revision]
    /\ tasks' = Append(tasks, [kind |-> "analysis", entry |-> Input(doc),
                               record |-> doc.active = {}, epoch |-> worker.epoch])
    /\ UNCHANGED <<draft, disk, pending, scopes, dialogs, conflict, snapshot, signals, history,
                   window, agreed, mistaken, made, others, faults>>

CancelAnalysis ==
    /\ UserActs("none")
    /\ worker.busy
    /\ doc' = [doc EXCEPT !.cancelled = TRUE]
    /\ UNCHANGED <<draft, disk, pending, scopes, dialogs, conflict, snapshot, worker, tasks,
                   signals, history, window, agreed, mistaken, made, others, faults>>

\* clearHistory and removeHistories; a new epoch even when the store fails.
ForgetHistory(entries) ==
    /\ UserActs("none")
    /\ worker' = [worker EXCEPT !.epoch = worker.epoch + 1]
    /\ \/ /\ history' = history \ entries
          /\ doc' = [doc EXCEPT !.active = doc.active \ entries]
          /\ UNCHANGED faults
       \/ MayFail /\ UNCHANGED <<doc, history>>
    /\ UNCHANGED <<draft, disk, pending, scopes, dialogs, conflict, snapshot, tasks, signals,
                   window, agreed, mistaken, made, others>>

-----------------------------------------------------------------------------
(* The worker thread *)

TakesTask(kind) ==
    /\ tasks # <<>>
    /\ Head(tasks).kind = kind
    /\ tasks' = Tail(tasks)
    /\ UNCHANGED <<doc, draft, disk, pending, scopes, dialogs, conflict, snapshot, worker, window,
                   agreed, mistaken, made, inputs, others>>

\* _read_input_file
ReadFile ==
    /\ TakesTask("load")
    /\ LET task == Head(tasks)
           file == disk[task.path] IN
       \/ /\ file.version # 0
          /\ signals' = Append(signals, [kind |-> "loaded", revision |-> task.revision,
                                         path |-> task.path, file |-> file])
          /\ UNCHANGED faults
       \/ /\ IF file.version = 0 THEN UNCHANGED faults ELSE MayFail
          /\ signals' = Append(signals, [kind |-> "loadFailed", revision |-> task.revision])
    /\ UNCHANGED history

\* _analyze_and_persist: a cancelled analysis fails; otherwise its input is
\* recorded unless it has an entry already or the history was changed since.
RunAnalysis ==
    /\ TakesTask("analysis")
    /\ LET task == Head(tasks)
           sends(recorded) ==
             signals' = Append(signals, [kind |-> "result", entry |-> task.entry,
                                         recorded |-> recorded, epoch |-> task.epoch])
           fails(message) == signals' = Append(signals, [kind |-> "error", message |-> message])
       IN
       \/ doc.cancelled /\ fails("cancelled") /\ UNCHANGED <<history, faults>>
       \/ ~doc.cancelled /\ MayFail /\ fails("failed") /\ UNCHANGED history
       \/ /\ ~doc.cancelled
          /\ IF task.record /\ task.epoch = worker.epoch
             THEN \/ /\ history' = history \cup {task.entry}
                     /\ sends(TRUE)
                     /\ UNCHANGED faults
                  \/ MayFail /\ sends(FALSE) /\ UNCHANGED history
             ELSE sends(FALSE) /\ UNCHANGED <<history, faults>>

-----------------------------------------------------------------------------
(* Its signals, delivered in order between the user's actions *)

Receives(kind) ==
    /\ window # "closed"
    /\ signals # <<>>
    /\ Head(signals).kind = kind
    /\ signals' = Tail(signals)
    /\ UNCHANGED <<draft, disk, pending, scopes, dialogs, conflict, snapshot, tasks, history,
                   window, agreed, mistaken, made, bounds>>

Idles == worker' = [worker EXCEPT !.busy = FALSE]

\* Variant: only the busy mark is taken back.
LoadPauses == worker' = [worker EXCEPT !.busy = FALSE]

LoadEnds == worker' = [worker EXCEPT !.busy = FALSE, !.loading = FALSE]

\* Variant: a load is applied whatever was edited since.
ApplyAnyLoaded ==
    /\ Receives("loaded")
    /\ LET signal == Head(signals) IN
       IF signal.revision # worker.loadRevision
       THEN UNCHANGED <<doc, worker>>
       ELSE LoadEnds /\ doc' = Loaded(doc, signal.path, signal.file)

\* _apply_loaded_input: only the latest load, and only when nothing changed.
ApplyLoaded ==
    /\ Receives("loaded")
    /\ LET signal == Head(signals) IN
       IF signal.revision # worker.loadRevision
       THEN UNCHANGED <<doc, worker>>
       ELSE /\ LoadEnds
            /\ doc' = IF signal.revision = doc.revision
                      THEN Loaded(doc, signal.path, signal.file) ELSE doc

\* Variant: the failure of a load that edits have overtaken is ignored.
IgnoreFileError ==
    /\ Receives("loadFailed")
    /\ IF Head(signals).revision # doc.revision
       THEN UNCHANGED worker
       ELSE LoadEnds
    /\ UNCHANGED doc

\* _apply_file_error
ApplyFileError ==
    /\ Receives("loadFailed")
    /\ IF Head(signals).revision # worker.loadRevision
       THEN UNCHANGED worker
       ELSE LoadEnds
    /\ UNCHANGED doc

StatusChanged(d) == [d EXCEPT !.status = IF d.text = Empty THEN "none" ELSE "changed"]

\* _apply_error
Fails(message) ==
    /\ Idles
    /\ doc' = IF worker.running # doc.revision
              THEN StatusChanged(doc)
              ELSE [Invalidated(doc) EXCEPT !.status = message]

ApplyError ==
    /\ Receives("error")
    /\ IF worker.loading THEN UNCHANGED <<doc, worker>> ELSE Fails(Head(signals).message)

\* _apply_result
ApplyResult ==
    /\ Receives("result")
    /\ LET signal == Head(signals) IN
       IF worker.loading THEN UNCHANGED <<doc, worker>>
       ELSE IF worker.busy /\ doc.cancelled THEN Fails("cancelled")
       ELSE /\ Idles
            /\ doc' = IF worker.running # doc.revision
                      THEN StatusChanged(doc)
                      ELSE [doc EXCEPT !.result = {signal.entry}, !.status = "completed",
                              !.active = IF /\ signal.recorded
                                            /\ signal.epoch = worker.epoch
                                            /\ signal.entry \in history
                                         THEN {signal.entry} ELSE doc.active]

-----------------------------------------------------------------------------
(* Another program writes a file. *)
OtherWrites(path) ==
    /\ others > 0
    /\ others' = others - 1
    /\ \E text \in Texts : Writes(path, text)
    /\ UNCHANGED <<doc, draft, pending, scopes, dialogs, conflict, snapshot, worker, tasks, signals,
                   history, window, agreed, mistaken, inputs, faults>>

Work == ReadFile \/ RunAnalysis

Deliver == ApplyLoaded \/ ApplyFileError \/ ApplyError \/ ApplyResult

Edits ==
    \/ \E text \in Texts : EditSource(text) \/ EditDraft(text)
    \/ \E options \in Options : ChooseOptions(options)
    \/ SaveDraft

Asks ==
    \/ \E path \in Paths : Load(path)
    \/ \E e \in history : OpenHistory(e) \/ ForgetHistory({e})
    \/ ForgetHistory(history)
    \/ New \/ OpenExample \/ UndoExample \/ CopyDraft \/ CloseWindow

Answer ==
    \/ SaveFirst \/ Discard \/ CancelRequest
    \/ \E path \in Paths : SaveAs(path)
    \/ AnswerSaveAs \/ Overwrite \/ Reload \/ CancelSave

Next ==
    \/ Edits \/ Asks \/ Answer
    \/ Save \/ Analyze \/ CancelAnalysis
    \/ Work \/ Deliver \/ FadeOut
    \/ \E path \in Paths : OtherWrites(path)

Spec == Init /\ [][Next]_vars

\* The worker takes its next task and the event loop delivers the next signal.
FairSpec == Spec /\ WF_vars(Work) /\ WF_vars(Deliver)

-----------------------------------------------------------------------------
(* Properties *)

Tasks ==
    [kind: {"load"}, path: Paths, revision: Nat]
      \cup [kind: {"analysis"}, entry: Entries, record: BOOLEAN, epoch: Nat]

Signals ==
    [kind: {"loaded"}, revision: Nat, path: Paths, file: Files]
      \cup [kind: {"loadFailed"}, revision: Nat]
      \cup [kind: {"result"}, entry: Entries, recorded: BOOLEAN, epoch: Nat]
      \cup [kind: {"error"}, message: {"cancelled", "failed"}]

TypeOK ==
    /\ doc \in Document
    /\ draft \in [text: Texts, saved: Texts]
    /\ disk \in [Paths -> Files]
    /\ pending \in Requests
    /\ scopes \in SUBSET Scopes
    /\ dialogs \in SUBSET {"unsaved", "conflict", "saveas"}
    /\ conflict \in Conflicts
    /\ snapshot \in SUBSET Replaced
    /\ worker \in [busy: BOOLEAN, loading: BOOLEAN, loadRevision: Int, running: Int, epoch: Nat]
    /\ tasks \in Seq(Tasks)
    /\ signals \in Seq(Signals)
    /\ history \in SUBSET Entries
    /\ window \in {"open", "closing", "closed"}
    /\ agreed \in SUBSET Scopes
    /\ mistaken \in SUBSET Files
    /\ made \in Nat
    /\ inputs \in Nat /\ others \in Nat /\ faults \in Nat
    /\ worker.loading => worker.busy
    /\ scopes # {} => pending.action # "none"
    /\ "conflict" \in dialogs => conflict.path # NoPath

\* The shown result and the active history entry are those of the document as
\* it is now, whatever was edited, loaded or opened while the worker ran.
ResultsBelong == doc.result \cup doc.active \subseteq {Input(doc)}

Analyses == {i \in 1..Len(tasks) : tasks[i].kind = "analysis"}

Results == {i \in 1..Len(signals) : signals[i].kind \in {"result", "error"}}

\* The window is busy while an analysis is queued, running or waiting to be
\* delivered, and there is never a second one: they would share the one
\* cancellation token, running revision and status the handlers read.
OneAnalysis ==
    /\ Cardinality(Analyses) + Cardinality(Results) <= 1
    /\ Analyses \cup Results # {} => worker.busy

\* The document was saved, but the identity it has is that of another
\* program's version, written over it before save_configuration read the
\* identity: a write that the code takes for its own.
Mistaken(d) == [version |-> d.identity, text |-> d.saved] \in mistaken

\* A clean document whose file has not changed since is what the file holds,
\* whatever was saved, loaded, undone or written by others in between; but for
\* that mistake.
SavedOnDisk ==
    /\ doc.path # NoPath /\ ~Dirty(doc) /\ ~Mistaken(doc)
    /\ disk[doc.path].version = doc.identity
    => disk[doc.path].text = doc.text

\* The save of this step wrote the document's changes, whether or not another
\* program has written over them at once.
SavesChanges ==
    \E path \in Paths :
        /\ disk'[path].version > made
        /\ \/ disk'[path].text = doc.text
           \/ [version |-> disk'[path].version, text |-> doc.text] \in mistaken'

\* Changes leave the editor only in a step that saves them, when the user gave
\* them up, or by the user's own typing: never by a load that was started
\* before they were made, never by a window that begins to close.  The
\* exception is what is typed while the window fades out: it was clean or given
\* up when the user closed it, and nobody is asked again when it has faded
\* (Main.qml, closingAnimation.onFinished).
NoEditLost ==
    [][Dirty(doc) /\ (doc'.text # doc.text \/ window' # window) =>
          \/ EditSource(doc'.text)
          \/ "configuration" \in agreed'
          \/ SavesChanges
          \/ FadeOut]_vars

\* Whatever is edited, reloaded, cancelled or failing, the window does not
\* stay busy: the handlers that drop a result still end what it was for.
BusyEnds == worker.busy ~> (~worker.busy \/ window = "closed")

\* README.md: closing the window offers Save, Discard, or Cancel for the
\* configuration and the local draft independently: a draft with unsaved
\* changes is not lost without an answer.
DraftKept ==
    [][window = "open" /\ window' = "closed" =>
          draft'.text = draft'.saved \/ "temporary" \in agreed']_vars
=============================================================================
