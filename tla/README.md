# Formal models of NetConfigLint

NetConfigLint is an offline analyser of network configurations (Huawei VRP and
H3C Comware) with a command line and a QML desktop window. This directory holds
TLA+ models of its core, the TLC runs that check them on small instances, and
proofs that TLAPS checks for every value of the constants. All source paths
below are under `src/netconfiglint/` unless they start elsewhere.

## The system

| Part | State it keeps | Operations | Talks to |
| --- | --- | --- | --- |
| Analysis history (`gui/models/history.py`) | policy file, history file, lock file; per window the settings, the entries in memory, the signature of the file last read | enable, disable, retention, clear, remove, refresh, privacy token, append | shared by every window and by the worker threads through a `QLockFile` |
| Configuration saving (`gui/file_saving.py`) | the destination, a temporary file, a backup | `save_configuration` | other programs and other windows write the same file |
| Workspace controller (`gui/controllers/analysis.py`, `qml/Main.qml`, dialogs) | document, saved text, path and identity of its file, local draft, pending action, example snapshot, cancellation token, revisions, busy and loading marks | edit, load, save, save as, conflicts, history, sample, clear, analyse, cancel, close | one-thread executor; results come back as queued signals |
| Private storage (`gui/secure_storage.py`) | private files | atomic write, signature | history and draft |
| Editor document (`gui/bridge/syntax.py`, `qml/config/ConfigEditor.qml`) | pages of the text, undo and redo groups | edit, page change, search, undo, redo | the controller's text, through a QML binding |
| Completion queries (`gui/completion.py`) | two-thread pool, generation, queue of results | request, cancel, deliver | editor popup, completion engine |
| Completion engine (`commands/*.py`) | a catalogue of command forms | complete | pure |
| Analysis (`core/analyzer/*`, `rules/engine.py`) | budgets, cancellation token, diagnostics | analyse | parsers, rules |
| Parsers and rules (`vendors/{huawei,h3c}`) | view stack, blocks in force, configuration model; nothing between two calls | parse, check | called for every analysis of the whole text |
| Registry and detectors (`vendors/registry.py`, `vendors/*/detector.py`) | none | name the vendor of a text, pick its plugin | analysis |
| Input decoding, preferences, clean-up, export, CLI, release scripts | little or none | | |

Three kinds of concurrency meet here: several windows are several *processes*
that share the history, the policy and the files; every window has a *worker
thread* that reads files, analyses and appends to the history, and two threads
that compute completions; and their results are *queued*, delivered after
whatever the user did meanwhile. Writes can fail at any point, and a process can
die at any point. What is hard in the sequential parts is order: an editor whose
copies of one text must agree after any sequence of edits, and a configuration
language in which later lines replace, undo and re-enter earlier ones.

What makes each part correct, in one sentence. *History*: nothing is stored
against the policy, nothing erased returns, nothing else is lost. *Saving*: no
version anybody wrote disappears unless its owner agreed or raced. *Workspace*:
a result belongs to the text shown, and no edit is dropped without a question.
*Analysis*: it ends, within its budgets, and says so when it is incomplete.
*Editor*: it is one text with undo, whatever the pages are. *Completion*: every
question ends and an answer is used only where it was asked. *Vendors*: what is
reported is about commands in force, and undo undoes.

`PROJECT.json` lists every component with its status, and every hazard at the
line where it bites.

## Modules

| Module | Models | Extends |
| --- | --- | --- |
| `PrivateHistory` | what the history promises: two shared files, a policy that is decided, a file that is erased, rewritten under the policy, or damaged | |
| `HistoryStore` | `HistoryStore` and the calls of the controller, transaction by transaction, in every window and worker | refines `PrivateHistory` |
| `HistoryStoreProofs` | its theorems | `HistoryStore`, `FiniteSetTheorems`, `TLAPS` |
| `FileSaving` | `save_configuration` step by step, POSIX and Windows | |
| `FileSavingProofs` | its theorems | `FileSaving`, `TLAPS` |
| `Workspace` | `AnalysisController` with its dialogs, worker and signals | |
| `WorkspaceProofs` | its theorems | `Workspace`, `FiniteSetTheorems`, `SequenceTheorems`, `TLAPS` |
| `AnalysisControl` | `analyze()` with its budgets, cancellation, rule engine and message pass | |
| `AnalysisControlProofs` | its theorems | `AnalysisControl`, `SequenceTheorems`, `TLAPS` |
| `PlainEditor` | what the editor promises: one text with undo and redo | |
| `EditorDocument` | the text area, the page table, the undo history and the controller's text | refines `PlainEditor` |
| `EditorDocumentProofs` | its theorems, after facts about texts, splices, counts of symbols, page tables and positions | `EditorDocument`, `FiniteSetTheorems`, `SequenceTheorems`, `WellFoundedInduction`, `TLAPS` |
| `CompletionQueries` | popup, query dialog and details, the bridge, its two threads and its poll timer | |
| `CompletionQueriesProofs` | its theorems | `CompletionQueries`, `FiniteSetTheorems`, `SequenceTheorems`, `TLAPS` |
| `CommandText`, `CommandSemantics` | words of a line; VLAN lists, routes, networks, ACL rules, names | |
| `ViewReduction` | the view index, merge of re-entered views, singletons, undo | `CommandSemantics` |
| `ViewReductionProofs` | its theorems, for any vendor's commands | `ViewReduction`, `FiniteSetTheorems`, `SequenceTheorems`, `WellFoundedInduction`, `TLAPS` |
| `HuaweiViews`, `H3CViews` | the commands each vendor reduces | `INSTANCE ViewReductionProofs`, which brings the reduction and its theorems |
| `VendorParser`, `HuaweiParser`, `H3CParser` | the configuration read from the commands in force | the vendor's views |
| `VendorRules`, `HuaweiRules`, `H3CRules` | the rules, as sets of reports | the vendor's parser |
| `VendorRegistry` | detectors and the choice of the plugin | both vendors |
| `ConfigAnalysis` | a text typed line by line and analysed after each line | composed with `VendorRegistry` in `MCConfigAnalysis` |
| `ConfigAnalysisProofs` | its theorems about lines, and a line more | `VendorRegistry`, `ConfigAnalysis`, `SequenceTheorems`, `TLAPS` |
| `HuaweiTexts`, `H3CTexts` | the topics: a text to start from and the lines that may follow | |
| `MC...` | instances for TLC | |

### HistoryStore

A window `w` is one process. `mem[w]` is the `HistoryStore` object of its GUI
thread (enabled, retention, revision, entries, `load_warning`, and whether
`_loaded_signature` is current); `op[w]` is its call in progress; `job[w]` its
analysis, with the privacy token captured at submission. `policy`, `file` and
`lock` are on disk.

A call is `Request`, which moves the controller's epoch before the lock is
tried, and then one or two steps under the lock: the two steps of
`set_enabled`, `set_retention` and `clear` (commit the policy, then touch the
file) are separate, so a crash or an error can come between them; so are the
two of `append`. A call that only reads and writes memory, or replaces one file
at its end, is one step.

* Entries carry the clock as id (timestamps strictly increase), the policy
  revision at submission (`rev`, a history variable the code does not store) and
  whether they hold the configuration text (`full`). A fresh uuid revision is
  the next number; a missing policy file is revision 0 with the values of
  QSettings.
* The aggregate quota counts 1 for a summary and 2 for a full entry.
* Another program damages a file only between transactions. `setStaleLockTime`
  takes a lock from a *dead* process at once (`Crash` frees it); that 30 seconds
  of silence take it from a live one is not modelled.
* Not modelled: the synchronous mode of the tests, the `stat` after a successful
  write failing, the temporary file a crash leaves beside the destination,
  and the list model of the view.

`PrivateHistory` knows only the two files. Its steps are `Decide` (a new policy
under a fresh revision), `Erase`, `Rewrite` (entries the committed policy
permits) and `Damage`. `HistoryStore` implements it with the identity mapping on
`policy` and `file`: locks, memory, epochs and tokens are what it takes.

### FileSaving

Any number of savers (windows) save to one destination. The contents of a file
is a version number, fresh for every write; `None` is no file. `save[w].pc`
follows `save_configuration`: inspected, written (temporary file), checked (last
identity check), reserved / ready (on Windows, the free name for the backup),
swapped / moved / linked / relinked (the partial outcomes of
`ReplaceFileW`, `os.link` and `os.replace`), placed, cleanup. `OtherWrites` is
any other program at any moment, including the gap between the last check and
the replacement; `raced[w]` remembers that it happened there. Each operation may
fail, and the process may die between any two. The outcomes of `ReplaceFileW`
come from its contract and from the error codes the code tells apart. ACL,
owner and xattr handling is the metadata step that may fail. The first
inspection by the controller is folded with the one of `save_configuration`.

`placeholder[w]` is the empty file that `mkstemp` makes to find a free name for
the backup and `_replace` removes again before it calls `ReplaceFileW`; making,
closing and removing it may each fail (`BackupNameFails`). `LeftoversReported` is
about the files that hold a version: those are named exactly. The empty one may
stay unnamed (a divergence, below), but then no backup was made.

### Workspace

`doc` is the document with its file, result and status; `draft` the local draft;
`pending` and `scopes` the action that waits for the dialogs; `dialogs` and
`conflict` what is asked; `worker`, `tasks` and `signals` the executor. Helper
operators (`SetText`, `Invalidated`, `Cleared`, `Opened`, ...) are the methods of
the same purpose, functions of the document; the actions are the slots QML
calls, the two tasks of the worker, and the four handlers of its signals.

* A document is one of a few texts; mode, vendor and starting view are one
  value (`Options`). A history entry is the input it records.
* One save is one step with all its outcomes (saved, failed with or without the
  text in place, files kept for recovery); its inner steps are `FileSaving`.
* The identity of a saved file is read after the replacement. `WritesUntilRead`
  lets another program write in between; the save then takes that program's version
  for its own. `mistaken` is a history variable: those versions, with the text the
  save had written. `SavedOnDisk` excepts a document whose identity is mistaken, and
  no other (a divergence, below).
* `agreed` is a history variable: what the user gave up in a dialog.
* A dialog covers the window: only its buttons act, and a conflict dialog is
  covered by the unsaved dialog when both are open. The window takes key strokes
  while it fades out, and nobody is asked about them when it has (`FadeOut`; a
  divergence, below). `NoEditLost` names this exception and no other: any other
  step that changes the text or the window over unsaved changes is typing, agreed
  to, or a save that has just written them (`SavesChanges`). A window that begins to
  fade is such a step, so only what is typed during the fade can be lost.
* The revision moves once per step although some methods move it twice: it is
  only compared for equality. A read-only destination is a conflict that may
  arise and offers no overwrite.
* Not modelled: export, the read-only bundle preview, the link reason of a
  conflict, the immediate close of a minimised window, history limits and other
  windows (those are `HistoryStore`).

### AnalysisControl

One call of `analyze()` on a worker thread. `run` is the call: its stage (`pc`),
the items left in the stage, the counters of `AnalysisControl`, and four
sequences of diagnostics: `emitted` (what the budget has counted), `issues` (the
parser's), `local` (the open rule's) and `found` (what would be returned).
`cancelled` is the token, which the window sets at any step; `expired` is the
clock, which may pass `max_seconds` at any step.

* A diagnostic is a number in order of creation; sorting is left out. What
  parsers and rules compute is abstracted to what they do in any order: pass a
  checkpoint (`Works`), meet an over-long number, charge VLAN memberships, make a
  diagnostic. The marker `SYS-LIMIT-001` is the flag `incomplete`.
* `Checked(r, next)` is `checkpoint()` followed by the rest of a step,
  `Recorded(r, n, next)` is `record_diagnostic`, `LimitReached` both handlers of
  `AnalysisLimitReached`: inside the engine's `try` it keeps what was counted,
  elsewhere nothing but the marker. In message mode that means that a log with
  more unclassified lines than the diagnostic budget yields the marker alone.
* `output` is a history variable: what `RuleEngine.run` returned. The message
  pass of full mode is not counted (`emitted` is `None` by then), so `Bounded`
  excludes it.
* Not modelled: the snapshot mode (as full), the byte budget of `core/input.py`,
  and exceptions other than a failed detection.

### EditorDocument

`editor` is one text area with what `SyntaxHighlighterBridge` keeps for it: the
visible text, `preview` (text, ranges of the pages with their first line, page
shown), `history` (text, undo and redo entries, kind and position of the open
group), and the marks `paged`, `loading` and `selected`. `source` is the
controller's text. `rebinds` tells the two editors of the page apart: the
setter of the configuration notifies the QML binding, the one of the local draft
does not. A text is a sequence of symbols; a symbol in `Wide` counts as one for
Python and as two for QML.

* Actions are the events of the text area and the slots of the bridge: typing
  (with everything `onTextChanged` and `commitPreviewText` do), clearing a page,
  replacing the document, undo, redo, page steps, jumps to a line or to an
  offset, a load or an extract from the controller, the end of `previewLoading`,
  and a press in the area (`MoveCaret`), which ends the selection of the document
  and the group of keys.
* `selected` lasts while all that is shown is selected: when the area gets another
  text, `Reselected` ends it, but for an empty text. With it keys and pastes are
  taken by `ReplaceDocument`; only an input method gets to `Type`, and its text is
  shorter than a page limit (`PagedAbove` is 250000 symbols in the code).
* `mark` and `slipped` are history variables: where the last jump or edit should
  have ended, and that a key came in the instant between a load and the end of
  `previewLoading`, when `onTextChanged` reports nothing.
* The area's native text layout and the caret are left out but for the offset of
  the last jump. The second after which a group closes is `BreakGroup`, at any
  time. Not modelled: highlighting.

`PlainEditor` has a text and two stacks of texts. `UndoTexts` and `RedoTexts`
rebuild those from the compact entries (start, removed, inserted), which is the
refinement mapping.

### CompletionQueries

`place` is the visible text with its caret and the rest of the document; `tasks`
the completions asked so far with their phase (queued, running, answering,
leaving, done); `jobs` the current task per client (popup, dialog, details);
`results` the queue, `pending` the counter of tasks that have not left, `poll`
the timer; `gui` where the GUI thread is in `_drain`. `popup`, `dialog` and
`details` are the QML items with their request numbers and busy marks, `cache`
the result the details turn pages in.

* What a completion finds is one of a few outcomes; only whether it is an edit, a
  list or a failure matters. Cancellation is the flag of a task, tested by the
  worker before it runs and before it answers.
* The dialog fades out: it is `closing` before `onVisibleChanged`, and takes
  results meanwhile. If Enter was pressed before, such a result opens the details (a
  divergence, below): `BusyIsServed`, `WaitsEnd` and `ListsBelong` hold of the closing
  dialog as well, but say nothing of what opens. The 160 ms timer is `QueryDue`.
* Not modelled: the two editors of the page share the bridge under different
  owner names, which never meet; one is modelled. The synchronous completion of
  a read-only catalogue and the shutdown of the pool are left out.

### The vendor stack

A line is its indentation, its words in lower case and its line number; an
instance says which words are numerals, addresses and networks. Both plugins
share `ViewReduction`: `IndexBlocks` splits a text into blocks by indentation,
prompts, `quit` and `#`; `Merged` merges blocks of one view, and lets definitions
and system-level switches replace or delete earlier ones; `InForce` goes through
the commands of a block and lets a later clause or undo replace earlier ones.
`HuaweiViews` and `H3CViews` give it each vendor's tables through `INSTANCE`:
which lines open views, which clauses are single-valued, which undos are
understood. `ignored` is the set of superseded lines.

`HuaweiParsed` and `H3CParsed` are functions from lines to a record of VLANs,
interfaces, BGP and OSPF processes, ACLs, policies, routes and issues. The code
assigns fields while it walks the commands; here a field is what its last
command leaves. Each rule is an operator from that record to reports (rule,
line, severity). `ConfigAnalysis` types lines and analyses the whole text after
each, as the editor does; its properties compare what is in force and reported
before and after a line.

* A topic holds ten to twenty lines about one part of a configuration, with their
  undo forms and re-entries, over one or two names and numbers each; lines of
  different topics do not interact in the code but for the system view.
* A line stands under the last one at the margin; the lines of a snippet may all
  stand deeper (`_analyze` moves them to the margin), so `Margin` is their least
  indentation.
* `Those` keeps the members of a sequence that are in a set, `Extended` adds the
  fields of one record to another: list comprehensions and keyword arguments of
  the code, written so that the provers can expand them.
* Regular expressions become tests of words; a malformed argument is a word that
  is no numeral or address. Wording, confidence and titles are left out.
* Operators that take an operator (`Where`, `VlansOf`, `ScopesOf`, `Without`,
  `MissingMembers`, `Global`, `Managed`, `Each`, ...) are the shared parts of the
  definitions that call them; `PROJECT.json` maps those.
* Not modelled: display output pasted as a snapshot and the operational rules
  over it (`operational.py`, OPS-*; its evidence is a constant of a topic), the
  rules that look a line up in the command catalogue (CMD-001, CMD-002,
  PLATFORM-001), diagnostic bundles, dotted AS numbers, and the VRP spelling of
  hybrid VLAN lists that the H3C parser also accepts.

## Runs

All runs use two workers. Bounds are named constants: calls, inputs, saves,
changes by others, faults.

| Run | Bounds | Shows |
| --- | --- | --- |
| `history` | 2 windows, limit 2, quota 3; 4 calls without faults or 3 with one | transactions and tokens hold; erased history stays erased; no window drops another's entries; writes obey the policy; damage is preserved; refresh honours the policy; `HistoryStore` implements `PrivateHistory` |
| `history_live` | 2 windows, 2 calls, 1 fault, fair | the lock is always released and every submission ends |
| `file_saving` | 2 savers, 3 saves, 2 foreign writes, 2 faults | leftovers are reported; checks hold; nothing is lost; new names never overwrite |
| `workspace` | 3 texts, 2 options, 1 file; 5 inputs and 1 fault, or 4 inputs, 1 foreign write and 1 fault; fair | results and active entry belong to the document; one analysis at a time; a clean document is its file; no edit is lost; a busy window becomes idle |
| `analysis` | 2 lines, 2 rules, 12 units of work, 3 diagnostics, 2 memberships, fair | an unmarked result is complete, nothing is returned twice, the budget bounds it, budgets that end the rules keep their diagnostics, and every analysis ends |
| `editor_document` | texts up to 5 symbols, a letter of two UTF-16 units and a line end, pages of 2 with a search of 1, paged above 3, 5 inputs | pages tile the text; the copies of the document agree; jumps land where they should; an edit changes its place only; `EditorDocument` implements `PlainEditor` |
| `completion_queries` | 2 pages, 2 rests, 2 queries, 2 threads, 3 inputs, fair | no question is forgotten; a busy mark has a job; lists and edits are used where they were asked; every wait ends |
| `vendors` | 31 topics of both vendors, 3 lines typed after the base text | each line is in force or superseded once; reports are live; nothing revives; restating changes nothing; undo cancels; definitions only resolve; VPN scopes stay apart |
| `workspace_draft` | 6 inputs, 1 fault | *violation*: a pending close survives a failed save and later closes over a dirty draft |
| `analysis_partial` | 1 line, 1 rule, 6 units of work | *violation*: in full mode the message pass discards the partial output of the rules |
| `vendor_stable` | the topic of mixed commands, 3 lines | *violation*: one more line turns an H3C text into a Huawei text |
| `stale` | Comware's OSPF topic, 3 lines | *violation*: a bare `ospf` brings undone commands back |

Why the bounds are enough. The hazards of the history need two actors: one that
submits or reads early and one that changes policy or file between, then the
first one again; that is three calls, and the fourth leaves room for a third
party (a submission by the other window). Limit 2 and quota 3 are reached by two
full entries and exceeded by the third. For saving, every partial outcome needs
one fault, its recovery another, and a race one foreign write for each of two
inspections. The longest known counterexample of the workspace takes six
inputs (edit, close, failed save, edit of the draft, save again). 
Twelve units of work reach every stage of a full analysis with two rules, and
end it in each; three diagnostics are exceeded by the issues of the parser alone
and by those of parser and rules together.

Pages of two symbols with a search of one make every page boundary movable by one
edit; a text of five has three pages; an edit, a page step, an undo, a redo and
one more edit are five inputs. Two completions can overtake each other with two
threads; a third input closes or edits what they belong to. In the vendor texts
an undo, a re-entry and a restatement need one line each after a base text that
already has the object, so three lines hold every pair of them and the effect of
the third on the pair.

Deadlock is not checked because every bounded user stops, and an analysis ends.

### Fairness

`FairSpec` of `HistoryStore`: threads that can run do (weak fairness of a
window's GUI call and worker step), and a queued result is delivered in turn
with the user's events (strong fairness of `ApplyResult`: user events cannot
overtake it for ever in Qt's queue). Users are never obliged to act. `FairSpec`
of `Workspace`: the worker takes its next task and the event loop delivers the next signal (weak fairness of `Work`
and `Deliver`). `FairSpec` of `CompletionQueries`: the pool's threads run (weak
fairness of `Worker`), single-shot timers and queued calls fire (`AskAgain`,
`QueryDue`, `QueryClosed`), the drain loop goes on (`Drained`, `Rest`), and the
poll timer, while it runs, is served between the user's events (strong fairness
of the delivery, which a user who opens and closes dialogs disables again and
again). `FairSpec` of `AnalysisControl`: the thread that analyses goes on
(weak fairness of `Step`); neither the clock nor the user has to act.

## Findings

Four runs end in a counterexample that contradicts a sentence of the
documentation; `PROJECT.json` quotes each. Further divergences were met while
modelling; the models contain them, and the properties are stated so that they
hold with them.

| Where | What |
| --- | --- |
| `gui/models/history.py:277` | A switch to summary retention while the history is disabled strips nothing from a file that a failed disable left ("Switching to summary strips source and diagnostic content from stored entries", `README.md:55`). |
| `gui/file_saving.py:191` | The empty file that reserves the backup's name is removed before `ReplaceFileW`. When that fails, the error names no file, and the empty file stays beside the destination (`BackupNameFails`, then `CleanUp`); `tests/gui/test_v31_windows_file_metadata.py:262-268` expects that only files an error names stay there. `LeftoversReported` is about files with a version in them. |
| `gui/file_saving.py:242` | The identity of the saved file is read after the replacement. A write by another program in between is taken for the saved version: the document is clean although the file differs, and the next save replaces that version without a conflict ("Saves detect external changes", `README.md:22`). `SavedOnDisk` excepts it (`Mistaken`). |
| `gui/qml/Main.qml:323` | Unsaved changes are asked about before the fade-out starts (116); when it ends, `closingAnimation` sets `allowClose` and closes the window. What was typed into the fading window is lost without a question ("closing the window offer Save, Discard, or Cancel", `README.md:31-33`): `CloseWindow`, `EditSource`, `FadeOut`. `NoEditLost` excepts it. |
| `gui/qml/config/CommandQueryDialog.qml:46` | A result is dropped only when the dialog is not visible, and `openWhenReady` is reset only then (39). After Enter and close, a result that arrives during the exit transition opens the details over a closed query (`Enter`, `CloseQuery`, `DeliverDialog`; `docs/v3.1-ux-repairs.md:7`, L01: cancelled results change no window). |
| `gui/controllers/analysis.py:990` | A sample request left pending by a failed save and finished during an analysis puts the sample under the path of the user's file, because `clear()` returns while busy (378-379; `docs/v3.0-ux-repairs.md:24`, F18). |
| `vendors/huawei/parser/semantics.py:166`, `vendors/h3c/parser/semantics.py:165` | In a basic IPv4 ACL the protocol of a rule is `family.replace("4", "")`, that is "ipv", so no rule of such a list counts as unrestricted and ACL-002 ("ACL broadly permits any source to any destination", `README.md:277`) never reports one. |
| `vendors/h3c/parser/views.py:146` | The clause keys of an interface hold every `ospf ...` command in one key, so an `ospf cost` after `ospf 1 area 0` replaces the binding. |
| `vendors/huawei/parser/views.py:419` | Re-entering `ospf 1 router-id ...` replaces a header with a VPN: only a bare re-entry keeps it. |
| `vendors/huawei/parser/views.py:380` | Indented lines under a reduced `undo interface X` are neither in force nor superseded; `EachLineOnce` excepts lines under a superseded header. |
| `vendors/*/parser/views.py` | `undo ospf` deletes the view of every process, and a later `acl name A number N` changes which earlier headers mean the same list; `NothingRevived` excepts the latter and texts with a header of the default process. |
| `vendors/h3c/parser/config_parser.py:191` | The stack ports are read off every line of the text, not off the commands in force, so IRF-001 can point at a line that a later one superseded; `ReportsAreLive` excepts it. |
| `vendors/h3c/parser/views.py:62` (and `vendors/huawei/parser/views.py:60`) | The view a snippet starts in has no header in the text, so its block is given line 1. What Comware's rules report of the view of a login line itself, namely that it leaves the protocol or the authentication unset (SEC-009, SEC-010), points at line 1, which may be a command that is undone or is itself an undo. `ReportsAreLive` excepts these reports, in a snippet, at line 1, while the view leaves the setting unset (`LeftUnset`), and no others. |

## Proofs

`HistoryStoreProofs` (any windows, limit, quota, calls and faults). The
inductive invariant is

    StoreInv == TypeOK /\ TransactionInv /\ TokensInv /\ ErasedStaysErased /\ FileInv

`ErasedStaysErased` alone is not inductive: the worker writes a list it prepared
one step before. `TransactionInv` says that in between it holds the lock, the
policy is still the one it saw, and the list contains only permitted entries;
`TokensInv` that a token that still matches the policy belongs to a submission
at this revision, so it is not older than the last erasure; `FileInv` that
an absent or damaged file has no entries. `TransactionInv` in turn rests on mutual
exclusion (`Exclusion`: two holders of the lock are the same thread). One lemma
per group of actions shows that steps without the lock touch nothing the holder
relies on (`...Quiet`), and `SharedStep` that only four steps change the shared
files, each of them a step of `PrivateHistory`. From the invariant follow
`TypeCorrect`, `TransactionsHold`, `TokensHold`, `ErasureHolds`,
`WritesAllowed`, `Implementation`, `DamageKept` and `RefreshSafe`.

`EntriesKept` (`NoEntryLost`) needs a second invariant, `FilesInv`, inductive
together with `StoreInv`: the file is finite, no two of its entries have one id and
none has an id still to come, and what a worker is about to write already keeps
(`Kept`) every entry of the file it will replace. The last part is what the lock
is for: the worker made its list one step before it writes it. `NewestDrops` and
`RetainedDrops` say why the limit and the quota dropped an entry, `StripKeeps`
that stripping the texts loses no entry (it would, if two had one id), and
`NewestStays` that the new result is never the one that is dropped, which is where
`Quota` has to be at least 2, the cost of a full entry. `ReducedKept` and
`AppendedKept` put them together for the two kinds of writes.

`FileSavingProofs` (any savers, on both platforms). `SaveInv` adds to the types
which files each step of a save has (`FilesInStep`), what is reported, and that
a saver whose gap nobody entered finds what it expected (`BackupReserved`: only
a save over an existing file reserves a backup's name, and its empty file never
stays beside a backup). `NothingReportedYet`
makes the report inductive. From it follow `SavingTypeCorrect`, `LeftoversNamed`,
`ChecksHold`, `NothingOverwritten`, and `NoVersionLost`, which goes through each
step that removes a file.

`WorkspaceProofs` (any documents, options, files, inputs, foreign writes and
failures). Four parts hold together.

* `Typed`, the types.
* `Flying` looks at the finished tasks whose signals wait, followed by the tasks
  that wait, as one sequence in the order of delivery (`Flight`). There is at most one analysis in
  it; nothing that ends the busy mark is behind the latest load; a load is never
  newer than `loadRevision`, nor that than the document; and an analysis that was
  started at the document's revision has the document's own input. `OneAnalysis`
  alone is not inductive, because every handler takes the busy mark back, and
  `ResultsBelong` is not, because a result is matched by its revision alone.
* `Filed`: the version a document, the snapshot behind a sample and every loaded
  file on its way were read or written as is not newer than the newest, and
  while it is on disk it holds the text it came with, unless a save took it for
  its own (`TakenFor`). `WritesUntilReadEffect` is the step that can.
* `Asked`: what an open question is about is in the scopes, a close request is all
  that can wait while a load is under way, and what a load will replace is clean
  or given up.

`Evolves` says what most steps do to a document (text and options change only
with the revision, results stay or go); each method of the controller has a
lemma that it evolves the document and where the document's file comes from, and
`FinishEffect`, `SaveSourceEffect` and their like reduce the nested handlers to
four kinds of steps (`EditStep`, `AskStep`, `SaveStep` and the answers), so that
each part needs one step per kind. The lemmas named `Orderly...` say what
appending, turning, dropping and ending does to any sequence. From the parts
follow `WorkspaceTypes`, `ResultsAreCurrent`, `OneAnalysisAtATime`,
`CleanIsOnDisk` and the action property `EditsAreKept`.

`AnalysisControlProofs` (any input, rules and budgets). `Sound` says where the
diagnostics 1 to `made` are at each stage: in the parser and the rules `emitted`
is exactly 1 to `made` (in between, as far as the issues are counted again), an
open rule's own go on where `found` ends, and a
message pass after a limit has an ascending selection. `CheckedKeeps` and
`RecordedKeeps` reduce every action to its last step, and `LimitKeeps` is where an
exhausted budget hands `emitted` over. From it `AnalysisTypeCorrect`,
`ReturnedOnce`, `BudgetHolds` and, as an action property, `RuleOutputKept`.

`CompletionQueriesProofs` (any texts, queries, number of threads and inputs).
`QueryInv` has one part per party. `Served` is the bridge: every job is an
uncancelled task of its client that will answer or whose answer is queued, the
timer runs while there is one, and `pending` is the number of tasks that have not
left. `PopupHolds`, `DialogHolds` and `DetailsHold` say what each request number
in QML asks: the properties about busy indicators and lists are not inductive
without it, because an answer is matched by its number alone. Lemmas about
cancelling, starting, moving and taking (`CancelServes`, `AddServes`,
`PhaseServes`, `TakeServes`) hold of any tasks and jobs, and one `...Keeps` per
action puts them together. From it `QueryTypes`, `NoQueryLost`, `BusyServed`,
`ListsCurrent` and the action property `EditsExact`.

`EditorDocumentProofs` (any symbols, documents, page size, search, paging limit,
lengths and inputs). The first half says what parts, splices,
and counts of symbols, lines and units are of each other; that the recursive
table of a text exists and tiles it (`PagesTable`), by induction over a set of
natural numbers (`Induction`, from the least element of a set); that replacing a
page keeps the table in order (`ShiftedTable`, `ReplacedTiled`); and where a
position, a line or a UTF-16 offset is on its page (`PageAtIs`, `LineOnPage`,
`UnitOnPage`). In the second half, `Leads(t, edit, u)` says that an entry takes one text
to another; an entry that is merged with the next one leads from where the first
began to where the second ended (`MergedLeads`), and the difference of two texts
leads from one to the other in any text they are parts of (`DifferenceLeads`).
`Undoes(h, past)` and `Redoes(h, future)` name the texts behind all entries of a
history, and `Moves(h, g)` the six things a step may do to one, each a step of
`PlainEditor` (`MovesPlainly`). The inductive invariant is

    IInv == marks /\ Agrees(editor, rebinds, source, readOnly, slipped)
                  /\ Placed(mark, editor, source, slipped)

`CopiesAgree` is not inductive: an undo needs entries that fit the text
(`Chained`, in `Sound`), an edit pages in order (`Tiled`), and the paging must
fit the length not only for the configuration but while an area is loading or a
key slipped in, because then a binding can write once more; a key that slipped
into a selected area must have emptied it. One lemma per function of the bridge
(`CommittedIs`, `PreparedIs`, `BoundIs`, `AppliedIs`, `ShowingIs`) says what it
makes of a sound editor, and one `...Keeps` per action uses it. From the
invariant follow `TypesHold`, `CopiesInStep`, `PagesInOrder`, `MarksHold` and
`EditsAreLocal`; from the moves `RefinesPlainEditor`, once `UndoTexts` and
`RedoTexts`, recursive functions over the entries, are shown to be the texts that
`Undoes` and `Redoes` name.

`ViewReductionProofs` and `ConfigAnalysisProofs` (any topics and texts, any words,
numerals, addresses and networks, either vendor). `EachLineOnce` is about what a
fold over the lines, another over the blocks and a third over the commands of a
block compute, so each fold is first shown to be a run of states
(`...Folded`: g[0] is the base, g[k] is one step from g[k - 1], and the last is
the result), and an invariant is then carried along the run.

* The index. `ReadInv` says that after k lines every configuring line has one
  block (`Covered`, `Parted`), no header stands between a block's header and one
  of its commands, and the block that is open is under the last header. Each of
  the five ways to read a line keeps it; `IndexPartitions` is the result.
* The merge. `MergeInv` says that after m blocks no two views share a line and
  no view holds a dropped one (`Apart`, `Spared`); every line of the m blocks is
  dropped, in a view, or under a dropped header (`Kept`); and the lines of a
  view come from blocks whose header is the view's own or was dropped
  (`Sourced`), without which joining two blocks could drop a header whose lines
  stay elsewhere. Whatever removes views (a definition, a switch, a route, an
  undo) does what `Drops` says, so one argument serves them all (`DropKeeps`);
  `AbsorbKeeps` is the step from one block to the next. `InForceIs` says that
  the commands in force in a block are some of its own; the others are
  superseded. `LinesOnce` puts the three together.
* The plugins. A view without a header must have no key, or two of them would
  become one: `HuaweiUnkeyed` and `H3CUnkeyed` check the tables of the vendors.
  `HuaweiParses` and `H3CParses` say that the parsers pass on what the
  reduction makes; `MarginIs` and `PlacedIs` that moving a snippet to the margin
  moves no header below another line.
* The text. `TextInv`: the lines are well formed and numbered, and the
  configuration is theirs. It is inductive, and `SettledIsOnce` reads
  `EachLineOnce` off it (`LinesAreInForceOnce`).

`NothingRevived` compares the reductions of a text and of the text with a line
more. No invariant of one run says it; the two are compared step by step.

* The index of the longer text is that of the shorter one, or has one block more
  at its end, or one command more in its last block (`OneMore`, `IndexMore`).
  The aliases of the lists stay what they were unless the line renames a list
  (`AliasesSame`), so all blocks but the last are merged alike (`MergePrefix`),
  and the proof is about the last step of the merge.
* `Traced(ms, ns, a)` says that each view of ns is of the line a alone or
  `Follows` a view of ms: what it holds in force, that view does, but for a. It
  holds where views only go (`TracedPart`), where a block is taken in
  (`AbsorbTraced`), and where the block taken in has one command more
  (`AbsorbGrown`). A command more brings no earlier one back because obeying only
  drops commands and appends the new one (`InForceMore`), provided both are
  obeyed under headers that are `Alike`. `NoneRevived` is the result, for any
  tables for which `HeadersAlike`.
* That hypothesis is a fact about the tables: a block that re-enters a view may
  put its header in place of the view's, and the commands are then obeyed again
  under the new one. `HuaweiTables` and `H3CTables` show that headers of one key,
  or of two lists, agree on every test the tables make of a header. `ospf`
  without a process number does not (it has the key of `ospf 1`, but its
  undo lines are not obeyed): hence `DefaultProcess`, and the `stale` run.
* `HuaweiReads` and `H3CReads` give the reduction the two placed texts. They are
  one line apart only while the margin of a snippet stands, which is why
  `NothingRevived` excepts a line that moves it: all headers further right then
  become commands of a view that is not known. `NothingComesBack` puts the steps
  of the specification on top.

The hypothesis `Plugins` of these theorems says that the parser of the topic is
`PluginParsed`, as the configurations of the runs set it; without it `Parsed` is
any operator. `TopicAssumption` says what a text may be: lines of words with
an indentation and no prompt of a device before them, and a
starting view that is not an undo. TLC evaluates it for every topic.

The proofs assume only the named assumptions on the constants
(`LimitAssumption`, `QuotaAssumption`, `BoundsAssumption`, `SavingBounds`,
`Documents`, `Budgets`, `QueryBounds`, `EditorBounds`, `NumberAssumption`,
`NetworkAssumption`, `TopicAssumption`, and `NoneIsNoRecord`: the
value for "no page table" is no record).

### Model-checked only

Liveness (`LockReleased`, `JobsEnd`, `BusyEnds`, `Terminates`, `WaitsEnd`: fairness and
ENABLED are out of the prover's reach), and of the vendor stack what goes through
the parsers and rules: `ReportsAreLive`, `RestatingChangesNothing`,
`UndoCancels`, `DefinitionsOnlyResolve` and `VpnScopesApart` are about what some
forty operators over the commands collect, each with folds of its own. Lines with a prompt before them are in no topic.
The type invariants of the proved modules are
theorems and parts of their inductive invariants; no run repeats them.

## Not modelled

Rendering, translation, highlighting and export have one output for one input.
Decoding of bytes, preferences, the command line and the completion engine (a
pure function over a generated catalogue) are sequential and better tested than
model-checked. The uninstaller's clean-up and the release scripts run once,
alone. Snapshots of display output and the operational rules are a second
grammar, over tables, that shares nothing with configuration views. The
catalogue rules look every line up in the same generated catalogue. The lock's
stale time of 30 s needs a model of time for a case (a live process that stalls
inside a transaction) against which the code has no defence to check.
