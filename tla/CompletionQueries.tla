-------------------------- MODULE CompletionQueries --------------------------
(***************************************************************************)
(* Command completion of one editor: the popup of ConfigEditor.qml, the    *)
(* command query dialog and the details dialog over them ask the bridge    *)
(* CommandCompletion, which answers at once or has one of two worker       *)
(* threads answer; a timer of the GUI thread takes the results from a      *)
(* queue.  What complete() computes is not modelled, only whether it is an *)
(* edit (unique or not), a list or a failure.                              *)
(***************************************************************************)
EXTENDS Integers, Sequences, FiniteSets

CONSTANTS Pages,      \* visible texts with the caret in them
          Rests,      \* what else the document holds
          Queries,    \* texts of the query field
          Threads,    \* max_workers
          MaxInputs,  \* bound: events of the user
          None

ASSUME QueryBounds == /\ Threads \in Nat \ {0} /\ MaxInputs \in Nat
                      /\ Pages # {} /\ Rests # {}

Places == [page : Pages, rest : Rests]
Clients == {"popup", "dialog", "details"}
Asked == Places \cup Queries
Answers == {"edit", "unique", "list", "error"}
Tasks == [client : Clients, for : Asked, cancelled : BOOLEAN,
          phase : {"queued", "running", "answering", "leaving", "done"}]

VARIABLES
    place,     \* text and caret of the editor
    readOnly,  \* editor.readOnly
    tasks,     \* every _CompletionTask by serial: client, for, cancelled, phase
    jobs,      \* _jobs: client -> serial, 0 when there is none
    results,   \* _CompletionState.results
    pending,   \* _CompletionState._pending
    poll,      \* the poll timer runs
    gui,       \* what the GUI thread is in the middle of
    popup,     \* completion popup: open, request, busy, source, shown, again
    dialog,    \* query dialog: phase, request, busy, query, shown, due, enter
    details,   \* details dialog: open, request, busy, for, shown
    cache,     \* _detail_cache of this editor
    inputs

guiVars == <<place, popup, dialog, details, cache, gui, readOnly, inputs>>
vars == <<place, readOnly, tasks, jobs, results, pending, poll, gui,
          popup, dialog, details, cache, inputs>>

Queued(client, what) ==
    [client |-> client, for |-> what, cancelled |-> FALSE, phase |-> "queued"]

Init ==
    /\ place = CHOOSE p \in Places : TRUE
    /\ readOnly \in BOOLEAN
    /\ tasks = <<>> /\ jobs = [c \in Clients |-> 0]
    /\ results = <<>> /\ pending = 0 /\ poll = FALSE
    /\ gui = "idle"
    /\ popup = [open |-> FALSE, request |-> 0, busy |-> FALSE, source |-> None,
                shown |-> None, again |-> FALSE]
    /\ dialog = [phase |-> "closed", request |-> 0, busy |-> FALSE, query |-> None,
                 shown |-> None, due |-> FALSE, enter |-> FALSE]
    /\ details = [open |-> FALSE, request |-> 0, busy |-> FALSE, for |-> None, shown |-> None]
    /\ cache = None
    /\ inputs = 0

----------------------------------------------------------------------------
(* The bridge.  A GUI step cancels the jobs of some clients and may start   *)
(* one; the new serial is Serial.                                           *)

Serial == Len(tasks) + 1

WithCancelled(clients) ==
    [s \in DOMAIN tasks |->
        IF \E c \in clients : jobs[c] = s THEN [tasks[s] EXCEPT !.cancelled = TRUE]
        ELSE tasks[s]]

(* cancelQuery and cancelDetails *)
Cancel(clients) ==
    /\ tasks' = WithCancelled(clients)
    /\ jobs' = [c \in Clients |-> IF c \in clients THEN 0 ELSE jobs[c]]
    /\ UNCHANGED <<results, pending, poll>>

(* _start *)
Start(client, what, clients) ==
    /\ tasks' = Append(WithCancelled(clients \cup {client}), Queued(client, what))
    /\ jobs' = [c \in Clients |-> IF c = client THEN Serial
                                  ELSE IF c \in clients THEN 0 ELSE jobs[c]]
    /\ pending' = pending + 1
    /\ poll' = TRUE
    /\ UNCHANGED results

Alone == UNCHANGED <<tasks, jobs, results, pending, poll>>

----------------------------------------------------------------------------
(* The popup *)

Closed == [popup EXCEPT !.open = FALSE, !.request = 0, !.busy = FALSE]

(* requestCompletionResult, answered later *)
PopupWaits(again) ==
    /\ Start("popup", place, {})
    /\ popup' = [popup EXCEPT !.open = TRUE, !.request = Serial, !.busy = TRUE,
                              !.source = place, !.shown = None, !.again = again]
    /\ gui' = "idle"
    /\ UNCHANGED place

(* applyCompletionResult: answer to a request for the present place.  An    *)
(* edit changes the text; unless it is unique the rest is asked for at once.*)
Applies(answer, again) ==
    \/ /\ answer = "error" \/ (answer \in {"edit", "unique"} /\ readOnly)
          \/ (answer = "list" /\ ~ again)
       /\ popup' = [popup EXCEPT !.open = TRUE, !.request = 0, !.busy = FALSE,
                                 !.source = place,
                                 !.shown = IF answer = "error" THEN None ELSE place]
       /\ gui' = "idle"
       /\ UNCHANGED place
    \/ /\ answer = "list" /\ again
       /\ \/ popup' = Closed
          \/ popup' = [popup EXCEPT !.open = TRUE, !.request = 0, !.busy = FALSE,
                                    !.source = place, !.shown = place]
       /\ gui' = "idle"
       /\ UNCHANGED place
    \/ /\ answer \in {"edit", "unique"} /\ ~ readOnly /\ ~ again
       /\ \E p \in Pages \ {place.page} : place' = [place EXCEPT !.page = p]
       /\ popup' = IF answer = "unique" THEN Closed
                   ELSE [popup EXCEPT !.request = 0, !.busy = FALSE]
       /\ gui' = IF answer = "unique" THEN "idle" ELSE "again"

(* requestInteractive: at once or by a worker. *)
Ask(again) ==
    \/ PopupWaits(again)
    \/ /\ \E answer \in Answers : Applies(answer, again)
       /\ Cancel({"popup"})

Idle == gui = "idle"
Input == Idle /\ inputs < MaxInputs /\ inputs' = inputs + 1
EditorHasFocus == dialog.phase = "closed" /\ ~ details.open
SameDialogs == UNCHANGED <<dialog, details, cache>>

(* requestCompletion: Tab or Ctrl+Space; with a list it goes through it. *)
RequestCompletion ==
    /\ Input
    /\ EditorHasFocus
    /\ ~ (popup.open /\ popup.shown # None)
    /\ Ask(FALSE)
    /\ SameDialogs /\ UNCHANGED readOnly

(* Still in the same event: the rest after an edit. *)
AskAgain ==
    /\ gui = "again"
    /\ Ask(TRUE)
    /\ SameDialogs /\ UNCHANGED <<readOnly, inputs>>

ClosePopup(newPlace) ==
    /\ place' = newPlace
    /\ popup' = Closed
    /\ IF popup.request # 0 THEN Cancel({"popup"}) ELSE Alone

(* Keys, the mouse and other programs change the text or move the caret. *)
Type ==
    /\ Input
    /\ EditorHasFocus
    /\ \E p \in Places : p.page # place.page /\ p.rest = place.rest /\ ClosePopup(p)
    /\ SameDialogs /\ UNCHANGED <<readOnly, gui>>

(* Another document is loaded.  A long one may begin with the same page:    *)
(* the text area notices nothing.                                           *)
Load ==
    /\ Input
    /\ \E p \in Places \ {place} :
          IF p.page # place.page THEN ClosePopup(p)
          ELSE place' = p /\ popup' = popup /\ Alone
    /\ SameDialogs /\ UNCHANGED <<readOnly, gui>>

(* acceptCompletion *)
Accept ==
    /\ Input
    /\ popup.open /\ popup.shown # None
    /\ place.page = popup.source.page
    /\ ~ readOnly
    /\ \E p \in Pages \ {place.page} : ClosePopup([place EXCEPT !.page = p])
    /\ SameDialogs /\ UNCHANGED <<readOnly, gui>>

(* Escape, a click elsewhere. *)
Dismiss ==
    /\ Input
    /\ popup.open
    /\ ClosePopup(place)
    /\ SameDialogs /\ UNCHANGED <<readOnly, gui>>

----------------------------------------------------------------------------
(* The query dialog *)

Visible == dialog.phase \in {"open", "closing"}

(* openCommandQuery: the editor loses the focus, the popup closes. *)
OpenQuery ==
    /\ Input
    /\ EditorHasFocus
    /\ \E q \in Queries :
          /\ dialog.query \in {None, q}
          /\ Start("dialog", q, {"popup"})
          /\ dialog' = [dialog EXCEPT !.phase = "open", !.busy = TRUE, !.query = q,
                                      !.request = Serial]
    /\ popup' = Closed
    /\ UNCHANGED <<place, readOnly, details, cache, gui>>

(* Mutant: typing lets the query under way answer. *)
EditQueryUncancelled ==
    /\ Input
    /\ dialog.phase = "open" /\ ~ details.open
    /\ Alone
    /\ \E q \in Queries \ {dialog.query} :
          dialog' = [dialog EXCEPT !.query = q, !.busy = TRUE, !.shown = None,
                                   !.due = TRUE, !.enter = FALSE]
    /\ UNCHANGED <<place, readOnly, popup, details, cache, gui>>

(* queryField.onTextChanged *)
EditQuery ==
    /\ Input
    /\ dialog.phase = "open" /\ ~ details.open
    /\ Cancel({"dialog"})
    /\ \E q \in Queries \ {dialog.query} :
          dialog' = [dialog EXCEPT !.query = q, !.request = 0, !.busy = TRUE,
                                   !.shown = None, !.due = TRUE, !.enter = FALSE]
    /\ UNCHANGED <<place, readOnly, popup, details, cache, gui>>

(* refresh by the timer *)
QueryDue ==
    /\ Idle
    /\ dialog.due /\ Visible
    /\ Start("dialog", dialog.query, {})
    /\ dialog' = [dialog EXCEPT !.due = FALSE, !.busy = TRUE, !.request = Serial]
    /\ UNCHANGED <<place, readOnly, popup, details, cache, gui, inputs>>

(* CompletionDetailsDialog.show for a row with a detail key. *)
ShowDetails(what) ==
    /\ Start("details", what, {})
    /\ details' = [open |-> TRUE, request |-> Serial, busy |-> TRUE, for |-> what,
                   shown |-> None]
    /\ cache' = None

(* queryField.onAccepted *)
Enter ==
    /\ Input
    /\ dialog.phase = "open" /\ ~ details.open
    /\ IF ~ dialog.busy /\ dialog.shown # None
       THEN /\ ShowDetails(dialog.query)
            /\ dialog' = [dialog EXCEPT !.due = FALSE]
       ELSE /\ Start("dialog", dialog.query, {})
            /\ dialog' = [dialog EXCEPT !.due = FALSE, !.busy = TRUE,
                                        !.request = Serial, !.enter = TRUE]
            /\ UNCHANGED <<details, cache>>
    /\ UNCHANGED <<place, readOnly, popup, gui>>

(* The dialog stays visible while it fades out. *)
CloseQuery ==
    /\ Input
    /\ dialog.phase = "open" /\ ~ details.open
    /\ dialog' = [dialog EXCEPT !.phase = "closing"]
    /\ Alone
    /\ UNCHANGED <<place, readOnly, popup, details, cache, gui>>

QueryClosed ==
    /\ Idle
    /\ dialog.phase = "closing"
    /\ Cancel({"dialog"})
    /\ dialog' = [dialog EXCEPT !.phase = "closed", !.due = FALSE, !.request = 0,
                                !.busy = FALSE, !.enter = FALSE]
    /\ UNCHANGED <<place, readOnly, popup, details, cache, gui, inputs>>

(* F1 on a row of the popup *)
PopupDetails ==
    /\ Input
    /\ popup.open /\ popup.shown # None /\ EditorHasFocus
    /\ ShowDetails(place)
    /\ popup' \in {popup, Closed}
    /\ UNCHANGED <<place, readOnly, dialog, gui>>

(* detailPage: a page of what the cache holds. *)
TurnDetails ==
    /\ Input
    /\ details.open /\ ~ details.busy /\ details.request # 0
    /\ details' = [details EXCEPT !.shown = cache]
    /\ Alone
    /\ UNCHANGED <<place, readOnly, popup, dialog, cache, gui>>

CloseDetails ==
    /\ Input
    /\ details.open
    /\ Cancel({"details"})
    /\ details' = [open |-> FALSE, request |-> 0, busy |-> FALSE, for |-> None,
                   shown |-> None]
    /\ cache' = None
    /\ UNCHANGED <<place, readOnly, popup, dialog, gui>>

----------------------------------------------------------------------------
(* Workers: _run_completion *)

Phase(s, from, to) ==
    /\ tasks[s].phase = from
    /\ tasks' = [tasks EXCEPT ![s].phase = to]

Begin(s) ==
    /\ Cardinality({t \in DOMAIN tasks :
                       tasks[t].phase \notin {"queued", "done"}}) < Threads
    /\ \A t \in 1 .. s - 1 : tasks[t].phase # "queued"
    /\ Phase(s, "queued", "running")
    /\ UNCHANGED <<results, pending>>

(* complete() saw the event, or it was set by the last look. *)
GiveUp(s) ==
    /\ tasks[s].cancelled
    /\ Phase(s, "running", "leaving")
    /\ UNCHANGED <<results, pending>>

Computed(s) ==
    /\ ~ tasks[s].cancelled
    /\ Phase(s, "running", "answering")
    /\ UNCHANGED <<results, pending>>

Put(s) ==
    /\ Phase(s, "answering", "leaving")
    /\ results' = Append(results, s)
    /\ UNCHANGED pending

(* Mutant: a task that was cancelled is not counted out. *)
LeaveUncounted(s) ==
    /\ Phase(s, "leaving", "done")
    /\ pending' = IF tasks[s].cancelled THEN pending ELSE pending - 1
    /\ UNCHANGED results

Leave(s) ==
    /\ Phase(s, "leaving", "done")
    /\ pending' = pending - 1
    /\ UNCHANGED results

Worker(s) ==
    /\ Begin(s) \/ GiveUp(s) \/ Computed(s) \/ Put(s) \/ Leave(s)
    /\ UNCHANGED <<place, readOnly, jobs, poll, gui, popup, dialog, details, cache, inputs>>

----------------------------------------------------------------------------
(* The poll timer: _drain and _deliver *)

Taken == /\ results' = Tail(results)
         /\ UNCHANGED <<pending, poll>>

Answered(client) ==
    /\ tasks' = tasks
    /\ jobs' = [jobs EXCEPT ![client] = 0]

(* Mutant: any result of a client ends the job it has. *)
DropEndsJob ==
    /\ Idle /\ poll /\ results # <<>>
    /\ LET s == Head(results) IN
         /\ jobs[tasks[s].client] # s \/ tasks[s].cancelled
         /\ jobs' = [jobs EXCEPT ![tasks[s].client] = 0]
    /\ Taken
    /\ UNCHANGED <<tasks, guiVars>>

(* A result nobody waits for. *)
Drop ==
    /\ Idle /\ poll /\ results # <<>>
    /\ LET s == Head(results) IN
         jobs[tasks[s].client] # s \/ tasks[s].cancelled
    /\ Taken
    /\ UNCHANGED <<tasks, jobs, guiVars>>

(* Mutant: only the page shown is compared with the one asked for. *)
DeliverPopupToPage ==
    /\ Idle /\ poll /\ results # <<>>
    /\ LET s == Head(results) IN
         /\ tasks[s].client = "popup" /\ jobs["popup"] = s
         /\ IF popup.request # s
            THEN UNCHANGED <<place, popup, gui>>
            ELSE IF place.page # popup.source.page
            THEN popup' = Closed /\ UNCHANGED <<place, gui>>
            ELSE \E answer \in Answers : Applies(answer, popup.again)
    /\ Taken /\ Answered("popup")
    /\ SameDialogs /\ UNCHANGED <<readOnly, inputs>>

(* queryReady for the popup: only where text and caret are those asked for. *)
DeliverPopup ==
    /\ Idle /\ poll /\ results # <<>>
    /\ LET s == Head(results) IN
         /\ tasks[s].client = "popup" /\ jobs["popup"] = s
         /\ IF popup.request # s
            THEN UNCHANGED <<place, popup, gui>>
            ELSE IF place # popup.source
            THEN popup' = Closed /\ UNCHANGED <<place, gui>>
            ELSE \E answer \in Answers : Applies(answer, popup.again)
    /\ Taken /\ Answered("popup")
    /\ SameDialogs /\ UNCHANGED <<readOnly, inputs>>

(* queryReady for the dialog; Enter may have been pressed before. *)
DeliverDialog ==
    /\ Idle /\ poll /\ results # <<>>
    /\ LET s == Head(results) IN
         /\ tasks[s].client = "dialog" /\ jobs["dialog"] = s
         /\ results' = Tail(results)
         /\ IF Visible /\ dialog.request = s
            THEN \E rows \in BOOLEAN :
                   /\ dialog' = [dialog EXCEPT !.busy = FALSE, !.enter = FALSE,
                                 !.shown = IF rows THEN tasks[s].for ELSE None]
                   /\ IF dialog.enter /\ rows
                      THEN /\ tasks' = Append(WithCancelled({"details"}),
                                              Queued("details", dialog.query))
                           /\ jobs' = [jobs EXCEPT !["dialog"] = 0, !["details"] = Serial]
                           /\ pending' = pending + 1
                           /\ details' = [open |-> TRUE, request |-> Serial, busy |-> TRUE,
                                          for |-> dialog.query, shown |-> None]
                           /\ cache' = None
                      ELSE /\ Answered("dialog")
                           /\ UNCHANGED <<pending, details, cache>>
            ELSE /\ Answered("dialog")
                 /\ UNCHANGED <<pending, dialog, details, cache>>
    /\ UNCHANGED <<place, readOnly, poll, popup, gui, inputs>>

(* detailReady *)
DeliverDetails ==
    /\ Idle /\ poll /\ results # <<>>
    /\ LET s == Head(results) IN
         /\ tasks[s].client = "details" /\ jobs["details"] = s
         /\ cache' = tasks[s].for
         /\ details' = IF details.open /\ details.request = s
                       THEN [details EXCEPT !.busy = FALSE, !.shown = tasks[s].for]
                       ELSE details
    /\ Taken /\ Answered("details")
    /\ UNCHANGED <<place, readOnly, popup, dialog, gui, inputs>>

(* The queue was empty; then the timer looks at jobs and tasks left. *)
Drained ==
    /\ Idle /\ poll /\ results = <<>>
    /\ gui' = "drained"
    /\ UNCHANGED <<place, readOnly, tasks, jobs, results, pending, poll,
                   popup, dialog, details, cache, inputs>>

(* Mutant: the timer looks at the tasks that run and not at the jobs. *)
RestIgnoringJobs ==
    /\ gui = "drained"
    /\ gui' = "idle"
    /\ poll' = (pending # 0)
    /\ UNCHANGED <<place, readOnly, tasks, jobs, results, pending,
                   popup, dialog, details, cache, inputs>>

Rest ==
    /\ gui = "drained"
    /\ gui' = "idle"
    /\ poll' = ~ ((\A c \in Clients : jobs[c] = 0) /\ pending = 0)
    /\ UNCHANGED <<place, readOnly, tasks, jobs, results, pending,
                   popup, dialog, details, cache, inputs>>

Poll == Drop \/ DeliverPopup \/ DeliverDialog \/ DeliverDetails \/ Drained \/ Rest

User == \/ RequestCompletion \/ Type \/ Load \/ Accept \/ Dismiss
        \/ OpenQuery \/ EditQuery \/ Enter \/ CloseQuery
        \/ PopupDetails \/ TurnDetails \/ CloseDetails

Next == \/ User
        \/ AskAgain
        \/ QueryDue
        \/ QueryClosed
        \/ Poll
        \/ \E s \in DOMAIN tasks : Worker(s)

Spec == Init /\ [][Next]_vars

(* The threads run, the event loop turns, the timers fire. *)
FairSpec ==
    /\ Spec
    /\ WF_vars(AskAgain) /\ WF_vars(QueryDue) /\ WF_vars(QueryClosed)
    /\ SF_vars(Drop \/ DeliverPopup \/ DeliverDialog \/ DeliverDetails)
    /\ WF_vars(Drained) /\ WF_vars(Rest)
    /\ WF_vars(\E s \in DOMAIN tasks : Worker(s))

----------------------------------------------------------------------------
(* Properties *)

Popups == [open : BOOLEAN, request : Nat, busy : BOOLEAN, again : BOOLEAN,
           source : Places \cup {None}, shown : Places \cup {None}]
Dialogs == [phase : {"closed", "open", "closing"}, request : Nat, busy : BOOLEAN,
            due : BOOLEAN, enter : BOOLEAN,
            query : Queries \cup {None}, shown : Asked \cup {None}]
Details == [open : BOOLEAN, request : Nat, busy : BOOLEAN,
            for : Asked \cup {None}, shown : Asked \cup {None}]

TypeOK ==
    /\ place \in Places /\ readOnly \in BOOLEAN /\ poll \in BOOLEAN
    /\ tasks \in Seq(Tasks)
    /\ jobs \in [Clients -> 0 .. Len(tasks)]
    /\ results \in Seq(1 .. Len(tasks))
    /\ gui \in {"idle", "again", "drained"}
    /\ popup \in Popups /\ dialog \in Dialogs /\ details \in Details
    /\ cache \in Asked \cup {None}
    /\ inputs \in 0 .. MaxInputs

Unfinished == {s \in DOMAIN tasks : tasks[s].phase # "done"}

(* _cancel, _run_completion, _drain and _deliver together: a job that is    *)
(* waited for has a task that will answer or an answer in the queue, and    *)
(* the timer that takes it out runs; the counter that lets the timer stop   *)
(* counts exactly the tasks that have not left.                             *)
NoLostQuery ==
    /\ \A c \in Clients : jobs[c] # 0 =>
          /\ poll
          /\ ~ tasks[jobs[c]].cancelled
          /\ \/ tasks[jobs[c]].phase \in {"queued", "running", "answering"}
             \/ \E i \in DOMAIN results : results[i] = jobs[c]
    /\ pending = Cardinality(Unfinished)

(* Every busy indicator of QML belongs to a job of the bridge (or to the    *)
(* timer about to start one): nothing waits for an answer that was cancelled*)
(* or already delivered elsewhere.                                          *)
BusyIsServed ==
    /\ popup.busy => popup.request # 0 /\ jobs["popup"] = popup.request
    /\ dialog.busy /\ Visible =>
          dialog.due \/ (dialog.request # 0 /\ jobs["dialog"] = dialog.request)
    /\ details.busy => details.request # 0 /\ jobs["details"] = details.request

(* What is listed belongs to what is there now: the popup to the visible    *)
(* text and caret, the dialog's rows to its query, the details and the cache*)
(* they turn pages in to the row that was asked for.                        *)
ListsBelong ==
    /\ popup.open /\ popup.shown # None /\ gui = "idle" => popup.shown.page = place.page
    /\ dialog.shown # None => dialog.shown = dialog.query
    /\ details.open /\ ~ details.busy => details.shown = details.for /\ cache = details.for

(* An edit that a worker computed is applied only to the text and caret it  *)
(* was computed for, in the whole document and not only on the page shown.  *)
EditExact ==
    [][DeliverPopup /\ place' # place => tasks[Head(results)].for = place]_vars

(* Every wait ends: the indicators go out, and the timer stops by itself.   *)
WaitsEnd ==
    /\ popup.busy ~> ~ popup.busy
    /\ (dialog.busy /\ Visible) ~> ~ (dialog.busy /\ Visible)
    /\ details.busy ~> ~ details.busy
    /\ poll ~> ~ poll
=============================================================================
