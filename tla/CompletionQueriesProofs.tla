---------------------- MODULE CompletionQueriesProofs ----------------------
(***************************************************************************)
(* The safety of CompletionQueries for any texts, queries, threads and     *)
(* number of inputs.                                                       *)
(***************************************************************************)
EXTENDS CompletionQueries, FiniteSetTheorems, SequenceTheorems, TLAPS

(* The request number of the popup is a question about the place it keeps;  *)
(* what it lists belongs to the place unless an edit was just applied.      *)
PopupHolds ==
    /\ popup.busy => popup.request # 0 /\ jobs["popup"] = popup.request
    /\ popup.request # 0 => /\ popup.request \in DOMAIN tasks
                            /\ tasks[popup.request].for = popup.source
    /\ popup.open /\ popup.shown # None /\ gui # "again" => popup.shown.page = place.page

(* The job of the dialog that is still wanted asks for the query shown. *)
DialogHolds ==
    /\ Visible => dialog.query \in Queries
    /\ dialog.busy /\ Visible =>
          dialog.due \/ (dialog.request # 0 /\ jobs["dialog"] = dialog.request)
    /\ jobs["dialog"] # 0 /\ jobs["dialog"] = dialog.request =>
          tasks[jobs["dialog"]].for = dialog.query
    /\ dialog.shown # None => dialog.shown = dialog.query

(* The details have a job exactly while they are open and busy. *)
DetailsHold ==
    /\ details.busy => details.request # 0 /\ jobs["details"] = details.request
    /\ jobs["details"] # 0 => /\ details.open /\ details.busy
                              /\ jobs["details"] = details.request
                              /\ tasks[jobs["details"]].for = details.for
    /\ details.open /\ ~ details.busy => details.shown = details.for /\ cache = details.for

(* Tasks, jobs and results that serve every question: a job is a task of    *)
(* its client that was not cancelled and will answer or has answered, and n *)
(* counts the tasks that have not left.                                     *)
Waiting(ts, rs, s) ==
    \/ ts[s].phase \in {"queued", "running", "answering"}
    \/ \E i \in DOMAIN rs : rs[i] = s
UnfinishedIn(ts) == {s \in DOMAIN ts : ts[s].phase # "done"}
Serves(ts, js, rs, n) ==
    /\ ts \in Seq(Tasks)
    /\ js \in [Clients -> 0 .. Len(ts)]
    /\ rs \in Seq(1 .. Len(ts))
    /\ \A c \in Clients : js[c] # 0 =>
          ts[js[c]].client = c /\ ~ ts[js[c]].cancelled /\ Waiting(ts, rs, js[c])
    /\ n = Cardinality(UnfinishedIn(ts))
CancelledIn(ts, js, clients) ==
    [s \in DOMAIN ts |->
        IF \E c \in clients : js[c] = s THEN [ts[s] EXCEPT !.cancelled = TRUE] ELSE ts[s]]
Polled(js, p) == p \in BOOLEAN /\ \A c \in Clients : js[c] # 0 => p

GuiTypes ==
    /\ place \in Places /\ readOnly \in BOOLEAN
    /\ gui \in {"idle", "again", "drained"}
    /\ popup \in Popups /\ dialog \in Dialogs /\ details \in Details
    /\ cache \in Asked \cup {None}
    /\ inputs \in 0 .. MaxInputs
Served == Serves(tasks, jobs, results, pending) /\ Polled(jobs, poll)
QueryInv == GuiTypes /\ Served /\ PopupHolds /\ DialogHolds /\ DetailsHold

----------------------------------------------------------------------------
(* What the steps of bridge and workers do to Serves. *)

LEMMA UnfinishedFinite ==
  ASSUME NEW ts \in Seq(Tasks)
  PROVE  IsFiniteSet(UnfinishedIn(ts))
<1>1. IsFiniteSet(1 .. Len(ts))
  BY FS_Interval
<1>2. UnfinishedIn(ts) \subseteq 1 .. Len(ts)
  BY DEF UnfinishedIn
<1> QED
  BY <1>1, <1>2, FS_Subset

LEMMA CancelledTasks ==
  ASSUME NEW ts \in Seq(Tasks), NEW js \in [Clients -> 0 .. Len(ts)], NEW K \in SUBSET Clients
  PROVE  LET w == CancelledIn(ts, js, K)
         IN  /\ w \in Seq(Tasks) /\ Len(w) = Len(ts)
             /\ \A s \in DOMAIN ts : /\ w[s].client = ts[s].client /\ w[s].for = ts[s].for
                                     /\ w[s].phase = ts[s].phase
                                     /\ (\A c \in K : js[c] # s) => w[s] = ts[s]
<1> DEFINE w == CancelledIn(ts, js, K)
<1>1. DOMAIN ts = 1 .. Len(ts) /\ Len(ts) \in Nat /\ \A s \in DOMAIN ts : ts[s] \in Tasks
  OBVIOUS
<1>2. \A s \in DOMAIN ts : [ts[s] EXCEPT !.cancelled = TRUE] \in Tasks
  BY <1>1 DEF Tasks
<1>3. w \in [1 .. Len(ts) -> Tasks]
  BY <1>1, <1>2 DEF CancelledIn
<1>4. w \in Seq(Tasks) /\ Len(w) = Len(ts)
  BY <1>1, <1>3, SeqDef, LenProperties
<1>5. ASSUME NEW s \in DOMAIN ts
      PROVE  /\ w[s].client = ts[s].client /\ w[s].for = ts[s].for /\ w[s].phase = ts[s].phase
             /\ (\A c \in K : js[c] # s) => w[s] = ts[s]
  BY <1>1, <1>5 DEF CancelledIn, Tasks
<1> QED
  BY <1>4, <1>5

LEMMA CancelServes ==
  ASSUME NEW ts, NEW js, NEW rs, NEW n, Serves(ts, js, rs, n), NEW K \in SUBSET Clients
  PROVE  Serves(CancelledIn(ts, js, K), [c \in Clients |-> IF c \in K THEN 0 ELSE js[c]], rs, n)
<1> DEFINE w == CancelledIn(ts, js, K)
           jw == [c \in Clients |-> IF c \in K THEN 0 ELSE js[c]]
<1>1. /\ ts \in Seq(Tasks) /\ js \in [Clients -> 0 .. Len(ts)]
      /\ DOMAIN ts = 1 .. Len(ts)
  BY DEF Serves
<1>2. /\ w \in Seq(Tasks) /\ Len(w) = Len(ts) /\ DOMAIN w = DOMAIN ts
      /\ \A s \in DOMAIN ts : /\ w[s].phase = ts[s].phase
                              /\ (\A c \in K : js[c] # s) => w[s] = ts[s]
  BY <1>1, CancelledTasks
<1>3. UnfinishedIn(w) = UnfinishedIn(ts)
  BY <1>2 DEF UnfinishedIn
<1>4. jw \in [Clients -> 0 .. Len(w)]
  BY <1>1, <1>2
<1>5. ASSUME NEW c \in Clients, jw[c] # 0
      PROVE  w[jw[c]].client = c /\ ~ w[jw[c]].cancelled /\ Waiting(w, rs, jw[c])
  <2>1. c \notin K /\ jw[c] = js[c] /\ js[c] # 0 /\ js[c] \in DOMAIN ts
    BY <1>1, <1>5
  <2>2. ts[js[c]].client = c /\ ~ ts[js[c]].cancelled /\ Waiting(ts, rs, js[c])
    BY <2>1 DEF Serves
  <2>3. \A d \in K : js[d] # js[c]
    BY <2>1, <2>2 DEF Serves
  <2>4. w[js[c]] = ts[js[c]]
    BY <1>2, <2>1, <2>3
  <2> QED
    BY <2>1, <2>2, <2>4 DEF Waiting
<1> HIDE DEF w, jw
<1> QED
  BY <1>2, <1>3, <1>4, <1>5 DEF Serves, w, jw

LEMMA ForgetServes ==
  ASSUME NEW ts, NEW js, NEW rs, NEW n, Serves(ts, js, rs, n), NEW c \in Clients
  PROVE  Serves(ts, [js EXCEPT ![c] = 0], rs, n)
<1>1. [js EXCEPT ![c] = 0] \in [Clients -> 0 .. Len(ts)]
  BY DEF Serves
<1> QED
  BY <1>1 DEF Serves

LEMMA AddServes ==
  ASSUME NEW ts, NEW js, NEW rs, NEW n, Serves(ts, js, rs, n), NEW c \in Clients, NEW q \in Asked
  PROVE  Serves(Append(ts, Queued(c, q)), [js EXCEPT ![c] = Len(ts) + 1], rs, n + 1)
<1> DEFINE w == Append(ts, Queued(c, q))
           jw == [js EXCEPT ![c] = Len(ts) + 1]
           new == Len(ts) + 1
<1>1. ts \in Seq(Tasks) /\ js \in [Clients -> 0 .. Len(ts)] /\ DOMAIN ts = 1 .. Len(ts) /\ Len(ts) \in Nat
  BY DEF Serves
<1>2. Queued(c, q) \in Tasks
  BY DEF Queued, Tasks
<1>3. /\ w \in Seq(Tasks) /\ Len(w) = new /\ DOMAIN w = 1 .. new
      /\ w[new] = Queued(c, q) /\ \A s \in DOMAIN ts : w[s] = ts[s]
  BY <1>1, <1>2
<1>4. jw \in [Clients -> 0 .. Len(w)] /\ rs \in Seq(1 .. Len(w))
  <2>1. rs \in Seq(1 .. Len(ts))
    BY DEF Serves
  <2>2. 1 .. Len(ts) \subseteq 1 .. new
    BY <1>1
  <2> QED
    BY <1>1, <1>3, <2>1, <2>2
<1>5. ASSUME NEW d \in Clients, jw[d] # 0
      PROVE  w[jw[d]].client = d /\ ~ w[jw[d]].cancelled /\ Waiting(w, rs, jw[d])
  <2>1. CASE d = c
    <3>1. jw[d] = new
      BY <1>1, <2>1
    <3> QED
      BY <1>3, <2>1, <3>1 DEF Queued, Waiting
  <2>2. CASE d # c
    <3>1. jw[d] = js[d] /\ js[d] # 0 /\ js[d] \in DOMAIN ts
      BY <1>1, <1>5, <2>2
    <3>2. ts[js[d]].client = d /\ ~ ts[js[d]].cancelled /\ Waiting(ts, rs, js[d])
      BY <3>1 DEF Serves
    <3> QED
      BY <1>3, <3>1, <3>2 DEF Waiting
  <2> QED
    BY <2>1, <2>2
<1>6. UnfinishedIn(w) = UnfinishedIn(ts) \cup {new} /\ new \notin UnfinishedIn(ts)
  BY <1>1, <1>3 DEF UnfinishedIn, Queued
<1>7. Cardinality(UnfinishedIn(w)) = n + 1
  BY <1>1, <1>6, UnfinishedFinite, FS_AddElement DEF Serves
<1> HIDE DEF w, jw
<1> QED
  BY <1>3, <1>4, <1>5, <1>7 DEF Serves, w, jw

(* A result that no job waits for leaves the queue. *)
LEMMA TakeServes ==
  ASSUME NEW ts, NEW js, NEW rs, NEW n, Serves(ts, js, rs, n), rs # <<>>,
         \A c \in Clients : js[c] # Head(rs)
  PROVE  Serves(ts, js, Tail(rs), n)
<1>1. rs \in Seq(1 .. Len(ts)) /\ Len(rs) \in Nat \ {0} /\ Tail(rs) \in Seq(1 .. Len(ts))
  BY DEF Serves
<1>2. ASSUME NEW c \in Clients, NEW i \in DOMAIN rs, rs[i] = js[c]
      PROVE  \E k \in DOMAIN Tail(rs) : Tail(rs)[k] = js[c]
  <2>1. i # 1
    BY <1>1, <1>2
  <2>2. i - 1 \in DOMAIN Tail(rs) /\ Tail(rs)[i - 1] = rs[i]
    BY <1>1, <1>2, <2>1
  <2> QED
    BY <1>2, <2>2
<1>3. ASSUME NEW c \in Clients, Waiting(ts, rs, js[c])
      PROVE  Waiting(ts, Tail(rs), js[c])
  BY <1>2, <1>3 DEF Waiting
<1> QED
  BY <1>1, <1>3 DEF Serves

(* A worker moves a task on, and a result in the queue stands for its phase. *)
Moves(ts, rs, s, to, more) ==
    /\ s \in DOMAIN ts /\ ts[s].phase # "done"
    /\ to \in {"running", "answering", "leaving", "done"}
    /\ more \in Seq(1 .. Len(ts))
    /\ \A i \in DOMAIN rs : \E k \in DOMAIN more : more[k] = rs[i]
    /\ to \in {"leaving", "done"} =>
          \/ ts[s].cancelled \/ ts[s].phase = "leaving"
          \/ \E i \in DOMAIN more : more[i] = s

LEMMA PhaseServes ==
  ASSUME NEW ts, NEW js, NEW rs, NEW n, Serves(ts, js, rs, n),
         NEW s, NEW to, NEW more, Moves(ts, rs, s, to, more)
  PROVE  Serves([ts EXCEPT ![s].phase = to], js, more, IF to = "done" THEN n - 1 ELSE n)
<1> USE DEF Moves
<1> DEFINE w == [ts EXCEPT ![s].phase = to]
<1>1. ts \in Seq(Tasks) /\ js \in [Clients -> 0 .. Len(ts)] /\ DOMAIN ts = 1 .. Len(ts) /\ Len(ts) \in Nat
  BY DEF Serves
<1>2. [ts[s] EXCEPT !.phase = to] \in Tasks
  <2>1. ts[s] \in Tasks
    BY <1>1
  <2>2. to \in {"queued", "running", "answering", "leaving", "done"}
    OBVIOUS
  <2> QED
    BY <2>1, <2>2 DEF Tasks
<1>3. /\ w \in Seq(Tasks) /\ Len(w) = Len(ts) /\ DOMAIN w = DOMAIN ts
      /\ w[s] = [ts[s] EXCEPT !.phase = to] /\ \A r \in DOMAIN ts : r # s => w[r] = ts[r]
  BY <1>1, <1>2
<1>4. w[s].phase = to /\ w[s].client = ts[s].client /\ w[s].cancelled = ts[s].cancelled
  BY <1>1, <1>3 DEF Tasks
<1>5. ASSUME NEW c \in Clients, js[c] # 0
      PROVE  w[js[c]].client = c /\ ~ w[js[c]].cancelled /\ Waiting(w, more, js[c])
  <2>1. js[c] \in DOMAIN ts /\ ts[js[c]].client = c /\ ~ ts[js[c]].cancelled /\ Waiting(ts, rs, js[c])
    BY <1>1, <1>5 DEF Serves
  <2>2. CASE js[c] # s
    BY <1>3, <2>1, <2>2 DEF Waiting
  <2>3. CASE js[c] = s
    BY <1>4, <2>1, <2>3 DEF Waiting
  <2> QED
    BY <2>2, <2>3
<1>6. Cardinality(UnfinishedIn(w)) = IF to = "done" THEN n - 1 ELSE n
  <2>1. CASE to = "done"
    <3>1. UnfinishedIn(w) = UnfinishedIn(ts) \ {s} /\ s \in UnfinishedIn(ts)
      BY <1>3, <1>4, <2>1 DEF UnfinishedIn
    <3> QED
      BY <1>1, <2>1, <3>1, UnfinishedFinite, FS_RemoveElement DEF Serves
  <2>2. CASE to # "done"
    <3>1. UnfinishedIn(w) = UnfinishedIn(ts)
      BY <1>3, <1>4, <2>2 DEF UnfinishedIn
    <3> QED
      BY <2>2, <3>1 DEF Serves
  <2> QED
    BY <2>1, <2>2
<1> HIDE DEF w
<1> QED
  BY <1>1, <1>3, <1>5, <1>6 DEF Serves, w

----------------------------------------------------------------------------
(* The steps of the bridge that the GUI takes. *)

(* The question a task asks never changes. *)
Kept == /\ DOMAIN tasks \subseteq DOMAIN tasks'
        /\ \A s \in DOMAIN tasks : tasks'[s].for = tasks[s].for

LEMMA AloneKeeps ==
  ASSUME Served, Alone
  PROVE  Served' /\ Kept /\ jobs' = jobs
BY DEF Served, Alone, Kept, Polled, Serves, UnfinishedIn, Waiting

LEMMA CancelKeeps ==
  ASSUME Served, NEW K \in SUBSET Clients, Cancel(K)
  PROVE  Served' /\ Kept
<1>1. Serves(tasks', jobs', results', pending')
  BY CancelServes DEF Served, Cancel, WithCancelled, CancelledIn
<1>2. Polled(jobs', poll')
  BY DEF Served, Cancel, Polled
<1>3. Kept
  <2>1. tasks \in Seq(Tasks) /\ jobs \in [Clients -> 0 .. Len(tasks)]
    BY DEF Served, Serves
  <2>2. tasks' = CancelledIn(tasks, jobs, K)
    BY DEF Cancel, WithCancelled, CancelledIn
  <2> QED
    BY <2>1, <2>2, CancelledTasks DEF Kept
<1> QED
  BY <1>1, <1>2, <1>3 DEF Served

LEMMA StartKeeps ==
  ASSUME Served, NEW c \in Clients, NEW q \in Asked, NEW K \in SUBSET Clients, Start(c, q, K)
  PROVE  /\ Served' /\ Kept
         /\ Serial \in Nat \ {0} /\ Serial \notin DOMAIN tasks /\ Serial \in DOMAIN tasks'
         /\ tasks'[Serial].for = q
<1> DEFINE all == K \cup {c}
           w == CancelledIn(tasks, jobs, all)
           jw == [d \in Clients |-> IF d \in all THEN 0 ELSE jobs[d]]
<1>1. tasks \in Seq(Tasks) /\ jobs \in [Clients -> 0 .. Len(tasks)] /\ Len(tasks) \in Nat
  BY DEF Served, Serves
<1>2. Serves(w, jw, results, pending)
  BY CancelServes DEF Served
<1>3. Len(w) = Len(tasks) /\ w \in Seq(Tasks) /\ \A s \in DOMAIN tasks : w[s].for = tasks[s].for
  BY <1>1, CancelledTasks
<1>4. tasks' = Append(w, Queued(c, q)) /\ jobs' = [jw EXCEPT ![c] = Len(w) + 1]
  <2>1. tasks' = Append(w, Queued(c, q))
    BY DEF Start, WithCancelled, CancelledIn
  <2> HIDE DEF w
  <2>2. jobs' = [jw EXCEPT ![c] = Len(w) + 1]
    BY <1>3 DEF Start, Serial
  <2> QED
    BY <2>1, <2>2
<1> HIDE DEF w, jw
<1>5. Serves(tasks', jobs', results', pending')
  <2>1. Serves(Append(w, Queued(c, q)), [jw EXCEPT ![c] = Len(w) + 1], results, pending + 1)
    BY <1>2, AddServes
  <2>2. results' = results /\ pending' = pending + 1
    BY DEF Start
  <2> QED
    BY <1>4, <2>1, <2>2
<1>6. Polled(jobs', poll')
  BY DEF Start, Polled
<1>7. Queued(c, q) \in Tasks /\ Queued(c, q).for = q
  BY DEF Queued, Tasks
<1>8. /\ Serial \in Nat \ {0} /\ Serial \notin DOMAIN tasks /\ Serial \in DOMAIN tasks'
      /\ tasks'[Serial].for = q /\ Kept
  <2>1. Serial \in Nat \ {0} /\ Serial \notin DOMAIN tasks /\ DOMAIN tasks = 1 .. Len(tasks)
    BY <1>1 DEF Serial
  <2>2. /\ DOMAIN tasks' = 1 .. Len(tasks) + 1 /\ tasks'[Len(tasks) + 1] = Queued(c, q)
        /\ \A s \in 1 .. Len(tasks) : tasks'[s] = w[s]
    BY <1>1, <1>3, <1>4, <1>7
  <2>3. Serial \in DOMAIN tasks' /\ tasks'[Serial].for = q
    BY <1>1, <1>7, <2>2 DEF Serial
  <2>4. Kept
    BY <1>1, <1>3, <2>1, <2>2 DEF Kept
  <2> QED
    BY <2>1, <2>3, <2>4
<1> QED
  BY <1>5, <1>6, <1>8 DEF Served

----------------------------------------------------------------------------
(* What stays when a step leaves a part of the window alone. *)

LEMMA PopupStays ==
  ASSUME QueryInv, Kept, popup' = popup, jobs'["popup"] = jobs["popup"],
         place'.page = place.page, gui' # "again" => gui # "again"
  PROVE  PopupHolds'
BY DEF QueryInv, PopupHolds, Kept

LEMMA PopupClosed ==
  ASSUME QueryInv, popup' = Closed
  PROVE  PopupHolds' /\ popup' \in Popups
BY DEF QueryInv, GuiTypes, PopupHolds, Popups, Closed

LEMMA DialogStays ==
  ASSUME QueryInv, Kept, dialog' = dialog, jobs'["dialog"] = jobs["dialog"]
  PROVE  DialogHolds'
<1>1. jobs["dialog"] # 0 => jobs["dialog"] \in DOMAIN tasks
  BY DEF QueryInv, Served, Serves, Clients
<1> QED
  BY <1>1 DEF QueryInv, DialogHolds, Kept, Visible

LEMMA DetailsStay ==
  ASSUME QueryInv, Kept, details' = details, cache' = cache, jobs'["details"] = jobs["details"]
  PROVE  DetailsHold'
<1>1. jobs["details"] # 0 => jobs["details"] \in DOMAIN tasks
  BY DEF QueryInv, Served, Serves, Clients
<1> QED
  BY <1>1 DEF QueryInv, DetailsHold, Kept

LEMMA AppliesHolds ==
  ASSUME QueryInv, NEW answer, NEW again, Applies(answer, again)
  PROVE  /\ PopupHolds' /\ popup' \in Popups
         /\ place' \in Places /\ gui' \in {"idle", "again"}
<1>1. popup \in Popups /\ place \in Places
  BY DEF QueryInv, GuiTypes
<1>2. CASE popup' = Closed
  <2>1. place' \in Places /\ gui' \in {"idle", "again"}
    BY <1>1 DEF Applies, Places
  <2> QED
    BY <1>2, <2>1, PopupClosed
<1>3. CASE /\ gui' = "idle" /\ place' = place
           /\ \E shown \in {None, place} :
                popup' = [popup EXCEPT !.open = TRUE, !.request = 0, !.busy = FALSE,
                                       !.source = place, !.shown = shown]
  <2>1. PICK shown \in {None, place} :
           popup' = [popup EXCEPT !.open = TRUE, !.request = 0, !.busy = FALSE,
                                  !.source = place, !.shown = shown]
    BY <1>3
  <2>2. popup' \in Popups
    BY <1>1, <2>1 DEF Popups
  <2>3. popup'.request = 0 /\ ~ popup'.busy /\ popup'.shown \in {None, place}
    BY <1>1, <2>1 DEF Popups
  <2>4. PopupHolds'
    BY <1>3, <2>3 DEF PopupHolds
  <2> QED
    BY <1>1, <1>3, <2>2, <2>4
<1>4. CASE /\ gui' = "again" /\ popup' = [popup EXCEPT !.request = 0, !.busy = FALSE]
           /\ \E p \in Pages : place' = [place EXCEPT !.page = p]
  <2>1. place' \in Places
    BY <1>1, <1>4 DEF Places
  <2> QED
    BY <1>1, <1>4, <2>1 DEF PopupHolds, Popups
<1>5. \/ popup' = Closed
      \/ /\ gui' = "idle" /\ place' = place
         /\ \E shown \in {None, place} :
              popup' = [popup EXCEPT !.open = TRUE, !.request = 0, !.busy = FALSE,
                                     !.source = place, !.shown = shown]
      \/ /\ gui' = "again" /\ popup' = [popup EXCEPT !.request = 0, !.busy = FALSE]
         /\ \E p \in Pages : place' = [place EXCEPT !.page = p]
  <2>1. CASE answer = "error"
    BY <2>1 DEF Applies
  <2>2. CASE answer # "error"
    BY <2>2 DEF Applies
  <2> QED
    BY <2>1, <2>2
<1> QED
  BY <1>2, <1>3, <1>4, <1>5

LEMMA AskKeeps ==
  ASSUME QueryInv, NEW again \in BOOLEAN, Ask(again), SameDialogs, readOnly' = readOnly,
         inputs' \in 0 .. MaxInputs
  PROVE  QueryInv'
<1>1. CASE PopupWaits(again)
  <2>1. Start("popup", place, {}) /\ place \in Asked /\ place \in Places
    BY <1>1 DEF PopupWaits, QueryInv, GuiTypes, Asked
  <2>2. /\ Served' /\ Kept /\ Serial \in Nat \ {0} /\ Serial \in DOMAIN tasks'
        /\ tasks'[Serial].for = place
    BY <2>1, StartKeeps DEF QueryInv, Clients
  <2>3. /\ jobs'["popup"] = Serial /\ jobs'["dialog"] = jobs["dialog"]
        /\ jobs'["details"] = jobs["details"]
    BY <2>1 DEF Start, Clients
  <2>4. popup' = [popup EXCEPT !.open = TRUE, !.request = Serial, !.busy = TRUE,
                               !.source = place, !.shown = None, !.again = again]
        /\ gui' = "idle" /\ place' = place
    BY <1>1 DEF PopupWaits
  <2>5. GuiTypes'
    BY <2>2, <2>4 DEF QueryInv, GuiTypes, Popups, SameDialogs
  <2>6. PopupHolds'
    BY <2>2, <2>3, <2>4 DEF QueryInv, GuiTypes, Popups, PopupHolds
  <2> QED
    BY <2>2, <2>3, <2>5, <2>6, DialogStays, DetailsStay DEF QueryInv, SameDialogs
<1>2. CASE Cancel({"popup"}) /\ \E answer \in Answers : Applies(answer, again)
  <2>1. Served' /\ Kept
    BY <1>2, CancelKeeps DEF QueryInv, Clients
  <2>2. jobs'["dialog"] = jobs["dialog"] /\ jobs'["details"] = jobs["details"]
    BY <1>2 DEF Cancel, Clients
  <2>3. PopupHolds' /\ popup' \in Popups /\ place' \in Places /\ gui' \in {"idle", "again"}
    BY <1>2, AppliesHolds
  <2>4. GuiTypes'
    BY <2>3 DEF QueryInv, GuiTypes, SameDialogs
  <2> QED
    BY <2>1, <2>2, <2>3, <2>4, DialogStays, DetailsStay DEF QueryInv, SameDialogs
<1> QED
  BY <1>1, <1>2 DEF Ask

LEMMA ClosePopupKeeps ==
  ASSUME QueryInv, NEW p \in Places, ClosePopup(p), SameDialogs,
         UNCHANGED <<readOnly, gui>>, inputs' \in 0 .. MaxInputs
  PROVE  QueryInv'
<1>1. popup' = Closed /\ place' = p
  BY DEF ClosePopup
<1>2. /\ Served' /\ Kept
      /\ jobs'["dialog"] = jobs["dialog"] /\ jobs'["details"] = jobs["details"]
  <2>1. CASE Cancel({"popup"})
    BY <2>1, CancelKeeps DEF QueryInv, Cancel, Clients
  <2>2. CASE Alone
    BY <2>2, AloneKeeps DEF QueryInv
  <2> QED
    BY <2>1, <2>2 DEF ClosePopup
<1>3. PopupHolds' /\ popup' \in Popups
  BY <1>1, PopupClosed
<1>4. GuiTypes'
  BY <1>1, <1>3 DEF QueryInv, GuiTypes, SameDialogs
<1> QED
  BY <1>2, <1>3, <1>4, DialogStays, DetailsStay DEF QueryInv, SameDialogs

----------------------------------------------------------------------------
(* One lemma per event of the user and timer of the dialogs. *)

LEMMA InputTypes ==
  ASSUME QueryInv, Input
  PROVE  gui = "idle" /\ inputs' \in 0 .. MaxInputs
BY QueryBounds DEF QueryInv, GuiTypes, Input, Idle

LEMMA RequestKeeps == ASSUME QueryInv, RequestCompletion PROVE QueryInv'
BY InputTypes, AskKeeps DEF RequestCompletion

LEMMA AskAgainKeeps == ASSUME QueryInv, AskAgain PROVE QueryInv'
BY AskKeeps DEF AskAgain, QueryInv, GuiTypes

LEMMA TypeKeeps == ASSUME QueryInv, Type PROVE QueryInv'
BY InputTypes, ClosePopupKeeps DEF Type

LEMMA LoadKeeps == ASSUME QueryInv, Load PROVE QueryInv'
<1>1. PICK p \in Places \ {place} :
         IF p.page # place.page THEN ClosePopup(p)
         ELSE place' = p /\ popup' = popup /\ Alone
  BY DEF Load
<1>2. SameDialogs /\ UNCHANGED <<readOnly, gui>> /\ inputs' \in 0 .. MaxInputs
  BY InputTypes DEF Load
<1>3. CASE p.page # place.page
  BY <1>1, <1>2, <1>3, ClosePopupKeeps
<1>4. CASE p.page = place.page
  <2>1. place' = p /\ popup' = popup /\ Alone
    BY <1>1, <1>4
  <2>2. Served' /\ Kept /\ jobs' = jobs
    BY <2>1, AloneKeeps DEF QueryInv
  <2>3. GuiTypes'
    BY <1>2, <2>1 DEF QueryInv, GuiTypes, SameDialogs
  <2> QED
    BY <1>2, <1>4, <2>1, <2>2, <2>3, PopupStays, DialogStays, DetailsStay DEF QueryInv, SameDialogs
<1> QED
  BY <1>3, <1>4

LEMMA AcceptKeeps == ASSUME QueryInv, Accept PROVE QueryInv'
<1>1. PICK p \in Pages : ClosePopup([place EXCEPT !.page = p])
  BY DEF Accept
<1>2. [place EXCEPT !.page = p] \in Places
  BY DEF QueryInv, GuiTypes, Places
<1> QED
  BY <1>1, <1>2, InputTypes, ClosePopupKeeps DEF Accept

LEMMA DismissKeeps == ASSUME QueryInv, Dismiss PROVE QueryInv'
<1>1. place \in Places
  BY DEF QueryInv, GuiTypes
<1> QED
  BY <1>1, InputTypes, ClosePopupKeeps DEF Dismiss

(* The dialog asks: its job, its request and its query are those of the new task. *)
LEMMA DialogAsks ==
  ASSUME QueryInv, NEW q \in Queries, NEW K \in SUBSET {"popup"}, Start("dialog", q, K),
         dialog' \in Dialogs, dialog'.request = Serial, dialog'.query = q,
         dialog'.shown # None => dialog'.shown = q
  PROVE  /\ Served' /\ Kept /\ DialogHolds'
         /\ jobs'["details"] = jobs["details"]
         /\ "popup" \notin K => jobs'["popup"] = jobs["popup"]
<1>1. q \in Asked /\ K \in SUBSET Clients
  BY DEF Asked, Clients
<1>2. /\ Served' /\ Kept /\ Serial \in Nat \ {0} /\ tasks'[Serial].for = q
  BY <1>1, StartKeeps DEF QueryInv, Clients
<1>3. /\ jobs'["dialog"] = Serial /\ jobs'["details"] = jobs["details"]
      /\ "popup" \notin K => jobs'["popup"] = jobs["popup"]
  BY DEF Start, Clients
<1> QED
  BY <1>2, <1>3 DEF DialogHolds, Visible

LEMMA OpenQueryKeeps == ASSUME QueryInv, OpenQuery PROVE QueryInv'
<1>1. PICK q \in Queries :
         /\ dialog.query \in {None, q}
         /\ Start("dialog", q, {"popup"})
         /\ dialog' = [dialog EXCEPT !.phase = "open", !.busy = TRUE, !.query = q,
                                     !.request = Serial]
  BY DEF OpenQuery
<1>2. dialog \in Dialogs /\ (dialog.shown # None => dialog.shown = dialog.query)
  BY DEF QueryInv, GuiTypes, DialogHolds
<1>3. Serial \in Nat
  BY DEF Serial, QueryInv, Served, Serves
<1>4. dialog' \in Dialogs
  BY <1>1, <1>2, <1>3 DEF Dialogs
<1>5. dialog'.request = Serial /\ dialog'.query = q /\ dialog'.shown = dialog.shown
  BY <1>1, <1>2 DEF Dialogs
<1>6. Served' /\ Kept /\ DialogHolds' /\ jobs'["details"] = jobs["details"]
  BY <1>1, <1>2, <1>4, <1>5, DialogAsks
<1>7. PopupHolds' /\ popup' \in Popups
  BY PopupClosed DEF OpenQuery
<1>8. GuiTypes'
  BY <1>4, <1>7, InputTypes DEF QueryInv, GuiTypes, OpenQuery
<1> QED
  BY <1>6, <1>7, <1>8, DetailsStay DEF QueryInv, OpenQuery

LEMMA EditQueryKeeps == ASSUME QueryInv, EditQuery PROVE QueryInv'
<1>1. PICK q \in Queries \ {dialog.query} :
         dialog' = [dialog EXCEPT !.query = q, !.request = 0, !.busy = TRUE,
                                  !.shown = None, !.due = TRUE, !.enter = FALSE]
  BY DEF EditQuery
<1>2. Served' /\ Kept
  BY CancelKeeps DEF QueryInv, Clients, EditQuery
<1>3. jobs'["dialog"] = 0 /\ jobs'["popup"] = jobs["popup"] /\ jobs'["details"] = jobs["details"]
  BY DEF EditQuery, Cancel, Clients
<1>4. dialog' \in Dialogs /\ dialog'.query = q /\ dialog'.due /\ dialog'.shown = None
  BY <1>1 DEF QueryInv, GuiTypes, Dialogs
<1>5. DialogHolds'
  BY <1>3, <1>4 DEF DialogHolds
<1>6. GuiTypes'
  BY <1>4, InputTypes DEF QueryInv, GuiTypes, EditQuery
<1> QED
  BY <1>2, <1>3, <1>5, <1>6, PopupStays, DetailsStay DEF QueryInv, EditQuery

LEMMA QueryDueKeeps == ASSUME QueryInv, QueryDue PROVE QueryInv'
<1>1. /\ Start("dialog", dialog.query, {}) /\ dialog.query \in Queries
      /\ dialog' = [dialog EXCEPT !.due = FALSE, !.busy = TRUE, !.request = Serial]
  BY DEF QueryDue, QueryInv, DialogHolds
<1>2. dialog \in Dialogs /\ Serial \in Nat /\ (dialog.shown # None => dialog.shown = dialog.query)
  BY DEF QueryInv, GuiTypes, DialogHolds, Serial, Served, Serves
<1>3. dialog' \in Dialogs
  BY <1>1, <1>2 DEF Dialogs
<1>4. dialog'.request = Serial /\ dialog'.query = dialog.query /\ dialog'.shown = dialog.shown
  BY <1>1, <1>2 DEF Dialogs
<1>5. /\ Served' /\ Kept /\ DialogHolds'
      /\ jobs'["popup"] = jobs["popup"] /\ jobs'["details"] = jobs["details"]
  BY <1>1, <1>2, <1>3, <1>4, DialogAsks
<1>6. GuiTypes'
  BY <1>3 DEF QueryInv, GuiTypes, QueryDue
<1> QED
  BY <1>5, <1>6, PopupStays, DetailsStay DEF QueryInv, QueryDue

LEMMA ShowDetailsKeeps ==
  ASSUME QueryInv, NEW q \in Asked, ShowDetails(q)
  PROVE  /\ Served' /\ Kept /\ DetailsHold' /\ details' \in Details /\ cache' = None
         /\ jobs'["popup"] = jobs["popup"] /\ jobs'["dialog"] = jobs["dialog"]
<1>1. /\ Served' /\ Kept /\ Serial \in Nat \ {0} /\ tasks'[Serial].for = q
  BY StartKeeps DEF QueryInv, Clients, ShowDetails
<1>2. /\ jobs'["details"] = Serial
      /\ jobs'["popup"] = jobs["popup"] /\ jobs'["dialog"] = jobs["dialog"]
  BY DEF ShowDetails, Start, Clients
<1>3. /\ details' = [open |-> TRUE, request |-> Serial, busy |-> TRUE, for |-> q, shown |-> None]
      /\ cache' = None
  BY DEF ShowDetails
<1> QED
  BY <1>1, <1>2, <1>3 DEF DetailsHold, Details

LEMMA EnterKeeps == ASSUME QueryInv, Enter PROVE QueryInv'
<1>1. /\ dialog \in Dialogs /\ dialog.query \in Queries /\ dialog.query \in Asked
      /\ dialog.shown # None => dialog.shown = dialog.query
      /\ Serial \in Nat /\ Visible
  BY DEF Enter, QueryInv, GuiTypes, DialogHolds, Visible, Asked, Serial, Served, Serves
<1>2. inputs' \in 0 .. MaxInputs /\ UNCHANGED <<place, readOnly, popup, gui>>
  BY InputTypes DEF Enter
<1>3. CASE /\ ~ dialog.busy /\ dialog.shown # None /\ ShowDetails(dialog.query)
           /\ dialog' = [dialog EXCEPT !.due = FALSE]
  <2>1. /\ Served' /\ Kept /\ DetailsHold' /\ details' \in Details /\ cache' = None
        /\ jobs'["popup"] = jobs["popup"] /\ jobs'["dialog"] = jobs["dialog"]
    BY <1>1, <1>3, ShowDetailsKeeps
  <2>2. /\ dialog' \in Dialogs /\ ~ dialog'.busy /\ dialog'.query = dialog.query
        /\ dialog'.shown = dialog.shown /\ dialog'.request = dialog.request
    BY <1>1, <1>3 DEF Dialogs
  <2>3. jobs["dialog"] # 0 => jobs["dialog"] \in DOMAIN tasks
    BY DEF QueryInv, Served, Serves, Clients
  <2>4. DialogHolds'
    BY <1>1, <2>1, <2>2, <2>3 DEF QueryInv, DialogHolds, Kept
  <2>5. GuiTypes'
    BY <1>2, <2>1, <2>2 DEF QueryInv, GuiTypes
  <2> QED
    BY <1>2, <2>1, <2>4, <2>5, PopupStays DEF QueryInv
<1>4. CASE /\ Start("dialog", dialog.query, {})
           /\ dialog' = [dialog EXCEPT !.due = FALSE, !.busy = TRUE,
                                       !.request = Serial, !.enter = TRUE]
           /\ UNCHANGED <<details, cache>>
  <2>1. dialog' \in Dialogs
    BY <1>1, <1>4 DEF Dialogs
  <2>2. dialog'.request = Serial /\ dialog'.query = dialog.query /\ dialog'.shown = dialog.shown
    BY <1>1, <1>4 DEF Dialogs
  <2>3. /\ Served' /\ Kept /\ DialogHolds'
        /\ jobs'["popup"] = jobs["popup"] /\ jobs'["details"] = jobs["details"]
    BY <1>1, <1>4, <2>1, <2>2, DialogAsks
  <2>4. GuiTypes'
    BY <1>2, <1>4, <2>1 DEF QueryInv, GuiTypes
  <2> QED
    BY <1>2, <1>4, <2>3, <2>4, PopupStays, DetailsStay DEF QueryInv
<1> QED
  BY <1>3, <1>4 DEF Enter

LEMMA CloseQueryKeeps == ASSUME QueryInv, CloseQuery PROVE QueryInv'
<1>1. Served' /\ Kept /\ jobs' = jobs
  BY AloneKeeps DEF QueryInv, CloseQuery
<1>2. /\ dialog' \in Dialogs /\ dialog'.phase = "closing" /\ dialog.phase = "open"
      /\ dialog'.query = dialog.query /\ dialog'.shown = dialog.shown /\ dialog'.due = dialog.due
      /\ dialog'.request = dialog.request /\ dialog'.busy = dialog.busy
  BY DEF CloseQuery, QueryInv, GuiTypes, Dialogs
<1>3. jobs["dialog"] # 0 => jobs["dialog"] \in DOMAIN tasks
  BY DEF QueryInv, Served, Serves, Clients
<1>4. DialogHolds'
  BY <1>1, <1>2, <1>3 DEF QueryInv, DialogHolds, Visible, Kept
<1>5. GuiTypes'
  BY <1>2, InputTypes DEF CloseQuery, QueryInv, GuiTypes
<1> QED
  BY <1>1, <1>4, <1>5, PopupStays, DetailsStay DEF QueryInv, CloseQuery

LEMMA QueryClosedKeeps == ASSUME QueryInv, QueryClosed PROVE QueryInv'
<1>1. Served' /\ Kept
  BY CancelKeeps DEF QueryInv, Clients, QueryClosed
<1>2. jobs'["dialog"] = 0 /\ jobs'["popup"] = jobs["popup"] /\ jobs'["details"] = jobs["details"]
  BY DEF QueryClosed, Cancel, Clients
<1>3. /\ dialog' \in Dialogs /\ dialog'.phase = "closed"
      /\ dialog'.query = dialog.query /\ dialog'.shown = dialog.shown
  BY DEF QueryClosed, QueryInv, GuiTypes, Dialogs
<1>4. DialogHolds'
  BY <1>2, <1>3 DEF QueryInv, DialogHolds, Visible
<1>5. GuiTypes'
  BY <1>3 DEF QueryClosed, QueryInv, GuiTypes
<1> QED
  BY <1>1, <1>2, <1>4, <1>5, PopupStays, DetailsStay DEF QueryInv, QueryClosed

LEMMA PopupDetailsKeeps == ASSUME QueryInv, PopupDetails PROVE QueryInv'
<1>1. place \in Asked
  BY DEF QueryInv, GuiTypes, Asked
<1>2. /\ Served' /\ Kept /\ DetailsHold' /\ details' \in Details /\ cache' = None
      /\ jobs'["popup"] = jobs["popup"] /\ jobs'["dialog"] = jobs["dialog"]
  BY <1>1, ShowDetailsKeeps DEF PopupDetails
<1>3. PopupHolds' /\ popup' \in Popups
  BY <1>2, PopupStays, PopupClosed DEF PopupDetails, QueryInv, GuiTypes
<1>4. GuiTypes'
  BY <1>2, <1>3, InputTypes DEF PopupDetails, QueryInv, GuiTypes
<1> QED
  BY <1>2, <1>3, <1>4, DialogStays DEF QueryInv, PopupDetails

LEMMA TurnDetailsKeeps == ASSUME QueryInv, TurnDetails PROVE QueryInv'
<1>1. Served' /\ Kept /\ jobs' = jobs
  BY AloneKeeps DEF QueryInv, TurnDetails
<1>2. /\ details \in Details /\ cache \in Asked \cup {None}
      /\ details.open /\ ~ details.busy /\ details' = [details EXCEPT !.shown = cache] /\ cache' = cache
  BY DEF QueryInv, GuiTypes, TurnDetails
<1>3. /\ details' \in Details /\ details'.open /\ ~ details'.busy
      /\ details'.shown = cache /\ details'.for = details.for
  BY <1>2 DEF Details
<1>4. DetailsHold'
  BY <1>1, <1>2, <1>3 DEF QueryInv, DetailsHold
<1>5. GuiTypes'
  BY <1>3, InputTypes DEF TurnDetails, QueryInv, GuiTypes
<1> QED
  BY <1>1, <1>4, <1>5, PopupStays, DialogStays DEF QueryInv, TurnDetails

LEMMA CloseDetailsKeeps == ASSUME QueryInv, CloseDetails PROVE QueryInv'
<1>1. Served' /\ Kept
  BY CancelKeeps DEF QueryInv, Clients, CloseDetails
<1>2. jobs'["details"] = 0 /\ jobs'["popup"] = jobs["popup"] /\ jobs'["dialog"] = jobs["dialog"]
  BY DEF CloseDetails, Cancel, Clients
<1>3. DetailsHold' /\ details' \in Details /\ cache' = None
  BY <1>2 DEF CloseDetails, DetailsHold, Details
<1>4. GuiTypes'
  BY <1>3, InputTypes DEF CloseDetails, QueryInv, GuiTypes
<1> QED
  BY <1>1, <1>2, <1>3, <1>4, PopupStays, DialogStays DEF QueryInv, CloseDetails

----------------------------------------------------------------------------
(* Workers, and the timer that takes their results. *)

LEMMA WorkerKeeps == ASSUME QueryInv, NEW s \in DOMAIN tasks, Worker(s) PROVE QueryInv'
<1>1. /\ Serves(tasks, jobs, results, pending)
      /\ tasks \in Seq(Tasks) /\ results \in Seq(1 .. Len(tasks)) /\ s \in 1 .. Len(tasks)
      /\ tasks[s] \in Tasks
  BY DEF QueryInv, Served, Serves
<1>2. PICK to \in {"running", "answering", "leaving", "done"} :
         /\ tasks' = [tasks EXCEPT ![s].phase = to]
         /\ tasks[s].phase # "done"
         /\ \/ results' = results
            \/ results' = Append(results, s) /\ to = "leaving"
         /\ to \in {"leaving", "done"} =>
               \/ tasks[s].cancelled \/ tasks[s].phase = "leaving"
               \/ results' = Append(results, s)
         /\ pending' = IF to = "done" THEN pending - 1 ELSE pending
  <2>1. CASE Begin(s)
    BY <2>1 DEF Begin, Phase
  <2>2. CASE GiveUp(s)
    BY <2>2 DEF GiveUp, Phase
  <2>3. CASE Computed(s)
    BY <2>3 DEF Computed, Phase
  <2>4. CASE Put(s)
    BY <2>4 DEF Put, Phase
  <2>5. CASE Leave(s)
    BY <2>5 DEF Leave, Phase
  <2> QED
    BY <2>1, <2>2, <2>3, <2>4, <2>5 DEF Worker
<1>3. /\ results' \in Seq(1 .. Len(tasks))
      /\ \A i \in DOMAIN results : \E k \in DOMAIN results' : results'[k] = results[i]
      /\ results' = Append(results, s) => \E i \in DOMAIN results' : results'[i] = s
  <2>1. CASE results' = results
    BY <1>1, <2>1
  <2>2. CASE results' = Append(results, s)
    <3>1. /\ results' \in Seq(1 .. Len(tasks)) /\ DOMAIN results \subseteq DOMAIN results'
          /\ \A i \in DOMAIN results : results'[i] = results[i]
          /\ Len(results) + 1 \in DOMAIN results' /\ results'[Len(results) + 1] = s
      BY <1>1, <2>2
    <3> QED
      BY <3>1
  <2> QED
    BY <1>2, <2>1, <2>2
<1>4. Serves(tasks', jobs, results', pending')
  <2>1. Moves(tasks, results, s, to, results')
    BY <1>2, <1>3 DEF Moves
  <2>2. Serves([tasks EXCEPT ![s].phase = to], jobs, results',
               IF to = "done" THEN pending - 1 ELSE pending)
    BY <1>1, <2>1, PhaseServes
  <2> QED
    BY <1>2, <2>2
<1>5. /\ jobs' = jobs /\ poll' = poll
      /\ UNCHANGED <<place, readOnly, gui, popup, dialog, details, cache, inputs>>
  BY DEF Worker
<1>6. Kept
  BY <1>1, <1>2 DEF Kept, Tasks
<1>7. Served' /\ GuiTypes'
  BY <1>4, <1>5 DEF QueryInv, Served, Polled, GuiTypes
<1> QED
  BY <1>5, <1>6, <1>7, PopupStays, DialogStays, DetailsStay DEF QueryInv

LEMMA DropKeeps == ASSUME QueryInv, Drop PROVE QueryInv'
<1>1. /\ Serves(tasks, jobs, results, pending) /\ results # <<>>
      /\ \A c \in Clients : jobs[c] # 0 => tasks[jobs[c]].client = c /\ ~ tasks[jobs[c]].cancelled
      /\ Head(results) # 0
  BY DEF QueryInv, Served, Serves, Drop
<1>2. \A c \in Clients : jobs[c] # Head(results)
  BY <1>1 DEF Drop
<1>3. Serves(tasks, jobs, Tail(results), pending)
  BY <1>1, <1>2, TakeServes
<1>4. /\ results' = Tail(results) /\ UNCHANGED <<tasks, jobs, pending, poll>>
      /\ UNCHANGED <<place, readOnly, gui, popup, dialog, details, cache, inputs>>
  BY DEF Drop, Taken, guiVars
<1>5. Served' /\ GuiTypes' /\ Kept
  BY <1>3, <1>4 DEF QueryInv, Served, Polled, GuiTypes, Kept
<1> QED
  BY <1>4, <1>5, PopupStays, DialogStays, DetailsStay DEF QueryInv

(* The result of a job is taken and the job forgotten. *)
LEMMA AnswerServes ==
  ASSUME QueryInv, results # <<>>, NEW c \in Clients, jobs[c] = Head(results)
  PROVE  /\ Serves(tasks, [jobs EXCEPT ![c] = 0], Tail(results), pending)
         /\ Polled([jobs EXCEPT ![c] = 0], poll)
         /\ Head(results) \in DOMAIN tasks /\ Head(results) \in Nat \ {0}
<1> DEFINE js == [jobs EXCEPT ![c] = 0]
<1>1. /\ Serves(tasks, jobs, results, pending) /\ Polled(jobs, poll)
      /\ jobs \in [Clients -> 0 .. Len(tasks)]
      /\ Head(results) \in DOMAIN tasks /\ Head(results) \in Nat \ {0}
      /\ \A d \in Clients : jobs[d] # 0 => tasks[jobs[d]].client = d
  BY DEF QueryInv, Served, Serves
<1>2. \A d \in Clients : js[d] # Head(results)
  BY <1>1
<1>3. Serves(tasks, js, results, pending)
  BY <1>1, ForgetServes
<1>4. Polled(js, poll)
  BY <1>1 DEF Polled
<1> HIDE DEF js
<1>5. Serves(tasks, js, Tail(results), pending)
  BY <1>2, <1>3, TakeServes
<1> QED
  BY <1>1, <1>4, <1>5 DEF js

LEMMA DeliverPopupKeeps == ASSUME QueryInv, DeliverPopup PROVE QueryInv'
<1> DEFINE s == Head(results)
<1>1. /\ results # <<>> /\ jobs["popup"] = s /\ gui = "idle"
      /\ results' = Tail(results) /\ UNCHANGED <<pending, poll, tasks>>
      /\ jobs' = [jobs EXCEPT !["popup"] = 0]
      /\ UNCHANGED <<readOnly, inputs, dialog, details, cache>>
  BY DEF DeliverPopup, Taken, Answered, SameDialogs, Idle
<1>2. /\ Served' /\ s \in Nat \ {0} /\ Kept
  BY <1>1, AnswerServes DEF Served, Clients, Kept
<1>3. /\ jobs'["popup"] = 0 /\ jobs'["dialog"] = jobs["dialog"]
      /\ jobs'["details"] = jobs["details"]
  BY <1>1 DEF QueryInv, Served, Serves, Clients
<1>4. PopupHolds' /\ popup' \in Popups /\ place' \in Places /\ gui' \in {"idle", "again"}
  <2>1. CASE popup.request # s
    <3>1. UNCHANGED <<place, popup, gui>>
      BY <2>1 DEF DeliverPopup
    <3>2. ~ popup.busy
      BY <1>1, <2>1 DEF QueryInv, PopupHolds
    <3> QED
      BY <1>1, <1>2, <3>1, <3>2 DEF QueryInv, GuiTypes, PopupHolds, Kept
  <2>2. CASE popup.request = s /\ place # popup.source
    <3>1. popup' = Closed /\ UNCHANGED <<place, gui>>
      BY <2>2 DEF DeliverPopup
    <3> QED
      BY <1>1, <3>1, PopupClosed DEF QueryInv, GuiTypes
  <2>3. CASE popup.request = s /\ place = popup.source
    <3>1. PICK answer \in Answers : Applies(answer, popup.again)
      BY <2>3 DEF DeliverPopup
    <3> QED
      BY <3>1, AppliesHolds
  <2> QED
    BY <2>1, <2>2, <2>3
<1>5. GuiTypes'
  BY <1>1, <1>4 DEF QueryInv, GuiTypes
<1> QED
  BY <1>1, <1>2, <1>3, <1>4, <1>5, DialogStays, DetailsStay DEF QueryInv

LEMMA DeliverDetailsKeeps == ASSUME QueryInv, DeliverDetails PROVE QueryInv'
<1> DEFINE s == Head(results)
<1>1. /\ results # <<>> /\ jobs["details"] = s
      /\ results' = Tail(results) /\ UNCHANGED <<pending, poll, tasks>>
      /\ jobs' = [jobs EXCEPT !["details"] = 0]
      /\ UNCHANGED <<place, readOnly, inputs, dialog, popup, gui>>
      /\ cache' = tasks[s].for
      /\ details' = IF details.open /\ details.request = s
                    THEN [details EXCEPT !.busy = FALSE, !.shown = tasks[s].for] ELSE details
  BY DEF DeliverDetails, Taken, Answered
<1>2. /\ Served' /\ s \in Nat \ {0} /\ s \in DOMAIN tasks /\ Kept
  BY <1>1, AnswerServes DEF Served, Clients, Kept
<1>3. /\ jobs'["details"] = 0 /\ jobs'["dialog"] = jobs["dialog"]
      /\ jobs'["popup"] = jobs["popup"]
  BY <1>1 DEF QueryInv, Served, Serves, Clients
<1>4. details.open /\ details.request = s /\ tasks[s].for = details.for
  BY <1>1, <1>2 DEF QueryInv, DetailsHold
<1>5. tasks[s].for \in Asked
  <2>1. tasks \in Seq(Tasks)
    BY DEF QueryInv, Served, Serves
  <2>2. tasks[s] \in Tasks
    BY <1>2, <2>1
  <2> HIDE DEF s
  <2> QED
    BY <2>2 DEF Tasks
<1>6. /\ details' \in Details /\ ~ details'.busy
      /\ details'.shown = tasks[s].for /\ details'.for = details.for
  BY <1>1, <1>4, <1>5 DEF QueryInv, GuiTypes, Details
<1>7. DetailsHold'
  BY <1>1, <1>3, <1>4, <1>6 DEF DetailsHold
<1>8. GuiTypes'
  BY <1>1, <1>5, <1>6 DEF QueryInv, GuiTypes
<1> QED
  BY <1>1, <1>2, <1>3, <1>7, <1>8, PopupStays, DialogStays DEF QueryInv

LEMMA DeliverDialogKeeps == ASSUME QueryInv, DeliverDialog PROVE QueryInv'
<1> DEFINE s == Head(results)
           answered == [jobs EXCEPT !["dialog"] = 0]
<1>1. /\ results # <<>> /\ jobs["dialog"] = s /\ results' = Tail(results)
      /\ UNCHANGED <<place, readOnly, poll, popup, gui, inputs>> /\ poll
  BY DEF DeliverDialog
<1>2. /\ Serves(tasks, answered, Tail(results), pending) /\ Polled(answered, poll)
      /\ s \in Nat \ {0} /\ s \in DOMAIN tasks
  BY <1>1, AnswerServes DEF Clients
<1>3. /\ answered["dialog"] = 0 /\ answered["popup"] = jobs["popup"]
      /\ answered["details"] = jobs["details"] /\ answered \in [Clients -> 0 .. Len(tasks)]
      /\ tasks \in Seq(Tasks) /\ Len(tasks) \in Nat
  BY DEF QueryInv, Served, Serves, Clients
<1>4. CASE /\ tasks' = tasks /\ jobs' = answered /\ UNCHANGED <<pending, details, cache>>
           /\ dialog' = dialog /\ (~ Visible \/ dialog.request # s)
  <2>1. Served' /\ Kept
    BY <1>1, <1>2, <1>4 DEF Served, Kept
  <2>2. DialogHolds'
    BY <1>1, <1>3, <1>4 DEF QueryInv, DialogHolds, Visible
  <2>3. GuiTypes'
    BY <1>1, <1>4 DEF QueryInv, GuiTypes
  <2> QED
    BY <1>1, <1>3, <1>4, <2>1, <2>2, <2>3, PopupStays, DetailsStay DEF QueryInv
<1>5. ASSUME NEW rows \in BOOLEAN, Visible, dialog.request = s,
             dialog' = [dialog EXCEPT !.busy = FALSE, !.enter = FALSE,
                                      !.shown = IF rows THEN tasks[s].for ELSE None]
      PROVE  /\ dialog' \in Dialogs
             /\ jobs'["dialog"] = 0 => DialogHolds'
  <2>1. /\ tasks[s].for = dialog.query /\ dialog.query \in Queries /\ dialog \in Dialogs
    BY <1>1, <1>2, <1>5 DEF QueryInv, GuiTypes, DialogHolds
  <2>2. dialog' \in Dialogs
    BY <1>5, <2>1 DEF Dialogs, Asked
  <2>3. /\ ~ dialog'.busy /\ dialog'.query = dialog.query
        /\ dialog'.shown \in {None, dialog.query}
    BY <1>5, <2>1 DEF Dialogs
  <2> QED
    BY <2>1, <2>2, <2>3 DEF DialogHolds
<1>6. CASE /\ tasks' = tasks /\ jobs' = answered /\ UNCHANGED <<pending, details, cache>>
           /\ Visible /\ dialog.request = s
           /\ \E rows \in BOOLEAN :
                dialog' = [dialog EXCEPT !.busy = FALSE, !.enter = FALSE,
                                         !.shown = IF rows THEN tasks[s].for ELSE None]
  <2>1. Served' /\ Kept
    BY <1>1, <1>2, <1>6 DEF Served, Kept
  <2>2. DialogHolds' /\ dialog' \in Dialogs
    BY <1>3, <1>5, <1>6
  <2>3. GuiTypes'
    BY <1>1, <1>6, <2>2 DEF QueryInv, GuiTypes
  <2> QED
    BY <1>1, <1>3, <1>6, <2>1, <2>2, <2>3, PopupStays, DetailsStay DEF QueryInv
<1>7. CASE /\ Visible /\ dialog.request = s
           /\ \E rows \in BOOLEAN :
                dialog' = [dialog EXCEPT !.busy = FALSE, !.enter = FALSE,
                                         !.shown = IF rows THEN tasks[s].for ELSE None]
           /\ tasks' = Append(WithCancelled({"details"}), Queued("details", dialog.query))
           /\ jobs' = [jobs EXCEPT !["dialog"] = 0, !["details"] = Serial]
           /\ pending' = pending + 1
           /\ details' = [open |-> TRUE, request |-> Serial, busy |-> TRUE,
                          for |-> dialog.query, shown |-> None]
           /\ cache' = None
  <2> DEFINE w == CancelledIn(tasks, answered, {"details"})
             jw == [c \in Clients |-> IF c \in {"details"} THEN 0 ELSE answered[c]]
  <2>1. dialog.query \in Queries /\ dialog.query \in Asked
    BY <1>7 DEF QueryInv, DialogHolds, Asked
  <2>2. Serves(w, jw, Tail(results), pending)
    BY <1>2, CancelServes DEF Clients
  <2>3. /\ Len(w) = Len(tasks) /\ w \in Seq(Tasks)
        /\ \A r \in DOMAIN tasks : w[r].for = tasks[r].for
    <3>1. {"details"} \in SUBSET Clients
      BY DEF Clients
    <3> HIDE DEF answered
    <3> QED
      BY <1>3, <3>1, CancelledTasks
  <2>4. tasks' = Append(w, Queued("details", dialog.query))
    BY <1>3, <1>7 DEF WithCancelled, CancelledIn
  <2> HIDE DEF w
  <2>5. jobs' = [jw EXCEPT !["details"] = Len(w) + 1]
    BY <1>3, <1>7, <2>3 DEF Serial, QueryInv, Served, Serves, Clients
  <2> HIDE DEF jw
  <2>6. Serves(tasks', jobs', results', pending')
    <3>1. Serves(Append(w, Queued("details", dialog.query)),
                 [jw EXCEPT !["details"] = Len(w) + 1], Tail(results), pending + 1)
      BY <2>1, <2>2, AddServes DEF Clients
    <3> QED
      BY <1>1, <1>7, <2>4, <2>5, <3>1
  <2>7. Served'
    BY <1>1, <1>2, <2>6 DEF Served, Polled
  <2>8. /\ Queued("details", dialog.query) \in Tasks
        /\ Queued("details", dialog.query).for = dialog.query
    BY <2>1 DEF Queued, Tasks, Clients
  <2>9. /\ Kept /\ Serial \in Nat \ {0} /\ tasks'[Serial].for = dialog.query
    BY <1>3, <2>3, <2>4, <2>8 DEF Kept, Serial
  <2>10. /\ jobs'["dialog"] = 0 /\ jobs'["details"] = Serial /\ jobs'["popup"] = jobs["popup"]
    BY <1>7 DEF QueryInv, Served, Serves, Clients
  <2>11. DetailsHold' /\ details' \in Details
    BY <1>7, <2>1, <2>9, <2>10 DEF DetailsHold, Details
  <2>12. DialogHolds' /\ dialog' \in Dialogs
    BY <1>5, <1>7, <2>10
  <2>13. GuiTypes'
    BY <1>1, <1>7, <2>11, <2>12 DEF QueryInv, GuiTypes
  <2> QED
    BY <1>1, <2>7, <2>9, <2>10, <2>11, <2>12, <2>13, PopupStays DEF QueryInv
<1> QED
  BY <1>4, <1>6, <1>7 DEF DeliverDialog, Answered

LEMMA DrainedKeeps == ASSUME QueryInv, Drained PROVE QueryInv'
<1>1. /\ UNCHANGED <<tasks, jobs, results, pending, poll>> /\ gui = "idle" /\ gui' = "drained"
      /\ UNCHANGED <<place, readOnly, popup, dialog, details, cache, inputs>>
  BY DEF Drained, Idle
<1>2. Served' /\ Kept /\ GuiTypes'
  BY <1>1 DEF QueryInv, Served, GuiTypes, Kept
<1> QED
  BY <1>1, <1>2, PopupStays, DialogStays, DetailsStay DEF QueryInv

LEMMA RestKeeps == ASSUME QueryInv, Rest PROVE QueryInv'
<1>1. /\ UNCHANGED <<tasks, jobs, results, pending>> /\ gui = "drained" /\ gui' = "idle"
      /\ UNCHANGED <<place, readOnly, popup, dialog, details, cache, inputs>>
      /\ poll' = ~ ((\A c \in Clients : jobs[c] = 0) /\ pending = 0)
  BY DEF Rest
<1>2. Polled(jobs', poll')
  BY <1>1 DEF Polled
<1>3. Served' /\ Kept /\ GuiTypes'
  BY <1>1, <1>2 DEF QueryInv, Served, GuiTypes, Kept
<1> QED
  BY <1>1, <1>3, PopupStays, DialogStays, DetailsStay DEF QueryInv

----------------------------------------------------------------------------
(* The inductive invariant, and what follows from it. *)

LEMMA InitQuery == Init => QueryInv
<1> SUFFICES ASSUME Init PROVE QueryInv
  OBVIOUS
<1>1. place \in Places
  <2>1. PICK p \in Pages, r \in Rests : TRUE
    BY QueryBounds
  <2>2. [page |-> p, rest |-> r] \in Places
    BY DEF Places
  <2> QED
    BY <2>2 DEF Init
<1>2. GuiTypes
  BY <1>1, QueryBounds DEF GuiTypes, Init, Popups, Dialogs, Details
<1>3. Served
  <2>1. tasks = <<>> /\ jobs = [c \in Clients |-> 0] /\ results = <<>> /\ pending = 0 /\ poll = FALSE
    BY DEF Init
  <2>2. UnfinishedIn(tasks) = {}
    BY <2>1 DEF UnfinishedIn
  <2>3. pending = Cardinality(UnfinishedIn(tasks))
    BY <2>1, <2>2, FS_EmptySet
  <2>4. tasks \in Seq(Tasks) /\ jobs \in [Clients -> 0 .. Len(tasks)] /\ results \in Seq(1 .. Len(tasks))
    BY <2>1
  <2> QED
    BY <2>1, <2>3, <2>4 DEF Served, Serves, Polled
<1>4. PopupHolds /\ DialogHolds /\ DetailsHold
  BY DEF Init, PopupHolds, DialogHolds, DetailsHold, Visible, Clients
<1> QED
  BY <1>2, <1>3, <1>4 DEF QueryInv

LEMMA NextKeeps == QueryInv /\ [Next]_vars => QueryInv'
<1> SUFFICES ASSUME QueryInv, [Next]_vars PROVE QueryInv'
  OBVIOUS
<1>1. CASE User
  BY <1>1, RequestKeeps, TypeKeeps, LoadKeeps, AcceptKeeps, DismissKeeps, OpenQueryKeeps,
     EditQueryKeeps, EnterKeeps, CloseQueryKeeps, PopupDetailsKeeps, TurnDetailsKeeps,
     CloseDetailsKeeps DEF User
<1>2. CASE AskAgain \/ QueryDue \/ QueryClosed
  BY <1>2, AskAgainKeeps, QueryDueKeeps, QueryClosedKeeps
<1>3. CASE Poll
  BY <1>3, DropKeeps, DeliverPopupKeeps, DeliverDialogKeeps, DeliverDetailsKeeps,
     DrainedKeeps, RestKeeps DEF Poll
<1>4. CASE \E s \in DOMAIN tasks : Worker(s)
  BY <1>4, WorkerKeeps
<1>5. CASE UNCHANGED vars
  <2>1. /\ UNCHANGED <<tasks, jobs, results, pending, poll>> /\ gui' = gui
        /\ UNCHANGED <<place, readOnly, popup, dialog, details, cache, inputs>>
    BY <1>5 DEF vars
  <2>2. Served' /\ Kept /\ GuiTypes'
    BY <2>1 DEF QueryInv, Served, GuiTypes, Kept
  <2> QED
    BY <2>1, <2>2, PopupStays, DialogStays, DetailsStay DEF QueryInv
<1> QED
  BY <1>1, <1>2, <1>3, <1>4, <1>5 DEF Next

(* Whatever the user, the workers and the timers do, in any order: tasks,   *)
(* jobs, results and the state of popup and dialogs fit together.           *)
THEOREM QueriesHold == Spec => []QueryInv
  BY InitQuery, NextKeeps, PTL DEF Spec

(* Every variable of the window and the bridge keeps its type.              *)
THEOREM QueryTypes == Spec => []TypeOK
<1>1. QueryInv => TypeOK
  BY DEF QueryInv, GuiTypes, Served, Serves, Polled, TypeOK
<1> QED
  BY <1>1, QueriesHold, PTL

(* _cancel, _run_completion, _drain and _deliver: a job that is waited for  *)
(* is answered or will be, the poll timer runs until then, and the counter  *)
(* of pending tasks is exact.                                               *)
THEOREM NoQueryLost == Spec => []NoLostQuery
<1>1. QueryInv => NoLostQuery
  BY DEF QueryInv, Served, Serves, Polled, Waiting, UnfinishedIn, Unfinished, NoLostQuery
<1> QED
  BY <1>1, QueriesHold, PTL

(* Every busy indicator of the popup and the dialogs belongs to a job of    *)
(* the bridge, or to the timer that is about to start one.                  *)
THEOREM BusyServed == Spec => []BusyIsServed
<1>1. QueryInv => BusyIsServed
  BY DEF QueryInv, PopupHolds, DialogHolds, DetailsHold, BusyIsServed
<1> QED
  BY <1>1, QueriesHold, PTL

(* What popup, query dialog and details dialog list belongs to the page,    *)
(* the query and the row they show now.                                     *)
THEOREM ListsCurrent == Spec => []ListsBelong
<1>1. QueryInv => ListsBelong
  BY DEF QueryInv, PopupHolds, DialogHolds, DetailsHold, ListsBelong
<1> QED
  BY <1>1, QueriesHold, PTL

(* _deliver and applyCompletionResult: an edit a worker computed is applied *)
(* only to the whole document and caret it was computed for.                *)
THEOREM EditsExact == Spec => EditExact
<1>1. ASSUME QueryInv, DeliverPopup, place' # place
      PROVE  tasks[Head(results)].for = place
  <2>1. jobs["popup"] = Head(results) /\ popup.request = Head(results) /\ place = popup.source
    BY <1>1 DEF DeliverPopup
  <2>2. Head(results) # 0
    BY <1>1, <2>1, AnswerServes DEF DeliverPopup, Clients
  <2> QED
    BY <1>1, <2>1, <2>2 DEF QueryInv, PopupHolds
<1>2. QueryInv /\ [Next]_vars =>
        [DeliverPopup /\ place' # place => tasks[Head(results)].for = place]_vars
  BY <1>1
<1> QED
  BY <1>2, QueriesHold, PTL DEF Spec, EditExact
=============================================================================
