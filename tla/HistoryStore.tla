---------------------------- MODULE HistoryStore ----------------------------
(***************************************************************************)
(* gui/models/history.py: the analysis history shared by every open window *)
(* of the desktop application, with the calls gui/controllers/analysis.py  *)
(* makes to it.                                                            *)
(*                                                                         *)
(* Each window is a process.  Its GUI thread owns one HistoryStore; each   *)
(* analysis it submits runs on a worker thread that opens a store of its   *)
(* own to append the result.  Two files are shared: the privacy policy and *)
(* the history.  Every method but the constructor works inside a           *)
(* QLockFile transaction.                                                  *)
(***************************************************************************)
EXTENDS Integers, FiniteSets

CONSTANTS
    Windows,        \* the application instances
    Limit,          \* most entries kept (HistoryStore.limit)
    Quota,          \* aggregate size of the file, see Cost
    Budgets         \* bound: the calls the users of the windows make and the
                    \* I/O failures, damaged files and crashes they meet

ASSUME LimitAssumption == Limit \in Nat \ {0}
ASSUME QuotaAssumption == Quota \in Nat \ {0, 1}
ASSUME BoundsAssumption == Budgets \subseteq Nat \X Nat

VARIABLES
    policy,     \* committed privacy policy
    file,       \* history file
    lock,       \* holder of the QLockFile
    mem,        \* the GUI thread's HistoryStore object, per window
    op,         \* the GUI thread's call in progress, per window
    job,        \* the worker's analysis, per window
    clock,      \* entries created so far: the timestamp of the newest one
    erased,     \* history: revision committed by the last completed erasure
    calls,      \* calls that may still be made
    faults      \* faults that may still happen

vars == <<policy, file, lock, mem, op, job, clock, erased, calls, faults>>

Abstract == INSTANCE PrivateHistory WITH policy <- policy, file <- file

-----------------------------------------------------------------------------
(* Data *)

Retention == Abstract!Retention
Policy == Abstract!Policy
Entry == Abstract!Entry

Kinds == {"enable", "disable", "summary", "full", "clear", "remove", "refresh", "submit"}

\* Calls by which the controller bumps its _history_epoch.
Bumping == {"enable", "disable", "summary", "full", "clear", "remove"}

\* Calls that commit a new policy.
Deciding == {"enable", "disable", "summary", "full", "clear"}

Free == <<"free", "none">>
Gui(w) == <<w, "gui">>
Worker(w) == <<w, "worker">>

Unavailable == -1       \* privacy token of a submission whose token read failed

Memory == [up: BOOLEAN, enabled: BOOLEAN, retention: Retention, revision: Nat,
           entries: SUBSET Entry,
           warn: BOOLEAN,       \* load_warning
           fresh: BOOLEAN]      \* _loaded_signature is the file's signature

Call == [pc: {"idle", "opening", "waiting", "committed"}, kind: Kinds,
         ids: SUBSET Nat]        \* entries to remove

Job == [pc: {"none", "running", "appending", "writing", "done"},
        token: Nat \cup {Unavailable},
        since: Nat,             \* history: revision in force at submission
        known: BOOLEAN,         \* _active_history_id was set at submission
        stale: BOOLEAN,         \* _history_epoch moved since submission
        cancelled: BOOLEAN,
        warn: BOOLEAN,          \* load_warning of the worker's store
        draft: SUBSET Entry,    \* what the worker is about to write
        answered: BOOLEAN]      \* append returned without OSError

Down == [up |-> FALSE, enabled |-> FALSE, retention |-> "summary", revision |-> 0,
         entries |-> {}, warn |-> FALSE, fresh |-> FALSE]

Idle == [pc |-> "idle", kind |-> "refresh", ids |-> {}]

NoJob == [pc |-> "none", token |-> Unavailable, since |-> 0, known |-> FALSE,
          stale |-> FALSE, cancelled |-> FALSE, warn |-> FALSE, draft |-> {},
          answered |-> FALSE]

Ids(es) == {e.id : e \in es}

HasFull(es) == \E e \in es : e.full

\* _summaries
Strip(es) == {Abstract!Stripped(e) : e \in es}

\* Variant: summary retention does not strip what is already stored.
VisibleUnstripped(enabled, retention, es) == IF enabled THEN es ELSE {}

\* What a store keeps in memory under a policy: nothing when disabled, no
\* configuration text under summary retention.
Visible(enabled, retention, es) ==
    CASE ~enabled -> {}
      [] enabled /\ retention = "summary" -> Strip(es)
      [] OTHER -> es

\* The n newest entries: the list is newest first and truncated at the end.
Newest(es, n) == {e \in es : Cardinality({f \in es : f.id > e.id}) < n}

\* A full entry takes twice the room of a summary.
Cost(es) == Cardinality(es) + Cardinality({e \in es : e.full})

\* _write keeps the longest newest-first prefix that fits the quota.
Retained(es) == {e \in es : Cost({f \in es : f.id >= e.id}) <= Quota}

\* _load
Loaded == IF file.state = "ok" THEN Newest(file.entries, Limit) ELSE {}

Written(es) == [state |-> "ok", entries |-> Retained(es)]

-----------------------------------------------------------------------------
(* Transactions of a window's GUI thread *)

\* _refresh_privacy: memory after reading a valid policy.
Adopt(m) ==
    [m EXCEPT !.enabled = policy.enabled, !.retention = policy.retention,
              !.revision = policy.revision,
              !.entries = Visible(policy.enabled, policy.retention, m.entries)]

\* The except branch of _transaction, after m's settings took their value.
Restore(m, previous) ==
    [m EXCEPT !.entries = Visible(m.enabled, m.retention, previous)]

Finish(w) == op' = [op EXCEPT ![w] = Idle]

\* Another process's replacement of the file changes its signature; a store
\* that has read or written it itself holds the current one.
OthersStale(m, w) ==
    [v \in Windows |-> IF v = w THEN m[v] ELSE [m[v] EXCEPT !.fresh = FALSE]]

MayFail == faults > 0 /\ faults' = faults - 1

\* Variant: a transaction that does not wait for the lock.
LocksWithoutLock(w, kinds) == op[w].pc = "waiting" /\ op[w].kind \in kinds

\* tryLock succeeds for a call of one of these kinds.
Locks(w, kinds) == op[w].pc = "waiting" /\ op[w].kind \in kinds /\ lock = Free

\* analyzeConfig after privacy_token returned or raised.
Submit(w, token, known) ==
    job' = [job EXCEPT ![w] =
              [NoJob EXCEPT !.pc = "running", !.token = token,
                            !.since = policy.revision, !.known = known]]

-----------------------------------------------------------------------------
Init ==
    /\ Abstract!Init
    /\ HasFull(file.entries) => policy.enabled /\ policy.retention = "full"
    /\ lock = Free
    /\ mem = [w \in Windows |-> Down]
    /\ op = [w \in Windows |-> Idle]
    /\ job = [w \in Windows |-> NoJob]
    /\ clock = 0
    /\ erased = 0
    /\ \E budget \in Budgets : calls = budget[1] /\ faults = budget[2]

\* HistoryStore.__init__ reads the policy, and then the file, without the lock.
Open(w) ==
    /\ ~mem[w].up
    /\ mem' = [mem EXCEPT ![w] =
                 IF policy.valid
                 THEN [Adopt(Down) EXCEPT !.up = TRUE, !.fresh = file.state = "absent"]
                 ELSE [Down EXCEPT !.up = TRUE, !.warn = TRUE, !.fresh = file.state = "absent"]]
    /\ op' = [op EXCEPT ![w] = [Idle EXCEPT !.pc = "opening"]]
    /\ UNCHANGED <<policy, file, lock, job, clock, erased, calls, faults>>

OpenLoads(w) ==
    /\ op[w].pc = "opening"
    /\ mem' = IF ~mem[w].enabled THEN mem
              ELSE [mem EXCEPT ![w].entries = Visible(TRUE, mem[w].retention, Loaded),
                               ![w].warn = @ \/ file.state = "damaged",
                               ![w].fresh = TRUE]
    /\ Finish(w)
    /\ UNCHANGED <<policy, file, lock, job, clock, erased, calls, faults>>

\* A call of the controller.  The epoch moves before the lock is tried.
Request(w, kind, ids) ==
    /\ mem[w].up
    /\ op[w].pc = "idle"
    /\ kind = "enable" => ~mem[w].enabled
    /\ kind = "submit" => job[w].pc = "none"
    /\ calls > 0
    /\ calls' = calls - 1
    /\ (kind = "remove") = (ids # {})
    /\ op' = [op EXCEPT ![w] = [pc |-> "waiting", kind |-> kind, ids |-> ids]]
    /\ job' = IF kind \in Bumping /\ job[w].pc # "none"
              THEN [job EXCEPT ![w].stale = TRUE]
              ELSE job
    /\ UNCHANGED <<policy, file, lock, mem, clock, erased, faults>>

\* An OSError before anything was read: a submission goes on with a token
\* that matches no revision, any other call reports its failure.
Refuse(w) ==
    /\ Finish(w)
    /\ IF op[w].kind = "submit"
       THEN \E known \in BOOLEAN : Submit(w, Unavailable, known)
       ELSE UNCHANGED job

\* tryLock(1000) expires while another transaction holds the lock.
LockBusy(w) ==
    /\ op[w].pc = "waiting"
    /\ lock # Free
    /\ Refuse(w)
    /\ UNCHANGED <<policy, file, lock, mem, clock, erased, calls, faults>>

\* The policy file is damaged: every call but clear is refused.
PolicyRefused(w) ==
    /\ Locks(w, Kinds \ {"clear"})
    /\ ~policy.valid
    /\ mem' = [mem EXCEPT ![w] = Restore(@, @.entries)]
    /\ Refuse(w)
    /\ UNCHANGED <<policy, file, lock, clock, erased, calls, faults>>

\* Variant: the token is taken from memory, without reading the policy again.
CaptureStaleToken(w) ==
    /\ Locks(w, {"submit"})
    /\ policy.valid
    /\ \E known \in BOOLEAN : Submit(w, mem[w].revision, known)
    /\ Finish(w)
    /\ UNCHANGED <<policy, file, lock, mem, clock, erased, calls, faults>>

CaptureToken(w) ==
    /\ Locks(w, {"submit"})
    /\ policy.valid
    /\ mem' = [mem EXCEPT ![w] = Adopt(@)]
    /\ \E known \in BOOLEAN : Submit(w, policy.revision, known)
    /\ Finish(w)
    /\ UNCHANGED <<policy, file, lock, clock, erased, calls, faults>>

\* Variant: reloaded entries are shown as they are.
RefreshedUnstripped(m) ==
    IF ~m.enabled THEN [m EXCEPT !.entries = {}, !.fresh = file.state = "absent"]
    ELSE IF m.fresh THEN [m EXCEPT !.entries = Visible(TRUE, m.retention, m.entries)]
    ELSE [m EXCEPT !.entries = Loaded, !.warn = m.warn \/ file.state = "damaged",
                   !.fresh = file.state # "absent"]

\* refresh: reload only when the signature moved.
Refreshed(m) ==
    IF ~m.enabled THEN [m EXCEPT !.entries = {}, !.fresh = file.state = "absent"]
    ELSE IF m.fresh THEN [m EXCEPT !.entries = Visible(TRUE, m.retention, m.entries)]
    ELSE [m EXCEPT !.entries = Visible(TRUE, m.retention, Loaded),
                   !.warn = m.warn \/ file.state = "damaged",
                   !.fresh = file.state # "absent"]

RefreshView(w) ==
    /\ Locks(w, {"refresh"})
    /\ policy.valid
    /\ mem' = [mem EXCEPT ![w] = Refreshed(Adopt(@))]
    /\ Finish(w)
    /\ UNCHANGED <<policy, file, lock, job, clock, erased, calls, faults>>

-----------------------------------------------------------------------------
(* set_enabled, set_retention and clear: commit the policy, then the file *)

\* Settings the call starts from; clear recovers a damaged policy by
\* withdrawing every permission.
Current(w) ==
    IF policy.valid THEN Adopt(mem[w])
    ELSE [mem[w] EXCEPT !.enabled = FALSE, !.retention = "summary"]

Unneeded(kind, m) ==
    \/ kind = "enable" /\ m.enabled
    \/ kind = "full" /\ m.retention = "full"

\* Variants: a retention that is not validated; a policy saved under the
\* revision it replaces.
DecidedUnvalidated(kind, m) ==
    [m EXCEPT !.enabled = CASE kind = "enable" -> TRUE [] kind = "disable" -> FALSE [] OTHER -> @,
              !.retention = kind,
              !.revision = policy.revision + 1]

DecidedSameRevision(kind, m) ==
    [m EXCEPT !.enabled = CASE kind = "enable" -> TRUE [] kind = "disable" -> FALSE [] OTHER -> @,
              !.retention = IF kind \in Retention THEN kind ELSE @,
              !.revision = policy.revision]

\* _save_privacy: a fresh revision, first on disk and then in memory.
Decided(kind, m) ==
    [m EXCEPT !.enabled = CASE kind = "enable" -> TRUE [] kind = "disable" -> FALSE [] OTHER -> @,
              !.retention = IF kind \in Retention THEN kind ELSE @,
              !.revision = policy.revision + 1]

PolicyOf(m) ==
    [valid |-> TRUE, enabled |-> m.enabled, retention |-> m.retention, revision |-> m.revision]

TouchesFile(kind, m) ==
    \/ kind \in {"enable", "disable", "clear"}
    \/ kind = "summary" /\ m.enabled

\* set_enabled(True) and set_retention("full") of what is already so.
ChangeUnneeded(w) ==
    /\ Locks(w, Deciding)
    /\ policy.valid
    /\ Unneeded(op[w].kind, Adopt(mem[w]))
    /\ mem' = [mem EXCEPT ![w] = Adopt(@)]
    /\ Finish(w)
    /\ UNCHANGED <<policy, file, lock, job, clock, erased, calls, faults>>

Decides(w) ==
    /\ Locks(w, Deciding)
    /\ policy.valid \/ op[w].kind = "clear"
    /\ ~Unneeded(op[w].kind, Current(w))

CommitPolicy(w) ==
    /\ Decides(w)
    /\ LET m == Decided(op[w].kind, Current(w)) IN
          /\ policy' = PolicyOf(m)
          /\ mem' = [mem EXCEPT ![w] = m]
          /\ IF TouchesFile(op[w].kind, m)
             THEN /\ lock' = Gui(w)
                  /\ op' = [op EXCEPT ![w].pc = "committed"]
             ELSE /\ Finish(w)
                  /\ UNCHANGED lock
    /\ UNCHANGED <<file, job, clock, erased, calls, faults>>

\* The policy could not be written: nothing changed.
CommitFails(w) ==
    /\ Decides(w)
    /\ MayFail
    /\ mem' = [mem EXCEPT ![w] = Restore(Current(w), @.entries)]
    /\ Finish(w)
    /\ UNCHANGED <<policy, file, lock, job, clock, erased, calls>>

\* The policy is committed, but QSettings.sync fails: the call ends there and
\* its effect on the file is skipped.
SettingsSyncFails(w) ==
    /\ Decides(w)
    /\ MayFail
    /\ LET m == Decided(op[w].kind, Current(w)) IN
          /\ policy' = PolicyOf(m)
          /\ mem' = [mem EXCEPT ![w] = Restore(m, @.entries)]
    /\ Finish(w)
    /\ UNCHANGED <<file, lock, job, clock, erased, calls>>

Committed(w, kinds) == op[w].pc = "committed" /\ op[w].kind \in kinds

\* disable and clear unlink the file.
EraseFile(w) ==
    /\ Committed(w, {"disable", "clear"})
    /\ file' = Abstract!Absent
    /\ mem' = OthersStale([mem EXCEPT ![w].entries = {}, ![w].warn = FALSE,
                                      ![w].fresh = op[w].kind = "clear" \/ (@ /\ file.state = "absent")], w)
    /\ erased' = policy.revision
    /\ lock' = Free
    /\ Finish(w)
    /\ UNCHANGED <<policy, job, clock, calls, faults>>

\* enable reads whatever file is there, as it is.
LoadOnEnable(w) ==
    /\ Committed(w, {"enable"})
    /\ mem' = [mem EXCEPT ![w].entries = Loaded,
                          ![w].warn = @ \/ file.state = "damaged",
                          ![w].fresh = @ \/ file.state # "absent"]
    /\ lock' = Free
    /\ Finish(w)
    /\ UNCHANGED <<policy, file, job, clock, erased, calls, faults>>

\* Variant: only the warning of an earlier load counts.
RefusedIfWarned(m) == m.warn

\* _refresh_for_write refuses to replace a damaged file, or one this store
\* once saw damaged.
Refused(m) == m.warn \/ file.state = "damaged"

ScrubFile(w) ==
    /\ Committed(w, {"summary"})
    /\ ~Refused(mem[w])
    /\ LET es == Strip(Loaded) IN
          /\ file' = Written(es)
          /\ mem' = OthersStale([mem EXCEPT ![w].entries = Retained(es), ![w].fresh = TRUE], w)
    /\ lock' = Free
    /\ Finish(w)
    /\ UNCHANGED <<policy, job, clock, erased, calls, faults>>

\* An unlink or a write fails, or the write is refused.  The reload before a
\* write has already renewed the signature; the previous entries come back.
FileStepFails(w) ==
    /\ Committed(w, {"disable", "clear", "summary"})
    /\ IF op[w].kind = "summary" /\ Refused(mem[w]) THEN UNCHANGED faults ELSE MayFail
    /\ LET reloads == op[w].kind = "summary"
           m == Restore(mem[w], mem[w].entries)
       IN mem' = [mem EXCEPT ![w] =
                    [m EXCEPT !.warn = m.warn \/ (reloads /\ file.state = "damaged"),
                              !.fresh = m.fresh \/ (reloads /\ file.state # "absent")]]
    /\ lock' = Free
    /\ Finish(w)
    /\ UNCHANGED <<policy, file, job, clock, erased, calls>>

-----------------------------------------------------------------------------
(* remove_ids *)

RemoveAllowed(w) == Locks(w, {"remove"}) /\ policy.valid /\ policy.enabled

RemoveWhileDisabled(w) ==
    /\ Locks(w, {"remove"})
    /\ policy.valid
    /\ ~policy.enabled
    /\ mem' = [mem EXCEPT ![w] = Adopt(@)]
    /\ Finish(w)
    /\ UNCHANGED <<policy, file, lock, job, clock, erased, calls, faults>>

\* Variant: the entries in memory are written back without a reload.
RemoveWithoutReload(w) ==
    /\ RemoveAllowed(w)
    /\ ~Refused(mem[w])
    /\ LET es == {e \in Visible(TRUE, policy.retention, mem[w].entries) : e.id \notin op[w].ids} IN
          /\ file' = Written(es)
          /\ mem' = OthersStale([mem EXCEPT ![w] =
                        [Adopt(@) EXCEPT !.entries = Retained(es), !.fresh = TRUE]], w)
    /\ Finish(w)
    /\ UNCHANGED <<policy, lock, job, clock, erased, calls, faults>>

\* Reload, drop the chosen entries, write: one transaction.
RemoveEntries(w) ==
    /\ RemoveAllowed(w)
    /\ ~Refused(mem[w])
    /\ LET es == {e \in Visible(TRUE, policy.retention, Loaded) : e.id \notin op[w].ids} IN
          /\ file' = Written(es)
          /\ mem' = OthersStale([mem EXCEPT ![w] =
                        [Adopt(@) EXCEPT !.entries = Retained(es), !.fresh = TRUE]], w)
    /\ Finish(w)
    /\ UNCHANGED <<policy, lock, job, clock, erased, calls, faults>>

RemoveFails(w) ==
    /\ RemoveAllowed(w)
    /\ IF Refused(mem[w]) THEN UNCHANGED faults ELSE MayFail
    /\ LET m == Adopt(mem[w]) IN
          mem' = [mem EXCEPT ![w] = [m EXCEPT !.warn = m.warn \/ file.state = "damaged",
                                              !.fresh = m.fresh \/ file.state # "absent"]]
    /\ Finish(w)
    /\ UNCHANGED <<policy, file, lock, job, clock, erased, calls>>

GuiCall(w) ==
    \/ OpenLoads(w) \/ LockBusy(w) \/ PolicyRefused(w) \/ CaptureToken(w) \/ RefreshView(w)
    \/ ChangeUnneeded(w) \/ CommitPolicy(w) \/ CommitFails(w) \/ SettingsSyncFails(w)
    \/ EraseFile(w) \/ LoadOnEnable(w) \/ ScrubFile(w) \/ FileStepFails(w)
    \/ RemoveWhileDisabled(w) \/ RemoveEntries(w) \/ RemoveFails(w)

-----------------------------------------------------------------------------
(* The worker: _analyze_and_persist and HistoryStore.append *)

\* An edit, a Cancel or the closing window sets the cancellation token.
CancelJob(w) ==
    /\ job[w].pc # "none"
    /\ ~job[w].cancelled
    /\ job' = [job EXCEPT ![w].cancelled = TRUE]
    /\ UNCHANGED <<policy, file, lock, mem, op, clock, erased, calls, faults>>

\* Whether the result is to be appended is read from the GUI thread's store,
\* without the lock.
ToAppend(w) == ~job[w].cancelled /\ ~job[w].known /\ mem[w].enabled

EndJob(w, answered) ==
    job' = [job EXCEPT ![w] = [NoJob EXCEPT !.pc = "done", !.answered = answered,
                                            !.stale = job[w].stale, !.cancelled = job[w].cancelled]]

AnalysisEnds(w) ==
    /\ job[w].pc = "running"
    /\ IF ToAppend(w)
       THEN job' = [job EXCEPT ![w].pc = "appending",
                      ![w].warn = ~policy.valid \/ (policy.enabled /\ file.state = "damaged")]
       ELSE EndJob(w, FALSE)
    /\ UNCHANGED <<policy, file, lock, mem, op, clock, erased, calls, faults>>

Appending(w) == job[w].pc = "appending" /\ lock = Free

\* Variant: the worker only asks whether the history is enabled now.
TokenIgnored(w) == ~policy.enabled

\* append returns None without touching the file.
TokenRevoked(w) == ~policy.enabled \/ job[w].token # policy.revision
GuardRefuses(w) == job[w].stale \/ job[w].cancelled
AppendRefused(w) == job[w].warn \/ file.state = "damaged"

AppendDropped(w) ==
    /\ Appending(w)
    /\ policy.valid
    /\ TokenRevoked(w) \/ (~AppendRefused(w) /\ GuardRefuses(w))
    /\ EndJob(w, TRUE)
    /\ UNCHANGED <<policy, file, lock, mem, op, clock, erased, calls, faults>>

\* OSError: lock held, damaged policy or damaged history.
AppendRaises(w) ==
    /\ job[w].pc = "appending"
    /\ \/ lock # Free
       \/ lock = Free /\ ~policy.valid
       \/ lock = Free /\ policy.valid /\ ~TokenRevoked(w) /\ AppendRefused(w)
    /\ EndJob(w, FALSE)
    /\ UNCHANGED <<policy, file, lock, mem, op, clock, erased, calls, faults>>

NewEntry(w) == [id |-> clock + 1, rev |-> job[w].since, full |-> policy.retention = "full"]

\* Every check passed: the entries to write are fixed under the lock.
AppendPrepares(w) ==
    /\ Appending(w)
    /\ policy.valid
    /\ ~TokenRevoked(w) /\ ~AppendRefused(w) /\ ~GuardRefuses(w)
    /\ LET es == Newest({NewEntry(w)} \cup Visible(TRUE, policy.retention, Loaded), Limit)
       IN job' = [job EXCEPT ![w].pc = "writing", ![w].draft = Retained(es)]
    /\ clock' = clock + 1
    /\ lock' = Worker(w)
    /\ UNCHANGED <<policy, file, mem, op, erased, calls, faults>>

AppendWrites(w) ==
    /\ job[w].pc = "writing"
    /\ file' = [state |-> "ok", entries |-> job[w].draft]
    /\ mem' = [v \in Windows |-> [mem[v] EXCEPT !.fresh = FALSE]]
    /\ lock' = Free
    /\ EndJob(w, TRUE)
    /\ UNCHANGED <<policy, op, clock, erased, calls, faults>>

AppendFails(w) ==
    /\ job[w].pc = "writing"
    /\ MayFail
    /\ lock' = Free
    /\ EndJob(w, FALSE)
    /\ UNCHANGED <<policy, file, mem, op, clock, erased, calls>>

WorkerStep(w) ==
    \/ AnalysisEnds(w) \/ AppendDropped(w) \/ AppendRaises(w)
    \/ AppendPrepares(w) \/ AppendWrites(w) \/ AppendFails(w)

\* Variant: a result of an earlier epoch is left in the queue.
ApplyCurrentResult(w) ==
    /\ job[w].pc = "done"
    /\ ~job[w].stale
    /\ op[w].pc = "idle"
    /\ job' = [job EXCEPT ![w] = NoJob]
    /\ op' = [op EXCEPT ![w] = [Idle EXCEPT !.pc = "waiting"]]
    /\ UNCHANGED <<policy, file, lock, mem, clock, erased, calls, faults>>

\* _apply_result on the GUI thread; the list is refreshed when the append was
\* answered in the same epoch.
ApplyResult(w) ==
    /\ job[w].pc = "done"
    /\ op[w].pc = "idle"
    /\ job' = [job EXCEPT ![w] = NoJob]
    /\ IF job[w].answered /\ ~job[w].stale /\ ~job[w].cancelled
       THEN op' = [op EXCEPT ![w] = [Idle EXCEPT !.pc = "waiting"]]
       ELSE UNCHANGED op
    /\ UNCHANGED <<policy, file, lock, mem, clock, erased, calls, faults>>

-----------------------------------------------------------------------------
(* The environment *)

\* Variant: the lock of a dead process is never recognised as stale.
CrashKeepsLock(w) ==
    /\ mem[w].up
    /\ MayFail
    /\ mem' = [mem EXCEPT ![w] = Down]
    /\ op' = [op EXCEPT ![w] = Idle]
    /\ job' = [job EXCEPT ![w] = NoJob]
    /\ UNCHANGED <<policy, file, lock, clock, erased, calls>>

\* The process dies; its lock is stale at once and the next tryLock takes it.
Crash(w) ==
    /\ mem[w].up
    /\ MayFail
    /\ mem' = [mem EXCEPT ![w] = Down]
    /\ op' = [op EXCEPT ![w] = Idle]
    /\ job' = [job EXCEPT ![w] = NoJob]
    /\ lock' = IF lock \in {Gui(w), Worker(w)} THEN Free ELSE lock
    /\ UNCHANGED <<policy, file, clock, erased, calls>>

\* Another program damages a file, between transactions.
DamageFile ==
    /\ lock = Free
    /\ MayFail
    /\ file' = Abstract!Damaged
    /\ mem' = [w \in Windows |-> [mem[w] EXCEPT !.fresh = FALSE]]
    /\ UNCHANGED <<policy, lock, op, job, clock, erased, calls>>

DamagePolicy ==
    /\ lock = Free
    /\ policy.valid
    /\ MayFail
    /\ policy' = [policy EXCEPT !.valid = FALSE]
    /\ UNCHANGED <<file, lock, mem, op, job, clock, erased, calls>>

Next ==
    \/ \E w \in Windows :
          \/ Open(w)
          \/ \E kind \in Kinds, ids \in SUBSET Ids(mem[w].entries) : Request(w, kind, ids)
          \/ GuiCall(w)
          \/ CancelJob(w)
          \/ WorkerStep(w)
          \/ ApplyResult(w)
          \/ Crash(w)
    \/ DamageFile
    \/ DamagePolicy

\* Threads keep running.  ApplyResult is a queued signal: Qt delivers it in
\* turn with the user's events, so a busy user does not postpone it for ever.
Fairness ==
    \A w \in Windows : WF_vars(GuiCall(w)) /\ WF_vars(WorkerStep(w)) /\ SF_vars(ApplyResult(w))

Spec == Init /\ [][Next]_vars

FairSpec == Spec /\ Fairness

-----------------------------------------------------------------------------
(* Properties *)

TypeOK ==
    /\ policy \in Policy
    /\ file \in Abstract!File
    /\ lock \in {Free} \cup {Gui(w) : w \in Windows} \cup {Worker(w) : w \in Windows}
    /\ mem \in [Windows -> Memory]
    /\ op \in [Windows -> Call]
    /\ job \in [Windows -> Job]
    /\ clock \in Nat
    /\ erased \in Nat
    /\ calls \in Nat
    /\ faults \in Nat

\* What a transaction has read is still true when it acts on it: it holds the
\* lock, the policy it works under is the committed one, and what a worker is
\* about to write is made of entries the policy permits.  (The with statements
\* of set_enabled, set_retention, clear and append.)  A window submits one
\* analysis at a time (analyzeConfig returns when busy), and nothing survives
\* its process.
CommittedHolds(w) ==
    op[w].pc = "committed" =>
        /\ lock = Gui(w)
        /\ policy = PolicyOf(mem[w])
        /\ op[w].kind \in {"enable", "disable", "summary", "clear"}
        /\ op[w].kind = "summary" => policy.enabled /\ policy.retention = "summary"

WriterHolds(w) ==
    job[w].pc = "writing" =>
        /\ lock = Worker(w)
        /\ policy.valid /\ policy.enabled
        /\ job[w].since = policy.revision
        /\ file.state # "damaged"
        /\ \A e \in job[w].draft : /\ Abstract!Permitted(e)
                                   /\ policy.retention = "summary" => ~e.full

TransactionInv ==
    /\ \A w \in Windows : CommittedHolds(w) /\ WriterHolds(w)
    /\ lock # Free => \E w \in Windows : \/ lock = Gui(w) /\ op[w].pc = "committed"
                                         \/ lock = Worker(w) /\ job[w].pc = "writing"
    /\ \A w \in Windows : op[w].pc = "waiting" /\ op[w].kind = "submit" => job[w].pc = "none"
    /\ \A w \in Windows : ~mem[w].up => op[w].pc = "idle" /\ job[w].pc = "none"

\* No analysis submitted before a completed erasure (clear, or disabling the
\* history) ever gets into the file afterwards, in whatever window it ran:
\* the privacy token captured at submission (append, privacy_token).
ErasedStaysErased == \A e \in file.entries : e.rev >= erased

TokensInv ==
    /\ erased <= policy.revision
    /\ \A w \in Windows : job[w].pc # "none" => /\ job[w].token \in {job[w].since, Unavailable}
                                                /\ job[w].since <= policy.revision

\* Whoever writes the history file, the policy on disk at that moment allows
\* it, and under summary retention the whole file is without configuration
\* text (append, remove_ids, set_retention).
WritesObeyPolicy ==
    [][file' # file /\ file'.state = "ok" =>
          /\ policy.valid /\ policy.enabled
          /\ policy.retention = "summary" => ~HasFull(file'.entries)]_vars

\* Windows do not overwrite each other's entries: an entry leaves the file
\* only when some window erases the history or removes that entry, when the
\* disk damages it, or because newer entries fill the limit or the quota
\* (_refresh_for_write before every write).
Fits(es) == Cardinality(es) <= Limit /\ Cost(es) <= Quota

Removed(e) ==
    \/ \E w \in Windows : Committed(w, {"disable", "clear"}) /\ file' = Abstract!Absent
    \/ \E w \in Windows : op[w].kind = "remove" /\ e.id \in op[w].ids
    \/ file' = Abstract!Damaged
    \/ ~Fits({f \in Visible(TRUE, policy.retention, file.entries) : f.id >= e.id} \cup file'.entries)

NoEntryLost ==
    [][\A e \in file.entries : e.id \in Ids(file'.entries) \/ Removed(e)]_vars

\* A damaged history is kept for recovery until the user explicitly erases it
\* (_refresh_for_write: "Damaged history preserved").
DamagePreserved ==
    [][file.state = "damaged" =>
          \/ file' = file
          \/ \E w \in Windows : Committed(w, {"disable", "clear"}) /\ file' = Abstract!Absent]_vars

\* After refresh a window shows nothing of a disabled history and no
\* configuration text under summary retention, even when an earlier change of
\* policy was cut short and the file still holds it.
Refreshes(w) == Locks(w, {"refresh"}) /\ policy.valid /\ mem'[w].up /\ op'[w].pc = "idle"

RefreshHonoursPolicy ==
    [][\A w \in Windows : Refreshes(w) =>
          /\ ~policy.enabled => mem'[w].entries = {}
          /\ policy.retention = "summary" => ~HasFull(mem'[w].entries)]_vars

\* The store implements the abstract promise.
ImplementsPrivateHistory == Abstract!Spec

\* A transaction ends, or its process dies: the lock is always free again.
LockReleased == []<>(lock = Free)

\* Every analysis submitted ends, so the window does not stay busy, whoever
\* holds the lock and whatever fails on disk.
JobsEnd == \A w \in Windows : job[w].pc # "none" ~> job[w].pc = "none"
=============================================================================
