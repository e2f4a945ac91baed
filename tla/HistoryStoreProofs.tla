------------------------- MODULE HistoryStoreProofs -------------------------
(***************************************************************************)
(* Proofs about HistoryStore, for any number of windows, calls and faults. *)
(***************************************************************************)
EXTENDS HistoryStore, FiniteSetTheorems, TLAPS

-----------------------------------------------------------------------------
(* Types *)

USE DEF Retention, Policy, Entry

\* Stripping an entry leaves an entry without configuration text.
LEMMA StrippedType ==
    ASSUME NEW e \in Entry
    PROVE  /\ Abstract!Stripped(e) \in Entry
           /\ ~Abstract!Stripped(e).full
           /\ Abstract!Stripped(e).rev = e.rev
           /\ Abstract!Stripped(e).id = e.id
BY DEF Abstract!Stripped, Abstract!Entry

\* What a policy leaves visible of some entries.
LEMMA VisibleType ==
    ASSUME NEW enabled \in BOOLEAN, NEW retention \in Retention, NEW es \in SUBSET Entry
    PROVE  /\ Visible(enabled, retention, es) \in SUBSET Entry
           /\ Strip(es) \in SUBSET Entry
           /\ retention = "summary" => \A e \in Visible(enabled, retention, es) : ~e.full
           /\ \A e \in Visible(enabled, retention, es) :
                 \E f \in es : e \in {f, Abstract!Stripped(f)}
BY StrippedType DEF Visible, Strip, Abstract!Retention

\* Truncation and the quota only drop entries.
LEMMA SubsetType ==
    ASSUME NEW es \in SUBSET Entry, NEW n
    PROVE  /\ Newest(es, n) \subseteq es
           /\ Retained(es) \subseteq es
BY DEF Newest, Retained

LEMMA LoadedType ==
    ASSUME file \in Abstract!File
    PROVE  /\ Loaded \subseteq file.entries
           /\ Loaded \in SUBSET Entry
BY DEF Loaded, Newest, Abstract!File

\* A store's memory stays well formed when it reads a policy or rolls back.
LEMMA MemoryType ==
    ASSUME NEW m \in Memory, policy \in Policy, NEW es \in SUBSET Entry
    PROVE  /\ Adopt(m) \in Memory
           /\ Restore(m, es) \in Memory
<1>1. Adopt(m) \in Memory
  <2>1. /\ policy.enabled \in BOOLEAN /\ policy.retention \in Retention /\ policy.revision \in Nat
        /\ m.entries \in SUBSET Entry
    BY DEF Abstract!Policy, Memory
  <2>2. Visible(policy.enabled, policy.retention, m.entries) \in SUBSET Entry
    BY <2>1, VisibleType
  <2> HIDE DEF Entry
  <2>3. QED BY <2>1, <2>2 DEF Adopt, Memory
<1>2. Restore(m, es) \in Memory
  <2>1. Visible(m.enabled, m.retention, es) \in SUBSET Entry
    BY VisibleType DEF Memory
  <2> HIDE DEF Entry
  <2>2. QED BY <2>1 DEF Restore, Memory
<1>3. QED BY <1>1, <1>2

LEMMA StaleType ==
    ASSUME NEW m \in [Windows -> Memory], NEW w \in Windows
    PROVE  /\ OthersStale(m, w) \in [Windows -> Memory]
           /\ [v \in Windows |-> [m[v] EXCEPT !.fresh = FALSE]] \in [Windows -> Memory]
<1>1. \A v \in Windows : m[v] \in Memory /\ [m[v] EXCEPT !.fresh = FALSE] \in Memory
  BY DEF Memory
<1> HIDE DEF Entry
<1>2. QED BY <1>1 DEF OthersStale

LEMMA ConstantTypes ==
    /\ Down \in Memory
    /\ Idle \in Call
    /\ NoJob \in Job
    /\ Abstract!Absent \in Abstract!File
    /\ Abstract!Damaged \in Abstract!File
BY DEF Down, Memory, Idle, Call, Kinds, NoJob, Job, Unavailable, Abstract!Retention,
       Abstract!Absent, Abstract!Damaged, Abstract!File

LEMMA RefreshedType ==
    ASSUME NEW m \in Memory, file \in Abstract!File
    PROVE  Refreshed(m) \in Memory
<1>1. /\ Visible(TRUE, m.retention, m.entries) \in SUBSET Entry
      /\ Visible(TRUE, m.retention, Loaded) \in SUBSET Entry
  BY LoadedType, VisibleType DEF Memory
<1> HIDE DEF Entry
<1>2. QED BY <1>1 DEF Refreshed, Memory

LEMMA DecidedType ==
    ASSUME NEW m \in Memory, policy \in Policy, NEW kind \in Kinds
    PROVE  /\ Decided(kind, m) \in Memory
           /\ PolicyOf(Decided(kind, m)) \in Policy
           /\ Decided(kind, m).revision = policy.revision + 1
           /\ Decided(kind, m).entries = m.entries
           /\ kind = "summary" => Decided(kind, m).retention = "summary"
           /\ kind = "clear" => Decided(kind, m).retention = m.retention
<1>1. /\ m.enabled \in BOOLEAN /\ m.retention \in Retention /\ policy.revision + 1 \in Nat
  BY DEF Memory, Abstract!Policy
<1>2. /\ (CASE kind = "enable" -> TRUE [] kind = "disable" -> FALSE [] OTHER -> m.enabled) \in BOOLEAN
      /\ (IF kind \in Retention THEN kind ELSE m.retention) \in Retention
  BY <1>1
<1>3. kind = "clear" => kind \notin Retention
  BY DEF Abstract!Retention
<1>4. kind = "summary" => kind \in Retention
  BY DEF Abstract!Retention
<1> HIDE DEF Entry, Retention
<1>5. QED BY <1>1, <1>2, <1>3, <1>4 DEF Decided, PolicyOf, Memory, Abstract!Policy, Retention

LEMMA CurrentType ==
    ASSUME TypeOK, NEW w \in Windows
    PROVE  Current(w) \in Memory
<1>1. mem[w] \in Memory /\ Adopt(mem[w]) \in Memory
  BY MemoryType DEF TypeOK, Memory
<1>2. [mem[w] EXCEPT !.enabled = FALSE, !.retention = "summary"] \in Memory
  BY <1>1 DEF Memory, Abstract!Retention
<1>3. QED BY <1>1, <1>2 DEF Current

\* Every job a step leaves behind is well formed.
LEMMA JobType ==
    ASSUME NEW j \in Job, NEW t \in Nat \cup {Unavailable}, NEW s \in Nat, NEW b \in BOOLEAN,
           NEW es \in SUBSET Entry
    PROVE  /\ [NoJob EXCEPT !.pc = "running", !.token = t, !.since = s, !.known = b] \in Job
           /\ [NoJob EXCEPT !.pc = "done", !.answered = b, !.stale = j.stale,
                            !.cancelled = j.cancelled] \in Job
           /\ [j EXCEPT !.stale = TRUE] \in Job
           /\ [j EXCEPT !.cancelled = TRUE] \in Job
           /\ [j EXCEPT !.pc = "appending", !.warn = b] \in Job
           /\ [j EXCEPT !.pc = "writing", !.draft = es] \in Job
<1>1. [NoJob EXCEPT !.pc = "running", !.token = t, !.since = s, !.known = b] \in Job
  BY DEF NoJob, Job, Unavailable
<1>2. [NoJob EXCEPT !.pc = "done", !.answered = b, !.stale = j.stale,
                    !.cancelled = j.cancelled] \in Job
  BY DEF NoJob, Job, Unavailable
<1>3. [j EXCEPT !.stale = TRUE] \in Job /\ [j EXCEPT !.cancelled = TRUE] \in Job
  BY DEF Job
<1>4. [j EXCEPT !.pc = "appending", !.warn = b] \in Job
  BY DEF Job
<1>5. [j EXCEPT !.pc = "writing", !.draft = es] \in Job
  BY DEF Job
<1> QED
  BY <1>1, <1>2, <1>3, <1>4, <1>5

LEMMA SubmitType ==
    ASSUME TypeOK, NEW w \in Windows, NEW t \in Nat \cup {Unavailable}, NEW known \in BOOLEAN,
           Submit(w, t, known)
    PROVE  job' \in [Windows -> Job]
<1>1. policy.revision \in Nat
  BY DEF TypeOK, Abstract!Policy
<1>2. [NoJob EXCEPT !.pc = "running", !.token = t, !.since = policy.revision, !.known = known] \in Job
  BY <1>1, JobType, ConstantTypes
<1> HIDE DEF Entry
<1>3. QED BY <1>2 DEF Submit, TypeOK

LEMMA EndJobType ==
    ASSUME TypeOK, NEW w \in Windows, NEW b \in BOOLEAN, EndJob(w, b)
    PROVE  job' \in [Windows -> Job]
<1>1. [NoJob EXCEPT !.pc = "done", !.answered = b, !.stale = job[w].stale,
                    !.cancelled = job[w].cancelled] \in Job
  BY JobType DEF TypeOK, Unavailable
<1> HIDE DEF Entry
<1>2. QED BY <1>1 DEF EndJob, TypeOK

LEMMA FinishType ==
    ASSUME TypeOK, NEW w \in Windows, Finish(w)
    PROVE  op' \in [Windows -> Call]
BY ConstantTypes DEF Finish, TypeOK

LEMMA FaultsType == ASSUME TypeOK, MayFail PROVE faults' \in Nat
BY DEF TypeOK, MayFail

LEMMA RefuseType ==
    ASSUME TypeOK, NEW w \in Windows, Refuse(w)
    PROVE  job' \in [Windows -> Job] /\ op' \in [Windows -> Call]
BY SubmitType, FinishType DEF Refuse, Unavailable, TypeOK

\* A window's memory after a step that replaces it.
LEMMA SetMemory ==
    ASSUME TypeOK, NEW w \in Windows, NEW m \in Memory, mem' = [mem EXCEPT ![w] = m]
    PROVE  mem' \in [Windows -> Memory]
<1> HIDE DEF Entry
<1>1. QED BY DEF TypeOK

\* Memory after a load and after a failed write.
LEMMA LoadType ==
    ASSUME NEW m \in Memory, NEW es \in SUBSET Entry, NEW b \in BOOLEAN, NEW c \in BOOLEAN
    PROVE  /\ [m EXCEPT !.entries = es, !.warn = b, !.fresh = c] \in Memory
           /\ [m EXCEPT !.entries = es, !.fresh = c] \in Memory
           /\ [m EXCEPT !.warn = b, !.fresh = c] \in Memory
BY DEF Memory

\* A file written from entries is a file.
LEMMA WrittenType ==
    ASSUME NEW es \in SUBSET Entry
    PROVE  /\ Written(es) \in Abstract!File
           /\ Retained(es) \in SUBSET Entry
<1>1. Retained(es) \in SUBSET Entry
  BY SubsetType
<1>2. QED BY <1>1 DEF Written, Abstract!File

-----------------------------------------------------------------------------
(* Type correctness *)

LEMMA InitTypes == Init => TypeOK
<1> SUFFICES ASSUME Init PROVE TypeOK
  OBVIOUS
<1>1. policy \in Policy
  <2>1. policy \in [valid: {TRUE}, enabled: BOOLEAN, retention: Retention, revision: {0}]
    BY DEF Init, Abstract!Init
  <2>2. {TRUE} \subseteq BOOLEAN /\ {0} \subseteq Nat
    OBVIOUS
  <2> HIDE DEF Retention
  <2>3. QED BY <2>1, <2>2, Zenon DEF Abstract!Policy, Retention
<1>2. file \in Abstract!File
  <2>1. CASE file = Abstract!Absent
    BY <2>1, ConstantTypes
  <2>2. CASE \E e \in [id: {0}, rev: {0}, full: BOOLEAN] : file = [state |-> "ok", entries |-> {e}]
    <3>1. PICK e \in [id: {0}, rev: {0}, full: BOOLEAN] : file = [state |-> "ok", entries |-> {e}]
      BY <2>2
    <3>2. e \in Entry
      BY DEF Abstract!Entry
    <3>3. QED BY <3>1, <3>2 DEF Abstract!File
  <2>3. QED BY <2>1, <2>2 DEF Init, Abstract!Init
<1>3. /\ mem \in [Windows -> Memory]
      /\ op \in [Windows -> Call]
      /\ job \in [Windows -> Job]
  <2> HIDE DEF Entry
  <2>1. QED BY ConstantTypes DEF Init
<1>4. calls \in Nat /\ faults \in Nat
  BY BoundsAssumption DEF Init
<1>5. QED BY <1>1, <1>2, <1>3, <1>4 DEF Init, TypeOK

LEMMA OpenTypes ==
    ASSUME TypeOK, NEW w \in Windows, Open(w) \/ OpenLoads(w)
    PROVE  TypeOK'
<1>1. CASE Open(w)
  <2>1. Adopt(Down) \in Memory /\ Down \in Memory
    BY MemoryType, ConstantTypes DEF TypeOK, Down
  <2>2. [Idle EXCEPT !.pc = "opening"] \in Call
    BY DEF Idle, Call, Kinds
  <2>3. \A m \in Memory, b \in BOOLEAN :
           /\ [m EXCEPT !.up = TRUE, !.fresh = b] \in Memory
           /\ [m EXCEPT !.up = TRUE, !.warn = TRUE, !.fresh = b] \in Memory
    BY DEF Memory
  <2>4. (file.state = "absent") \in BOOLEAN
    OBVIOUS
  <2>5. mem' \in [Windows -> Memory]
    <3> HIDE DEF Entry
    <3>1. QED BY <1>1, <2>1, <2>3, <2>4 DEF TypeOK, Open
  <2>6. op' \in [Windows -> Call]
    BY <1>1, <2>2 DEF TypeOK, Open
  <2>7. QED BY <1>1, <2>5, <2>6 DEF TypeOK, Open
<1>2. CASE OpenLoads(w)
  <2>1. mem[w] \in Memory
    BY DEF TypeOK
  <2>2. Visible(TRUE, mem[w].retention, Loaded) \in SUBSET Entry
    BY <2>1, LoadedType, VisibleType DEF TypeOK, Memory
  <2>3. [mem[w] EXCEPT !.entries = Visible(TRUE, mem[w].retention, Loaded),
                       !.warn = mem[w].warn \/ file.state = "damaged",
                       !.fresh = TRUE] \in Memory
    BY <2>1, <2>2, LoadType DEF Memory
  <2>4. mem' \in [Windows -> Memory]
    <3> HIDE DEF Entry
    <3>1. QED BY <1>2, <2>3 DEF TypeOK, OpenLoads
  <2>5. QED BY <1>2, <2>4, FinishType DEF TypeOK, OpenLoads
<1>3. QED BY <1>1, <1>2

LEMMA CallTypes ==
    ASSUME TypeOK, NEW w \in Windows, NEW kind \in Kinds, NEW ids \in SUBSET Ids(mem[w].entries),
           Request(w, kind, ids)
    PROVE  TypeOK'
<1>1. ids \in SUBSET Nat
  BY DEF TypeOK, Memory, Ids, Abstract!Entry
<1>2. op' \in [Windows -> Call]
  BY <1>1 DEF TypeOK, Request, Call
<1>3. [job[w] EXCEPT !.stale = TRUE] \in Job
  BY JobType DEF TypeOK, Unavailable
<1>4. job' \in [Windows -> Job]
  <2> HIDE DEF Entry
  <2>1. QED BY <1>3 DEF TypeOK, Request
<1>5. QED BY <1>2, <1>4 DEF TypeOK, Request

\* The steps of the GUI thread's calls.
LEMMA GuiTypes ==
    ASSUME TypeOK, NEW w \in Windows, GuiCall(w)
    PROVE  TypeOK'
<1> DEFINE m == mem[w]
<1>0. /\ m \in Memory /\ mem \in [Windows -> Memory] /\ policy \in Policy /\ file \in Abstract!File
      /\ m.warn \in BOOLEAN /\ m.fresh \in BOOLEAN /\ m.entries \in SUBSET Entry
      /\ op[w] \in Call /\ op[w].kind \in Kinds
      /\ policy.enabled \in BOOLEAN /\ policy.retention \in Retention /\ policy.revision \in Nat
  BY DEF TypeOK, Memory, Call, Abstract!Policy
<1>1. /\ Adopt(m) \in Memory /\ Adopt(m).warn \in BOOLEAN /\ Adopt(m).fresh \in BOOLEAN
      /\ Restore(m, m.entries) \in Memory
  BY <1>0, MemoryType DEF Memory
<1>2. Current(w) \in Memory
  BY CurrentType
<1>3. CASE OpenLoads(w)
  BY <1>3, OpenTypes
<1>4. CASE LockBusy(w)
  BY <1>4, RefuseType DEF TypeOK, LockBusy
<1>5. CASE PolicyRefused(w)
  <2>1. mem' \in [Windows -> Memory]
    BY <1>1, <1>5, SetMemory DEF PolicyRefused
  <2>2. QED BY <1>5, <2>1, RefuseType DEF TypeOK, PolicyRefused
<1>6. CASE CaptureToken(w)
  <2>1. mem' \in [Windows -> Memory]
    BY <1>1, <1>6, SetMemory DEF CaptureToken
  <2>2. job' \in [Windows -> Job] /\ op' \in [Windows -> Call]
    BY <1>0, <1>6, SubmitType, FinishType DEF CaptureToken
  <2>3. QED BY <1>6, <2>1, <2>2 DEF TypeOK, CaptureToken
<1>7. CASE RefreshView(w)
  <2>1. mem' \in [Windows -> Memory]
    BY <1>0, <1>1, <1>7, SetMemory, RefreshedType DEF RefreshView
  <2>2. QED BY <1>7, <2>1, FinishType DEF TypeOK, RefreshView
<1>8. CASE ChangeUnneeded(w)
  <2>1. mem' \in [Windows -> Memory]
    BY <1>1, <1>8, SetMemory DEF ChangeUnneeded
  <2>2. QED BY <1>8, <2>1, FinishType DEF TypeOK, ChangeUnneeded
<1>9. CASE CommitPolicy(w)
  <2>1. DEFINE d == Decided(op[w].kind, Current(w))
  <2>2. d \in Memory /\ PolicyOf(d) \in Policy
    BY <1>0, <1>2, DecidedType
  <2>3. mem' \in [Windows -> Memory]
    BY <1>9, <2>2, SetMemory DEF CommitPolicy
  <2>4. op' \in [Windows -> Call]
    <3>1. [op[w] EXCEPT !.pc = "committed"] \in Call
      BY <1>0 DEF Call
    <3>2. QED BY <1>9, <3>1, FinishType DEF TypeOK, CommitPolicy
  <2>5. lock' = Gui(w) \/ lock' = lock
    BY <1>9 DEF CommitPolicy
  <2>6. QED BY <1>9, <2>2, <2>3, <2>4, <2>5 DEF TypeOK, CommitPolicy
<1>10. CASE CommitFails(w)
  <2>1. mem' \in [Windows -> Memory]
    BY <1>0, <1>2, <1>10, MemoryType, SetMemory DEF CommitFails
  <2>2. QED BY <1>10, <2>1, FinishType, FaultsType DEF TypeOK, CommitFails
<1>11. CASE SettingsSyncFails(w)
  <2>1. DEFINE d == Decided(op[w].kind, Current(w))
  <2>2. d \in Memory /\ PolicyOf(d) \in Policy
    BY <1>0, <1>2, DecidedType
  <2>3. mem' \in [Windows -> Memory]
    BY <1>0, <1>11, <2>2, MemoryType, SetMemory DEF SettingsSyncFails
  <2>4. QED BY <1>11, <2>2, <2>3, FinishType, FaultsType DEF TypeOK, SettingsSyncFails
<1>12. CASE EraseFile(w)
  <2>1. DEFINE n == [m EXCEPT !.entries = {}, !.warn = FALSE,
                              !.fresh = op[w].kind = "clear" \/ (m.fresh /\ file.state = "absent")]
  <2>2. n \in Memory
    BY <1>0, LoadType
  <2>3. [mem EXCEPT ![w] = n] \in [Windows -> Memory]
    <3> HIDE DEF Entry, n
    <3>1. QED BY <1>0, <2>2
  <2>4. mem' \in [Windows -> Memory]
    <3>1. mem' = OthersStale([mem EXCEPT ![w] = n], w)
      BY <1>12 DEF EraseFile
    <3>2. QED BY <2>3, <3>1, StaleType
  <2>5. QED BY <1>0, <1>12, <2>4, FinishType, ConstantTypes DEF TypeOK, EraseFile
<1>13. CASE LoadOnEnable(w)
  <2>1. DEFINE n == [m EXCEPT !.entries = Loaded, !.warn = m.warn \/ file.state = "damaged",
                              !.fresh = m.fresh \/ file.state # "absent"]
  <2>2. n \in Memory
    BY <1>0, LoadType, LoadedType
  <2>3. mem' = [mem EXCEPT ![w] = n]
    BY <1>13 DEF LoadOnEnable
  <2>4. mem' \in [Windows -> Memory]
    <3> HIDE DEF n
    <3>1. QED BY <2>2, <2>3, SetMemory
  <2>5. QED BY <1>13, <2>4, FinishType DEF TypeOK, LoadOnEnable
<1>14. CASE ScrubFile(w)
  <2>1. DEFINE es == Strip(Loaded)
               n == [m EXCEPT !.entries = Retained(es), !.fresh = TRUE]
  <2>2. Written(es) \in Abstract!File /\ Retained(es) \in SUBSET Entry
    BY <1>0, LoadedType, VisibleType, WrittenType
  <2>3. n \in Memory
    BY <1>0, <2>2, LoadType
  <2>4. [mem EXCEPT ![w] = n] \in [Windows -> Memory]
    <3> HIDE DEF Entry, n
    <3>1. QED BY <1>0, <2>3
  <2>5. mem' \in [Windows -> Memory]
    <3>1. mem' = OthersStale([mem EXCEPT ![w] = n], w)
      BY <1>14 DEF ScrubFile
    <3>2. QED BY <2>4, <3>1, StaleType
  <2>6. QED BY <1>14, <2>2, <2>5, FinishType DEF TypeOK, ScrubFile
<1>15. CASE FileStepFails(w)
  <2>1. DEFINE r == Restore(m, m.entries)
               reloads == op[w].kind = "summary"
               n == [r EXCEPT !.warn = r.warn \/ (reloads /\ file.state = "damaged"),
                              !.fresh = r.fresh \/ (reloads /\ file.state # "absent")]
  <2>2. r.warn \in BOOLEAN /\ r.fresh \in BOOLEAN
    BY <1>1 DEF Memory
  <2>3. n \in Memory
    BY <1>1, <2>2, LoadType
  <2>4. mem' = [mem EXCEPT ![w] = n]
    BY <1>15 DEF FileStepFails
  <2>5. mem' \in [Windows -> Memory]
    <3> HIDE DEF n
    <3>1. QED BY <2>3, <2>4, SetMemory
  <2>6. QED BY <1>15, <2>5, FinishType, FaultsType DEF TypeOK, FileStepFails
<1>16. CASE RemoveWhileDisabled(w)
  <2>1. mem' \in [Windows -> Memory]
    BY <1>1, <1>16, SetMemory DEF RemoveWhileDisabled
  <2>2. QED BY <1>16, <2>1, FinishType DEF TypeOK, RemoveWhileDisabled
<1>17. CASE RemoveEntries(w)
  <2>1. DEFINE es == {e \in Visible(TRUE, policy.retention, Loaded) : e.id \notin op[w].ids}
               n == [Adopt(m) EXCEPT !.entries = Retained(es), !.fresh = TRUE]
  <2>2. Visible(TRUE, policy.retention, Loaded) \in SUBSET Entry
    BY <1>0, LoadedType, VisibleType
  <2>3. Written(es) \in Abstract!File /\ Retained(es) \in SUBSET Entry
    <3>1. es \in SUBSET Entry
      BY <2>2
    <3>2. QED BY <3>1, WrittenType
  <2>4. n \in Memory
    BY <1>1, <2>3, LoadType
  <2>5. [mem EXCEPT ![w] = n] \in [Windows -> Memory]
    <3> HIDE DEF Entry, n
    <3>1. QED BY <1>0, <2>4
  <2>6. mem' \in [Windows -> Memory]
    <3>1. mem' = OthersStale([mem EXCEPT ![w] = n], w)
      BY <1>17 DEF RemoveEntries
    <3>2. QED BY <2>5, <3>1, StaleType
  <2>7. QED BY <1>17, <2>3, <2>6, FinishType DEF TypeOK, RemoveEntries
<1>18. CASE RemoveFails(w)
  <2>1. DEFINE n == [Adopt(m) EXCEPT !.warn = Adopt(m).warn \/ file.state = "damaged",
                                     !.fresh = Adopt(m).fresh \/ file.state # "absent"]
  <2>2. n \in Memory
    BY <1>1, LoadType
  <2>3. mem' = [mem EXCEPT ![w] = n]
    BY <1>18 DEF RemoveFails
  <2>4. mem' \in [Windows -> Memory]
    <3> HIDE DEF n
    <3>1. QED BY <2>2, <2>3, SetMemory
  <2>5. QED BY <1>18, <2>4, FinishType, FaultsType DEF TypeOK, RemoveFails
<1>19. QED BY <1>3, <1>4, <1>5, <1>6, <1>7, <1>8, <1>9, <1>10, <1>11, <1>12, <1>13, <1>14, <1>15,
              <1>16, <1>17, <1>18 DEF GuiCall

\* The steps of the worker.
LEMMA WorkerTypes ==
    ASSUME TypeOK, NEW w \in Windows, WorkerStep(w) \/ ApplyResult(w) \/ CancelJob(w)
    PROVE  TypeOK'
<1>0. /\ job[w] \in Job /\ job \in [Windows -> Job] /\ file \in Abstract!File /\ policy \in Policy
      /\ policy.retention \in Retention
  BY DEF TypeOK, Abstract!Policy
<1>1. CASE AnalysisEnds(w)
  <2>1. job' \in [Windows -> Job]
    <3>1. CASE ToAppend(w)
      <4>1. DEFINE b == ~policy.valid \/ (policy.enabled /\ file.state = "damaged")
      <4>2. [job[w] EXCEPT !.pc = "appending", !.warn = b] \in Job
        <5>1. b \in BOOLEAN
          BY <1>0 DEF Abstract!Policy
        <5>2. QED BY <1>0, <5>1, JobType DEF Unavailable
      <4>3. job' = [job EXCEPT ![w] = [job[w] EXCEPT !.pc = "appending", !.warn = b]]
        BY <1>1, <3>1 DEF AnalysisEnds
      <4> HIDE DEF b, Entry
      <4>4. QED BY <1>0, <4>2, <4>3
    <3>2. CASE ~ToAppend(w)
      BY <1>1, <3>2, EndJobType DEF AnalysisEnds
    <3>3. QED BY <3>1, <3>2
  <2>2. QED BY <1>1, <2>1 DEF TypeOK, AnalysisEnds
<1>2. CASE AppendDropped(w)
  BY <1>2, EndJobType DEF TypeOK, AppendDropped
<1>3. CASE AppendRaises(w)
  BY <1>3, EndJobType DEF TypeOK, AppendRaises
<1>4. CASE AppendPrepares(w)
  <2>1. DEFINE es == Newest({NewEntry(w)} \cup Visible(TRUE, policy.retention, Loaded), Limit)
  <2>2. NewEntry(w) \in Entry
    BY <1>0 DEF TypeOK, NewEntry, Job, Abstract!Entry
  <2>3. Visible(TRUE, policy.retention, Loaded) \in SUBSET Entry
    BY <1>0, LoadedType, VisibleType
  <2>4. Retained(es) \in SUBSET Entry
    BY <2>2, <2>3, SubsetType
  <2> HIDE DEF es
  <2>5. [job[w] EXCEPT !.pc = "writing", !.draft = Retained(es)] \in Job
    BY <1>0, <2>4, JobType DEF Unavailable
  <2>6. job' = [job EXCEPT ![w] = [job[w] EXCEPT !.pc = "writing", !.draft = Retained(es)]]
    BY <1>4 DEF AppendPrepares, es
  <2>7. job' \in [Windows -> Job]
    <3> HIDE DEF Entry
    <3>1. QED BY <1>0, <2>5, <2>6
  <2>8. clock' \in Nat /\ lock' = Worker(w)
    BY <1>4 DEF AppendPrepares, TypeOK
  <2>9. QED BY <1>4, <2>7, <2>8 DEF TypeOK, AppendPrepares
<1>5. CASE AppendWrites(w)
  <2>1. mem' \in [Windows -> Memory]
    BY <1>5, StaleType DEF TypeOK, AppendWrites
  <2>2. job' \in [Windows -> Job]
    BY <1>5, EndJobType DEF AppendWrites
  <2>3. file' \in Abstract!File
    BY <1>0, <1>5 DEF AppendWrites, Job, Abstract!File
  <2>4. lock' = Free
    BY <1>5 DEF AppendWrites
  <2>5. QED BY <1>5, <2>1, <2>2, <2>3, <2>4 DEF TypeOK, AppendWrites
<1>6. CASE AppendFails(w)
  <2>1. job' \in [Windows -> Job]
    BY <1>6, EndJobType DEF AppendFails
  <2>2. QED BY <1>6, <2>1, FaultsType DEF TypeOK, AppendFails
<1>7. CASE ApplyResult(w)
  <2>1. job' \in [Windows -> Job]
    <3> HIDE DEF Entry
    <3>1. QED BY <1>0, <1>7, ConstantTypes DEF ApplyResult
  <2>2. [Idle EXCEPT !.pc = "waiting"] \in Call
    BY DEF Idle, Call, Kinds
  <2>3. QED BY <1>7, <2>1, <2>2 DEF TypeOK, ApplyResult
<1>8. CASE CancelJob(w)
  <2>1. [job[w] EXCEPT !.cancelled = TRUE] \in Job
    BY <1>0, JobType DEF Unavailable
  <2>2. job' \in [Windows -> Job]
    <3> HIDE DEF Entry
    <3>1. QED BY <1>0, <1>8, <2>1 DEF CancelJob
  <2>3. QED BY <1>8, <2>2 DEF TypeOK, CancelJob
<1>9. QED BY <1>1, <1>2, <1>3, <1>4, <1>5, <1>6, <1>7, <1>8 DEF WorkerStep

LEMMA EnvironmentTypes ==
    ASSUME TypeOK, (\E w \in Windows : Crash(w)) \/ DamageFile \/ DamagePolicy
    PROVE  TypeOK'
<1>1. ASSUME NEW w \in Windows, Crash(w) PROVE TypeOK'
  <2>1. /\ mem' \in [Windows -> Memory]
        /\ job' \in [Windows -> Job]
        /\ op' \in [Windows -> Call]
    <3> HIDE DEF Entry
    <3>1. QED BY <1>1, ConstantTypes DEF TypeOK, Crash
  <2>2. QED BY <1>1, <2>1, FaultsType DEF TypeOK, Crash
<1>2. CASE DamageFile
  BY <1>2, StaleType, ConstantTypes, FaultsType DEF TypeOK, DamageFile
<1>3. CASE DamagePolicy
  <2>1. policy' \in Policy
    BY <1>3 DEF TypeOK, DamagePolicy, Abstract!Policy
  <2>2. QED BY <1>3, <2>1, FaultsType DEF TypeOK, DamagePolicy
<1>4. QED BY <1>1, <1>2, <1>3

LEMMA NextTypes == TypeOK /\ [Next]_vars => TypeOK'
<1> SUFFICES ASSUME TypeOK, [Next]_vars PROVE TypeOK'
  OBVIOUS
<1>1. CASE UNCHANGED vars
  BY <1>1 DEF vars, TypeOK
<1>2. CASE Next
  BY <1>2, OpenTypes, CallTypes, GuiTypes, WorkerTypes, EnvironmentTypes DEF Next
<1>3. QED BY <1>1, <1>2

\* The store's state stays well formed: no call, failure, crash or damaged
\* file leaves a window with a retention that is not one of the two, a policy
\* without a revision, or a file whose content is not a set of entries.
THEOREM TypeCorrect == Spec => []TypeOK
BY InitTypes, NextTypes, PTL DEF Spec

-----------------------------------------------------------------------------
(* Transactions *)

\* Steps of w that read but commit nothing: the shared state stays, and no
\* transaction of any window begins, ends or changes what it holds.
Quiet(w) ==
    /\ UNCHANGED <<policy, file, lock, erased>>
    /\ \A v \in Windows \ {w} : op'[v] = op[v] /\ mem'[v] = mem[v] /\ job'[v] = job[v]
    /\ \/ op'[w] = op[w] /\ mem'[w] = mem[w]
       \/ op'[w].pc # "committed" /\ op[w].pc # "committed"
    /\ op'[w].pc = "waiting" /\ op'[w].kind = "submit" => job'[w].pc = "none"
    /\ mem'[w].up \/ (op'[w].pc = "idle" /\ job'[w].pc = "none")
    /\ \/ job'[w].pc # "writing" /\ job[w].pc # "writing"
       \/ job'[w].pc = job[w].pc /\ job'[w].draft = job[w].draft /\ job'[w].since = job[w].since

\* A step of w leaves every job with the token it was submitted with.
KeepsTokens(w) ==
    /\ \A v \in Windows \ {w} : job'[v] = job[v]
    /\ \/ job'[w].pc = "none"
       \/ job[w].pc # "none" /\ job'[w].token = job[w].token /\ job'[w].since = job[w].since
       \/ job'[w].token = Unavailable /\ job'[w].since = 0
       \/ job'[w].token \in {policy.revision, Unavailable} /\ job'[w].since = policy.revision

LEMMA HoldersDiffer ==
    \A v, w \in Windows : /\ Gui(w) # Free /\ Worker(w) # Free /\ Gui(v) # Worker(w)
                          /\ (Gui(v) = Gui(w) \/ Worker(v) = Worker(w)) => v = w
BY DEF Gui, Worker, Free

LEMMA QuietKeepsTransactions ==
    ASSUME TypeOK, TransactionInv, NEW w \in Windows, Quiet(w)
    PROVE  TransactionInv'
<1> USE DEF Quiet
<1>1. ASSUME NEW v \in Windows PROVE CommittedHolds(v)'
  <2>1. CASE op'[v] = op[v] /\ mem'[v] = mem[v]
    BY <2>1 DEF TransactionInv, CommittedHolds, PolicyOf
  <2>2. CASE op'[v].pc # "committed"
    BY <2>2 DEF CommittedHolds
  <2>3. QED BY <2>1, <2>2
<1>2. ASSUME NEW v \in Windows PROVE WriterHolds(v)'
  <2>1. CASE job'[v].pc # "writing"
    BY <2>1 DEF WriterHolds
  <2>2. CASE job'[v].pc = job[v].pc /\ job'[v].draft = job[v].draft /\ job'[v].since = job[v].since
    BY <2>2 DEF TransactionInv, WriterHolds, Abstract!Permitted
  <2>3. QED BY <2>1, <2>2
<1>3. ASSUME lock' # Free
      PROVE \E v \in Windows : \/ lock' = Gui(v) /\ op'[v].pc = "committed"
                               \/ lock' = Worker(v) /\ job'[v].pc = "writing"
  <2>1. PICK v \in Windows : \/ lock = Gui(v) /\ op[v].pc = "committed"
                             \/ lock = Worker(v) /\ job[v].pc = "writing"
    BY <1>3 DEF TransactionInv
  <2>2. QED BY <2>1
<1>4. ASSUME NEW v \in Windows, op'[v].pc = "waiting", op'[v].kind = "submit"
      PROVE job'[v].pc = "none"
  BY <1>4 DEF TransactionInv
<1>5. ASSUME NEW v \in Windows, ~mem'[v].up
      PROVE op'[v].pc = "idle" /\ job'[v].pc = "none"
  BY <1>5 DEF TransactionInv
<1>6. QED BY <1>1, <1>2, <1>3, <1>4, <1>5 DEF TransactionInv

LEMMA SubmitQuiet ==
    ASSUME TypeOK, NEW w \in Windows, NEW t \in {policy.revision, Unavailable},
           NEW known \in BOOLEAN, job[w].pc = "none", Submit(w, t, known)
    PROVE  /\ KeepsTokens(w)
           /\ job'[w].pc # "writing" /\ job[w].pc # "writing"
           /\ \A v \in Windows \ {w} : job'[v] = job[v]
<1> HIDE DEF Entry
<1>1. job' = [job EXCEPT ![w] = [NoJob EXCEPT !.pc = "running", !.token = t,
                                              !.since = policy.revision, !.known = known]]
  BY DEF Submit
<1>2. job \in [Windows -> Job]
  BY DEF TypeOK
<1>3. /\ job'[w] = [NoJob EXCEPT !.pc = "running", !.token = t, !.since = policy.revision, !.known = known]
      /\ \A v \in Windows \ {w} : job'[v] = job[v]
  BY <1>1, <1>2
<1>4. job'[w].pc = "running" /\ job'[w].token = t /\ job'[w].since = policy.revision
  BY <1>3 DEF NoJob
<1>5. QED BY <1>3, <1>4 DEF KeepsTokens

LEMMA RefuseQuiet ==
    ASSUME TypeOK, TransactionInv, NEW w \in Windows, op[w].pc = "waiting", Refuse(w)
    PROVE  /\ KeepsTokens(w)
           /\ op'[w].pc = "idle" /\ \A v \in Windows \ {w} : op'[v] = op[v] /\ job'[v] = job[v]
           /\ \/ job'[w].pc # "writing" /\ job[w].pc # "writing"
              \/ job' = job
<1>1. op'[w].pc = "idle" /\ \A v \in Windows \ {w} : op'[v] = op[v]
  BY DEF Refuse, Finish, Idle, TypeOK
<1>2. CASE op[w].kind = "submit"
  <2>1. job[w].pc = "none"
    BY <1>2 DEF TransactionInv
  <2>2. PICK known \in BOOLEAN : Submit(w, Unavailable, known)
    BY <1>2 DEF Refuse
  <2>3. QED BY <1>1, <2>1, <2>2, SubmitQuiet
<1>3. CASE op[w].kind # "submit"
  BY <1>1, <1>3 DEF Refuse, KeepsTokens
<1>4. QED BY <1>2, <1>3

LEMMA EndJobQuiet ==
    ASSUME TypeOK, NEW w \in Windows, NEW b \in BOOLEAN, job[w].pc # "none", EndJob(w, b)
    PROVE  /\ KeepsTokens(w)
           /\ job'[w].pc = "done"
           /\ \A v \in Windows \ {w} : job'[v] = job[v]
<1> HIDE DEF Entry
<1>1. /\ job'[w] = [NoJob EXCEPT !.pc = "done", !.answered = b, !.stale = job[w].stale,
                                 !.cancelled = job[w].cancelled]
      /\ \A v \in Windows \ {w} : job'[v] = job[v]
  BY DEF EndJob, TypeOK
<1>2. job'[w].pc = "done" /\ job'[w].token = Unavailable /\ job'[w].since = 0
  BY <1>1 DEF NoJob
<1>3. QED BY <1>1, <1>2 DEF KeepsTokens

\* The steps that only read.
ReadStep(w) ==
    \/ Open(w) \/ OpenLoads(w) \/ LockBusy(w) \/ PolicyRefused(w) \/ CaptureToken(w) \/ RefreshView(w)
    \/ ChangeUnneeded(w) \/ CommitFails(w) \/ RemoveWhileDisabled(w) \/ RemoveFails(w)
    \/ \E kind \in Kinds, ids \in SUBSET Ids(mem[w].entries) : Request(w, kind, ids)
    \/ CancelJob(w) \/ AnalysisEnds(w) \/ AppendDropped(w) \/ AppendRaises(w) \/ ApplyResult(w)

\* No step but Crash closes a window.
LEMMA StaysUp ==
    ASSUME NEW m \in Memory, NEW es
    PROVE  /\ Adopt(m).up = m.up
           /\ Restore(m, es).up = m.up
           /\ Refreshed(m).up = m.up
           /\ \A kind \in Kinds : Decided(kind, m).up = m.up
<1> HIDE DEF Entry
<1>1. QED BY DEF Adopt, Restore, Refreshed, Decided, Memory

LEMMA ReadStepsQuiet ==
    ASSUME TypeOK, TransactionInv, NEW w \in Windows, ReadStep(w)
    PROVE  Quiet(w) /\ KeepsTokens(w)
<1>0. mem \in [Windows -> Memory] /\ op \in [Windows -> Call] /\ job \in [Windows -> Job]
  BY DEF TypeOK
<1> HIDE DEF Entry
<1>b. /\ mem[w] \in Memory /\ Adopt(mem[w]) \in Memory /\ Current(w) \in Memory
      /\ op[w].pc # "idle" \/ job[w].pc # "none" => mem[w].up
      /\ Adopt(mem[w]).up = mem[w].up /\ Refreshed(Adopt(mem[w])).up = mem[w].up
      /\ Restore(mem[w], mem[w].entries).up = mem[w].up
  <2>1. mem[w] \in Memory /\ policy \in Policy
    BY DEF TypeOK
  <2>2. mem[w].entries \in SUBSET Entry
    BY <2>1 DEF Memory
  <2>3. Adopt(mem[w]) \in Memory
    BY <2>1, <2>2, MemoryType
  <2>4. Current(w) \in Memory
    BY CurrentType
  <2>5. op[w].pc # "idle" \/ job[w].pc # "none" => mem[w].up
    BY DEF TransactionInv
  <2>6. QED BY <2>1, <2>3, <2>4, <2>5, StaysUp
<1>c. Restore(Current(w), mem[w].entries).up = mem[w].up
  <2>1. Current(w).up = mem[w].up
    BY <1>b DEF Current, Memory
  <2>2. QED BY <1>b, <2>1, StaysUp
<1>a. Finish(w) => op'[w].pc = "idle" /\ \A v \in Windows \ {w} : op'[v] = op[v]
  BY <1>0 DEF Finish, Idle
<1>1. CASE Open(w)
  BY <1>0, <1>b, <1>1, StaysUp, ConstantTypes, MemoryType DEF TypeOK, TransactionInv, Open, Quiet, KeepsTokens, Idle
<1>2. CASE OpenLoads(w)
  BY <1>0, <1>a, <1>b, <1>c, <1>2 DEF OpenLoads, Quiet, KeepsTokens
<1>3. CASE LockBusy(w)
  BY <1>b, <1>3, RefuseQuiet DEF LockBusy, Quiet
<1>4. CASE PolicyRefused(w)
  BY <1>0, <1>b, <1>4, RefuseQuiet DEF PolicyRefused, Locks, Quiet
<1>5. CASE CaptureToken(w)
  <2>1. job[w].pc = "none"
    BY <1>5 DEF CaptureToken, Locks, TransactionInv
  <2>2. PICK known \in BOOLEAN : Submit(w, policy.revision, known)
    BY <1>5 DEF CaptureToken
  <2>3. QED BY <1>0, <1>a, <1>b, <1>c, <1>5, <2>1, <2>2, SubmitQuiet DEF CaptureToken, Locks, Quiet
<1>6. CASE RefreshView(w)
  BY <1>0, <1>a, <1>b, <1>c, <1>6 DEF RefreshView, Locks, Quiet, KeepsTokens
<1>7. CASE ChangeUnneeded(w)
  BY <1>0, <1>a, <1>b, <1>c, <1>7 DEF ChangeUnneeded, Locks, Quiet, KeepsTokens
<1>8. CASE CommitFails(w)
  BY <1>0, <1>a, <1>b, <1>c, <1>8 DEF CommitFails, Decides, Locks, Quiet, KeepsTokens
<1>9. CASE RemoveWhileDisabled(w)
  BY <1>0, <1>a, <1>b, <1>c, <1>9 DEF RemoveWhileDisabled, Locks, Quiet, KeepsTokens
<1>10. CASE RemoveFails(w)
  BY <1>0, <1>a, <1>b, <1>c, <1>10 DEF RemoveFails, RemoveAllowed, Locks, Quiet, KeepsTokens
<1>11. ASSUME NEW kind \in Kinds, NEW ids \in SUBSET Ids(mem[w].entries), Request(w, kind, ids)
       PROVE Quiet(w) /\ KeepsTokens(w)
  BY <1>0, <1>b, <1>11 DEF Request, Quiet, KeepsTokens, Bumping, Job
<1>12. CASE CancelJob(w)
  BY <1>0, <1>b, <1>12 DEF CancelJob, Quiet, KeepsTokens, Job, TransactionInv
<1>13. CASE AnalysisEnds(w)
  <2>1. CASE ToAppend(w)
    BY <1>0, <1>b, <1>13, <2>1 DEF AnalysisEnds, Quiet, KeepsTokens, Job, TransactionInv
  <2>2. CASE ~ToAppend(w)
    BY <1>0, <1>b, <1>13, <2>2, EndJobQuiet DEF AnalysisEnds, Quiet, TransactionInv
  <2>3. QED BY <2>1, <2>2
<1>14. CASE AppendDropped(w)
  BY <1>b, <1>14, EndJobQuiet DEF AppendDropped, Appending, Quiet, TransactionInv
<1>15. CASE AppendRaises(w)
  BY <1>b, <1>15, EndJobQuiet DEF AppendRaises, Quiet, TransactionInv
<1>16. CASE ApplyResult(w)
  BY <1>0, <1>b, <1>16 DEF ApplyResult, Quiet, KeepsTokens, NoJob, Idle
<1>17. QED BY <1>1, <1>2, <1>3, <1>4, <1>5, <1>6, <1>7, <1>8, <1>9, <1>10, <1>11, <1>12, <1>13,
              <1>14, <1>15, <1>16 DEF ReadStep

\* The lock excludes: when a window or a worker holds it, nobody else is
\* inside a transaction, and nobody is when it is free.
LEMMA Exclusion ==
    ASSUME TransactionInv
    PROVE  /\ lock = Free => \A v \in Windows : op[v].pc # "committed" /\ job[v].pc # "writing"
           /\ \A w \in Windows : op[w].pc = "committed" =>
                 \A v \in Windows : job[v].pc # "writing" /\ (v # w => op[v].pc # "committed")
           /\ \A w \in Windows : job[w].pc = "writing" =>
                 \A v \in Windows : op[v].pc # "committed" /\ (v # w => job[v].pc # "writing")
BY HoldersDiffer DEF TransactionInv, CommittedHolds, WriterHolds

\* Nothing is under way in a window that is closed, and one analysis at a time.
Orderly(w) ==
    /\ op'[w].pc = "waiting" /\ op'[w].kind = "submit" => job'[w].pc = "none"
    /\ mem'[w].up \/ (op'[w].pc = "idle" /\ job'[w].pc = "none")

\* A step after which nobody is inside a transaction.
LEMMA ReleaseKeepsTransactions ==
    ASSUME lock' = Free,
           \A v \in Windows : op'[v].pc # "committed" /\ job'[v].pc # "writing" /\ Orderly(v)
    PROVE  TransactionInv'
BY DEF TransactionInv, CommittedHolds, WriterHolds, Orderly

\* The steps of GUI calls that end a transaction.
LEMMA GuiReleases ==
    ASSUME TypeOK, TransactionInv, NEW w \in Windows,
           \/ SettingsSyncFails(w) \/ EraseFile(w) \/ LoadOnEnable(w) \/ ScrubFile(w)
           \/ FileStepFails(w) \/ RemoveEntries(w)
           \/ CommitPolicy(w) /\ lock' = lock
    PROVE  TransactionInv' /\ UNCHANGED job
<1> HIDE DEF Entry
<1>0. mem \in [Windows -> Memory] /\ op \in [Windows -> Call] /\ job \in [Windows -> Job]
      /\ mem[w] \in Memory /\ mem[w].entries \in SUBSET Entry /\ policy \in Policy
      /\ op[w].kind \in Kinds
  <2> USE DEF Entry
  <2>1. mem[w] \in Memory /\ op[w] \in Call
    BY DEF TypeOK
  <2>2. QED BY <2>1 DEF TypeOK, Memory, Call
<1>1. /\ Adopt(mem[w]) \in Memory /\ Current(w) \in Memory
      /\ Adopt(mem[w]).up = mem[w].up /\ Current(w).up = mem[w].up
  <2>1. Adopt(mem[w]) \in Memory
    <3> USE DEF Entry
    <3>1. QED BY <1>0, MemoryType
  <2>2. Adopt(mem[w]).up = mem[w].up
    BY <1>0, StaysUp
  <2>3. Current(w).up = mem[w].up
    BY <1>0, <2>2 DEF Current, Memory
  <2>4. QED BY <2>1, <2>2, <2>3, CurrentType
<1>2. op[w].pc # "idle" => mem[w].up
  BY DEF TransactionInv
<1>3. UNCHANGED job
  BY DEF SettingsSyncFails, EraseFile, LoadOnEnable, ScrubFile, FileStepFails, RemoveEntries, CommitPolicy
<1>4. Finish(w)
  <2>1. CASE CommitPolicy(w) /\ lock' = lock
    BY <2>1, HoldersDiffer DEF CommitPolicy, Decides, Locks
  <2>2. QED BY <2>1 DEF SettingsSyncFails, EraseFile, LoadOnEnable, ScrubFile, FileStepFails, RemoveEntries
<1>5. op'[w].pc = "idle" /\ \A v \in Windows \ {w} : op'[v] = op[v]
  BY <1>0, <1>4 DEF Finish, Idle
<1>6. lock' = Free
  BY DEF SettingsSyncFails, EraseFile, LoadOnEnable, ScrubFile, FileStepFails, RemoveEntries,
         RemoveAllowed, CommitPolicy, Decides, Locks
<1>7. \A v \in Windows : mem'[v].up = mem[v].up
  <2>1. CASE SettingsSyncFails(w)
    <3>1. DEFINE d == Decided(op[w].kind, Current(w))
    <3>2. d.up = mem[w].up /\ d \in Memory
      BY <1>0, <1>1, StaysUp, DecidedType
    <3> HIDE DEF d
    <3>3. Restore(d, mem[w].entries).up = mem[w].up
      BY <3>2, StaysUp
    <3>4. mem' = [mem EXCEPT ![w] = Restore(d, mem[w].entries)]
      BY <2>1 DEF SettingsSyncFails, d
    <3>5. QED BY <1>0, <3>3, <3>4
  <2>2. CASE EraseFile(w)
    BY <1>0, <2>2 DEF EraseFile, OthersStale, Memory
  <2>3. CASE LoadOnEnable(w)
    BY <1>0, <2>3 DEF LoadOnEnable, Memory
  <2>4. CASE ScrubFile(w)
    BY <1>0, <2>4 DEF ScrubFile, OthersStale, Memory
  <2>5. CASE FileStepFails(w)
    <3>1. Restore(mem[w], mem[w].entries).up = mem[w].up
      BY <1>0, StaysUp
    <3>2. QED BY <1>0, <2>5, <3>1 DEF FileStepFails, Memory
  <2>6. CASE RemoveEntries(w)
    BY <1>0, <1>1, <2>6 DEF RemoveEntries, OthersStale, Memory
  <2>7. CASE CommitPolicy(w)
    <3>1. DEFINE d == Decided(op[w].kind, Current(w))
    <3>2. d.up = mem[w].up
      BY <1>0, <1>1, StaysUp
    <3>3. mem' = [mem EXCEPT ![w] = d]
      BY <2>7 DEF CommitPolicy
    <3> HIDE DEF d
    <3>4. QED BY <1>0, <3>2, <3>3
  <2>8. QED BY <2>1, <2>2, <2>3, <2>4, <2>5, <2>6, <2>7
<1>8. \A v \in Windows : job[v].pc # "writing" /\ (v # w => op[v].pc # "committed")
  BY Exclusion DEF SettingsSyncFails, EraseFile, LoadOnEnable, ScrubFile, FileStepFails,
        RemoveEntries, RemoveAllowed, CommitPolicy, Decides, Locks, Committed
<1>9. \A v \in Windows : op'[v].pc # "committed" /\ job'[v].pc # "writing" /\ Orderly(v)
  <2>1. \A v \in Windows : Orderly(v)
    BY <1>3, <1>5, <1>7, <1>2 DEF Orderly, TransactionInv, SettingsSyncFails, EraseFile, LoadOnEnable,
       ScrubFile, FileStepFails, RemoveEntries, RemoveAllowed, CommitPolicy, Decides, Locks, Committed
  <2>2. QED BY <1>3, <1>5, <1>8, <2>1
<1>10. QED BY <1>3, <1>6, <1>9, ReleaseKeepsTransactions

\* The worker's write, or its failure, ends its transaction.
LEMMA WorkerReleases ==
    ASSUME TypeOK, TransactionInv, NEW w \in Windows, AppendWrites(w) \/ AppendFails(w)
    PROVE  TransactionInv' /\ KeepsTokens(w)
<1> HIDE DEF Entry
<1>0. mem \in [Windows -> Memory]
  BY DEF TypeOK
<1>1. job[w].pc = "writing" /\ UNCHANGED op /\ lock' = Free
  BY DEF AppendWrites, AppendFails
<1>2. KeepsTokens(w) /\ job'[w].pc = "done" /\ \A v \in Windows \ {w} : job'[v] = job[v]
  <2>1. PICK b \in BOOLEAN : EndJob(w, b)
    BY DEF AppendWrites, AppendFails
  <2>2. QED BY <1>1, <2>1, EndJobQuiet
<1>3. \A v \in Windows : mem'[v].up = mem[v].up
  <2>1. CASE mem' = [v \in Windows |-> [mem[v] EXCEPT !.fresh = FALSE]]
    BY <1>0, <2>1 DEF Memory
  <2>2. CASE mem' = mem
    BY <2>2
  <2> QED BY <2>1, <2>2 DEF AppendWrites, AppendFails
<1>4. \A v \in Windows : op'[v].pc # "committed" /\ job'[v].pc # "writing" /\ Orderly(v)
  <2>1. \A v \in Windows : op'[v].pc # "committed" /\ job'[v].pc # "writing"
    <3>1. \A v \in Windows : op[v].pc # "committed" /\ (v # w => job[v].pc # "writing")
      BY <1>1, Exclusion
    <3>2. op' = op
      BY <1>1
    <3> QED BY <1>2, <3>1, <3>2
  <2>2. ASSUME NEW v \in Windows PROVE Orderly(v)
    <3>1. /\ op'[v] = op[v] /\ mem'[v].up = mem[v].up
          /\ op[v].pc = "waiting" /\ op[v].kind = "submit" => job[v].pc = "none"
          /\ mem[v].up \/ (op[v].pc = "idle" /\ job[v].pc = "none")
      BY <1>1, <1>3 DEF TransactionInv
    <3>2. job[v].pc = "none" => job'[v].pc = "none"
      BY <1>1, <1>2
    <3> QED BY <3>1, <3>2 DEF Orderly
  <2> QED BY <2>1, <2>2
<1>5. QED BY <1>1, <1>2, <1>4, ReleaseKeepsTransactions

LEMMA DamageKeepsTransactions ==
    ASSUME TypeOK, TransactionInv, DamageFile \/ DamagePolicy
    PROVE  TransactionInv' /\ UNCHANGED job
<1> HIDE DEF Entry
<1>1. lock = Free /\ UNCHANGED <<lock, op, job>>
  BY DEF DamageFile, DamagePolicy
<1>2. \A v \in Windows : mem'[v].up = mem[v].up
  BY DEF TypeOK, DamageFile, DamagePolicy, Memory
<1>3. \A v \in Windows : op'[v].pc # "committed" /\ job'[v].pc # "writing" /\ Orderly(v)
  BY <1>1, <1>2, Exclusion DEF Orderly, TransactionInv
<1>4. QED BY <1>1, <1>3, ReleaseKeepsTransactions

\* A crash frees the lock of its own transactions and no other.
LEMMA CrashKeepsTransactions ==
    ASSUME TypeOK, TransactionInv, NEW w \in Windows, Crash(w)
    PROVE  TransactionInv' /\ KeepsTokens(w)
<1> HIDE DEF Entry
<1>1. /\ UNCHANGED <<policy, file, erased>>
      /\ mem' = [mem EXCEPT ![w] = Down] /\ op' = [op EXCEPT ![w] = Idle]
      /\ job' = [job EXCEPT ![w] = NoJob]
      /\ lock' = IF lock \in {Gui(w), Worker(w)} THEN Free ELSE lock
  BY DEF Crash
<1>2. /\ op'[w].pc = "idle" /\ job'[w].pc = "none"
      /\ \A v \in Windows \ {w} : op'[v] = op[v] /\ mem'[v] = mem[v] /\ job'[v] = job[v]
  BY <1>1 DEF TypeOK, Idle, NoJob
<1>3. KeepsTokens(w)
  BY <1>2 DEF KeepsTokens
<1>4. ASSUME NEW v \in Windows
      PROVE  CommittedHolds(v)' /\ WriterHolds(v)' /\ Orderly(v)
  <2>1. CASE v = w
    BY <1>2, <2>1 DEF CommittedHolds, WriterHolds, Orderly
  <2>2. CASE v # w
    <3>1. op'[v] = op[v] /\ mem'[v] = mem[v] /\ job'[v] = job[v]
      BY <1>2, <2>2
    <3>2. (op[v].pc = "committed" \/ job[v].pc = "writing") => lock' = lock
      BY <1>1, <2>2, HoldersDiffer DEF TransactionInv, CommittedHolds, WriterHolds
    <3>3. CommittedHolds(v)'
      BY <1>1, <3>1, <3>2 DEF TransactionInv, CommittedHolds, PolicyOf
    <3>4. WriterHolds(v)'
      BY <1>1, <3>1, <3>2 DEF TransactionInv, WriterHolds, Abstract!Permitted
    <3>5. QED BY <3>1, <3>3, <3>4 DEF TransactionInv, Orderly
  <2>3. QED BY <2>1, <2>2
<1>5. ASSUME lock' # Free
      PROVE \E v \in Windows : \/ lock' = Gui(v) /\ op'[v].pc = "committed"
                               \/ lock' = Worker(v) /\ job'[v].pc = "writing"
  <2>1. lock' = lock /\ lock \notin {Gui(w), Worker(w)}
    BY <1>1, <1>5
  <2>2. PICK v \in Windows : \/ lock = Gui(v) /\ op[v].pc = "committed"
                             \/ lock = Worker(v) /\ job[v].pc = "writing"
    BY <1>5, <2>1 DEF TransactionInv
  <2>3. v # w
    BY <2>1, <2>2
  <2>4. QED BY <1>2, <2>1, <2>2, <2>3
<1>6. QED BY <1>3, <1>4, <1>5 DEF TransactionInv, Orderly

\* A committed policy change whose effect on the file is still to come.
LEMMA CommitHolds ==
    ASSUME TypeOK, TransactionInv, NEW w \in Windows, CommitPolicy(w), lock' # lock
    PROVE  TransactionInv' /\ UNCHANGED job
<1> HIDE DEF Entry
<1> DEFINE c == Current(w)
           d == Decided(op[w].kind, c)
<1>0. /\ mem \in [Windows -> Memory] /\ op \in [Windows -> Call]
      /\ op[w].kind \in Kinds /\ policy \in Policy
      /\ c \in Memory /\ mem[w].up
  <2>1. op[w] \in Call /\ op[w].pc = "waiting"
    BY DEF TypeOK, CommitPolicy, Decides, Locks
  <2>2. QED BY <2>1, CurrentType DEF TypeOK, Call, TransactionInv
<1>1. /\ lock = Free /\ lock' = Gui(w) /\ TouchesFile(op[w].kind, d)
      /\ policy' = PolicyOf(d) /\ mem' = [mem EXCEPT ![w] = d]
      /\ op' = [op EXCEPT ![w].pc = "committed"]
      /\ op[w].kind \in Deciding
      /\ UNCHANGED <<job, file, erased>>
  BY DEF CommitPolicy, Decides, Locks
<1>2. /\ op'[w].pc = "committed" /\ op'[w].kind = op[w].kind /\ mem'[w] = d
      /\ \A v \in Windows \ {w} : op'[v] = op[v] /\ mem'[v] = mem[v]
  BY <1>0, <1>1 DEF Call
<1>3. /\ op[w].kind \in {"enable", "disable", "summary", "clear"}
      /\ op[w].kind = "summary" => d.enabled /\ d.retention = "summary"
  BY <1>0, <1>1, DecidedType DEF TouchesFile
<1>4. d.up
  <2>1. c.up
    <3>1. mem[w] \in Memory /\ Adopt(mem[w]).up = mem[w].up
      BY <1>0, StaysUp
    <3>2. QED BY <1>0, <3>1 DEF Current, Memory
  <2>2. QED BY <1>0, <2>1, StaysUp
<1>5. \A v \in Windows : job'[v].pc # "writing" /\ (v # w => op'[v].pc # "committed")
  BY <1>1, <1>2, Exclusion
<1>6. \A v \in Windows : CommittedHolds(v)' /\ WriterHolds(v)'
  <2>1. policy' = PolicyOf(mem'[w])
    BY <1>1, <1>2
  <2>2. op'[w].kind = "summary" => policy'.enabled /\ policy'.retention = "summary"
    BY <1>1, <1>2, <1>3 DEF PolicyOf
  <2> HIDE DEF d
  <2>3. CommittedHolds(w)'
    BY <1>1, <1>2, <1>3, <2>1, <2>2 DEF CommittedHolds, PolicyOf
  <2>4. QED BY <1>5, <2>3 DEF CommittedHolds, WriterHolds
<1>7. \A v \in Windows : Orderly(v)
  BY <1>0, <1>1, <1>2, <1>4 DEF Orderly, TransactionInv
<1> HIDE DEF d
<1>8. QED BY <1>1, <1>2, <1>6, <1>7 DEF TransactionInv, Orderly

\* What is visible of the loaded entries may be written back.
LEMMA LoadedPermitted ==
    ASSUME file \in Abstract!File, NEW enabled \in BOOLEAN, NEW retention \in Retention
    PROVE  /\ \A e \in Visible(enabled, retention, Loaded) :
                 /\ e \in Entry
                 /\ Abstract!Permitted(e)
                 /\ retention = "summary" => ~e.full
           /\ \A e \in Strip(Loaded) : e \in Entry /\ Abstract!Permitted(e) /\ ~e.full
<1>1. Loaded \in SUBSET Entry /\ Loaded \subseteq file.entries
  BY LoadedType
<1>2. \A e \in Visible(enabled, retention, Loaded) : \E f \in Loaded : e \in {f, Abstract!Stripped(f)}
  BY <1>1, VisibleType
<1>3. /\ Visible(enabled, retention, Loaded) \in SUBSET Entry
      /\ retention = "summary" => \A e \in Visible(enabled, retention, Loaded) : ~e.full
      /\ Strip(Loaded) \in SUBSET Entry
  BY <1>1, VisibleType
<1>4. \A e \in Strip(Loaded) : \E f \in Loaded : e = Abstract!Stripped(f)
  BY DEF Strip
<1>5. \A e \in Strip(Loaded) : ~e.full
  BY <1>1, <1>4, StrippedType
<1> HIDE DEF Entry
<1>6. QED BY <1>1, <1>2, <1>3, <1>4, <1>5 DEF Abstract!Permitted

\* The worker enters its transaction: the privacy token of the submission is
\* the revision in force, so the new entry is permitted.
LEMMA PrepareHolds ==
    ASSUME TypeOK, TransactionInv, TokensInv, NEW w \in Windows, AppendPrepares(w)
    PROVE  TransactionInv' /\ KeepsTokens(w)
<1> DEFINE old == Visible(TRUE, policy.retention, Loaded)
           es == Newest({NewEntry(w)} \cup old, Limit)
<1>0. /\ job \in [Windows -> Job] /\ job[w] \in Job /\ file \in Abstract!File
      /\ policy.retention \in Retention /\ policy.revision \in Nat
  BY DEF TypeOK, Abstract!Policy
<1>1. /\ lock = Free /\ lock' = Worker(w) /\ job[w].pc = "appending"
      /\ policy.valid /\ ~TokenRevoked(w) /\ ~AppendRefused(w)
      /\ job' = [job EXCEPT ![w].pc = "writing", ![w].draft = Retained(es)]
      /\ UNCHANGED <<policy, file, mem, op, erased>>
  BY DEF AppendPrepares, Appending
<1>2. policy.enabled /\ job[w].token = policy.revision /\ file.state # "damaged"
  BY <1>1 DEF TokenRevoked, AppendRefused
<1>3. job[w].since = policy.revision
  BY <1>0, <1>1, <1>2 DEF TokensInv, Unavailable
<1>4. \A e \in {NewEntry(w)} \cup old : Abstract!Permitted(e) /\ (policy.retention = "summary" => ~e.full)
  <2>1. NewEntry(w).rev = policy.revision /\ (policy.retention = "summary" => ~NewEntry(w).full)
    BY <1>3 DEF NewEntry
  <2>2. Abstract!Permitted(NewEntry(w))
    BY <2>1 DEF Abstract!Permitted
  <2>3. QED BY <1>0, <2>1, <2>2, LoadedPermitted
<1>5. Retained(es) \subseteq {NewEntry(w)} \cup old
  BY DEF Retained, Newest
<1> HIDE DEF es, old, Entry
<1>6. /\ job'[w].pc = "writing" /\ job'[w].draft = Retained(es)
      /\ job'[w].token = job[w].token /\ job'[w].since = job[w].since
      /\ \A v \in Windows \ {w} : job'[v] = job[v]
  BY <1>0, <1>1 DEF Job
<1>7. WriterHolds(w)'
  <2>1. \A e \in job'[w].draft : Abstract!Permitted(e)' /\ (policy'.retention = "summary" => ~e.full)
    BY <1>1, <1>4, <1>5, <1>6 DEF Abstract!Permitted
  <2>2. QED BY <1>1, <1>2, <1>3, <1>6, <2>1 DEF WriterHolds
<1>8. \A v \in Windows : CommittedHolds(v)' /\ WriterHolds(v)'
  <2>1. \A v \in Windows : op[v].pc # "committed" /\ job[v].pc # "writing"
    BY <1>1, Exclusion
  <2>2. op' = op
    BY <1>1
  <2>3. \A v \in Windows \ {w} : job'[v].pc # "writing"
    BY <1>6, <2>1
  <2>4. ASSUME NEW v \in Windows
        PROVE  CommittedHolds(v)' /\ WriterHolds(v)'
    <3>1. CommittedHolds(v)'
      BY <2>1, <2>2 DEF CommittedHolds
    <3>2. WriterHolds(v)'
      BY <1>7, <2>3 DEF WriterHolds
    <3> QED BY <3>1, <3>2
  <2> QED BY <2>4
<1>9. ASSUME NEW v \in Windows PROVE Orderly(v)
  <2>1. /\ op'[v] = op[v] /\ mem'[v] = mem[v]
        /\ op[v].pc = "waiting" /\ op[v].kind = "submit" => job[v].pc = "none"
        /\ mem[v].up \/ (op[v].pc = "idle" /\ job[v].pc = "none")
    BY <1>1 DEF TransactionInv
  <2>2. job[v].pc = "none" => job'[v].pc = "none"
    BY <1>1, <1>6
  <2> QED BY <2>1, <2>2 DEF Orderly
<1>10. KeepsTokens(w)
  BY <1>1, <1>6 DEF KeepsTokens
<1>11. QED BY <1>1, <1>6, <1>8, <1>9, <1>10 DEF TransactionInv, Orderly

-----------------------------------------------------------------------------
(* What the shared state does in a step *)

\* The steps that write the history file do so as the abstract Rewrite allows.
LEMMA WriteIsRewrite ==
    ASSUME TypeOK, TransactionInv, NEW w \in Windows,
           ScrubFile(w) \/ RemoveEntries(w) \/ AppendWrites(w)
    PROVE  Abstract!Rewrite /\ UNCHANGED erased
<1>0. file \in Abstract!File /\ policy.retention \in Retention /\ job[w] \in Job
  BY DEF TypeOK, Abstract!Policy
<1>1. CASE ScrubFile(w)
  <2>1. /\ policy.valid /\ policy.enabled /\ policy.retention = "summary"
        /\ file.state # "damaged" /\ file' = Written(Strip(Loaded))
        /\ UNCHANGED <<policy, erased>>
    BY <1>1 DEF ScrubFile, Committed, Refused, TransactionInv, CommittedHolds, PolicyOf
  <2>2. Strip(Loaded) \in SUBSET Entry
    BY <1>0, LoadedType, VisibleType
  <2>3. file' \in Abstract!File /\ file'.state = "ok" /\ file'.entries \subseteq Strip(Loaded)
    BY <2>1, <2>2, WrittenType DEF Written, Retained
  <2>4. QED BY <1>0, <2>1, <2>3, LoadedPermitted DEF Abstract!Rewrite
<1>2. CASE RemoveEntries(w)
  <2>1. DEFINE old == Visible(TRUE, policy.retention, Loaded)
               es == {e \in old : e.id \notin op[w].ids}
  <2>2. /\ policy.valid /\ policy.enabled /\ file.state # "damaged" /\ file' = Written(es)
        /\ UNCHANGED <<policy, erased>>
    BY <1>2 DEF RemoveEntries, RemoveAllowed, Refused
  <2>3. es \subseteq old /\ old \in SUBSET Entry
    BY <1>0, LoadedType, VisibleType
  <2> HIDE DEF es
  <2>4. file' \in Abstract!File /\ file'.state = "ok" /\ file'.entries \subseteq old
    BY <2>2, <2>3, WrittenType DEF Written, Retained
  <2>5. QED BY <1>0, <2>2, <2>4, LoadedPermitted DEF Abstract!Rewrite
<1>3. CASE AppendWrites(w)
  <2>1. /\ job[w].pc = "writing" /\ file' = [state |-> "ok", entries |-> job[w].draft]
        /\ UNCHANGED <<policy, erased>>
    BY <1>3 DEF AppendWrites
  <2>2. WriterHolds(w)
    BY DEF TransactionInv
  <2>3. file' \in Abstract!File /\ file'.state = "ok" /\ file'.entries = job[w].draft
    BY <1>0, <2>1 DEF Job, Abstract!File
  <2>4. QED BY <2>1, <2>2, <2>3 DEF WriterHolds, Abstract!Rewrite
<1>4. QED BY <1>1, <1>2, <1>3

\* The steps that commit a policy are the abstract Decide.
LEMMA CommitIsDecide ==
    ASSUME TypeOK, NEW w \in Windows, CommitPolicy(w) \/ SettingsSyncFails(w)
    PROVE  Abstract!Decide /\ UNCHANGED erased
<1> DEFINE d == Decided(op[w].kind, Current(w))
<1>1. op[w].kind \in Kinds /\ policy \in Policy
  <2>1. op[w] \in Call
    BY DEF TypeOK
  <2>2. QED BY <2>1 DEF Call, TypeOK
<1>2. PolicyOf(d) \in Policy /\ d.revision = policy.revision + 1
  BY <1>1, CurrentType, DecidedType
<1>3. policy' = PolicyOf(d) /\ UNCHANGED <<file, erased>>
  BY DEF CommitPolicy, SettingsSyncFails
<1> HIDE DEF d
<1>4. QED BY <1>2, <1>3 DEF Abstract!Decide, PolicyOf

\* The steps of window w, by what they do to the shared state.
CommitStep(w) == CommitPolicy(w) \/ SettingsSyncFails(w)
WriteStep(w) == ScrubFile(w) \/ RemoveEntries(w) \/ AppendWrites(w)
PrivateStep(w) ==
    ReadStep(w) \/ LoadOnEnable(w) \/ FileStepFails(w) \/ AppendPrepares(w) \/ AppendFails(w) \/ Crash(w)

WindowStep(w) == PrivateStep(w) \/ CommitStep(w) \/ WriteStep(w) \/ EraseFile(w)

LEMMA NextSteps ==
    ASSUME Next
    PROVE  (\E w \in Windows : WindowStep(w)) \/ DamageFile \/ DamagePolicy
BY DEF Next, GuiCall, WorkerStep, WindowStep, PrivateStep, CommitStep, WriteStep, ReadStep

LEMMA PrivateStepsShareNothing ==
    ASSUME TypeOK, TransactionInv, NEW w \in Windows, PrivateStep(w)
    PROVE  UNCHANGED <<policy, file, erased>>
<1>1. CASE ReadStep(w)
  BY <1>1, ReadStepsQuiet DEF Quiet
<1>2. QED BY <1>1 DEF PrivateStep, LoadOnEnable, FileStepFails, AppendPrepares, AppendFails, Crash

\* Every step of the store is a step of the abstract promise or leaves the
\* policy and the file alone.
LEMMA SharedStep ==
    ASSUME TypeOK, TransactionInv, [Next]_vars
    PROVE  \/ UNCHANGED <<policy, file, erased>>
           \/ /\ \/ Abstract!Decide \/ Abstract!Rewrite \/ Abstract!DamageFile \/ Abstract!DamagePolicy
              /\ UNCHANGED erased
           \/ Abstract!Erase /\ erased' = policy.revision
<1>1. CASE UNCHANGED vars
  BY <1>1 DEF vars
<1>2. ASSUME NEW w \in Windows, WindowStep(w)
      PROVE  \/ UNCHANGED <<policy, file, erased>>
             \/ (Abstract!Decide \/ Abstract!Rewrite) /\ UNCHANGED erased
             \/ Abstract!Erase /\ erased' = policy.revision
  <2>1. CASE PrivateStep(w)
    BY <2>1, PrivateStepsShareNothing
  <2>2. CASE CommitStep(w)
    BY <2>2, CommitIsDecide DEF CommitStep
  <2>3. CASE WriteStep(w)
    BY <2>3, WriteIsRewrite DEF WriteStep
  <2>4. CASE EraseFile(w)
    BY <2>4 DEF EraseFile, Abstract!Erase
  <2>5. QED BY <1>2, <2>1, <2>2, <2>3, <2>4 DEF WindowStep
<1>3. CASE DamageFile
  BY <1>3 DEF DamageFile, Abstract!DamageFile
<1>4. CASE DamagePolicy
  BY <1>4 DEF DamagePolicy, Abstract!DamagePolicy
<1>5. QED BY <1>1, <1>2, <1>3, <1>4, NextSteps

-----------------------------------------------------------------------------
(* The invariant *)

FileInv == file.state # "ok" => file.entries = {}

StoreInv == TypeOK /\ TransactionInv /\ TokensInv /\ ErasedStaysErased /\ FileInv

LEMMA InitInv == Init => StoreInv
<1> SUFFICES ASSUME Init PROVE StoreInv
  OBVIOUS
<1>1. TypeOK
  BY InitTypes
<1>2. TransactionInv
  BY DEF Init, TransactionInv, CommittedHolds, WriterHolds, Idle, NoJob, Down
<1>3. TokensInv
  <2>1. policy.revision \in Nat /\ erased = 0 /\ \A w \in Windows : job[w].pc = "none"
    BY <1>1 DEF Init, NoJob, TypeOK, Abstract!Policy
  <2>2. QED BY <2>1 DEF TokensInv
<1>4. ErasedStaysErased
  <2>1. file.entries \in SUBSET Entry /\ erased = 0
    BY <1>1 DEF Init, TypeOK, Abstract!File
  <2>2. QED BY <2>1 DEF ErasedStaysErased, Abstract!Entry
<1>5. FileInv
  BY DEF Init, Abstract!Init, Abstract!Absent, FileInv
<1>6. QED BY <1>1, <1>2, <1>3, <1>4, <1>5 DEF StoreInv

LEMMA WindowStepKeepsTransactions ==
    ASSUME TypeOK, TransactionInv, TokensInv, NEW w \in Windows, WindowStep(w)
    PROVE  TransactionInv' /\ (KeepsTokens(w) \/ UNCHANGED job)
<1>1. CASE ReadStep(w)
  BY <1>1, ReadStepsQuiet, QuietKeepsTransactions
<1>2. CASE LoadOnEnable(w) \/ FileStepFails(w) \/ SettingsSyncFails(w) \/ ScrubFile(w)
           \/ RemoveEntries(w) \/ EraseFile(w)
  BY <1>2, GuiReleases
<1>3. CASE CommitPolicy(w)
  <2>1. CASE lock' = lock
    BY <1>3, <2>1, GuiReleases
  <2>2. CASE lock' # lock
    BY <1>3, <2>2, CommitHolds
  <2>3. QED BY <2>1, <2>2
<1>4. CASE AppendPrepares(w)
  BY <1>4, PrepareHolds
<1>5. CASE AppendWrites(w) \/ AppendFails(w)
  BY <1>5, WorkerReleases
<1>6. CASE Crash(w)
  BY <1>6, CrashKeepsTransactions
<1>7. QED BY <1>1, <1>2, <1>3, <1>4, <1>5, <1>6 DEF WindowStep, PrivateStep, CommitStep, WriteStep

LEMMA NextInv == StoreInv /\ [Next]_vars => StoreInv'
<1> SUFFICES ASSUME StoreInv, [Next]_vars PROVE StoreInv'
  OBVIOUS
<1>0. TypeOK /\ TransactionInv /\ TokensInv /\ ErasedStaysErased /\ FileInv
  BY DEF StoreInv
<1>1. TypeOK'
  BY <1>0, NextTypes
<1>2. TransactionInv' /\ (UNCHANGED job \/ \E w \in Windows : KeepsTokens(w))
  <2>1. CASE UNCHANGED vars
    <3>1. UNCHANGED <<policy, file, lock, mem, op, job>>
      BY <2>1 DEF vars
    <3> HIDE DEF Entry
    <3>2. TransactionInv'
      BY <1>0, <3>1 DEF TransactionInv, CommittedHolds, WriterHolds, PolicyOf, Abstract!Permitted
    <3>3. QED BY <3>1, <3>2
  <2>2. CASE Next
    <3>1. ASSUME NEW w \in Windows, WindowStep(w)
          PROVE  TransactionInv' /\ (UNCHANGED job \/ KeepsTokens(w))
      BY <1>0, <3>1, WindowStepKeepsTransactions
    <3>2. CASE DamageFile \/ DamagePolicy
      BY <1>0, <3>2, DamageKeepsTransactions
    <3>3. QED BY <2>2, <3>1, <3>2, NextSteps
  <2>3. QED BY <2>1, <2>2
<1>3. /\ policy.revision \in Nat /\ policy'.revision \in Nat /\ erased \in Nat
      /\ file.entries \in SUBSET Entry
  BY <1>0, <1>1 DEF TypeOK, Abstract!Policy, Abstract!File
<1>4. policy.revision <= policy'.revision /\ erased' <= policy'.revision
  <2>1. erased <= policy.revision
    BY <1>0 DEF TokensInv
  <2>2. policy' = policy \/ policy'.revision = policy.revision + 1 \/ policy'.revision = policy.revision
    <3>1. policy' = [policy EXCEPT !.valid = FALSE] => policy'.revision = policy.revision
      BY <1>0 DEF TypeOK, Abstract!Policy
    <3>2. QED BY <1>0, <3>1, SharedStep DEF Abstract!Decide, Abstract!Rewrite, Abstract!DamageFile,
                   Abstract!DamagePolicy, Abstract!Erase
  <2>3. erased' = erased \/ erased' = policy.revision
    BY <1>0, SharedStep
  <2>4. QED BY <1>3, <2>1, <2>2, <2>3
<1>5. TokensInv'
  <2>1. ASSUME NEW v \in Windows, job'[v].pc # "none"
        PROVE  job'[v].token \in {job'[v].since, Unavailable} /\ job'[v].since <= policy'.revision
    <3>1. \/ job'[v] = job[v]
          \/ job[v].pc # "none" /\ job'[v].token = job[v].token /\ job'[v].since = job[v].since
          \/ job'[v].token = Unavailable /\ job'[v].since = 0
          \/ job'[v].token \in {policy.revision, Unavailable} /\ job'[v].since = policy.revision
      BY <1>2, <2>1 DEF KeepsTokens
    <3>2. job[v].pc # "none" => /\ job[v].token \in {job[v].since, Unavailable}
                                /\ job[v].since <= policy.revision
      BY <1>0 DEF TokensInv
    <3>3. job[v].since \in Nat
      BY <1>0 DEF TypeOK, Job
    <3> HIDE DEF Entry
    <3>4. QED BY <1>3, <1>4, <2>1, <3>1, <3>2, <3>3
  <2>2. QED BY <1>4, <2>1 DEF TokensInv
<1>6. ErasedStaysErased'
  <2>1. erased <= policy.revision /\ \A e \in file.entries : e.rev >= erased
    BY <1>0 DEF TokensInv, ErasedStaysErased
  <2>2. CASE UNCHANGED <<file, erased>>
    BY <1>0, <2>2 DEF ErasedStaysErased
  <2>3. CASE file'.entries = {}
    BY <2>3 DEF ErasedStaysErased
  <2>4. CASE Abstract!Rewrite /\ erased' = erased
    <3>1. ASSUME NEW e \in file'.entries PROVE e.rev >= erased
      <4>1. e.rev = policy.revision \/ \E f \in file.entries : e \in {f, Abstract!Stripped(f)}
        BY <2>4 DEF Abstract!Rewrite, Abstract!Permitted
      <4>2. ASSUME NEW f \in file.entries, e \in {f, Abstract!Stripped(f)} PROVE e.rev = f.rev
        BY <1>3, <4>2, StrippedType
      <4>3. QED BY <1>3, <2>1, <4>1, <4>2
    <3>2. QED BY <2>4, <3>1 DEF ErasedStaysErased
  <2>5. QED BY <1>0, <2>2, <2>3, <2>4, SharedStep DEF Abstract!Decide, Abstract!DamageFile,
                 Abstract!DamagePolicy, Abstract!Erase, Abstract!Absent, Abstract!Damaged
<1>7. FileInv'
  BY <1>0, SharedStep DEF FileInv, Abstract!Decide, Abstract!Rewrite, Abstract!Erase,
     Abstract!DamageFile, Abstract!DamagePolicy, Abstract!Absent, Abstract!Damaged
<1>8. QED BY <1>1, <1>2, <1>5, <1>6, <1>7 DEF StoreInv

LEMMA Invariance == Spec => []StoreInv
BY InitInv, NextInv, PTL DEF Spec

-----------------------------------------------------------------------------
(* Theorems *)

\* A transaction holds the lock until it ends, the policy it works under stays
\* the committed one, and a worker writes only entries that policy permits:
\* what append, set_enabled, set_retention and clear have read inside
\* _transaction is still true when they act on it.
THEOREM TransactionsHold == Spec => []TransactionInv
<1>1. StoreInv => TransactionInv
  BY DEF StoreInv
<1>2. QED BY <1>1, Invariance, PTL

\* A privacy token never outlives the revision it was captured under by more
\* than being refused, and no erasure lies in the future of the policy.
THEOREM TokensHold == Spec => []TokensInv
<1>1. StoreInv => TokensInv
  BY DEF StoreInv
<1>2. QED BY <1>1, Invariance, PTL

\* What the user erased stays erased: no analysis submitted before a completed
\* clear or disable is ever found in the file again, however many windows,
\* workers, failed writes and crashes there are.
THEOREM ErasureHolds == Spec => []ErasedStaysErased
<1>1. StoreInv => ErasedStaysErased
  BY DEF StoreInv
<1>2. QED BY <1>1, Invariance, PTL

\* Every write of the history file is allowed by the policy on disk at that
\* moment, and under summary retention leaves no configuration text in it.
THEOREM WritesAllowed == Spec => WritesObeyPolicy
<1>1. ASSUME StoreInv, [Next]_vars, file' # file, file'.state = "ok"
      PROVE  /\ policy.valid /\ policy.enabled
             /\ policy.retention = "summary" => ~HasFull(file'.entries)
  <2>1. Abstract!Rewrite
    BY <1>1, SharedStep DEF StoreInv, Abstract!Decide, Abstract!Erase, Abstract!DamageFile,
       Abstract!DamagePolicy, Abstract!Absent, Abstract!Damaged
  <2>2. QED BY <2>1 DEF Abstract!Rewrite, HasFull
<1>2. StoreInv /\ [Next]_vars =>
        [file' # file /\ file'.state = "ok" =>
            /\ policy.valid /\ policy.enabled
            /\ policy.retention = "summary" => ~HasFull(file'.entries)]_vars
  BY <1>1
<1>3. QED BY <1>2, Invariance, PTL DEF Spec, WritesObeyPolicy

\* The store with its windows, workers, lock, failures and crashes implements
\* the abstract promise: a policy that changes only under a new revision, and
\* a file that is erased, or rewritten with entries the policy permits.
THEOREM Implementation == Spec => ImplementsPrivateHistory
<1>1. Init => Abstract!Init
  BY DEF Init
<1>2. StoreInv /\ [Next]_vars => [Abstract!Next]_(Abstract!abstractVars)
  BY SharedStep DEF StoreInv, Abstract!Next, Abstract!abstractVars
<1>3. QED BY <1>1, <1>2, Invariance, PTL DEF Spec, ImplementsPrivateHistory, Abstract!Spec

\* A damaged history stays on disk for recovery until the user disables or
\* clears the history.
THEOREM DamageKept == Spec => DamagePreserved
<1>1. ASSUME StoreInv, [Next]_vars, file.state = "damaged"
      PROVE  \/ file' = file
             \/ \E w \in Windows : Committed(w, {"disable", "clear"}) /\ file' = Abstract!Absent
  <2>0. TypeOK /\ TransactionInv /\ file = Abstract!Damaged
    BY <1>1 DEF StoreInv, FileInv, TypeOK, Abstract!File, Abstract!Damaged
  <2>1. ASSUME NEW w \in Windows, WindowStep(w)
        PROVE  file' = file \/ (Committed(w, {"disable", "clear"}) /\ file' = Abstract!Absent)
    <3>1. CASE PrivateStep(w)
      BY <2>0, <3>1, PrivateStepsShareNothing
    <3>2. CASE CommitStep(w)
      BY <3>2 DEF CommitStep, CommitPolicy, SettingsSyncFails
    <3>3. CASE WriteStep(w)
      BY <1>1, <2>0, <3>3, WriteIsRewrite DEF WriteStep, Abstract!Rewrite
    <3>4. CASE EraseFile(w)
      BY <3>4 DEF EraseFile
    <3>5. QED BY <2>1, <3>1, <3>2, <3>3, <3>4 DEF WindowStep
  <2>2. CASE DamageFile \/ DamagePolicy
    BY <2>0, <2>2 DEF DamageFile, DamagePolicy
  <2>3. CASE UNCHANGED vars
    BY <2>3 DEF vars
  <2>4. QED BY <1>1, <2>1, <2>2, <2>3, NextSteps
<1>2. StoreInv /\ [Next]_vars =>
        [file.state = "damaged" =>
            \/ file' = file
            \/ \E w \in Windows : Committed(w, {"disable", "clear"}) /\ file' = Abstract!Absent]_vars
  BY <1>1
<1>3. QED BY <1>2, Invariance, PTL DEF Spec, DamagePreserved

\* The only step that completes a refresh is RefreshView.
LEMMA RefreshingStep ==
    ASSUME StoreInv, [Next]_vars, NEW w \in Windows, Refreshes(w)
    PROVE  RefreshView(w)
<1>0. /\ op[w].pc = "waiting" /\ op[w].kind = "refresh" /\ lock = Free /\ policy.valid
      /\ mem'[w].up /\ op'[w].pc = "idle"
      /\ TypeOK /\ TransactionInv
  BY DEF Refreshes, Locks, StoreInv
<1>1. mem[w].up /\ op \in [Windows -> Call]
  BY <1>0 DEF TransactionInv, TypeOK
<1> HIDE DEF Entry
<1>2. ~UNCHANGED op
  BY <1>0
<1>3. PICK v \in Windows : WindowStep(v) \/ \E kind \in Kinds, ids \in SUBSET Ids(mem[v].entries) : Request(v, kind, ids)
  BY <1>2, NextSteps DEF vars, DamageFile, DamagePolicy
<1>4. v = w
  <2>1. SUFFICES ASSUME v # w PROVE op'[w] = op[w]
    BY <1>0
  <2>2. Finish(v) => op'[w] = op[w]
    BY <1>1, <2>1 DEF Finish
  <2>3. CASE ReadStep(v)
    BY <1>0, <2>1, <2>3, ReadStepsQuiet DEF Quiet
  <2>4. CASE CommitPolicy(v)
    BY <1>1, <2>1, <2>2, <2>4 DEF CommitPolicy
  <2>5. CASE Crash(v)
    BY <1>1, <2>1, <2>5 DEF Crash
  <2>6. CASE AppendPrepares(v) \/ AppendFails(v) \/ AppendWrites(v)
    BY <2>6 DEF AppendPrepares, AppendFails, AppendWrites
  <2>7. CASE LoadOnEnable(v) \/ FileStepFails(v) \/ SettingsSyncFails(v) \/ ScrubFile(v)
             \/ RemoveEntries(v) \/ EraseFile(v)
    BY <2>2, <2>7 DEF LoadOnEnable, FileStepFails, SettingsSyncFails, ScrubFile, RemoveEntries, EraseFile
  <2>8. QED BY <1>3, <2>3, <2>4, <2>5, <2>6, <2>7 DEF WindowStep, PrivateStep, CommitStep, WriteStep, ReadStep
<1>5. ~Crash(w) /\ ~Open(w) /\ ~OpenLoads(w) /\ ~LockBusy(w)
  BY <1>0, <1>1 DEF Crash, Down, Open, OpenLoads, LockBusy, TypeOK
<1>6. /\ ~PolicyRefused(w) /\ ~CaptureToken(w) /\ ~ChangeUnneeded(w) /\ ~Decides(w)
      /\ ~RemoveAllowed(w) /\ ~RemoveWhileDisabled(w) /\ ~Committed(w, {"disable", "clear", "summary", "enable"})
  BY <1>0 DEF PolicyRefused, CaptureToken, ChangeUnneeded, Decides, RemoveAllowed,
       RemoveWhileDisabled, Committed, Locks, Deciding
<1>7. \A kind \in Kinds, ids \in SUBSET Ids(mem[w].entries) : ~Request(w, kind, ids)
  BY <1>0 DEF Request
<1>8. ~CancelJob(w) /\ ~AnalysisEnds(w) /\ ~AppendDropped(w) /\ ~AppendRaises(w) /\ ~AppendPrepares(w)
      /\ ~AppendWrites(w) /\ ~AppendFails(w)
  BY <1>2 DEF CancelJob, AnalysisEnds, AppendDropped, AppendRaises, AppendPrepares, AppendWrites, AppendFails
<1>9. ~ApplyResult(w)
  BY <1>0 DEF ApplyResult
<1>10. QED BY <1>3, <1>4, <1>5, <1>6, <1>7, <1>8, <1>9 DEF WindowStep, PrivateStep, CommitStep, WriteStep,
         ReadStep, CommitPolicy, CommitFails, SettingsSyncFails, EraseFile, LoadOnEnable, ScrubFile,
         FileStepFails, RemoveEntries, RemoveFails, Committed

\* After a refresh, whatever the other windows and earlier failures left in
\* memory or on disk, a window shows nothing of a disabled history and no
\* configuration text under summary retention.
THEOREM RefreshSafe == Spec => RefreshHonoursPolicy
<1>1. ASSUME StoreInv, [Next]_vars, NEW w \in Windows, Refreshes(w)
      PROVE  /\ ~policy.enabled => mem'[w].entries = {}
             /\ policy.retention = "summary" => ~HasFull(mem'[w].entries)
  <2>1. RefreshView(w)
    BY <1>1, RefreshingStep
  <2>2. mem[w] \in Memory /\ mem \in [Windows -> Memory] /\ file \in Abstract!File /\ policy \in Policy
    BY <1>1 DEF StoreInv, TypeOK
  <2>3. DEFINE m == Adopt(mem[w])
  <2>4. m \in Memory /\ m.entries \in SUBSET Entry
    BY <2>2, MemoryType DEF Memory
  <2>5. m.enabled = policy.enabled /\ m.retention = policy.retention
    <3> HIDE DEF Entry
    <3>1. QED BY <2>2 DEF Adopt, Memory
  <2>6. policy.retention = "summary" =>
           /\ ~HasFull(Visible(TRUE, m.retention, m.entries))
           /\ ~HasFull(Visible(TRUE, m.retention, Loaded))
    BY <2>2, <2>4, <2>5, VisibleType, LoadedType DEF HasFull, Abstract!Policy
  <2>7. mem'[w] = Refreshed(m)
    <3> HIDE DEF Entry, m
    <3>1. mem' = [mem EXCEPT ![w] = Refreshed(m)]
      BY <2>1 DEF RefreshView, m
    <3>2. QED BY <2>2, <3>1
  <2> HIDE DEF m, Entry
  <2>8. /\ ~m.enabled => Refreshed(m).entries = {}
        /\ m.enabled => Refreshed(m).entries \in {Visible(TRUE, m.retention, m.entries),
                                                 Visible(TRUE, m.retention, Loaded)}
    BY <2>4 DEF Refreshed, Memory
  <2>9. ~HasFull({})
    BY DEF HasFull
  <2>10. QED BY <2>5, <2>6, <2>7, <2>8, <2>9
<1>2. StoreInv /\ [Next]_vars =>
        [\A w \in Windows : Refreshes(w) =>
            /\ ~policy.enabled => mem'[w].entries = {}
            /\ policy.retention = "summary" => ~HasFull(mem'[w].entries)]_vars
  BY <1>1
<1>3. QED BY <1>2, Invariance, PTL DEF Spec, RefreshHonoursPolicy

-----------------------------------------------------------------------------
(* What the limit and the quota drop *)

\* The entries at least as new as the one with this id.
From(es, id) == {f \in es : f.id >= id}

LEMMA CostGrows ==
    ASSUME NEW es, IsFiniteSet(es), NEW part \in SUBSET es
    PROVE  /\ IsFiniteSet(part) /\ Cardinality(part) \in Nat /\ Cost(part) \in Nat
           /\ Cardinality(part) <= Cardinality(es) /\ Cost(part) <= Cost(es)
<1> DEFINE a == {e \in es : e.full} b == {e \in part : e.full}
<1>1. /\ IsFiniteSet(part) /\ Cardinality(part) <= Cardinality(es)
      /\ Cardinality(part) \in Nat /\ Cardinality(es) \in Nat
  BY FS_Subset, FS_CardinalityType
<1>2. IsFiniteSet(a) /\ a \in SUBSET es /\ b \in SUBSET a
  BY FS_Subset
<1>3. Cardinality(b) <= Cardinality(a) /\ Cardinality(a) \in Nat /\ Cardinality(b) \in Nat
  BY <1>2, FS_Subset, FS_CardinalityType
<1>4. Cost(part) = Cardinality(part) + Cardinality(b) /\ Cost(es) = Cardinality(es) + Cardinality(a)
  BY DEF Cost
<1> HIDE DEF a, b
<1> QED BY <1>1, <1>3, <1>4

\* What holds too much still does with more in it.
LEMMA TooMuch ==
    ASSUME NEW es, IsFiniteSet(es), NEW part \in SUBSET es,
           Cardinality(part) > Limit \/ Cost(part) > Quota
    PROVE  ~Fits(es)
<1>1. /\ Cardinality(part) \in Nat /\ Cost(part) \in Nat
      /\ Cardinality(part) <= Cardinality(es) /\ Cost(part) <= Cost(es)
  BY CostGrows
<1>2. Cardinality(es) \in Nat /\ Cost(es) \in Nat
  BY CostGrows
<1>3. Limit \in Nat /\ Quota \in Nat
  BY LimitAssumption, QuotaAssumption
<1> QED BY <1>1, <1>2, <1>3 DEF Fits

\* An entry that the limit drops has too many newer ones with it.
LEMMA NewestDrops ==
    ASSUME NEW es \in SUBSET Entry, IsFiniteSet(es), NEW e \in es, e \notin Newest(es, Limit)
    PROVE  Cardinality(From(es, e.id)) > Limit
<1> DEFINE newer == {f \in es : f.id > e.id}
<1>1. IsFiniteSet(newer) /\ Cardinality(newer) \in Nat
  BY FS_Subset, FS_CardinalityType
<1>2. Cardinality(newer) >= Limit
  BY <1>1, LimitAssumption DEF Newest
<1>3. e.id \in Nat /\ \A f \in es : f.id \in Nat
  BY DEF Abstract!Entry
<1>4. e \notin newer /\ newer \cup {e} \in SUBSET From(es, e.id)
  BY <1>3 DEF From
<1>5. IsFiniteSet(From(es, e.id)) /\ Cardinality(From(es, e.id)) \in Nat
  BY FS_Subset, FS_CardinalityType DEF From
<1>6. Cardinality(newer \cup {e}) = Cardinality(newer) + 1
  BY <1>1, <1>4, FS_AddElement
<1>7. Cardinality(newer \cup {e}) <= Cardinality(From(es, e.id))
  BY <1>4, <1>5, FS_Subset
<1> HIDE DEF newer
<1> QED BY <1>1, <1>2, <1>5, <1>6, <1>7, LimitAssumption

\* An entry that the quota drops costs too much with the newer ones.
LEMMA RetainedDrops ==
    ASSUME NEW es, IsFiniteSet(es), NEW e \in es, e \notin Retained(es)
    PROVE  Cost(From(es, e.id)) > Quota
<1>1. From(es, e.id) \in SUBSET es
  BY DEF From
<1>2. Cost(From(es, e.id)) \in Nat
  BY <1>1, CostGrows
<1>3. ~(Cost(From(es, e.id)) <= Quota)
  BY DEF Retained, From
<1> QED BY <1>2, <1>3, QuotaAssumption

-----------------------------------------------------------------------------
(* What a policy leaves visible is as much as was there *)

Distinct(es) == IsFiniteSet(es) /\ \A e, f \in es : e.id = f.id => e = f

\* Every entry but its text stays, in the same order.
LEMMA StripKeeps ==
    ASSUME NEW es \in SUBSET Entry, Distinct(es)
    PROVE  /\ Strip(es) \in SUBSET Entry /\ Distinct(Strip(es))
           /\ \A e \in es : \E g \in Strip(es) : g.id = e.id
           /\ \A g \in Strip(es) : \E e \in es : g.id = e.id
           /\ \A id \in Nat : Cardinality(From(Strip(es), id)) = Cardinality(From(es, id))
<1>1. /\ \A e \in es : Abstract!Stripped(e) \in Strip(es) /\ Abstract!Stripped(e).id = e.id
      /\ \A g \in Strip(es) : \E e \in es : g = Abstract!Stripped(e)
      /\ Strip(es) \in SUBSET Entry
  BY StrippedType DEF Strip
<1>2. ASSUME NEW from \in SUBSET es, NEW into \in SUBSET Strip(es),
             \A e \in from : Abstract!Stripped(e) \in into,
             \A g \in into : \E e \in from : g = Abstract!Stripped(e)
      PROVE  IsFiniteSet(into) /\ Cardinality(into) = Cardinality(from)
  <2> DEFINE s == [e \in from |-> Abstract!Stripped(e)]
  <2>1. IsFiniteSet(from)
    BY FS_Subset DEF Distinct
  <2>2. s \in Surjection(from, into)
    BY <1>2 DEF Surjection
  <2>3. \A e, f \in from : s[e] = s[f] => e = f
    <3> SUFFICES ASSUME NEW e \in from, NEW f \in from, s[e] = s[f]
                 PROVE  e = f
      OBVIOUS
    <3>1. Abstract!Stripped(e) = Abstract!Stripped(f)
      OBVIOUS
    <3>2. e.id = f.id
      BY <1>1, <3>1
    <3> QED BY <3>2 DEF Distinct
  <2>4. s \in Injection(from, into)
    BY <2>2, <2>3 DEF Injection, IsInjective, Surjection
  <2> HIDE DEF s
  <2> QED BY <2>1, <2>2, <2>4, FS_Surjection
<1>3. IsFiniteSet(Strip(es))
  BY <1>1, <1>2
<1>4. Distinct(Strip(es))
  <2> SUFFICES ASSUME NEW g \in Strip(es), NEW h \in Strip(es), g.id = h.id
               PROVE  g = h
    BY <1>3 DEF Distinct
  <2>1. PICK e \in es : g = Abstract!Stripped(e)
    BY <1>1
  <2>2. PICK f \in es : h = Abstract!Stripped(f)
    BY <1>1
  <2>3. e.id = f.id
    BY <1>1, <2>1, <2>2
  <2> QED BY <2>1, <2>2, <2>3 DEF Distinct
<1>5. ASSUME NEW id \in Nat
      PROVE  Cardinality(From(Strip(es), id)) = Cardinality(From(es, id))
  <2>1. From(es, id) \in SUBSET es /\ From(Strip(es), id) \in SUBSET Strip(es)
    BY DEF From
  <2>2. \A e \in From(es, id) : Abstract!Stripped(e) \in From(Strip(es), id)
    BY <1>1 DEF From
  <2>3. ASSUME NEW g \in From(Strip(es), id)
        PROVE  \E e \in From(es, id) : g = Abstract!Stripped(e)
    <3>1. PICK e \in es : g = Abstract!Stripped(e)
      BY <1>1 DEF From
    <3> QED BY <1>1, <3>1 DEF From
  <2> QED BY <1>2, <2>1, <2>2, <2>3
<1> QED BY <1>1, <1>4, <1>5

LEMMA VisibleKeeps ==
    ASSUME NEW es \in SUBSET Entry, Distinct(es), NEW retention
    PROVE  LET seen == Visible(TRUE, retention, es)
           IN  /\ seen \in SUBSET Entry /\ Distinct(seen)
               /\ \A e \in es : \E g \in seen : g.id = e.id
               /\ \A g \in seen : \E e \in es : g.id = e.id
               /\ \A id \in Nat : Cardinality(From(seen, id)) = Cardinality(From(es, id))
<1>1. CASE retention = "summary"
  <2>1. Visible(TRUE, retention, es) = Strip(es)
    BY <1>1 DEF Visible
  <2>2. /\ Strip(es) \in SUBSET Entry /\ Distinct(Strip(es))
        /\ \A e \in es : \E g \in Strip(es) : g.id = e.id
        /\ \A g \in Strip(es) : \E e \in es : g.id = e.id
        /\ \A id \in Nat : Cardinality(From(Strip(es), id)) = Cardinality(From(es, id))
    BY StripKeeps
  <2> QED BY <2>1, <2>2, Zenon
<1>2. CASE retention # "summary"
  <2>1. Visible(TRUE, retention, es) = es
    BY <1>2 DEF Visible
  <2> QED BY <2>1
<1> QED BY <1>1, <1>2

LEMMA VisibleOfPart ==
    ASSUME NEW es, NEW part \in SUBSET es, NEW retention
    PROVE  Visible(TRUE, retention, part) \in SUBSET Visible(TRUE, retention, es)
BY DEF Visible, Strip

-----------------------------------------------------------------------------
(* The files written keep what they can *)

\* What NoEntryLost asks of an entry of the file when es replaces it.
Kept(e, es) ==
    \/ e.id \in Ids(es)
    \/ ~Fits({f \in Visible(TRUE, policy.retention, file.entries) : f.id >= e.id} \cup es)

\* Finite, no two entries of one id, none from the future.
Filed(es) == Distinct(es) /\ \A e \in es : e.id <= clock

LoadableInv == file \in Abstract!File /\ FileInv /\ Filed(file.entries)

\* An entry too old to be loaded had too many newer ones in the file.
LEMMA UnloadedKept ==
    ASSUME LoadableInv, NEW e \in file.entries, e \notin Loaded, NEW es, IsFiniteSet(es)
    PROVE  Kept(e, es)
<1> DEFINE seen == Visible(TRUE, policy.retention, file.entries)
<1>1. file.entries \in SUBSET Entry /\ Distinct(file.entries) /\ e.id \in Nat
  BY DEF LoadableInv, Filed, Abstract!File, Abstract!Entry
<1>2. Loaded = Newest(file.entries, Limit)
  BY DEF LoadableInv, FileInv, Loaded
<1>3. Cardinality(From(file.entries, e.id)) > Limit
  BY <1>1, <1>2, NewestDrops DEF Distinct
<1>4. Distinct(seen) /\ Cardinality(From(seen, e.id)) > Limit
  BY <1>1, <1>3, VisibleKeeps
<1> HIDE DEF seen
<1>5. IsFiniteSet(From(seen, e.id) \cup es)
  BY <1>4, FS_Subset, FS_Union DEF Distinct, From
<1>6. ~Fits(From(seen, e.id) \cup es)
  BY <1>4, <1>5, TooMuch
<1> QED BY <1>6 DEF Kept, seen, From

\* What a store loads and may show is as orderly as the file.
LEMMA LoadedFiled ==
    ASSUME LoadableInv
    PROVE  LET seen == Visible(TRUE, policy.retention, Loaded)
           IN  /\ seen \in SUBSET Entry /\ Filed(seen)
               /\ seen \in SUBSET Visible(TRUE, policy.retention, file.entries)
               /\ \A e \in Loaded : \E g \in seen : g.id = e.id
               /\ \A g \in seen : \E e \in file.entries : g.id = e.id
<1>1. /\ Loaded \in SUBSET file.entries /\ Loaded \in SUBSET Entry
      /\ Distinct(file.entries) /\ \A e \in file.entries : e.id <= clock
  BY LoadedType DEF LoadableInv, Filed
<1>2. Distinct(Loaded)
  BY <1>1, FS_Subset DEF Distinct
<1>3. LET seen == Visible(TRUE, policy.retention, Loaded)
      IN  /\ seen \in SUBSET Entry /\ Distinct(seen)
          /\ \A e \in Loaded : \E g \in seen : g.id = e.id
          /\ \A g \in seen : \E e \in Loaded : g.id = e.id
  BY <1>1, <1>2, VisibleKeeps
<1>4. Visible(TRUE, policy.retention, Loaded) \in SUBSET Visible(TRUE, policy.retention, file.entries)
  BY <1>1, VisibleOfPart
<1> QED BY <1>1, <1>3, <1>4 DEF Filed

\* Part of what is filed is filed.
LEMMA FiledPart ==
    ASSUME NEW es, Filed(es), NEW part \in SUBSET es
    PROVE  Filed(part)
BY FS_Subset DEF Filed, Distinct

\* remove_ids, and set_retention("summary") which removes none: every other
\* entry stays unless the quota drops it.
LEMMA ReducedKept ==
    ASSUME LoadableInv, NEW ids,
           NEW es, es = {e \in Visible(TRUE, policy.retention, Loaded) : e.id \notin ids}
    PROVE  /\ Filed(Retained(es))
           /\ \A e \in file.entries : e.id \in ids \/ Kept(e, Retained(es))
<1> DEFINE seen == Visible(TRUE, policy.retention, Loaded)
           all == Visible(TRUE, policy.retention, file.entries)
<1>1. /\ seen \in SUBSET Entry /\ Filed(seen) /\ seen \in SUBSET all
      /\ \A e \in Loaded : \E g \in seen : g.id = e.id
  BY LoadedFiled
<1>2. IsFiniteSet(all)
  <2>1. file.entries \in SUBSET Entry /\ Distinct(file.entries)
    BY DEF LoadableInv, Filed, Abstract!File
  <2> QED BY <2>1, VisibleKeeps DEF Distinct
<1>3. es \in SUBSET seen /\ Retained(es) \in SUBSET es
  BY DEF Retained
<1>4. Filed(es) /\ Filed(Retained(es)) /\ IsFiniteSet(es) /\ IsFiniteSet(Retained(es))
  <2>1. Filed(seen) /\ Retained(es) \in SUBSET seen
    BY <1>1, <1>3
  <2> HIDE DEF seen
  <2>2. Filed(es) /\ Filed(Retained(es))
    BY <1>3, <2>1, FiledPart
  <2> QED BY <2>2 DEF Filed, Distinct
<1>5. ASSUME NEW e \in file.entries, e.id \notin ids, e \in Loaded, e.id \notin Ids(Retained(es))
      PROVE  Kept(e, Retained(es))
  <2>1. PICK g \in seen : g.id = e.id
    BY <1>1, <1>5
  <2>2. g \in es /\ g \notin Retained(es)
    BY <1>5, <2>1 DEF Ids
  <2>3. Cost(From(es, e.id)) > Quota
    BY <1>4, <2>1, <2>2, RetainedDrops
  <2> HIDE DEF all, seen
  <2>4. From(es, e.id) \in SUBSET (From(all, e.id) \cup Retained(es))
    BY <1>1, <1>3 DEF From
  <2>5. IsFiniteSet(From(all, e.id) \cup Retained(es))
    BY <1>2, <1>4, FS_Subset, FS_Union DEF From
  <2>6. ~Fits(From(all, e.id) \cup Retained(es))
    BY <2>3, <2>4, <2>5, TooMuch
  <2> QED BY <2>6 DEF Kept, From, all
<1>6. \A e \in file.entries : e \notin Loaded => Kept(e, Retained(es))
  BY <1>4, UnloadedKept
<1>7. \A e \in file.entries : e.id \in Ids(Retained(es)) => Kept(e, Retained(es))
  BY DEF Kept
<1> QED BY <1>4, <1>5, <1>6, <1>7

\* The newest entry is never dropped: a single one is within the limit, and
\* within the quota whether or not it carries the text.
LEMMA NewestStays ==
    ASSUME NEW es \in SUBSET Entry, IsFiniteSet(es), NEW n \in es, \A f \in es : ~(f.id > n.id),
           \A f \in es : f.id = n.id => f = n
    PROVE  n \in Retained(Newest(es, Limit))
<1> DEFINE newest == Newest(es, Limit)
<1>1. \A f \in es : f.id \in Nat
  BY DEF Abstract!Entry
<1>2. n \in newest
  <2>1. {f \in es : f.id > n.id} = {}
    OBVIOUS
  <2> QED BY <2>1, FS_EmptySet, LimitAssumption DEF Newest
<1>3. newest \in SUBSET es
  BY DEF Newest
<1> HIDE DEF newest
<1>4. {f \in newest : f.id >= n.id} = {n}
  BY <1>1, <1>2, <1>3
<1>5. Cost({n}) <= 2
  <2> DEFINE texts == {e \in {n} : e.full}
  <2>1. texts \in {{}, {n}}
    OBVIOUS
  <2>2. Cardinality({}) = 0 /\ Cardinality({n}) = 1
    BY FS_EmptySet, FS_Singleton
  <2>3. Cost({n}) = Cardinality({n}) + Cardinality(texts)
    BY DEF Cost
  <2> HIDE DEF texts
  <2>4. Cardinality(texts) \in {0, 1}
    BY <2>1, <2>2
  <2> QED BY <2>2, <2>3, <2>4
<1>6. Cost({n}) \in Nat
  BY FS_Singleton, CostGrows
<1>7. Cost({f \in newest : f.id >= n.id}) <= Quota
  <2>1. Cost({n}) <= Quota
    BY <1>5, <1>6, QuotaAssumption
  <2> QED BY <1>4, <2>1, Zenon
<1>8. n \in Retained(newest)
  BY <1>2, <1>7 DEF Retained
<1> QED BY <1>8 DEF newest

\* append: the result is added, and of the other entries only those that the
\* limit or the quota drops are missing.
LEMMA AppendedKept ==
    ASSUME LoadableInv, clock \in Nat, NEW n \in Entry, n.id = clock + 1,
           NEW es, es = {n} \cup Visible(TRUE, policy.retention, Loaded)
    PROVE  LET draft == Retained(Newest(es, Limit))
           IN  /\ Distinct(draft) /\ \A e \in draft : e.id <= clock + 1
               /\ \A e \in file.entries : Kept(e, draft)
<1> DEFINE seen == Visible(TRUE, policy.retention, Loaded)
           all == Visible(TRUE, policy.retention, file.entries)
           newest == Newest(es, Limit)
           draft == Retained(newest)
<1>1. /\ seen \in SUBSET Entry /\ Distinct(seen) /\ seen \in SUBSET all
      /\ \A e \in seen : e.id <= clock
      /\ \A e \in Loaded : \E g \in seen : g.id = e.id
  BY LoadedFiled DEF Filed
<1>2. IsFiniteSet(all)
  <2>1. file.entries \in SUBSET Entry /\ Distinct(file.entries)
    BY DEF LoadableInv, Filed, Abstract!File
  <2> QED BY <2>1, VisibleKeeps DEF Distinct
<1>3. es = {n} \cup seen
  OBVIOUS
<1>4. newest \in SUBSET es /\ draft \in SUBSET newest
  BY DEF Newest, Retained
<1> HIDE DEF seen, all
<1>5. \A f \in seen : f.id \in Nat /\ f.id <= clock
  BY <1>1 DEF Abstract!Entry
<1>6. /\ es \in SUBSET Entry /\ \A f \in es : f.id <= n.id
      /\ \A f \in es : ~(f.id > n.id) /\ (f.id = n.id => f = n)
  <2>1. es \in SUBSET Entry
    BY <1>1, <1>3
  <2>2. n.id \in Nat /\ n.id > clock
    BY DEF Abstract!Entry
  <2>3. ASSUME NEW f \in es
        PROVE  f.id <= n.id /\ ~(f.id > n.id) /\ (f.id = n.id => f = n)
    <3>1. f = n \/ f \in seen
      BY <1>3, <2>3, Zenon
    <3>2. CASE f = n
      <4>1. f.id \in Nat
        BY <2>2, <3>2, Zenon
      <4> QED BY <3>2, <4>1
    <3>3. CASE f \in seen
      <4>1. f.id \in Nat /\ f.id <= clock
        BY <1>5, <3>3, Zenon
      <4> QED BY <2>2, <4>1
    <3> QED BY <3>1, <3>2, <3>3
  <2> QED BY <2>1, <2>3, Zenon
<1>7. Distinct(es)
  <2>1. IsFiniteSet(es)
    <3>1. es = seen \cup {n} /\ IsFiniteSet(seen)
      BY <1>1, <1>3 DEF Distinct
    <3> QED BY <3>1, FS_AddElement
  <2>2. ASSUME NEW e \in es, NEW f \in es, e.id = f.id
        PROVE  e = f
    <3>1. CASE e = n \/ f = n
      BY <1>6, <2>2, <3>1
    <3>2. CASE e # n /\ f # n
      BY <1>1, <1>3, <2>2, <3>2 DEF Distinct
    <3> QED BY <3>1, <3>2
  <2> QED BY <2>1, <2>2 DEF Distinct
<1>8. Distinct(newest) /\ Distinct(draft)
  BY <1>4, <1>7, FS_Subset DEF Distinct
<1>9. n \in draft
  BY <1>3, <1>6, <1>7, NewestStays DEF Distinct
<1>10. \A e \in draft : e.id <= clock + 1
  BY <1>4, <1>6
<1>11. ASSUME NEW e \in file.entries, e \in Loaded, e.id \notin Ids(draft)
       PROVE  Kept(e, draft)
  <2> DEFINE x == From(all, e.id) \cup draft
  <2>1. PICK g \in seen : g.id = e.id
    BY <1>1, <1>11
  <2>2. g \in es /\ g \in Entry /\ g \notin draft
    BY <1>1, <1>3, <1>11, <2>1 DEF Ids
  <2>3. IsFiniteSet(x)
    BY <1>2, <1>8, FS_Subset, FS_Union DEF From, Distinct
  <2>4. From(es, e.id) \in SUBSET x /\ From(newest, e.id) \in SUBSET x
    BY <1>1, <1>3, <1>4, <1>9 DEF From
  <2> HIDE DEF x, newest, draft
  <2>5. CASE g \notin newest
    <3>1. Cardinality(From(es, e.id)) > Limit
      BY <1>6, <1>7, <2>1, <2>2, <2>5, NewestDrops DEF Distinct, newest
    <3> QED BY <2>3, <2>4, <3>1, TooMuch DEF x, Kept, From, all
  <2>6. CASE g \in newest
    <3>1. Cost(From(newest, e.id)) > Quota
      BY <1>8, <2>1, <2>2, <2>6, RetainedDrops DEF Distinct, draft
    <3> QED BY <2>3, <2>4, <3>1, TooMuch DEF x, Kept, From, all
  <2> QED BY <2>5, <2>6
<1>12. \A e \in file.entries : e \notin Loaded => Kept(e, draft)
  BY <1>8, UnloadedKept DEF Distinct
<1>13. \A e \in file.entries : e.id \in Ids(draft) => Kept(e, draft)
  BY DEF Kept
<1> QED BY <1>8, <1>10, <1>11, <1>12, <1>13

-----------------------------------------------------------------------------
(* What every file and every draft holds *)

\* What NoEntryLost needs: the history file is orderly, and what a worker is
\* about to write is too and keeps every entry of the file that is still
\* there while the worker holds the lock.
FilesInv ==
    /\ Filed(file.entries)
    /\ \A w \in Windows : job[w].pc = "writing" =>
          Filed(job[w].draft) /\ \A e \in file.entries : Kept(e, job[w].draft)

\* A step that leaves the files and the drafts alone.
LEMMA UndisturbedFiles ==
    ASSUME FilesInv, UNCHANGED <<policy, file, clock>>,
           \A v \in Windows : \/ job'[v].pc # "writing"
                              \/ job[v].pc = "writing" /\ job'[v].draft = job[v].draft
    PROVE  FilesInv'
<1>1. Filed(file.entries)'
  BY DEF FilesInv, Filed, Distinct
<1>2. ASSUME NEW v \in Windows, job'[v].pc = "writing"
      PROVE  (Filed(job[v].draft) /\ \A e \in file.entries : Kept(e, job[v].draft))'
  BY <1>2 DEF FilesInv, Filed, Distinct, Kept
<1> QED BY <1>1, <1>2 DEF FilesInv

\* A step after which nobody is about to write.
LEMMA ReleasedFiles ==
    ASSUME Filed(file'.entries), clock' = clock, \A v \in Windows : job'[v].pc # "writing"
    PROVE  FilesInv'
BY DEF FilesInv, Filed

LEMMA EmptyFiled == Filed({})
BY FS_EmptySet DEF Filed, Distinct

\* A worker fixes what it will write under the lock it takes.
LEMMA PreparedFiles ==
    ASSUME StoreInv, TransactionInv', FilesInv, NEW w \in Windows, AppendPrepares(w)
    PROVE  FilesInv'
<1> DEFINE n == NewEntry(w)
           es == {n} \cup Visible(TRUE, policy.retention, Loaded)
           draft == Retained(Newest(es, Limit))
<1>1. /\ job \in [Windows -> Job] /\ clock \in Nat /\ job[w].since \in Nat
      /\ LoadableInv
  BY DEF StoreInv, TypeOK, Job, LoadableInv, FilesInv
<1>2. n \in Entry /\ n.id = clock + 1
  BY <1>1 DEF NewEntry, Abstract!Entry
<1> HIDE DEF n
<1>3. PICK d : d = draft
  OBVIOUS
<1>4. /\ Distinct(d) /\ \A e \in d : e.id <= clock + 1
      /\ \A e \in file.entries : Kept(e, d)
  BY <1>1, <1>2, <1>3, AppendedKept
<1>5. /\ job' = [job EXCEPT ![w].pc = "writing", ![w].draft = d]
      /\ clock' = clock + 1 /\ lock' = Worker(w) /\ UNCHANGED <<policy, file>>
  BY <1>3 DEF AppendPrepares, n
<1> HIDE DEF draft
<1>6. job'[w].draft = d
  BY <1>1, <1>5 DEF Job
<1>7. \A v \in Windows : job'[v].pc = "writing" => v = w
  BY <1>5, HoldersDiffer DEF TransactionInv, WriterHolds
<1>8. Filed(file.entries)'
  <2>1. \A e \in file.entries : e.id \in Nat /\ e.id <= clock
    BY DEF StoreInv, TypeOK, Abstract!File, Abstract!Entry, FilesInv, Filed
  <2>2. \A e \in file.entries : e.id <= clock + 1
    BY <1>1, <2>1
  <2>3. Distinct(file.entries)
    BY DEF FilesInv, Filed
  <2> QED BY <1>5, <2>2, <2>3 DEF Filed, Distinct
<1>9. Filed(d)'
  BY <1>4, <1>5 DEF Filed
<1>10. \A e \in file'.entries : Kept(e, d)'
  BY <1>4, <1>5 DEF Kept
<1>11. ASSUME NEW v \in Windows, job'[v].pc = "writing"
       PROVE  (Filed(job[v].draft) /\ \A e \in file.entries : Kept(e, job[v].draft))'
  <2>1. job'[v].draft = d
    BY <1>6, <1>7, <1>11
  <2> QED BY <1>9, <1>10, <2>1 DEF Filed, Kept
<1> QED BY <1>8, <1>11 DEF FilesInv

\* The steps that write the file.
LEMMA WrittenFiles ==
    ASSUME StoreInv, FilesInv, NEW w \in Windows, WriteStep(w)
    PROVE  /\ Filed(file'.entries)
           /\ \A e \in file.entries : \/ Kept(e, file'.entries)
                                      \/ op[w].kind = "remove" /\ e.id \in op[w].ids
<1> DEFINE seen == Visible(TRUE, policy.retention, Loaded)
<1>1. LoadableInv
  BY DEF StoreInv, TypeOK, LoadableInv, FilesInv
<1>2. CASE ScrubFile(w)
  <2>1. policy.retention = "summary"
    BY <1>2 DEF ScrubFile, Committed, StoreInv, TransactionInv, CommittedHolds
  <2>2. PICK none : none = {}
    OBVIOUS
  <2>3. PICK es : es = {e \in seen : e.id \notin none}
    OBVIOUS
  <2>4. es = Strip(Loaded)
    BY <2>1, <2>2, <2>3 DEF Visible
  <2>5. /\ Filed(Retained(es))
        /\ \A e \in file.entries : e.id \in none \/ Kept(e, Retained(es))
    BY <1>1, <2>3, ReducedKept
  <2>6. file'.entries = Retained(es)
    BY <1>2, <2>4 DEF ScrubFile, Written
  <2> QED BY <2>2, <2>5, <2>6
<1>3. CASE RemoveEntries(w)
  <2>1. file'.entries = Retained({e \in seen : e.id \notin op[w].ids}) /\ op[w].kind = "remove"
    BY <1>3 DEF RemoveEntries, RemoveAllowed, Locks, Written
  <2> QED BY <1>1, <2>1, ReducedKept
<1>4. CASE AppendWrites(w)
  BY <1>4 DEF AppendWrites, FilesInv
<1> QED BY <1>2, <1>3, <1>4 DEF WriteStep

LEMMA WindowStepKeepsFiles ==
    ASSUME StoreInv, StoreInv', FilesInv, NEW w \in Windows, WindowStep(w)
    PROVE  FilesInv'
<1>0. TypeOK /\ TransactionInv /\ TransactionInv'
  BY DEF StoreInv
<1>1. CASE ReadStep(w)
  <2>1. Quiet(w)
    BY <1>0, <1>1, ReadStepsQuiet
  <2>2. \A v \in Windows : \/ job'[v].pc # "writing"
                           \/ job[v].pc = "writing" /\ job'[v].draft = job[v].draft
    BY <2>1 DEF Quiet
  <2>3. UNCHANGED <<policy, file, clock>>
    <3>1. clock' = clock
      BY <1>1 DEF ReadStep, Open, OpenLoads, LockBusy, PolicyRefused, CaptureToken, RefreshView,
         ChangeUnneeded, CommitFails, RemoveWhileDisabled, RemoveFails, Request, CancelJob,
         AnalysisEnds, AppendDropped, AppendRaises, ApplyResult
    <3> QED BY <2>1, <3>1 DEF Quiet
  <2> QED BY <2>2, <2>3, UndisturbedFiles
<1>2. CASE AppendPrepares(w)
  BY <1>0, <1>2, PreparedFiles
<1>3. CASE Crash(w)
  <2>1. job' = [job EXCEPT ![w] = NoJob] /\ UNCHANGED <<policy, file, clock>>
    BY <1>3 DEF Crash
  <2>2. \A v \in Windows : job'[v] = job[v] \/ job'[v].pc = "none"
    BY <1>0, <2>1 DEF TypeOK, NoJob
  <2> QED BY <2>1, <2>2, UndisturbedFiles
<1>4. CASE \/ LoadOnEnable(w) \/ FileStepFails(w) \/ AppendFails(w) \/ SettingsSyncFails(w)
           \/ CommitPolicy(w) \/ WriteStep(w) \/ EraseFile(w)
  <2>1. lock' \in {Free, Gui(w)} /\ clock' = clock
    BY <1>4 DEF LoadOnEnable, FileStepFails, AppendFails, SettingsSyncFails, CommitPolicy,
       WriteStep, ScrubFile, RemoveEntries, RemoveAllowed, AppendWrites, EraseFile, Decides, Locks
  <2>2. \A v \in Windows : job'[v].pc # "writing"
    BY <1>0, <2>1, HoldersDiffer DEF TransactionInv, WriterHolds
  <2>3. Filed(file'.entries)
    <3>1. CASE UNCHANGED file
      BY <3>1 DEF FilesInv
    <3>2. CASE WriteStep(w)
      BY <3>2, WrittenFiles
    <3>3. CASE EraseFile(w)
      BY <3>3, EmptyFiled DEF EraseFile, Abstract!Absent
    <3> QED BY <1>4, <3>1, <3>2, <3>3 DEF LoadOnEnable, FileStepFails, AppendFails,
         SettingsSyncFails, CommitPolicy
  <2> QED BY <2>1, <2>2, <2>3, ReleasedFiles
<1> QED BY <1>1, <1>2, <1>3, <1>4 DEF WindowStep, PrivateStep, CommitStep

LEMMA InitFiles == Init => FilesInv
<1> SUFFICES ASSUME Init PROVE FilesInv
  OBVIOUS
<1>1. Filed(file.entries)
  <2>1. CASE file = Abstract!Absent
    BY <2>1, EmptyFiled DEF Abstract!Absent
  <2>2. CASE \E e \in [id: {0}, rev: {0}, full: BOOLEAN] : file = [state |-> "ok", entries |-> {e}]
    <3>1. PICK e \in [id: {0}, rev: {0}, full: BOOLEAN] : file = [state |-> "ok", entries |-> {e}]
      BY <2>2
    <3>2. e.id = 0 /\ clock = 0
      BY DEF Init
    <3>3. IsFiniteSet({e})
      BY FS_Singleton
    <3>4. file.entries = {e}
      BY <3>1
    <3>5. Filed({e})
      BY <3>2, <3>3 DEF Filed, Distinct
    <3> QED BY <3>4, <3>5, Zenon
  <2> QED BY <2>1, <2>2 DEF Init, Abstract!Init
<1>2. \A w \in Windows : job[w].pc = "none"
  BY DEF Init, NoJob
<1> QED BY <1>1, <1>2 DEF FilesInv

LEMMA NextFiles == StoreInv /\ StoreInv' /\ FilesInv /\ [Next]_vars => FilesInv'
<1> SUFFICES ASSUME StoreInv, StoreInv', FilesInv, [Next]_vars PROVE FilesInv'
  OBVIOUS
<1>1. ASSUME NEW w \in Windows, WindowStep(w) PROVE FilesInv'
  BY <1>1, WindowStepKeepsFiles
<1>2. CASE DamageFile \/ DamagePolicy
  <2>1. lock' = Free /\ clock' = clock
    BY <1>2 DEF DamageFile, DamagePolicy
  <2>2. \A v \in Windows : job'[v].pc # "writing"
    BY <2>1, HoldersDiffer DEF StoreInv, TransactionInv, WriterHolds
  <2>3. Filed(file'.entries)
    BY <1>2, EmptyFiled DEF DamageFile, DamagePolicy, Abstract!Damaged, FilesInv
  <2> QED BY <2>1, <2>2, <2>3, ReleasedFiles
<1>3. CASE UNCHANGED vars
  BY <1>3, UndisturbedFiles DEF vars
<1> QED BY <1>1, <1>2, <1>3, NextSteps

LEMMA FilesInvariance == Spec => []FilesInv
<1>1. StoreInv /\ StoreInv' /\ FilesInv /\ [Next]_vars => FilesInv'
  BY NextFiles
<1> QED BY <1>1, InitFiles, Invariance, PTL DEF Spec

\* Windows do not overwrite each other's entries: whatever the interleaving
\* of windows and workers, an entry leaves the file only when the history is
\* erased, the entry is removed, the disk damages the file, or the entry and
\* the newer ones are more than the limit or the quota admits.
THEOREM EntriesKept == Spec => NoEntryLost
<1>1. ASSUME StoreInv, FilesInv, [Next]_vars, NEW e \in file.entries
      PROVE  e.id \in Ids(file'.entries) \/ Removed(e)
  <2>1. CASE file' = file
    BY <2>1 DEF Ids
  <2>2. ASSUME NEW w \in Windows, WindowStep(w)
        PROVE  file' = file \/ e.id \in Ids(file'.entries) \/ Removed(e)
    <3>1. CASE PrivateStep(w)
      BY <1>1, <3>1, PrivateStepsShareNothing DEF StoreInv
    <3>2. CASE CommitStep(w)
      BY <3>2 DEF CommitStep, CommitPolicy, SettingsSyncFails
    <3>3. CASE WriteStep(w)
      <4>1. Kept(e, file'.entries) \/ (op[w].kind = "remove" /\ e.id \in op[w].ids)
        BY <1>1, <3>3, WrittenFiles
      <4> QED BY <4>1 DEF Kept, Removed
    <3>4. CASE EraseFile(w)
      BY <3>4 DEF EraseFile, Removed
    <3> QED BY <2>2, <3>1, <3>2, <3>3, <3>4 DEF WindowStep
  <2>3. CASE DamageFile \/ DamagePolicy
    BY <2>1, <2>3 DEF DamageFile, DamagePolicy, Removed
  <2>4. CASE UNCHANGED vars
    BY <2>1, <2>4 DEF vars
  <2> QED BY <1>1, <2>1, <2>2, <2>3, <2>4, NextSteps
<1>2. StoreInv /\ FilesInv /\ [Next]_vars =>
        [\A e \in file.entries : e.id \in Ids(file'.entries) \/ Removed(e)]_vars
  BY <1>1
<1> QED BY <1>2, Invariance, FilesInvariance, PTL DEF Spec, NoEntryLost
=============================================================================
