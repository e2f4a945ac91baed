--------------------------- MODULE FileSavingProofs ---------------------------
(***************************************************************************)
(* Proofs about FileSaving, for any number of savers, saves, changes by    *)
(* other programs, errors and crashes.                                     *)
(***************************************************************************)
EXTENDS FileSaving, TLAPS

\* The inductive invariant: which files each step of a save works on, what is
\* reported when it ends, and what it replaces.
NothingReportedYet == \A w \in Savers : ~At(w, "idle") => reported[w] = {}

\* Only a file that exists is replaced through a backup, and the empty file that
\* reserves the backup's name is gone before there is one.
BackupReserved ==
    \A w \in Savers :
        /\ At(w, "reserved") \/ At(w, "ready") => save[w].expected # None
        /\ placeholder[w] => backup[w] = None /\ save[w].pc \in {"idle", "reserved", "cleanup"}

SaveInv ==
    TypeOK /\ LeftoversReported /\ CheckedIsApproved /\ NothingReportedYet /\ BackupReserved

-----------------------------------------------------------------------------
(* The invariant is inductive *)

\* The part of the invariant that speaks of one saver.
Sound(w) ==
    /\ FilesInStep(w)
    /\ reported[w] = IF At(w, "idle") THEN Kept(w) ELSE {}
    /\ At(w, "reserved") \/ At(w, "ready") => save[w].expected # None
    /\ placeholder[w] => backup[w] = None /\ save[w].pc \in {"idle", "reserved", "cleanup"}
    /\ save[w].pc \in Replacing /\ ~raced[w] => target = save[w].expected
    /\ At(w, "swapped") /\ ~raced[w] => backup[w] = save[w].expected
    /\ At(w, "relinked") /\ ~raced[w] => target = backup[w]

\* The types alone.
Typed ==
    /\ platform \in {"posix", "windows"}
    /\ target \in Nat
    /\ temporary \in [Savers -> Nat]
    /\ backup \in [Savers -> Nat]
    /\ placeholder \in [Savers -> BOOLEAN]
    /\ orphans \in SUBSET Nat
    /\ save \in [Savers -> Call]
    /\ identity \in [Savers -> Nat]
    /\ reported \in [Savers -> SUBSET Leftovers]
    /\ raced \in [Savers -> BOOLEAN]
    /\ made \in Nat
    /\ saves \in Nat /\ others \in Nat /\ faults \in Nat

LEMMA SaverBySaver ==
    /\ SaveInv <=> Typed /\ \A w \in Savers : Sound(w)
    /\ SaveInv' <=> Typed' /\ \A w \in Savers : Sound(w)'
BY DEF SaveInv, TypeOK, Typed, Sound, LeftoversReported, CheckedIsApproved,
       NothingReportedYet, BackupReserved

\* A saver that a step leaves alone keeps its part, when the destination it
\* may be about to replace stays or is marked as raced.
LEMMA Untouched ==
    ASSUME Typed, NEW v \in Savers, Sound(v),
           save'[v] = save[v], temporary'[v] = temporary[v], backup'[v] = backup[v],
           placeholder'[v] = placeholder[v], reported'[v] = reported[v], raced[v] => raced'[v],
           target' = target \/ raced'[v] \/ ~(save[v].pc \in Replacing \cup {"relinked"})
    PROVE  Sound(v)'
<1>1. At(v, "idle")' = At(v, "idle") /\ Kept(v)' = Kept(v) /\ FilesInStep(v)'
  BY DEF Sound, FilesInStep, Kept, At
<1>2. reported'[v] = IF At(v, "idle")' THEN Kept(v)' ELSE {}
  BY <1>1 DEF Sound
<1>3. placeholder'[v] => backup'[v] = None /\ save'[v].pc \in {"idle", "reserved", "cleanup"}
  BY DEF Sound
<1>4. /\ save'[v].pc \in Replacing /\ ~raced'[v] => target' = save'[v].expected
      /\ At(v, "reserved")' \/ At(v, "ready")' => save'[v].expected # None
      /\ At(v, "swapped")' /\ ~raced'[v] => backup'[v] = save'[v].expected
      /\ At(v, "relinked")' /\ ~raced'[v] => target' = backup'[v]
  BY DEF Sound, At
<1>5. QED BY <1>1, <1>2, <1>3, <1>4 DEF Sound

LEMMA InitialSaves == Init => SaveInv
<1> SUFFICES ASSUME Init PROVE Typed /\ \A w \in Savers : Sound(w)
  BY SaverBySaver
<1>1. Idle \in Call
  BY DEF Idle, Call, Steps, None
<1>2. Typed
  BY <1>1, SavingBounds DEF Init, Typed, None, Leftovers
<1>3. ASSUME NEW w \in Savers PROVE Sound(w)
  BY DEF Init, Sound, FilesInStep, Kept, At, Idle, None, Replacing
<1>4. QED BY <1>2, <1>3

-----------------------------------------------------------------------------
(* A step of saver w leaves the other savers alone *)

LEMMA OtherSavers ==
    ASSUME Typed, NEW w \in Savers, SaveStep(w) \/ Inspect(w) \/ Approve(w) \/ Crash(w)
    PROVE  \A v \in Savers \ {w} : /\ save'[v] = save[v]
                                   /\ temporary'[v] = temporary[v] /\ backup'[v] = backup[v]
                                   /\ placeholder'[v] = placeholder[v]
                                   /\ reported'[v] = reported[v]
                                   /\ raced[v] => raced'[v]
                                   /\ target' = target \/ raced'[v] \/ ~(save[v].pc \in Replacing \cup {"relinked"})
<1> USE DEF files, Typed, Goes, Ends, Reports
<1>1. CASE Approve(w) \/ Inspect(w) \/ Crash(w)
  BY <1>1 DEF Approve, Inspect, StartsCall, Crash
<1>2. CASE WriteTemporary(w) \/ WriteFails(w) \/ Recheck(w)
  BY <1>2 DEF WriteTemporary, WriteFails, Recheck
<1>3. CASE Link(w) \/ UnlinkTemporary(w) \/ UnlinkTemporaryFails(w) \/ Rename(w)
  BY <1>3 DEF Link, UnlinkTemporary, UnlinkTemporaryFails, Rename, RacedBy, At
<1>4. CASE SwapFiles(w) \/ SwapStopsHalfway(w) \/ SwapFails(w)
  BY <1>4 DEF SwapFiles, SwapStopsHalfway, SwapFails, RacedBy, At
<1>5. CASE DropBackup(w) \/ DropBackupFails(w) \/ UnlinkBackup(w)
  BY <1>5 DEF DropBackup, DropBackupFails, UnlinkBackup
<1>6. CASE RestoreOriginal(w) \/ RestoreFails(w)
  BY <1>6 DEF RestoreOriginal, RestoreFails, RacedBy, At
<1>7. CASE Identify(w) \/ IdentifyFails(w) \/ CleanUp(w)
  BY <1>7 DEF Identify, IdentifyFails, CleanUp
<1>8. CASE ReserveBackup(w) \/ FreeBackupName(w) \/ BackupNameFails(w)
  BY <1>8 DEF ReserveBackup, FreeBackupName, BackupNameFails
<1>9. QED BY <1>1, <1>2, <1>3, <1>4, <1>5, <1>6, <1>7, <1>8 DEF SaveStep

\* A step of saver w keeps the types, action by action.
LEMMA OwnTypes ==
    ASSUME Typed, NEW w \in Savers, SaveStep(w) \/ Inspect(w) \/ Approve(w) \/ Crash(w)
    PROVE  Typed'
<1>1. \A s \in Steps : Goes(w, s) => save' \in [Savers -> Call]
  BY DEF Goes, Typed, Call
<1>2. Ends(w) => save' \in [Savers -> Call]
  BY DEF Ends, Typed, Call, Idle, Steps, None
<1>3. \A n \in SUBSET Leftovers : Reports(w, n) =>
          reported' \in [Savers -> SUBSET Leftovers] /\ save' \in [Savers -> Call]
  BY <1>2 DEF Reports, Typed
<1>4. \A ws : RacedBy(ws) => raced' \in [Savers -> BOOLEAN]
  BY DEF RacedBy, Typed
<1>5. MayFail => faults' \in Nat
  BY DEF MayFail, Typed
<1>6. Kept(w) \in SUBSET Leftovers /\ {"temporary"} \in SUBSET Leftovers
         /\ {"backup"} \in SUBSET Leftovers /\ {} \in SUBSET Leftovers
  BY DEF Kept, Leftovers
<1>7. Steps = {"idle", "inspected", "written", "checked", "linked", "reserved", "ready",
               "swapped", "moved", "relinked", "placed", "cleanup"}
  BY DEF Steps
<1> HIDE DEF Steps
<1> USE DEF files, Typed, None
<1>8. CASE Approve(w)
  BY <1>1, <1>2, <1>3, <1>4, <1>5, <1>6, <1>7, <1>8 DEF Approve
<1>9. CASE Inspect(w)
  <2>1. orphans' \in SUBSET Nat
    BY <1>9 DEF Inspect, StartsCall
  <2>2. "inspected" \in Steps /\ {} \in SUBSET Leftovers
    BY <1>6, <1>7
  <2>3. save' \in [Savers -> Call]
    BY <1>9, <2>2 DEF Inspect, Call
  <2>4. /\ temporary' \in [Savers -> Nat] /\ backup' \in [Savers -> Nat]
        /\ reported' \in [Savers -> SUBSET Leftovers] /\ raced' \in [Savers -> BOOLEAN]
        /\ placeholder' \in [Savers -> BOOLEAN]
    BY <1>9, <2>2 DEF Inspect, StartsCall
  <2>5. saves' \in Nat
    BY <1>9 DEF Inspect, StartsCall
  <2>6. UNCHANGED <<platform, target, identity, made, others, faults>>
    BY <1>9 DEF Inspect, StartsCall
  <2>7. QED BY <2>1, <2>3, <2>4, <2>5, <2>6
<1>10. CASE Crash(w)
  <2>1. orphans' \in SUBSET Nat
    <3>1. {temporary[w], backup[w]} \ {None} \in SUBSET Nat
      OBVIOUS
    <3>2. QED BY <1>10, <3>1 DEF Crash
  <2>2. save' \in [Savers -> Call] /\ faults' \in Nat
    BY <1>10, <1>2, <1>5 DEF Crash
  <2>3. /\ temporary' \in [Savers -> Nat] /\ backup' \in [Savers -> Nat]
        /\ identity' \in [Savers -> Nat] /\ placeholder' \in [Savers -> BOOLEAN]
    BY <1>10 DEF Crash
  <2>4. reported' \in [Savers -> SUBSET Leftovers]
    BY <1>10, <1>6 DEF Crash
  <2>5. UNCHANGED <<platform, target, raced, made, saves, others>>
    BY <1>10 DEF Crash
  <2>6. QED BY <2>1, <2>2, <2>3, <2>4, <2>5
<1>11. CASE WriteTemporary(w)
  BY <1>1, <1>2, <1>3, <1>4, <1>5, <1>6, <1>7, <1>11 DEF WriteTemporary
<1>12. CASE WriteFails(w)
  BY <1>1, <1>2, <1>3, <1>4, <1>5, <1>6, <1>7, <1>12 DEF WriteFails
<1>13. CASE Recheck(w)
  BY <1>1, <1>2, <1>3, <1>4, <1>5, <1>6, <1>7, <1>13 DEF Recheck
<1>14. CASE Link(w)
  BY <1>1, <1>2, <1>3, <1>4, <1>5, <1>6, <1>7, <1>14 DEF Link
<1>15. CASE UnlinkTemporary(w)
  BY <1>1, <1>2, <1>3, <1>4, <1>5, <1>6, <1>7, <1>15 DEF UnlinkTemporary
<1>16. CASE UnlinkTemporaryFails(w)
  BY <1>1, <1>2, <1>3, <1>4, <1>5, <1>6, <1>7, <1>16 DEF UnlinkTemporaryFails
<1>17. CASE Rename(w)
  BY <1>1, <1>2, <1>3, <1>4, <1>5, <1>6, <1>7, <1>17 DEF Rename
<1>18. CASE SwapFiles(w)
  BY <1>1, <1>2, <1>3, <1>4, <1>5, <1>6, <1>7, <1>18 DEF SwapFiles
<1>19. CASE SwapStopsHalfway(w)
  BY <1>1, <1>2, <1>3, <1>4, <1>5, <1>6, <1>7, <1>19 DEF SwapStopsHalfway
<1>20. CASE SwapFails(w)
  BY <1>1, <1>2, <1>3, <1>4, <1>5, <1>6, <1>7, <1>20 DEF SwapFails
<1>21. CASE DropBackup(w)
  BY <1>1, <1>2, <1>3, <1>4, <1>5, <1>6, <1>7, <1>21 DEF DropBackup
<1>22. CASE DropBackupFails(w)
  BY <1>1, <1>2, <1>3, <1>4, <1>5, <1>6, <1>7, <1>22 DEF DropBackupFails
<1>23. CASE RestoreOriginal(w)
  BY <1>1, <1>2, <1>3, <1>4, <1>5, <1>6, <1>7, <1>23 DEF RestoreOriginal
<1>24. CASE RestoreFails(w)
  BY <1>1, <1>2, <1>3, <1>4, <1>5, <1>6, <1>7, <1>24 DEF RestoreFails
<1>25. CASE UnlinkBackup(w)
  BY <1>1, <1>2, <1>3, <1>4, <1>5, <1>6, <1>7, <1>25 DEF UnlinkBackup
<1>26. CASE Identify(w)
  BY <1>1, <1>2, <1>3, <1>4, <1>5, <1>6, <1>7, <1>26 DEF Identify
<1>27. CASE IdentifyFails(w)
  BY <1>1, <1>2, <1>3, <1>4, <1>5, <1>6, <1>7, <1>27 DEF IdentifyFails
<1>28. CASE CleanUp(w)
  BY <1>1, <1>2, <1>3, <1>4, <1>5, <1>6, <1>7, <1>28 DEF CleanUp
<1>29. CASE ReserveBackup(w)
  BY <1>1, <1>2, <1>3, <1>4, <1>5, <1>6, <1>7, <1>29 DEF ReserveBackup
<1>30. CASE FreeBackupName(w)
  BY <1>1, <1>2, <1>3, <1>4, <1>5, <1>6, <1>7, <1>30 DEF FreeBackupName
<1>31. CASE BackupNameFails(w)
  BY <1>1, <1>2, <1>3, <1>4, <1>5, <1>6, <1>7, <1>31 DEF BackupNameFails
<1>32. QED
  BY <1>8, <1>9, <1>10, <1>11, <1>12, <1>13, <1>14, <1>15, <1>16, <1>17, <1>18, <1>19, <1>20, <1>21, <1>22, <1>23, <1>24, <1>25, <1>26, <1>27, <1>28, <1>29, <1>30, <1>31 DEF SaveStep

\* A step of saver w keeps its own part.
LEMMA OwnSoundness ==
    ASSUME Typed, NEW w \in Savers, Sound(w), SaveStep(w) \/ Inspect(w) \/ Approve(w) \/ Crash(w)
    PROVE  Sound(w)'
<1>1. \A s \in Steps : Goes(w, s) => save'[w].pc = s /\ save'[w].expected = save[w].expected
  BY DEF Goes, Typed, Call
<1>2. Ends(w) => save'[w].pc = "idle"
  BY DEF Ends, Typed, Idle
<1>3. \A n \in SUBSET Leftovers : Reports(w, n) => reported'[w] = n /\ save'[w].pc = "idle"
  BY <1>2 DEF Reports, Typed
<1>4. RacedBy(Savers \ {w}) => raced'[w] = raced[w]
  BY DEF RacedBy, Typed
<1>5. Kept(w) \in SUBSET Leftovers /\ {"temporary"} \in SUBSET Leftovers
         /\ {"backup"} \in SUBSET Leftovers
  BY DEF Kept, Leftovers
<1>6. Steps = {"idle", "inspected", "written", "checked", "linked", "reserved", "ready",
               "swapped", "moved", "relinked", "placed", "cleanup"}
  BY DEF Steps
<1> HIDE DEF Steps
<1> USE <1>1, <1>2, <1>3, <1>4, <1>5, <1>6 DEF files, Typed, Sound, FilesInStep, Kept, At, None, Replacing
<1>7. CASE Approve(w)
  BY <1>7 DEF Approve
<1>8. CASE Inspect(w)
  <2>1. temporary'[w] = None /\ backup'[w] = None /\ reported'[w] = {} /\ ~placeholder'[w]
    BY <1>8 DEF Inspect, StartsCall
  <2>2. save'[w].pc \in {"idle", "inspected"}
    BY <1>8 DEF Inspect, StartsCall, Idle
  <2>3. QED BY <2>1, <2>2
<1>9. CASE Crash(w)
  <2>1. save'[w].pc = "idle" /\ reported'[w] = {}
    BY <1>9 DEF Crash
  <2>2. temporary'[w] = None /\ backup'[w] = None /\ ~placeholder'[w]
    BY <1>9 DEF Crash
  <2>3. QED BY <2>1, <2>2
<1>10. CASE WriteTemporary(w)
  <2>1. save'[w].pc = "written"
    BY <1>10 DEF WriteTemporary
  <2>2. temporary'[w] # None /\ backup'[w] = None
    BY <1>10 DEF WriteTemporary
  <2>3. reported'[w] = {} /\ ~placeholder'[w]
    BY <1>10 DEF WriteTemporary
  <2>4. QED BY <2>1, <2>2, <2>3
<1>11. CASE WriteFails(w)
  BY <1>11 DEF WriteFails
<1>12. CASE Recheck(w)
  BY <1>12 DEF Recheck
<1>13. CASE Link(w)
  BY <1>13 DEF Link
<1>14. CASE UnlinkTemporary(w)
  BY <1>14 DEF UnlinkTemporary
<1>15. CASE UnlinkTemporaryFails(w)
  BY <1>15 DEF UnlinkTemporaryFails
<1>16. CASE Rename(w)
  BY <1>16 DEF Rename
<1>17. CASE SwapFiles(w)
  BY <1>17 DEF SwapFiles
<1>18. CASE SwapStopsHalfway(w)
  BY <1>18 DEF SwapStopsHalfway
<1>19. CASE SwapFails(w)
  BY <1>19 DEF SwapFails
<1>20. CASE DropBackup(w)
  BY <1>20 DEF DropBackup
<1>21. CASE DropBackupFails(w)
  BY <1>21 DEF DropBackupFails
<1>22. CASE RestoreOriginal(w)
  BY <1>22 DEF RestoreOriginal
<1>23. CASE RestoreFails(w)
  BY <1>23 DEF RestoreFails
<1>24. CASE UnlinkBackup(w)
  BY <1>24 DEF UnlinkBackup
<1>25. CASE Identify(w)
  BY <1>25 DEF Identify
<1>26. CASE IdentifyFails(w)
  BY <1>26 DEF IdentifyFails
<1>27. CASE CleanUp(w)
  <2>1. save'[w].pc = "idle" /\ backup[w] = None /\ backup'[w] = None
    BY <1>27 DEF CleanUp
  <2>2. reported'[w] = IF temporary'[w] # None THEN {"temporary"} ELSE {}
    BY <1>27 DEF CleanUp
  <2>3. QED BY <2>1, <2>2
<1>28. CASE ReserveBackup(w)
  <2>1. save'[w].pc = "reserved" /\ save'[w].expected = save[w].expected /\ save[w].expected # None
    BY <1>28 DEF ReserveBackup
  <2>2. temporary'[w] # None /\ backup'[w] = None /\ reported'[w] = {}
    BY <1>28 DEF ReserveBackup
  <2>3. ~raced'[w] => target' = save'[w].expected
    BY <1>28, <2>1 DEF ReserveBackup
  <2>4. QED BY <2>1, <2>2, <2>3
<1>29. CASE FreeBackupName(w)
  BY <1>29 DEF FreeBackupName
<1>30. CASE BackupNameFails(w)
  BY <1>30 DEF BackupNameFails
<1>31. QED
  BY <1>7, <1>8, <1>9, <1>10, <1>11, <1>12, <1>13, <1>14, <1>15, <1>16, <1>17, <1>18, <1>19, <1>20, <1>21, <1>22, <1>23, <1>24, <1>25, <1>26, <1>27, <1>28, <1>29, <1>30 DEF SaveStep

\* Another program's change touches no saver's files and marks those it races.
LEMMA OtherPrograms ==
    ASSUME Typed, OtherWrites \/ OtherDeletes
    PROVE  /\ Typed'
           /\ \A w \in Savers : /\ save'[w] = save[w] /\ reported'[w] = reported[w]
                                /\ temporary'[w] = temporary[w] /\ backup'[w] = backup[w]
                                /\ placeholder'[w] = placeholder[w]
                                /\ raced[w] => raced'[w]
                                /\ raced'[w] \/ ~(save[w].pc \in Replacing \cup {"relinked"})
<1>1. RacedBy(Savers)
  BY DEF OtherWrites, OtherDeletes
<1>2. raced' \in [Savers -> BOOLEAN]
  BY <1>1 DEF RacedBy, Typed
<1>3. \A w \in Savers : raced'[w] = (raced[w] \/ save[w].pc \in Replacing \cup {"relinked"})
  BY <1>1, Zenon DEF RacedBy
<1>4. Typed'
  <2>1. CASE OtherWrites
    BY <1>2, <2>1 DEF OtherWrites, Typed
  <2>2. CASE OtherDeletes
    BY <1>2, <2>2 DEF OtherDeletes, Typed, None
  <2>3. QED BY <2>1, <2>2
<1>5. UNCHANGED <<save, reported, temporary, backup, placeholder>>
  BY DEF OtherWrites, OtherDeletes
<1>6. QED BY <1>3, <1>4, <1>5

LEMMA Preservation == SaveInv /\ [Next]_vars => SaveInv'
<1> SUFFICES ASSUME Typed, \A w \in Savers : Sound(w), [Next]_vars
             PROVE  Typed' /\ \A w \in Savers : Sound(w)'
  BY SaverBySaver
<1>1. ASSUME NEW w \in Savers, SaveStep(w) \/ Inspect(w) \/ Approve(w) \/ Crash(w)
      PROVE  Typed' /\ \A v \in Savers : Sound(v)'
  <2>1. Typed' /\ Sound(w)'
    BY <1>1, OwnTypes, OwnSoundness
  <2>2. ASSUME NEW v \in Savers \ {w} PROVE Sound(v)'
    BY <1>1, OtherSavers, Untouched
  <2>3. QED BY <2>1, <2>2
<1>2. CASE OtherWrites \/ OtherDeletes
  BY <1>2, OtherPrograms, Untouched
<1>3. CASE UNCHANGED vars
  <2>1. Typed'
    BY <1>3 DEF vars, Typed
  <2>2. ASSUME NEW v \in Savers PROVE Sound(v)'
    BY <1>3, Untouched DEF vars
  <2>3. QED BY <2>1, <2>2
<1>4. QED BY <1>1, <1>2, <1>3 DEF Next

LEMMA SaveInvariance == Spec => []SaveInv
BY InitialSaves, Preservation, PTL DEF Spec

-----------------------------------------------------------------------------
(* The theorems *)

\* The types, and which files a call works on at each of its steps.
THEOREM SavingTypeCorrect == Spec => []TypeOK
<1>1. SaveInv => TypeOK
  BY DEF SaveInv
<1>2. QED BY <1>1, SaveInvariance, PTL

\* However many windows save, and whatever fails, the files holding a version
\* that a save leaves are exactly those its SaveRecoveryError names, and where
\* the empty file of a backup's name stays behind there is no backup.
THEOREM LeftoversNamed == Spec => []LeftoversReported
<1>1. SaveInv => LeftoversReported
  BY DEF SaveInv
<1>2. QED BY <1>1, SaveInvariance, PTL

\* The second inspection: a save replaces what its user approved, unless the
\* destination changed in the gap after that inspection.
THEOREM ChecksHold == Spec => []CheckedIsApproved
<1>1. SaveInv => CheckedIsApproved
  BY DEF SaveInv
<1>2. QED BY <1>1, SaveInvariance, PTL

-----------------------------------------------------------------------------
(* What a step may do to the files *)

\* Only five actions of a save change the destination.
LEMMA DestinationSteps ==
    ASSUME NEW w \in Savers, SaveStep(w) \/ Inspect(w) \/ Approve(w) \/ Crash(w)
    PROVE  \/ target' = target
           \/ Link(w) \/ Rename(w) \/ SwapFiles(w) \/ SwapStopsHalfway(w) \/ RestoreOriginal(w)
BY DEF SaveStep, files, Approve, Inspect, Crash, WriteTemporary, WriteFails, Recheck, UnlinkTemporary, UnlinkTemporaryFails, ReserveBackup, FreeBackupName, BackupNameFails, SwapFails, DropBackup, DropBackupFails, RestoreFails, UnlinkBackup, Identify, IdentifyFails, CleanUp, StartsCall

\* A file saved under a new name replaces nothing, whoever put a file there
\* and however late.
THEOREM NothingOverwritten == Spec => NewNeverOverwrites
<1> DEFINE Keeps == \A w \in Savers :
                      (save[w].pc # "idle" /\ save[w].expected = None /\ save'[w] # save[w]) =>
                         (target' = target \/ target = None)
<1>1. ASSUME SaveInv, [Next]_vars PROVE Keeps
  <2>1. Typed
    BY <1>1, SaverBySaver
  <2>2. ASSUME NEW u \in Savers, SaveStep(u) \/ Inspect(u) \/ Approve(u) \/ Crash(u) PROVE Keeps
    <3>1. \A w \in Savers \ {u} : save'[w] = save[w]
      BY <2>1, <2>2, OtherSavers
    <3>2. \/ target' = target \/ target = None
          \/ save[u].expected # None
      <4>1. At(u, "ready") => save[u].expected # None
        BY <1>1, <2>2 DEF SaveInv, BackupReserved
      <4>2. QED
        BY <2>2, <4>1, DestinationSteps DEF Link, Rename, SwapFiles, SwapStopsHalfway, RestoreOriginal
    <3>3. QED BY <3>1, <3>2
  <2>3. CASE OtherWrites \/ OtherDeletes \/ UNCHANGED vars
    BY <2>3 DEF OtherWrites, OtherDeletes, vars
  <2>4. QED BY <1>1, <2>2, <2>3 DEF Next
<1>2. SaveInv /\ [Next]_vars => [Keeps]_vars
  BY <1>1
<1>3. QED BY <1>2, SaveInvariance, PTL DEF Spec, NewNeverOverwrites

\* A step of saver w moves only its own files and the destination; what other
\* savers and earlier calls have on disk stays.
LEMMA OthersStayOnDisk ==
    ASSUME Typed, NEW w \in Savers, SaveStep(w) \/ Inspect(w) \/ Approve(w) \/ Crash(w),
           NEW v \in OnDisk \ OnDisk'
    PROVE  v \in {target, temporary[w], backup[w]} /\ v # None
<1>1. orphans \subseteq orphans'
  BY DEF SaveStep, WriteTemporary, WriteFails, Recheck, Link, UnlinkTemporary,
         UnlinkTemporaryFails, Rename, ReserveBackup, FreeBackupName, BackupNameFails, SwapFiles,
         SwapStopsHalfway, SwapFails, DropBackup,
         DropBackupFails, RestoreOriginal, RestoreFails, UnlinkBackup, Identify,
         IdentifyFails, CleanUp, Inspect, StartsCall, Approve, Crash
<1>2. \A u \in Savers \ {w} : temporary'[u] = temporary[u] /\ backup'[u] = backup[u]
  BY OtherSavers
<1>3. QED BY <1>1, <1>2 DEF OnDisk

\* What an own step can lose of the saver's backup.
LEMMA BackupSteps ==
    ASSUME Typed, NEW w \in Savers, Sound(w),
           SaveStep(w) \/ Inspect(w) \/ Approve(w) \/ Crash(w)
    PROVE  \/ backup'[w] = backup[w]
           \/ backup[w] \in orphans' \cup {None}
           \/ DropBackup(w) \/ UnlinkBackup(w)
<1>1. CASE SwapFiles(w) \/ SwapStopsHalfway(w)
  <2>1. At(w, "ready")
    BY <1>1 DEF SwapFiles, SwapStopsHalfway
  <2>2. backup[w] = None
    BY <2>1 DEF Sound, FilesInStep, At, Kept
  <2>3. QED BY <2>2
<1>2. CASE Inspect(w) \/ Crash(w)
  BY <1>2 DEF Inspect, StartsCall, Crash
<1>3. CASE Approve(w) \/ (SaveStep(w) /\ ~SwapFiles(w) /\ ~SwapStopsHalfway(w))
  BY <1>3 DEF SaveStep, files, WriteTemporary, WriteFails, Recheck, Link, UnlinkTemporary,
         UnlinkTemporaryFails, Rename, ReserveBackup, FreeBackupName, BackupNameFails, SwapFails, DropBackupFails,
         RestoreOriginal,
         RestoreFails, Identify, IdentifyFails, CleanUp, Approve
<1>4. QED BY <1>1, <1>2, <1>3

\* What goes from the disk is the save's own text, the approved version once
\* the new text is in place, or something put there behind the save's back.
THEOREM NoVersionLost == Spec => NothingLost
<1> DEFINE Kind == \A v \in OnDisk \ OnDisk' : MayVanish(v)
<1>1. ASSUME SaveInv, [Next]_vars PROVE Kind
  <2>1. Typed /\ \A w \in Savers : Sound(w)
    BY <1>1, SaverBySaver
  <2>2. ASSUME NEW w \in Savers, SaveStep(w) \/ Inspect(w) \/ Approve(w) \/ Crash(w),
               NEW v \in OnDisk \ OnDisk', v # temporary[w], ~raced[w]
        PROVE  v = save[w].expected /\ temporary'[w] = None
    <3>1. v \in {target, backup[w]} /\ v # None
      BY <2>1, <2>2, OthersStayOnDisk
    <3>2. v # target' /\ v # backup'[w] /\ v \notin orphans'
      BY <2>1, <2>2, <3>1 DEF OnDisk
    <3>3. CASE v = target
      <4>1. Rename(w)
        <5>1. Link(w) \/ Rename(w) \/ SwapFiles(w) \/ SwapStopsHalfway(w) \/ RestoreOriginal(w)
          BY <2>2, <3>2, <3>3, DestinationSteps
        <5>2. SwapFiles(w) \/ SwapStopsHalfway(w) => backup'[w] = target
          BY <2>1 DEF SwapFiles, SwapStopsHalfway, Typed
        <5>3. Link(w) \/ RestoreOriginal(w) => target = None \/ target' = target
          BY DEF Link, RestoreOriginal
        <5>4. QED BY <3>1, <3>2, <3>3, <5>1, <5>2, <5>3
      <4>2. At(w, "checked") /\ temporary'[w] = None
        BY <2>1, <4>1 DEF Rename, Typed
      <4>3. target = save[w].expected
        BY <2>1, <2>2, <4>2 DEF Sound, At, Replacing
      <4>4. QED BY <3>3, <4>2, <4>3
    <3>4. CASE v = backup[w] /\ v # target
      <4>1. DropBackup(w) \/ UnlinkBackup(w)
        BY <2>1, <2>2, <3>1, <3>2, <3>4, BackupSteps
      <4>2. ~UnlinkBackup(w)
        <5>1. UnlinkBackup(w) => At(w, "relinked")
          BY DEF UnlinkBackup
        <5>2. QED BY <2>1, <2>2, <3>4, <5>1 DEF Sound
      <4>3. At(w, "swapped") /\ temporary' = temporary
        BY <4>1, <4>2 DEF DropBackup
      <4>4. backup[w] = save[w].expected
        BY <2>1, <2>2, <4>3 DEF Sound
      <4>5. temporary[w] = None
        <5>1. Kept(w) = {"backup"}
          BY <2>1, <4>3 DEF Sound, FilesInStep, At
        <5>2. QED BY <5>1 DEF Kept
      <4>6. QED BY <3>4, <4>3, <4>4, <4>5
    <3>5. QED BY <3>1, <3>3, <3>4
  <2>3. CASE OtherWrites \/ OtherDeletes \/ UNCHANGED vars
    BY <2>3 DEF OtherWrites, OtherDeletes, vars, MayVanish
  <2>4. QED BY <1>1, <2>2, <2>3 DEF Next, MayVanish
<1>2. SaveInv /\ [Next]_vars => [Kind]_vars
  BY <1>1
<1>3. QED BY <1>2, SaveInvariance, PTL DEF Spec, NothingLost
=============================================================================
