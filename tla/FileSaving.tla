----------------------------- MODULE FileSaving -----------------------------
(***************************************************************************)
(* gui/file_saving.py: save_configuration, the metadata-preserving atomic  *)
(* save of a configuration, against other programs and other windows of    *)
(* this one that write the same destination, file-system errors and        *)
(* crashes.                                                                *)
(*                                                                         *)
(* What is on disk is abstracted to versions: every write makes a new one, *)
(* and a FileIdentity (device, inode, size, time, digest) is the version   *)
(* it was taken of.  Version None stands for a path without a file.        *)
(***************************************************************************)
EXTENDS Integers, FiniteSets

CONSTANTS
    Savers,         \* windows that save to the same destination
    MaxSaves,       \* bound: calls of save_configuration
    MaxOthers,      \* bound: changes another program makes to the destination
    MaxFaults       \* bound: file-system errors and crashes

ASSUME SavingBounds == MaxSaves \in Nat /\ MaxOthers \in Nat /\ MaxFaults \in Nat

VARIABLES
    platform,   \* "posix" or "windows": which branch _replace takes
    target,     \* version at the destination, or None
    temporary,  \* the save's temporary file, per saver
    backup,     \* ReplaceFileW's backup of the original, per saver
    placeholder, \* is the empty file that reserves the backup's name there
    orphans,    \* versions in files that earlier calls and dead processes left
    save,       \* the call in progress, per saver
    identity,   \* the version the user approved: _file_identity, per saver
    reported,   \* files named by the last SaveRecoveryError, per saver
    raced,      \* history: someone changed the destination behind a save's back,
                \* after its last inspection or after it restored the original
    made,       \* versions made so far
    saves, others, faults

vars == <<platform, target, temporary, backup, placeholder, orphans, save, identity, reported,
          raced, made, saves, others, faults>>

\* What only the save itself touches.
files == <<target, temporary, backup, placeholder>>

None == 0

Leftovers == {"temporary", "backup"}

Steps == {"idle", "inspected", "written", "checked", "linked", "reserved", "ready", "swapped",
          "moved", "relinked", "placed", "cleanup"}

\* Between the second inspection and the replacement.
Replacing == {"checked", "reserved", "ready"}

Call == [pc: Steps, expected: Nat]

Idle == [pc |-> "idle", expected |-> None]

-----------------------------------------------------------------------------
(* Helpers *)

At(w, step) == save[w].pc = step

Goes(w, step) == save' = [save EXCEPT ![w].pc = step]

Ends(w) == save' = [save EXCEPT ![w] = Idle]

MayFail == faults > 0 /\ faults' = faults - 1

\* The destination changes under the calls of these savers.
RacedBy(ws) ==
    raced' = [v \in Savers |-> raced[v] \/ (v \in ws /\ save[v].pc \in Replacing \cup {"relinked"})]

\* SaveRecoveryError: the call ends, naming the files that are kept.
Reports(w, names) ==
    /\ reported' = [reported EXCEPT ![w] = names]
    /\ Ends(w)

Kept(w) ==
    (IF temporary[w] # None THEN {"temporary"} ELSE {})
      \cup (IF backup[w] # None THEN {"backup"} ELSE {})

\* A new call has names of its own; what an earlier one kept stays on disk.
StartsCall(w) ==
    /\ At(w, "idle")
    /\ saves > 0
    /\ saves' = saves - 1
    /\ orphans' = orphans \cup ({temporary[w], backup[w]} \ {None})
    /\ temporary' = [temporary EXCEPT ![w] = None]
    /\ backup' = [backup EXCEPT ![w] = None]
    /\ placeholder' = [placeholder EXCEPT ![w] = FALSE]
    /\ reported' = [reported EXCEPT ![w] = {}]
    /\ raced' = [raced EXCEPT ![w] = FALSE]
    /\ UNCHANGED <<platform, target, identity, made, others, faults>>

-----------------------------------------------------------------------------
Init ==
    /\ platform \in {"posix", "windows"}
    /\ target \in {None, 1}
    /\ made = 1
    /\ temporary = [w \in Savers |-> None]
    /\ backup = [w \in Savers |-> None]
    /\ placeholder = [w \in Savers |-> FALSE]
    /\ orphans = {}
    /\ save = [w \in Savers |-> Idle]
    /\ identity = [w \in Savers |-> None]
    /\ reported = [w \in Savers |-> {}]
    /\ raced = [w \in Savers |-> FALSE]
    /\ saves = MaxSaves
    /\ others = MaxOthers
    /\ faults = MaxFaults

\* The user of w loads the file, or confirms the conflict dialog, which shows
\* the destination as it is now: its identity is approved for replacement.
Approve(w) ==
    /\ At(w, "idle")
    /\ identity' = [identity EXCEPT ![w] = target]
    /\ UNCHANGED <<platform, files, orphans, save, reported, raced, made, saves, others, faults>>

\* saveSourceFile and save_configuration inspect the destination; when it is
\* not what was approved the call is refused (FileChangedError, or a conflict).
Inspect(w) ==
    /\ StartsCall(w)
    /\ IF target = identity[w]
       THEN save' = [save EXCEPT ![w] = [pc |-> "inspected", expected |-> identity[w]]]
       ELSE UNCHANGED save

\* The text goes to a private temporary file beside the destination, which
\* then takes over the metadata of the file it will replace.
WriteTemporary(w) ==
    /\ At(w, "inspected")
    /\ made' = made + 1
    /\ temporary' = [temporary EXCEPT ![w] = made + 1]
    /\ Goes(w, "written")
    /\ UNCHANGED <<platform, target, backup, placeholder, orphans, identity, reported, raced, saves, others, faults>>

\* Read-only or unwritable destination, a full disk, metadata that cannot be
\* read or set: with or without a temporary file to remove.
WriteFails(w) ==
    /\ At(w, "inspected") \/ At(w, "written")
    /\ MayFail
    /\ Goes(w, "cleanup")
    /\ UNCHANGED <<platform, files, orphans, identity, reported, raced, made, saves, others>>

\* Variant: the second inspection is left out.
RecheckNothing(w) ==
    /\ At(w, "written")
    /\ Goes(w, "checked")
    /\ UNCHANGED <<platform, files, orphans, identity, reported, raced, made, saves, others, faults>>

\* The second inspection, just before the replacement.
Recheck(w) ==
    /\ At(w, "written")
    /\ Goes(w, IF target = save[w].expected THEN "checked" ELSE "cleanup")
    /\ UNCHANGED <<platform, files, orphans, identity, reported, raced, made, saves, others, faults>>

-----------------------------------------------------------------------------
(* _replace *)

\* Variant: a new destination is replaced like an existing one.
LinkOver(w) ==
    /\ At(w, "checked")
    /\ save[w].expected = None
    /\ target' = temporary[w]
    /\ RacedBy(Savers \ {w})
    /\ Goes(w, "linked")
    /\ UNCHANGED <<platform, temporary, backup, placeholder, orphans, identity, reported, made, saves, others, faults>>

\* os.link to a new destination: refused when a file has appeared there.
Link(w) ==
    /\ At(w, "checked")
    /\ save[w].expected = None
    /\ IF target = None
       THEN /\ target' = temporary[w]
            /\ RacedBy(Savers \ {w})
            /\ Goes(w, "linked")
       ELSE /\ Goes(w, "cleanup")
            /\ UNCHANGED <<target, raced>>
    /\ UNCHANGED <<platform, temporary, backup, placeholder, orphans, identity, reported, made, saves, others, faults>>

\* The second name of the linked file goes, or is reported.
UnlinkTemporary(w) ==
    /\ At(w, "linked")
    /\ temporary' = [temporary EXCEPT ![w] = None]
    /\ Goes(w, "placed")
    /\ UNCHANGED <<platform, target, backup, placeholder, orphans, identity, reported, raced, made, saves, others, faults>>

UnlinkTemporaryFails(w) ==
    /\ At(w, "linked")
    /\ MayFail
    /\ Reports(w, {"temporary"})
    /\ UNCHANGED <<platform, files, orphans, identity, raced, made, saves, others>>

\* os.replace takes the place of whatever is at the destination by then.
Rename(w) ==
    /\ At(w, "checked")
    /\ save[w].expected # None
    /\ platform = "posix"
    /\ target' = temporary[w]
    /\ temporary' = [temporary EXCEPT ![w] = None]
    /\ RacedBy(Savers \ {w})
    /\ Goes(w, "placed")
    /\ UNCHANGED <<platform, backup, placeholder, orphans, identity, reported, made, saves, others, faults>>

\* On Windows mkstemp first finds a free name for the backup, by making an
\* empty file of that name, which must go before ReplaceFileW can use it.
ReserveBackup(w) ==
    /\ At(w, "checked")
    /\ save[w].expected # None
    /\ platform = "windows"
    /\ placeholder' = [placeholder EXCEPT ![w] = TRUE]
    /\ Goes(w, "reserved")
    /\ UNCHANGED <<platform, target, temporary, backup, orphans, identity, reported, raced, made, saves, others, faults>>

FreeBackupName(w) ==
    /\ At(w, "reserved")
    /\ placeholder' = [placeholder EXCEPT ![w] = FALSE]
    /\ Goes(w, "ready")
    /\ UNCHANGED <<platform, target, temporary, backup, orphans, identity, reported, raced, made, saves, others, faults>>

\* The empty file cannot be made, or, once made, cannot be closed or removed:
\* a plain OSError, after which it stays where it is.
BackupNameFails(w) ==
    /\ \/ At(w, "checked") /\ save[w].expected # None /\ platform = "windows"
       \/ At(w, "reserved")
    /\ MayFail
    /\ Goes(w, "cleanup")
    /\ UNCHANGED <<platform, files, orphans, identity, reported, raced, made, saves, others>>

\* ReplaceFileW moves the destination to the backup name and the temporary
\* file to the destination.

SwapFiles(w) ==
    /\ At(w, "ready")
    /\ target # None
    /\ target' = temporary[w]
    /\ backup' = [backup EXCEPT ![w] = target]
    /\ temporary' = [temporary EXCEPT ![w] = None]
    /\ RacedBy(Savers \ {w})
    /\ Goes(w, "swapped")
    /\ UNCHANGED <<platform, placeholder, orphans, identity, reported, made, saves, others, faults>>

\* It can stop halfway, when the destination has already been moved away.
SwapStopsHalfway(w) ==
    /\ At(w, "ready")
    /\ target # None
    /\ MayFail
    /\ target' = None
    /\ backup' = [backup EXCEPT ![w] = target]
    /\ RacedBy(Savers \ {w})
    /\ Goes(w, "moved")
    /\ UNCHANGED <<platform, temporary, placeholder, orphans, identity, reported, made, saves, others>>

\* Or fail with everything in place; and it fails when there is nothing to
\* replace, which is reported because nothing is at the destination then.
SwapFails(w) ==
    /\ At(w, "ready")
    /\ IF target = None
       THEN Reports(w, Kept(w)) /\ UNCHANGED faults
       ELSE MayFail /\ Goes(w, "cleanup") /\ UNCHANGED reported
    /\ UNCHANGED <<platform, files, orphans, identity, raced, made, saves, others>>

\* Variant: the backup of a successful replacement is forgotten.
KeepBackup(w) ==
    /\ At(w, "swapped")
    /\ Goes(w, "placed")
    /\ UNCHANGED <<platform, files, orphans, identity, reported, raced, made, saves, others, faults>>

DropBackup(w) ==
    /\ At(w, "swapped")
    /\ backup' = [backup EXCEPT ![w] = None]
    /\ Goes(w, "placed")
    /\ UNCHANGED <<platform, target, temporary, placeholder, orphans, identity, reported, raced, made, saves, others, faults>>

DropBackupFails(w) ==
    /\ At(w, "swapped")
    /\ MayFail
    /\ Reports(w, {"backup"})
    /\ UNCHANGED <<platform, files, orphans, identity, raced, made, saves, others>>

\* Variant: the original is moved back over whatever is there.
RestoreOver(w) ==
    /\ At(w, "moved")
    /\ target' = backup[w]
    /\ RacedBy(Savers \ {w})
    /\ Goes(w, "relinked")
    /\ UNCHANGED <<platform, temporary, backup, placeholder, orphans, identity, reported, made, saves, others, faults>>

\* The original gets its name back, unless another program has put a file
\* there: then both the original and the new text are kept and reported.
RestoreOriginal(w) ==
    /\ At(w, "moved")
    /\ IF target = None
       THEN /\ target' = backup[w]
            /\ RacedBy(Savers \ {w})
            /\ Goes(w, "relinked")
            /\ UNCHANGED reported
       ELSE /\ Reports(w, Kept(w))
            /\ UNCHANGED <<target, raced>>
    /\ UNCHANGED <<platform, temporary, backup, placeholder, orphans, identity, made, saves, others, faults>>

RestoreFails(w) ==
    /\ At(w, "moved") \/ At(w, "relinked")
    /\ MayFail
    /\ Reports(w, Kept(w))
    /\ UNCHANGED <<platform, files, orphans, identity, raced, made, saves, others>>

\* The backup's name goes.  If the restored original has meanwhile been
\* deleted the new text is kept and reported, otherwise the error is.
UnlinkBackup(w) ==
    /\ At(w, "relinked")
    /\ backup' = [backup EXCEPT ![w] = None]
    /\ IF target = None
       THEN Reports(w, {"temporary"})
       ELSE Goes(w, "cleanup") /\ UNCHANGED reported
    /\ UNCHANGED <<platform, target, temporary, placeholder, orphans, identity, raced, made, saves, others, faults>>

-----------------------------------------------------------------------------
(* The end of the call *)

\* The identity of the saved file is taken from the destination as it is now;
\* a file that is gone again is an error, and the text stays unsaved.
Identify(w) ==
    /\ At(w, "placed")
    /\ identity' = IF target # None THEN [identity EXCEPT ![w] = target] ELSE identity
    /\ Ends(w)
    /\ UNCHANGED <<platform, files, orphans, reported, raced, made, saves, others, faults>>

IdentifyFails(w) ==
    /\ At(w, "placed")
    /\ MayFail
    /\ Ends(w)
    /\ UNCHANGED <<platform, files, orphans, identity, reported, raced, made, saves, others>>

\* Variant: a temporary file that cannot be removed is not reported.
CleanUpSilently(w) ==
    /\ At(w, "cleanup")
    /\ \/ temporary' = [temporary EXCEPT ![w] = None] /\ UNCHANGED faults
       \/ MayFail /\ UNCHANGED temporary
    /\ Ends(w)
    /\ UNCHANGED <<platform, target, backup, placeholder, orphans, identity, reported, raced, made, saves, others>>

\* The finally block: the temporary file is removed, or reported.
CleanUp(w) ==
    /\ At(w, "cleanup")
    /\ \/ /\ temporary' = [temporary EXCEPT ![w] = None]
          /\ Ends(w)
          /\ UNCHANGED <<reported, faults>>
       \/ /\ temporary[w] # None
          /\ MayFail
          /\ Reports(w, {"temporary"})
          /\ UNCHANGED temporary
    /\ UNCHANGED <<platform, target, backup, placeholder, orphans, identity, raced, made, saves, others>>

SaveStep(w) ==
    \/ WriteTemporary(w) \/ WriteFails(w) \/ Recheck(w)
    \/ Link(w) \/ UnlinkTemporary(w) \/ UnlinkTemporaryFails(w)
    \/ Rename(w)
    \/ ReserveBackup(w) \/ FreeBackupName(w) \/ BackupNameFails(w)
    \/ SwapFiles(w) \/ SwapStopsHalfway(w) \/ SwapFails(w) \/ DropBackup(w) \/ DropBackupFails(w)
    \/ RestoreOriginal(w) \/ RestoreFails(w) \/ UnlinkBackup(w)
    \/ Identify(w) \/ IdentifyFails(w) \/ CleanUp(w)

-----------------------------------------------------------------------------
(* The environment *)

\* The process dies in the middle of a save; its files stay.
Crash(w) ==
    /\ ~At(w, "idle")
    /\ MayFail
    /\ orphans' = orphans \cup ({temporary[w], backup[w]} \ {None})
    /\ temporary' = [temporary EXCEPT ![w] = None]
    /\ backup' = [backup EXCEPT ![w] = None]
    /\ placeholder' = [placeholder EXCEPT ![w] = FALSE]
    /\ identity' = [identity EXCEPT ![w] = None]
    /\ reported' = [reported EXCEPT ![w] = {}]
    /\ Ends(w)
    /\ UNCHANGED <<platform, target, raced, made, saves, others>>

\* Another program writes, replaces or deletes the destination.
OtherWrites ==
    /\ others > 0
    /\ others' = others - 1
    /\ made' = made + 1
    /\ target' = made + 1
    /\ RacedBy(Savers)
    /\ UNCHANGED <<platform, temporary, backup, placeholder, orphans, save, identity, reported, saves, faults>>

OtherDeletes ==
    /\ others > 0
    /\ target # None
    /\ others' = others - 1
    /\ target' = None
    /\ RacedBy(Savers)
    /\ UNCHANGED <<platform, temporary, backup, placeholder, orphans, save, identity, reported, made, saves, faults>>

Next ==
    \/ \E w \in Savers : Approve(w) \/ Inspect(w) \/ SaveStep(w) \/ Crash(w)
    \/ OtherWrites
    \/ OtherDeletes

Spec == Init /\ [][Next]_vars

-----------------------------------------------------------------------------
(* Properties *)

\* The files a call works on at each of its steps.
FilesInStep(w) ==
    LET has == Kept(w) IN
    CASE At(w, "idle") -> TRUE
      [] At(w, "inspected") \/ At(w, "placed") -> has = {}
      [] At(w, "written") \/ At(w, "checked") \/ At(w, "linked") -> has = {"temporary"}
      [] At(w, "reserved") \/ At(w, "ready") -> has = {"temporary"}
      [] At(w, "swapped") -> has = {"backup"}
      [] At(w, "moved") \/ At(w, "relinked") -> has = {"temporary", "backup"}
      [] At(w, "cleanup") -> has \subseteq {"temporary"}

TypeOK ==
    /\ platform \in {"posix", "windows"}
    /\ target \in Nat
    /\ temporary \in [Savers -> Nat]
    /\ backup \in [Savers -> Nat]
    /\ placeholder \in [Savers -> BOOLEAN]
    /\ orphans \in SUBSET Nat
    /\ save \in [Savers -> Call]
    /\ identity \in [Savers -> Nat]
    /\ reported \in [Savers -> SUBSET Leftovers]
    /\ raced \in [Savers -> BOOLEAN]
    /\ made \in Nat
    /\ saves \in Nat /\ others \in Nat /\ faults \in Nat
    /\ \A w \in Savers : FilesInStep(w)

\* When a save ends, the files with a version in them that it leaves beside
\* the destination are exactly those its SaveRecoveryError names: no text
\* stays unreported, and nothing that was promised for recovery is removed
\* (save_configuration's finally block, _replace's partial failures).  The
\* exception is the empty file that reserved the backup's name: when it cannot
\* be removed it stays and no error names it, but then there is no backup, and
\* the original has not been moved (_replace, line 191).
LeftoversReported ==
    \A w \in Savers : At(w, "idle") =>
        /\ reported[w] = Kept(w)
        /\ placeholder[w] => backup[w] = None

\* A save that passed its last inspection replaces the version the user
\* approved, unless someone else changes the destination in the gap before
\* the replacement, which os.replace and ReplaceFileW cannot close.
CheckedIsApproved ==
    \A w \in Savers :
        /\ save[w].pc \in Replacing /\ ~raced[w] => target = save[w].expected
        /\ At(w, "swapped") /\ ~raced[w] => backup[w] = save[w].expected
        /\ At(w, "relinked") /\ ~raced[w] => target = backup[w]

OnDisk ==
    ({target} \cup {temporary[w] : w \in Savers} \cup {backup[w] : w \in Savers} \cup orphans) \ {None}

\* No save, failure or crash takes a version off the disk but: the text of
\* the save itself, which the editor still holds; the version its user
\* approved, once the new text is in place; or what another program put
\* there behind the save's back.
MayVanish(v) ==
    \/ save' = save                     \* another program's own doing
    \/ \E w \in Savers :
          \/ v = temporary[w]
          \/ v = save[w].expected /\ temporary'[w] = None
          \/ raced[w]

NothingLost == [][\A v \in OnDisk \ OnDisk' : MayVanish(v)]_vars

\* Saving under a new name never replaces a file, however late it appeared
\* (_replace: os.link cannot overwrite a newly appeared destination).
NewNeverOverwrites ==
    [][\A w \in Savers : save[w].pc # "idle" /\ save[w].expected = None /\ save'[w] # save[w] =>
          target' = target \/ target = None]_vars
=============================================================================
