--------------------------- MODULE PrivateHistory ---------------------------
(***************************************************************************)
(* What the persistent analysis history promises, whatever windows,        *)
(* workers and locks implement it: a committed privacy policy and a file   *)
(* of entries that only ever gains what the policy in force permits.       *)
(*                                                                         *)
(* An entry remembers the policy revision in force when its analysis was   *)
(* submitted (rev) and whether it still carries the configuration text     *)
(* (full).                                                                 *)
(***************************************************************************)
EXTENDS Naturals

VARIABLES
    policy,     \* the committed privacy policy (history.json.privacy.json)
    file        \* the history file (history.json)

abstractVars == <<policy, file>>

Retention == {"summary", "full"}

Policy == [valid: BOOLEAN, enabled: BOOLEAN, retention: Retention, revision: Nat]

Entry == [id: Nat, rev: Nat, full: BOOLEAN]

File == [state: {"absent", "ok", "damaged"}, entries: SUBSET Entry]

Absent == [state |-> "absent", entries |-> {}]

Damaged == [state |-> "damaged", entries |-> {}]

Stripped(e) == [e EXCEPT !.full = FALSE]

Init ==
    /\ policy \in [valid: {TRUE}, enabled: BOOLEAN, retention: Retention, revision: {0}]
    /\ file \in {Absent} \cup {[state |-> "ok", entries |-> {e}] : e \in [id: {0}, rev: {0}, full: BOOLEAN]}

\* Every change of policy is a new revision: a permission given under an
\* earlier revision is never valid again.
Decide ==
    /\ policy' \in Policy
    /\ policy'.valid
    /\ policy'.revision = policy.revision + 1
    /\ UNCHANGED file

\* An entry of the new file is an entry of the old one, perhaps stripped, or
\* the result of an analysis submitted under the policy now in force.
Permitted(e) ==
    \/ e.rev = policy.revision
    \/ \E f \in file.entries : e \in {f, Stripped(f)}

Rewrite ==
    /\ policy.valid
    /\ policy.enabled
    /\ file.state # "damaged"
    /\ file' \in File
    /\ file'.state = "ok"
    /\ \A e \in file'.entries :
          /\ Permitted(e)
          /\ policy.retention = "summary" => ~e.full
    /\ UNCHANGED policy

Erase ==
    /\ file' = Absent
    /\ UNCHANGED policy

\* Disk faults outside the program's control.
DamageFile ==
    /\ file' = Damaged
    /\ UNCHANGED policy

DamagePolicy ==
    /\ policy' = [policy EXCEPT !.valid = FALSE]
    /\ UNCHANGED file

Next == Decide \/ Rewrite \/ Erase \/ DamageFile \/ DamagePolicy

Spec == Init /\ [][Next]_abstractVars
=============================================================================
