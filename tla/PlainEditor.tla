---------------------------- MODULE PlainEditor ----------------------------
(***************************************************************************)
(* What the editor promises to its user: one text with undo and redo.      *)
(* Nothing is said of pages, of edit spans or of the visible text.  past   *)
(* and future are the texts that undo and redo go back to.                 *)
(***************************************************************************)
EXTENDS Sequences, SequencesExt

CONSTANT Texts

VARIABLES text, past, future

Init == /\ text \in Texts
        /\ past = <<>>
        /\ future = <<>>

(* Another document is shown: nothing can be undone any more. *)
Open(t) == /\ text' = t
           /\ past' = <<>>
           /\ future' = <<>>

(* An edit is an undo step of its own or, typed on, part of the last one. *)
Edit(t) == /\ text' = t
           /\ \/ past' = Append(past, text)
              \/ past # <<>> /\ past' = past
           /\ future' = <<>>

Undo == /\ past # <<>>
        /\ text' = Last(past)
        /\ past' = Front(past)
        /\ future' = Append(future, text)

Redo == /\ future # <<>>
        /\ text' = Last(future)
        /\ future' = Front(future)
        /\ past' = Append(past, text)

Next == \/ text' \in Texts /\ (Open(text') \/ Edit(text'))
        \/ Undo
        \/ Redo

Spec == Init /\ [][Next]_<<text, past, future>>
=============================================================================
