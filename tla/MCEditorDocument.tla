-------------------------- MODULE MCEditorDocument --------------------------
EXTENDS EditorDocument
CONSTANTS letter, newline
(* Every letter is an astral character: offsets and lengths differ. *)
MCSymbols == {letter, newline}
MCWide == {letter}
(* Empty, short, with and without a line end at the seams of the pages. *)
MCDocuments ==
    LET a == letter n == newline
    IN  {<<>>, <<a, n>>, <<a, a, n, a, a>>, <<a, n, n, a, n>>, <<a, a, a, a>>}
=============================================================================
