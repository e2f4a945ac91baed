---------------------------- MODULE MCWorkspace ----------------------------
(***************************************************************************)
(* Workspace for TLC: three documents, two sets of options, one file.      *)
(***************************************************************************)
EXTENDS Workspace

CONSTANTS empty, config, sample, plain, guided, p, q, nowhere

Texts3 == {empty, config, sample}
Options2 == {plain, guided}

\* Inputs of the user, changes by other programs, failures.
Mixed == {<<5, 0, 1>>, <<4, 1, 1>>}
Failing == {<<6, 0, 1>>}

OneFile == {p}
=============================================================================
