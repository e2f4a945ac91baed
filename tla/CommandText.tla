---------------------------- MODULE CommandText ----------------------------
(***************************************************************************)
(* The words of a configuration line, as both vendor parsers read them: a  *)
(* line is its indentation and its sequence of words.  A word stands for   *)
(* one token in lower case; an instance says which words are numerals,     *)
(* which are addresses, and which network an address and a mask give.      *)
(***************************************************************************)
EXTENDS Integers, Sequences, FiniteSets, SequencesExt

CONSTANTS NumberOf,    \* numeral -> the number it denotes
          FamilyOf,    \* address -> 4 or 6
          NetworkOf,   \* <<address, mask>> -> [family, base, bits]
          WildcardOf   \* contiguous wildcard -> the mask it inverts

ASSUME NumberAssumption == \A w \in DOMAIN NumberOf : NumberOf[w] \in Nat
ASSUME NetworkAssumption ==
  \A p \in DOMAIN NetworkOf : NetworkOf[p].family = FamilyOf[p[1]]

\* The fields of r, and those of s that r has not.
Extended(r, s) == [k \in DOMAIN r \cup DOMAIN s |-> IF k \in DOMAIN r THEN r[k] ELSE s[k]]

NoWord == ""     \* an absent argument or VPN
NoKey == <<>>    \* an absent key or identity

Numeral(w) == w \in DOMAIN NumberOf
IsAddress(w) == w \in DOMAIN FamilyOf
IsNetwork(p) == p \in DOMAIN NetworkOf
OwnNetwork(p) == IsNetwork(p) /\ NetworkOf[p].base = p[1]

From(ws, i) == SubSeq(ws, i, Len(ws))
Upto(ws, i) == SubSeq(ws, 1, i)
Is(ws, p) == IsPrefix(p, ws)
\* startswith("p "): the words of p and at least one more.
Begins(ws, p) == IsPrefix(p, ws) /\ Len(ws) > Len(p)
BeginsAny(ws, ps) == \E p \in ps : Begins(ws, p)
Has(ws, w) == \E i \in DOMAIN ws : ws[i] = w
IndexOf(ws, w) == CHOOSE i \in DOMAIN ws : ws[i] = w /\ \A j \in 1..(i - 1) : ws[j] # w
\* The word after the first w, where there is one.
WordAfter(ws, w) ==
  IF Has(ws, w) /\ IndexOf(ws, w) < Len(ws) THEN ws[IndexOf(ws, w) + 1] ELSE NoWord
\* The words before the first w, all of them where w does not occur.
Before(ws, w) == IF Has(ws, w) THEN Upto(ws, IndexOf(ws, w) - 1) ELSE ws

Undone(ws) == Begins(ws, <<"undo">>)
\* The command a line names, with or without a leading undo.
Base(ws) == IF Undone(ws) THEN Tail(ws) ELSE ws

\* A type and a number written apart are one name.
Joined(ws, types) ==
  IF Len(ws) >= 2 /\ ws[1] \in types /\ Numeral(ws[2])
  THEN <<ws[1] \o ws[2]>> \o From(ws, 3) ELSE ws
\* The number of an interface name of the given type, 0 for another one.
NumberIn(name, type) ==
  LET ds == {d \in DOMAIN NumberOf : name = type \o d} IN
  IF ds = {} THEN 0 ELSE NumberOf[CHOOSE d \in ds : TRUE]

=============================================================================
