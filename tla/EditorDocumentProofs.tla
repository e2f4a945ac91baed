------------------------ MODULE EditorDocumentProofs ------------------------
(***************************************************************************)
(* Proofs about EditorDocument: the copies of the document agree, the      *)
(* pages tile it, marks and edits are where they should be, and the undo   *)
(* history implements PlainEditor, for every text, page size and limit.    *)
(*                                                                         *)
(* Undoes and Redoes name the texts behind the entries of a history, Moves *)
(* what a step may do to a history, Sound that the copies in an editor are *)
(* of one document.  Each operator of the bridge is shown to keep Sound    *)
(* and to move the history, each action to keep the invariant IInv.        *)
(***************************************************************************)
EXTENDS EditorDocument, FiniteSetTheorems, SequenceTheorems, WellFoundedInduction, TLAPS

Texts == Seq(Symbols)

----------------------------------------------------------------------------
(* Parts and splices *)

LEMMA TextLength ==
    ASSUME NEW t \in Texts
    PROVE  /\ Len(t) \in Nat
           /\ DOMAIN t = 1 .. Len(t)
           /\ \A i \in 1 .. Len(t) : t[i] \in Symbols
BY DEF Texts

LEMMA SameText ==
    ASSUME NEW s \in Texts, NEW t \in Texts,
           Len(s) = Len(t), \A i \in 1 .. Len(s) : s[i] = t[i]
    PROVE  s = t
BY SeqEqual DEF Texts

LEMMA Joined ==
    ASSUME NEW s \in Texts, NEW t \in Texts
    PROVE  /\ s \o t \in Texts
           /\ Len(s \o t) = Len(s) + Len(t)
           /\ \A i \in 1 .. Len(s) : (s \o t)[i] = s[i]
           /\ \A i \in 1 .. Len(t) : (s \o t)[Len(s) + i] = t[i]
<1>1. /\ s \o t \in Texts
      /\ Len(s \o t) = Len(s) + Len(t)
      /\ \A i \in 1 .. Len(s) + Len(t) :
            (s \o t)[i] = IF i <= Len(s) THEN s[i] ELSE t[i - Len(s)]
  BY ConcatProperties DEF Texts
<1>2. Len(s) \in Nat /\ Len(t) \in Nat
  BY TextLength
<1>3. ASSUME NEW i \in 1 .. Len(s) PROVE (s \o t)[i] = s[i]
  BY <1>1, <1>2
<1>4. ASSUME NEW i \in 1 .. Len(t) PROVE (s \o t)[Len(s) + i] = t[i]
  <2>1. Len(s) + i \in 1 .. Len(s) + Len(t) /\ ~ (Len(s) + i <= Len(s)) /\ Len(s) + i - Len(s) = i
    BY <1>2
  <2> QED BY <1>1, <2>1
<1> QED BY <1>1, <1>3, <1>4

LEMMA PartOf ==
    ASSUME NEW t \in Texts, NEW a \in 0 .. Len(t), NEW b \in a .. Len(t)
    PROVE  /\ Part(t, a, b) \in Texts
           /\ Len(Part(t, a, b)) = b - a
           /\ \A i \in 1 .. b - a : Part(t, a, b)[i] = t[a + i]
<1>1. Len(t) \in Nat /\ a \in Nat /\ b \in Nat /\ a <= b /\ b <= Len(t)
  BY TextLength
<1>2. \A i \in a + 1 .. b : t[i] \in Symbols
  BY <1>1, TextLength
<1>3. a + 1 \in Int /\ b \in Int
  BY <1>1
<1>4. /\ SubSeq(t, a + 1, b) \in Seq(Symbols)
      /\ Len(SubSeq(t, a + 1, b)) = IF a + 1 <= b THEN b - (a + 1) + 1 ELSE 0
      /\ \A i \in 1 .. b - (a + 1) + 1 : SubSeq(t, a + 1, b)[i] = t[a + 1 + i - 1]
  BY <1>2, <1>3, SubSeqProperties
<1>5. ASSUME NEW i \in 1 .. b - a PROVE Part(t, a, b)[i] = t[a + i]
  <2>1. i \in 1 .. b - (a + 1) + 1 /\ a + 1 + i - 1 = a + i
    BY <1>1
  <2> QED BY <1>4, <2>1 DEF Part
<1> QED BY <1>1, <1>4, <1>5 DEF Part, Texts

LEMMA PartAll ==
    ASSUME NEW t \in Texts
    PROVE  Part(t, 0, Len(t)) = t
BY SubSeqFull DEF Part, Texts

LEMMA PartNone ==
    ASSUME NEW t \in Texts, NEW a \in 0 .. Len(t)
    PROVE  Part(t, a, a) = <<>>
<1>1. a \in Nat
  BY TextLength
<1> QED BY <1>1, SubSeqEmpty DEF Part

LEMMA NoText ==
    /\ <<>> \in Texts
    /\ Len(<<>>) = 0
    /\ \A t \in Texts : Len(t) = 0 <=> t = <<>>
BY EmptySeq DEF Texts

LEMMA PartSplit ==
    ASSUME NEW t \in Texts, NEW a \in 0 .. Len(t), NEW b \in a .. Len(t), NEW c \in b .. Len(t)
    PROVE  Part(t, a, c) = Part(t, a, b) \o Part(t, b, c)
<1>1. Len(t) \in Nat /\ a \in Nat /\ b \in Nat /\ c \in Nat /\ a <= b /\ b <= c /\ c <= Len(t)
  BY TextLength
<1>2. b \in 0 .. Len(t) /\ c \in a .. Len(t)
  BY <1>1
<1> DEFINE p == Part(t, a, b) q == Part(t, b, c) r == Part(t, a, c)
<1>3. /\ p \in Texts /\ Len(p) = b - a
      /\ \A i \in 1 .. b - a : p[i] = t[a + i]
  BY PartOf
<1>4. /\ q \in Texts /\ Len(q) = c - b
      /\ \A i \in 1 .. c - b : q[i] = t[b + i]
  BY <1>2, PartOf
<1>5. /\ r \in Texts /\ Len(r) = c - a
      /\ \A i \in 1 .. c - a : r[i] = t[a + i]
  BY <1>2, PartOf
<1> HIDE DEF p, q, r
<1>6. /\ p \o q \in Texts /\ Len(p \o q) = c - a
      /\ \A i \in 1 .. b - a : (p \o q)[i] = p[i]
      /\ \A i \in 1 .. c - b : (p \o q)[(b - a) + i] = q[i]
  <2>1. /\ p \o q \in Texts /\ Len(p \o q) = Len(p) + Len(q)
        /\ \A i \in 1 .. Len(p) : (p \o q)[i] = p[i]
        /\ \A i \in 1 .. Len(q) : (p \o q)[Len(p) + i] = q[i]
    BY <1>3, <1>4, Joined
  <2>2. (b - a) + (c - b) = c - a
    BY <1>1
  <2> QED BY <1>3, <1>4, <2>1, <2>2
<1>7. ASSUME NEW i \in 1 .. c - a PROVE r[i] = (p \o q)[i]
  <2>1. CASE i <= b - a
    <3>1. i \in 1 .. b - a
      BY <2>1, <1>1
    <3> QED BY <3>1, <1>3, <1>5, <1>6
  <2>2. CASE ~ (i <= b - a)
    <3>1. PICK k \in 1 .. c - b : (b - a) + k = i /\ b + k = a + i
      <4>1. i - (b - a) \in 1 .. c - b /\ (b - a) + (i - (b - a)) = i /\ b + (i - (b - a)) = a + i
        BY <2>2, <1>1
      <4> QED BY <4>1
    <3>2. (p \o q)[i] = q[k]
      BY <3>1, <1>6
    <3>3. q[k] = t[a + i]
      BY <3>1, <1>4
    <3> QED BY <3>2, <3>3, <1>5
  <2> QED BY <2>1, <2>2
<1>8. r = p \o q
  BY <1>5, <1>6, <1>7, SameText
<1> QED BY <1>8 DEF p, q, r

LEMMA PartOfPart ==
    ASSUME NEW t \in Texts, NEW a \in 0 .. Len(t), NEW b \in a .. Len(t),
           NEW i \in 0 .. b - a, NEW j \in i .. b - a
    PROVE  Part(Part(t, a, b), i, j) = Part(t, a + i, a + j)
<1>1. Len(t) \in Nat /\ a \in Nat /\ b \in Nat /\ a <= b /\ b <= Len(t)
      /\ i \in Nat /\ j \in Nat /\ i <= j /\ j <= b - a
  BY TextLength
<1> DEFINE p == Part(t, a, b) q == Part(p, i, j) r == Part(t, a + i, a + j)
<1>2. /\ p \in Texts /\ Len(p) = b - a
      /\ \A k \in 1 .. b - a : p[k] = t[a + k]
  BY PartOf
<1> HIDE DEF p
<1>3. i \in 0 .. Len(p) /\ j \in i .. Len(p) /\ a + i \in 0 .. Len(t) /\ a + j \in a + i .. Len(t)
      /\ (a + j) - (a + i) = j - i
  BY <1>1, <1>2
<1>4. /\ q \in Texts /\ Len(q) = j - i
      /\ \A k \in 1 .. j - i : q[k] = p[i + k]
  BY <1>2, <1>3, PartOf
<1>5. /\ r \in Texts /\ Len(r) = (a + j) - (a + i)
      /\ \A k \in 1 .. (a + j) - (a + i) : r[k] = t[a + i + k]
  BY <1>3, PartOf
<1> HIDE DEF q, r
<1>6. ASSUME NEW k \in 1 .. j - i PROVE q[k] = r[k]
  <2>1. i + k \in 1 .. b - a /\ a + (i + k) = a + i + k
    BY <1>1
  <2> QED BY <2>1, <1>2, <1>3, <1>4, <1>5
<1>7. q = r
  BY <1>3, <1>4, <1>5, <1>6, SameText
<1> QED BY <1>7 DEF p, q, r

(* What a splice is, symbol by symbol. *)
LEMMA SplicedIs ==
    ASSUME NEW t \in Texts, NEW s \in Texts, NEW a \in 0 .. Len(t), NEW b \in a .. Len(t)
    PROVE  /\ Spliced(t, a, b, s) \in Texts
           /\ Len(Spliced(t, a, b, s)) = Len(t) - (b - a) + Len(s)
           /\ \A i \in 1 .. a : Spliced(t, a, b, s)[i] = t[i]
           /\ \A i \in 1 .. Len(s) : Spliced(t, a, b, s)[a + i] = s[i]
           /\ \A i \in 1 .. Len(t) - b : Spliced(t, a, b, s)[a + Len(s) + i] = t[b + i]
<1>1. Len(t) \in Nat /\ a \in Nat /\ b \in Nat /\ a <= b /\ b <= Len(t) /\ Len(s) \in Nat
  BY TextLength
<1> DEFINE p == Part(t, 0, a) q == Part(t, b, Len(t))
<1>2. 0 \in 0 .. Len(t) /\ b \in 0 .. Len(t) /\ Len(t) \in b .. Len(t) /\ a - 0 = a
  BY <1>1
<1>3. p \in Texts /\ Len(p) = a /\ \A i \in 1 .. a : p[i] = t[0 + i]
  BY <1>1, <1>2, PartOf
<1>4. q \in Texts /\ Len(q) = Len(t) - b /\ \A i \in 1 .. Len(t) - b : q[i] = t[b + i]
  BY <1>1, <1>2, PartOf
<1> HIDE DEF p, q
<1>5. /\ p \o s \in Texts /\ Len(p \o s) = a + Len(s)
      /\ \A i \in 1 .. a : (p \o s)[i] = p[i]
      /\ \A i \in 1 .. Len(s) : (p \o s)[a + i] = s[i]
  <2>1. /\ p \o s \in Texts /\ Len(p \o s) = Len(p) + Len(s)
        /\ \A i \in 1 .. Len(p) : (p \o s)[i] = p[i]
        /\ \A i \in 1 .. Len(s) : (p \o s)[Len(p) + i] = s[i]
    BY <1>3, Joined
  <2> QED BY <1>3, <2>1
<1> DEFINE u == p \o s
<1> HIDE DEF u
<1>6. /\ u \o q \in Texts /\ Len(u \o q) = (a + Len(s)) + (Len(t) - b)
      /\ \A i \in 1 .. a + Len(s) : (u \o q)[i] = u[i]
      /\ \A i \in 1 .. Len(t) - b : (u \o q)[(a + Len(s)) + i] = q[i]
  <2>1. u \in Texts /\ Len(u) = a + Len(s)
    BY <1>5 DEF u
  <2>2. /\ u \o q \in Texts /\ Len(u \o q) = Len(u) + Len(q)
        /\ \A i \in 1 .. Len(u) : (u \o q)[i] = u[i]
        /\ \A i \in 1 .. Len(q) : (u \o q)[Len(u) + i] = q[i]
    BY <1>4, <2>1, Joined
  <2> QED BY <1>4, <2>1, <2>2
<1>7. Spliced(t, a, b, s) = u \o q
  <2>1. Spliced(t, a, b, s) = (p \o s) \o q
    BY <1>3, <1>4, ConcatAssociative DEF Spliced, p, q, Texts
  <2> QED BY <2>1 DEF u
<1>8. ASSUME NEW i \in 1 .. a PROVE (u \o q)[i] = t[i]
  <2>1. i \in 1 .. a + Len(s) /\ 0 + i = i
    BY <1>1
  <2> QED BY <2>1, <1>3, <1>5, <1>6 DEF u
<1>9. ASSUME NEW i \in 1 .. Len(s) PROVE (u \o q)[a + i] = s[i]
  <2>1. a + i \in 1 .. a + Len(s)
    BY <1>1
  <2> QED BY <2>1, <1>5, <1>6 DEF u
<1>10. ASSUME NEW i \in 1 .. Len(t) - b PROVE (u \o q)[a + Len(s) + i] = t[b + i]
  BY <1>4, <1>6
<1>11. (a + Len(s)) + (Len(t) - b) = Len(t) - (b - a) + Len(s)
  BY <1>1
<1> QED BY <1>6, <1>7, <1>8, <1>9, <1>10, <1>11

(* A text that is a splice symbol by symbol is that splice. *)
IsSplice(u, t, a, b, s) ==
    /\ Len(u) = Len(t) - (b - a) + Len(s)
    /\ \A i \in 1 .. a : u[i] = t[i]
    /\ \A i \in 1 .. Len(s) : u[a + i] = s[i]
    /\ \A i \in 1 .. Len(t) - b : u[a + Len(s) + i] = t[b + i]

LEMMA IsSpliced ==
    ASSUME NEW t \in Texts, NEW s \in Texts, NEW u \in Texts,
           NEW a \in 0 .. Len(t), NEW b \in a .. Len(t),
           IsSplice(u, t, a, b, s)
    PROVE  u = Spliced(t, a, b, s)
<1>1. Len(t) \in Nat /\ a \in Nat /\ b \in Nat /\ a <= b /\ b <= Len(t) /\ Len(s) \in Nat
  BY TextLength
<1> DEFINE v == Spliced(t, a, b, s)
<1>2. /\ v \in Texts /\ Len(v) = Len(t) - (b - a) + Len(s)
      /\ \A i \in 1 .. a : v[i] = t[i]
      /\ \A i \in 1 .. Len(s) : v[a + i] = s[i]
      /\ \A i \in 1 .. Len(t) - b : v[a + Len(s) + i] = t[b + i]
  BY SplicedIs
<1> HIDE DEF v
<1> USE DEF IsSplice
<1>3. ASSUME NEW i \in 1 .. Len(u) PROVE u[i] = v[i]
  <2>1. i \in Int /\ 1 <= i /\ i <= Len(t) - (b - a) + Len(s)
    BY <1>1
  <2>2. CASE i <= a
    <3>1. i \in 1 .. a
      BY <2>1, <2>2
    <3> QED BY <3>1, <1>2
  <2>3. CASE a < i /\ i <= a + Len(s)
    <3>1. i - a \in 1 .. Len(s) /\ a + (i - a) = i
      BY <2>1, <2>3, <1>1
    <3>2. PICK k \in 1 .. Len(s) : a + k = i
      BY <3>1
    <3> QED BY <3>2, <1>2
  <2>4. CASE a + Len(s) < i
    <3>1. i - (a + Len(s)) \in 1 .. Len(t) - b /\ a + Len(s) + (i - (a + Len(s))) = i
      BY <2>1, <2>4, <1>1
    <3>2. PICK k \in 1 .. Len(t) - b : a + Len(s) + k = i
      BY <3>1
    <3> QED BY <3>2, <1>2
  <2> QED BY <2>1, <2>2, <2>3, <2>4, <1>1
<1>4. Len(u) = Len(v)
  BY <1>2
<1> HIDE DEF IsSplice
<1>5. u = v
  BY <1>2, <1>3, <1>4, SameText
<1> QED BY <1>5 DEF v

(* The parts of a splice: in front of it, the text put in, behind it. *)
LEMMA SplicedParts ==
    ASSUME NEW t \in Texts, NEW s \in Texts, NEW a \in 0 .. Len(t), NEW b \in a .. Len(t)
    PROVE  /\ \A i \in 0 .. a : \A j \in i .. a : Part(Spliced(t, a, b, s), i, j) = Part(t, i, j)
           /\ Part(Spliced(t, a, b, s), a, a + Len(s)) = s
           /\ \A i \in 0 .. Len(t) - b : \A j \in i .. Len(t) - b :
                 Part(Spliced(t, a, b, s), a + Len(s) + i, a + Len(s) + j) = Part(t, b + i, b + j)
<1>1. Len(t) \in Nat /\ a \in Nat /\ b \in Nat /\ a <= b /\ b <= Len(t) /\ Len(s) \in Nat
  BY TextLength
<1> DEFINE v == Spliced(t, a, b, s)
<1>2. /\ v \in Texts /\ Len(v) = Len(t) - (b - a) + Len(s)
      /\ \A i \in 1 .. a : v[i] = t[i]
      /\ \A i \in 1 .. Len(s) : v[a + i] = s[i]
      /\ \A i \in 1 .. Len(t) - b : v[a + Len(s) + i] = t[b + i]
  BY SplicedIs
<1> HIDE DEF v
<1>3. ASSUME NEW i \in 0 .. a, NEW j \in i .. a PROVE Part(v, i, j) = Part(t, i, j)
  <2>1. /\ i \in 0 .. Len(v) /\ j \in i .. Len(v) /\ i \in 0 .. Len(t) /\ j \in i .. Len(t)
        /\ i \in Nat /\ j \in Nat /\ i <= j /\ j <= a
    BY <1>1, <1>2
  <2>2. /\ Part(v, i, j) \in Texts /\ Len(Part(v, i, j)) = j - i
        /\ \A k \in 1 .. j - i : Part(v, i, j)[k] = v[i + k]
    BY <1>2, <2>1, PartOf
  <2>3. /\ Part(t, i, j) \in Texts /\ Len(Part(t, i, j)) = j - i
        /\ \A k \in 1 .. j - i : Part(t, i, j)[k] = t[i + k]
    BY <2>1, PartOf
  <2>4. ASSUME NEW k \in 1 .. j - i PROVE Part(v, i, j)[k] = Part(t, i, j)[k]
    <3>1. i + k \in 1 .. a
      BY <2>1
    <3> QED BY <3>1, <1>2, <2>2, <2>3
  <2> QED BY <2>2, <2>3, <2>4, SameText
<1>4. Part(v, a, a + Len(s)) = s
  <2> DEFINE c == a + Len(s)
  <2>1. a \in 0 .. Len(v) /\ c \in a .. Len(v) /\ c - a = Len(s)
    BY <1>1, <1>2
  <2> HIDE DEF c
  <2>2. /\ Part(v, a, c) \in Texts /\ Len(Part(v, a, c)) = c - a
        /\ \A k \in 1 .. c - a : Part(v, a, c)[k] = v[a + k]
    BY <1>2, <2>1, PartOf
  <2>3. Len(Part(v, a, c)) = Len(s) /\ \A k \in 1 .. Len(Part(v, a, c)) : Part(v, a, c)[k] = s[k]
    BY <1>2, <2>1, <2>2
  <2>4. Part(v, a, c) = s
    BY <2>2, <2>3, SameText
  <2> QED BY <2>4 DEF c
<1>5. ASSUME NEW i \in 0 .. Len(t) - b, NEW j \in i .. Len(t) - b
      PROVE  Part(v, a + Len(s) + i, a + Len(s) + j) = Part(t, b + i, b + j)
  <2> DEFINE i1 == a + Len(s) + i j1 == a + Len(s) + j i2 == b + i j2 == b + j
  <2>1. /\ i \in Nat /\ j \in Nat /\ i <= j /\ j <= Len(t) - b
        /\ i1 \in 0 .. Len(v) /\ j1 \in i1 .. Len(v) /\ i2 \in 0 .. Len(t) /\ j2 \in i2 .. Len(t)
        /\ j1 - i1 = j - i /\ j2 - i2 = j - i
    BY <1>1, <1>2
  <2>2. \A k \in 1 .. j - i : v[i1 + k] = t[i2 + k]
    <3>1. ASSUME NEW k \in 1 .. j - i PROVE v[i1 + k] = t[i2 + k]
      <4>1. i + k \in 1 .. Len(t) - b /\ a + Len(s) + (i + k) = i1 + k /\ b + (i + k) = i2 + k
        BY <1>1, <2>1
      <4>2. PICK m \in 1 .. Len(t) - b : a + Len(s) + m = i1 + k /\ b + m = i2 + k
        BY <4>1
      <4>3. v[a + Len(s) + m] = t[b + m]
        BY <1>2
      <4> QED BY <4>2, <4>3
    <3> QED BY <3>1
  <2> HIDE DEF i1, j1, i2, j2
  <2>3. /\ Part(v, i1, j1) \in Texts /\ Len(Part(v, i1, j1)) = j1 - i1
        /\ \A k \in 1 .. j1 - i1 : Part(v, i1, j1)[k] = v[i1 + k]
    BY <1>2, <2>1, PartOf
  <2>4. /\ Part(t, i2, j2) \in Texts /\ Len(Part(t, i2, j2)) = j2 - i2
        /\ \A k \in 1 .. j2 - i2 : Part(t, i2, j2)[k] = t[i2 + k]
    BY <2>1, PartOf
  <2>5. /\ Len(Part(v, i1, j1)) = Len(Part(t, i2, j2))
        /\ \A k \in 1 .. Len(Part(v, i1, j1)) : Part(v, i1, j1)[k] = Part(t, i2, j2)[k]
    <3>1. ASSUME NEW k \in 1 .. j - i PROVE Part(v, i1, j1)[k] = Part(t, i2, j2)[k]
      <4>1. Part(v, i1, j1)[k] = v[i1 + k]
        BY <2>1, <2>3
      <4>2. Part(t, i2, j2)[k] = t[i2 + k]
        BY <2>1, <2>4
      <4> QED BY <2>2, <4>1, <4>2
    <3> QED BY <3>1, <2>1, <2>3, <2>4
  <2>6. Part(v, i1, j1) = Part(t, i2, j2)
    BY <2>3, <2>4, <2>5, SameText
  <2> QED BY <2>6 DEF i1, j1, i2, j2
<1> QED BY <1>3, <1>4, <1>5 DEF v

(* A part put back where it is changes nothing. *)
LEMMA SplicedSame ==
    ASSUME NEW t \in Texts, NEW a \in 0 .. Len(t), NEW b \in a .. Len(t)
    PROVE  Spliced(t, a, b, Part(t, a, b)) = t
<1>1. Len(t) \in Nat /\ a \in Nat /\ b \in Nat /\ a <= b /\ b <= Len(t)
  BY TextLength
<1> DEFINE s == Part(t, a, b)
<1>2. s \in Texts /\ Len(s) = b - a /\ \A i \in 1 .. b - a : s[i] = t[a + i]
  BY PartOf
<1> HIDE DEF s
<1>3. Len(t) = Len(t) - (b - a) + Len(s) /\ a + Len(s) = b
  BY <1>1, <1>2
<1>4. /\ \A i \in 1 .. Len(s) : t[a + i] = s[i]
      /\ \A i \in 1 .. Len(t) - b : t[a + Len(s) + i] = t[b + i]
  BY <1>2, <1>3
<1>5. IsSplice(t, t, a, b, s)
  BY <1>3, <1>4 DEF IsSplice
<1>6. t = Spliced(t, a, b, s)
  BY <1>2, <1>5, IsSpliced
<1> QED BY <1>6 DEF s

(* A splice undone by the part it replaced. *)
LEMMA SplicedBack ==
    ASSUME NEW t \in Texts, NEW s \in Texts, NEW a \in 0 .. Len(t), NEW b \in a .. Len(t)
    PROVE  Spliced(Spliced(t, a, b, s), a, a + Len(s), Part(t, a, b)) = t
<1>1. Len(t) \in Nat /\ a \in Nat /\ b \in Nat /\ a <= b /\ b <= Len(t) /\ Len(s) \in Nat
  BY TextLength
<1> DEFINE v == Spliced(t, a, b, s) r == Part(t, a, b) c == a + Len(s)
<1>2. /\ v \in Texts /\ Len(v) = Len(t) - (b - a) + Len(s)
      /\ \A i \in 1 .. a : v[i] = t[i]
      /\ \A i \in 1 .. Len(t) - b : v[c + i] = t[b + i]
  BY SplicedIs
<1>3. r \in Texts /\ Len(r) = b - a /\ \A i \in 1 .. b - a : r[i] = t[a + i]
  BY PartOf
<1>4. c = a + Len(s)
  OBVIOUS
<1> HIDE DEF v, r, c
<1>5. /\ a \in 0 .. Len(v) /\ c \in a .. Len(v)
      /\ Len(t) = Len(v) - (c - a) + Len(r) /\ a + Len(r) = b /\ Len(v) - c = Len(t) - b
  BY <1>1, <1>2, <1>3, <1>4
<1>6. /\ \A i \in 1 .. a : t[i] = v[i]
      /\ \A i \in 1 .. Len(r) : t[a + i] = r[i]
      /\ \A i \in 1 .. Len(v) - c : t[a + Len(r) + i] = v[c + i]
  BY <1>2, <1>3, <1>5
<1>7. Len(t) = Len(v) - (c - a) + Len(r) /\ a \in 0 .. Len(v) /\ c \in a .. Len(v)
  BY <1>5
<1>8. IsSplice(t, v, a, c, r)
  BY <1>6, <1>7 DEF IsSplice
<1>9. t = Spliced(v, a, c, r)
  BY <1>2, <1>3, <1>7, <1>8, IsSpliced
<1> QED BY <1>9 DEF v, r, c

(* A splice of a part is a splice of the whole. *)
LEMMA SplicedIn ==
    ASSUME NEW t \in Texts, NEW s \in Texts, NEW a \in 0 .. Len(t), NEW b \in a .. Len(t),
           NEW i \in 0 .. b - a, NEW j \in i .. b - a
    PROVE  Spliced(t, a, b, Spliced(Part(t, a, b), i, j, s)) = Spliced(t, a + i, a + j, s)
<1>1. /\ Len(t) \in Nat /\ a \in Nat /\ b \in Nat /\ a <= b /\ b <= Len(t) /\ Len(s) \in Nat
      /\ i \in Nat /\ j \in Nat /\ i <= j /\ j <= b - a
  BY TextLength
<1> DEFINE r == Part(t, a, b) w == Spliced(r, i, j, s) v == Spliced(t, a, b, w)
<1>2. r \in Texts /\ Len(r) = b - a /\ \A k \in 1 .. b - a : r[k] = t[a + k]
  BY PartOf
<1> HIDE DEF r
<1>3. i \in 0 .. Len(r) /\ j \in i .. Len(r)
  BY <1>2
<1>4. /\ w \in Texts /\ Len(w) = Len(r) - (j - i) + Len(s)
      /\ \A k \in 1 .. i : w[k] = r[k]
      /\ \A k \in 1 .. Len(s) : w[i + k] = s[k]
      /\ \A k \in 1 .. Len(r) - j : w[i + Len(s) + k] = r[j + k]
  BY <1>2, <1>3, SplicedIs
<1> HIDE DEF w
<1>5. /\ v \in Texts /\ Len(v) = Len(t) - (b - a) + Len(w)
      /\ \A k \in 1 .. a : v[k] = t[k]
      /\ \A k \in 1 .. Len(w) : v[a + k] = w[k]
      /\ \A k \in 1 .. Len(t) - b : v[a + Len(w) + k] = t[b + k]
  BY <1>4, SplicedIs
<1> HIDE DEF v
<1>6. /\ a + i \in 0 .. Len(t) /\ a + j \in a + i .. Len(t)
      /\ Len(v) = Len(t) - ((a + j) - (a + i)) + Len(s)
      /\ Len(w) = (b - a) - (j - i) + Len(s)
  BY <1>1, <1>2, <1>4, <1>5
<1>7. ASSUME NEW k \in 1 .. a + i PROVE v[k] = t[k]
  <2>1. CASE k <= a
    BY <2>1, <1>5
  <2>2. CASE ~ (k <= a)
    <3>1. k - a \in 1 .. i /\ k - a \in 1 .. Len(w) /\ k - a \in 1 .. b - a /\ a + (k - a) = k
      BY <2>2, <1>1, <1>6
    <3>2. v[a + (k - a)] = w[k - a] /\ w[k - a] = r[k - a] /\ r[k - a] = t[a + (k - a)]
      BY <3>1, <1>2, <1>4, <1>5
    <3> QED BY <3>1, <3>2
  <2> QED BY <2>1, <2>2
<1>8. ASSUME NEW k \in 1 .. Len(s) PROVE v[(a + i) + k] = s[k]
  <2>1. i + k \in 1 .. Len(w) /\ a + (i + k) = (a + i) + k
    BY <1>1, <1>6
  <2>2. v[a + (i + k)] = w[i + k] /\ w[i + k] = s[k]
    BY <2>1, <1>4, <1>5
  <2> QED BY <2>1, <2>2
<1>9. ASSUME NEW k \in 1 .. Len(t) - (a + j) PROVE v[(a + i) + Len(s) + k] = t[(a + j) + k]
  <2>1. CASE k <= (b - a) - j
    <3>1. /\ k \in 1 .. Len(r) - j /\ i + Len(s) + k \in 1 .. Len(w) /\ j + k \in 1 .. b - a
          /\ a + (i + Len(s) + k) = (a + i) + Len(s) + k /\ a + (j + k) = (a + j) + k
      BY <2>1, <1>1, <1>2, <1>6
    <3>2. v[a + (i + Len(s) + k)] = w[i + Len(s) + k]
      BY <3>1, <1>5
    <3>3. w[i + Len(s) + k] = r[j + k]
      BY <3>1, <1>4
    <3>4. r[j + k] = t[a + (j + k)]
      BY <3>1, <1>2
    <3> QED BY <3>1, <3>2, <3>3, <3>4
  <2>2. CASE ~ (k <= (b - a) - j)
    <3> DEFINE m == k - ((b - a) - j)
    <3>1. /\ m \in 1 .. Len(t) - b /\ a + Len(w) + m = (a + i) + Len(s) + k
          /\ b + m = (a + j) + k
      BY <2>2, <1>1, <1>6
    <3>2. v[a + Len(w) + m] = t[b + m]
      BY <3>1, <1>5
    <3> QED BY <3>1, <3>2
  <2> QED BY <2>1, <2>2
<1> DEFINE c == a + i d == a + j
<1>10. /\ c \in 0 .. Len(t) /\ d \in c .. Len(t) /\ Len(v) = Len(t) - (d - c) + Len(s)
       /\ \A k \in 1 .. c : v[k] = t[k]
       /\ \A k \in 1 .. Len(s) : v[c + k] = s[k]
       /\ \A k \in 1 .. Len(t) - d : v[c + Len(s) + k] = t[d + k]
  BY <1>6, <1>7, <1>8, <1>9
<1> HIDE DEF c, d
<1>11. IsSplice(v, t, c, d, s)
  BY <1>10 DEF IsSplice
<1>12. v = Spliced(t, c, d, s)
  BY <1>5, <1>10, <1>11, IsSpliced
<1> QED BY <1>12 DEF v, w, r, c, d

(* A splice of everything. *)
LEMMA SplicedAll ==
    ASSUME NEW t \in Texts, NEW s \in Texts
    PROVE  Spliced(t, 0, Len(t), s) = s
<1>1. Len(t) \in Nat /\ Len(s) \in Nat
  BY TextLength
<1>2. 0 \in 0 .. Len(t) /\ Len(t) \in 0 .. Len(t)
  BY <1>1
<1>3. Len(s) = Len(t) - (Len(t) - 0) + Len(s)
  BY <1>1
<1>4. /\ \A i \in 1 .. 0 : s[i] = t[i]
      /\ \A i \in 1 .. Len(s) : s[0 + i] = s[i]
      /\ \A i \in 1 .. Len(t) - Len(t) : s[0 + Len(s) + i] = t[Len(t) + i]
  BY <1>1
<1>5. IsSplice(s, t, 0, Len(t), s)
  BY <1>3, <1>4 DEF IsSplice
<1> QED BY <1>2, <1>5, IsSpliced

----------------------------------------------------------------------------
(* Counting *)

(* The symbols of a text that are in W. *)
Tally(t, W) == Cardinality({i \in DOMAIN t : t[i] \in W})

LEMMA TallyIsFinite ==
    ASSUME NEW t \in Texts, NEW W
    PROVE  /\ IsFiniteSet({i \in DOMAIN t : t[i] \in W})
           /\ Tally(t, W) \in Nat
           /\ Tally(t, W) <= Len(t)
<1> DEFINE S == {i \in DOMAIN t : t[i] \in W}
<1>1. Len(t) \in Nat /\ DOMAIN t = 1 .. Len(t)
  BY TextLength
<1>2. 1 \in Int /\ Len(t) \in Int
  BY <1>1
<1>3. IsFiniteSet(1 .. Len(t)) /\ Cardinality(1 .. Len(t)) = IF 1 > Len(t) THEN 0 ELSE Len(t) - 1 + 1
  BY <1>2, FS_Interval
<1>4. S \in SUBSET (1 .. Len(t))
  BY <1>1
<1> HIDE DEF S
<1>5. IsFiniteSet(S) /\ Cardinality(S) <= Cardinality(1 .. Len(t))
  BY <1>3, <1>4, FS_Subset
<1>6. Cardinality(S) \in Nat
  BY <1>5, FS_CardinalityType
<1>7. Cardinality(S) <= Len(t)
  BY <1>1, <1>3, <1>5, <1>6
<1> QED BY <1>5, <1>6, <1>7 DEF S, Tally

LEMMA TallyOfNothing == \A W : Tally(<<>>, W) = 0
<1>1. DOMAIN <<>> = {}
  BY NoText, TextLength
<1>2. ASSUME NEW W PROVE Tally(<<>>, W) = 0
  <2>1. {i \in DOMAIN <<>> : (<<>>)[i] \in W} = {}
    BY <1>1
  <2> QED BY <2>1, FS_EmptySet DEF Tally
<1> QED BY <1>2

LEMMA TallyJoined ==
    ASSUME NEW s \in Texts, NEW t \in Texts, NEW W
    PROVE  Tally(s \o t, W) = Tally(s, W) + Tally(t, W)
<1> DEFINE n == Len(s)
           A == {i \in DOMAIN s : s[i] \in W}
           B == {i \in DOMAIN t : t[i] \in W}
           C == {i \in n + 1 .. n + Len(t) : t[i - n] \in W}
           J == {i \in DOMAIN (s \o t) : (s \o t)[i] \in W}
           f == [i \in B |-> n + i]
<1>1. /\ n \in Nat /\ Len(t) \in Nat /\ DOMAIN s = 1 .. n /\ DOMAIN t = 1 .. Len(t)
      /\ DOMAIN (s \o t) = 1 .. n + Len(t)
  BY TextLength, Joined
<1>2. J = A \cup C
  <2>1. \A i \in 1 .. n : (s \o t)[i] = s[i]
    BY Joined
  <2>2. \A i \in n + 1 .. n + Len(t) : (s \o t)[i] = t[i - n]
    <3>1. ASSUME NEW i \in n + 1 .. n + Len(t) PROVE (s \o t)[i] = t[i - n]
      <4>1. i - n \in 1 .. Len(t) /\ n + (i - n) = i
        BY <1>1
      <4>2. (s \o t)[Len(s) + (i - n)] = t[i - n]
        BY <4>1, Joined
      <4> QED BY <4>1, <4>2
    <3> QED BY <3>1
  <2>3. \A i : i \in 1 .. n + Len(t) <=> i \in 1 .. n \/ i \in n + 1 .. n + Len(t)
    BY <1>1
  <2> HIDE DEF n
  <2> QED BY <1>1, <2>1, <2>2, <2>3
<1>3. A \cap C = {}
  BY <1>1
<1>4. f \in Bijection(B, C)
  <2>1. f \in [B -> C]
    <3>1. ASSUME NEW i \in B PROVE n + i \in C
      <4>1. i \in 1 .. Len(t) /\ t[i] \in W
        BY <1>1
      <4>2. n + i \in n + 1 .. n + Len(t) /\ (n + i) - n = i
        BY <1>1, <4>1
      <4> QED BY <4>1, <4>2
    <3> HIDE DEF B, C, n
    <3> QED BY <3>1
  <2>2. \A i, j \in B : f[i] = f[j] => i = j
    <3>1. ASSUME NEW i \in B, NEW j \in B, f[i] = f[j] PROVE i = j
      <4>1. i \in Nat /\ j \in Nat
        BY <1>1
      <4>2. f[i] = n + i /\ f[j] = n + j
        OBVIOUS
      <4>3. n + i = n + j
        BY <3>1, <4>2
      <4> QED BY <1>1, <4>1, <4>3
    <3> QED BY <3>1
  <2>3. ASSUME NEW k \in C PROVE \E i \in B : f[i] = k
    <3>1. k \in n + 1 .. n + Len(t) /\ t[k - n] \in W
      OBVIOUS
    <3>2. k - n \in 1 .. Len(t) /\ n + (k - n) = k
      BY <1>1, <3>1
    <3>3. k - n \in B
      BY <1>1, <3>1, <3>2
    <3> HIDE DEF B, C
    <3> QED BY <3>2, <3>3
  <2> HIDE DEF f, B, C
  <2> QED BY <2>1, <2>2, <2>3 DEF Bijection, Injection, Surjection, IsInjective
<1>5. IsFiniteSet(A) /\ IsFiniteSet(B)
  BY TallyIsFinite
<1>6. IsFiniteSet(C) /\ Cardinality(C) = Cardinality(B)
  <2> HIDE DEF f, B, C
  <2> QED BY <1>4, <1>5, FS_Bijection DEF ExistsBijection
<1>7. Cardinality(J) = Cardinality(A) + Cardinality(C)
  <2> HIDE DEF f, A, B, C, J
  <2>1. Cardinality(A \cup C) = Cardinality(A) + Cardinality(C) - Cardinality(A \cap C)
    BY <1>5, <1>6, FS_Union
  <2>2. Cardinality(A) \in Nat /\ Cardinality(C) \in Nat /\ Cardinality({}) = 0
    BY <1>5, <1>6, FS_CardinalityType, FS_EmptySet
  <2>3. Cardinality(J) = Cardinality(A \cup C) /\ Cardinality(A \cap C) = 0
    BY <1>2, <1>3, <2>2
  <2> QED BY <2>1, <2>2, <2>3
<1> QED BY <1>6, <1>7 DEF Tally

LEMMA LinesCount ==
    /\ \A t \in Texts : Lines(t) \in Nat
    /\ Lines(<<>>) = 0
    /\ \A s, t \in Texts : Lines(s \o t) = Lines(s) + Lines(t)
<1>1. ASSUME NEW t \in Texts PROVE Lines(t) = Tally(t, {NewLine})
  <2>1. {i \in DOMAIN t : t[i] = NewLine} = {i \in DOMAIN t : t[i] \in {NewLine}}
    OBVIOUS
  <2> QED BY <2>1 DEF Lines, Tally
<1>2. \A t \in Texts : Tally(t, {NewLine}) \in Nat
  BY TallyIsFinite
<1>3. \A s, t \in Texts : Tally(s \o t, {NewLine}) = Tally(s, {NewLine}) + Tally(t, {NewLine})
  BY TallyJoined
<1>4. \A s, t \in Texts : s \o t \in Texts
  BY Joined
<1>5. Lines(<<>>) = 0
  BY <1>1, NoText, TallyOfNothing
<1>6. ASSUME NEW s \in Texts, NEW t \in Texts PROVE Lines(s \o t) = Lines(s) + Lines(t)
  <2>1. Lines(s \o t) = Tally(s \o t, {NewLine})
    BY <1>1, <1>4
  <2>2. Lines(s) = Tally(s, {NewLine}) /\ Lines(t) = Tally(t, {NewLine})
    BY <1>1
  <2> QED BY <1>3, <2>1, <2>2
<1> QED BY <1>1, <1>2, <1>5, <1>6

LEMMA UnitsCount ==
    /\ \A t \in Texts : Units(t) \in Nat /\ Units(t) >= Len(t)
    /\ Units(<<>>) = 0
    /\ \A s, t \in Texts : Units(s \o t) = Units(s) + Units(t)
<1>1. \A t \in Texts : Units(t) = Len(t) + Tally(t, Wide)
  BY DEF Units, Tally
<1>2. \A t \in Texts : Tally(t, Wide) \in Nat /\ Len(t) \in Nat
  BY TallyIsFinite, TextLength
<1>3. \A s, t \in Texts : Tally(s \o t, Wide) = Tally(s, Wide) + Tally(t, Wide)
  BY TallyJoined
<1>4. \A s, t \in Texts : s \o t \in Texts /\ Len(s \o t) = Len(s) + Len(t)
  BY Joined
<1>5. Units(<<>>) = 0
  BY <1>1, NoText, TallyOfNothing
<1>6. ASSUME NEW s \in Texts, NEW t \in Texts PROVE Units(s \o t) = Units(s) + Units(t)
  <2>1. Units(s \o t) = Len(s) + Len(t) + Tally(s \o t, Wide)
    BY <1>1, <1>4
  <2>2. Units(s) = Len(s) + Tally(s, Wide) /\ Units(t) = Len(t) + Tally(t, Wide)
    BY <1>1
  <2>3. Tally(s \o t, Wide) = Tally(s, Wide) + Tally(t, Wide)
    BY <1>3
  <2> QED BY <1>2, <2>1, <2>2, <2>3
<1> QED BY <1>1, <1>2, <1>5, <1>6

----------------------------------------------------------------------------
(* The least member of a set of numbers, and induction *)

LEMMA LeastExists ==
    ASSUME NEW S \in SUBSET Nat, S # {}
    PROVE  Least(S) \in S /\ \A n \in S : Least(S) <= n
<1> DEFINE R == OpToRel(<, Nat)
<1>1. IsWellFoundedOn(R, Nat)
  BY Zenon, NatLessThanWellFounded
<1>2. \A x, y \in Nat : x < y => <<x, y>> \in R
  BY DEF OpToRel
<1> HIDE DEF R
<1>3. PICK x \in S : \A y \in S : ~ (<<y, x>> \in R)
  BY <1>1, WFMin
<1>4. ASSUME NEW y \in S PROVE x <= y
  <2>1. x \in Nat /\ y \in Nat
    OBVIOUS
  <2>2. ~ (y < x)
    BY <1>2, <1>3, <2>1
  <2> QED BY <2>1, <2>2
<1>5. \E n \in S : \A m \in S : n <= m
  BY <1>4
<1> QED BY <1>5 DEF Least

LEMMA GreatestExists ==
    ASSUME NEW m \in Nat, NEW S \in SUBSET (0 .. m), S # {}
    PROVE  \E x \in S : \A y \in S : y <= x
<1> DEFINE T == {m - x : x \in S}
<1>1. \A x \in S : x \in Nat /\ m - x \in Nat /\ m - (m - x) = x
  OBVIOUS
<1>2. T \in SUBSET Nat /\ T # {}
  BY <1>1
<1>3. PICK z \in T : \A y \in T : z <= y
  <2> HIDE DEF T
  <2> QED BY <1>2, LeastExists
<1>4. PICK x \in S : z = m - x
  OBVIOUS
<1>5. ASSUME NEW y \in S PROVE y <= x
  <2>1. m - x <= m - y
    BY <1>3, <1>4
  <2> QED BY <1>1, <2>1
<1> QED BY <1>5

LEMMA Induction ==
    ASSUME NEW S, 0 \in S, \A n \in S \cap Nat : n + 1 \in S
    PROVE  Nat \subseteq S
<1> DEFINE T == Nat \ S
<1>1. ASSUME T # {} PROVE FALSE
  <2>1. PICK x \in T : \A y \in T : x <= y
    BY <1>1, LeastExists
  <2>2. x # 0 /\ x \in Nat
    OBVIOUS
  <2>3. x - 1 \in Nat /\ ~ (x <= x - 1) /\ (x - 1) + 1 = x
    BY <2>2
  <2>4. x - 1 \in S
    BY <2>1, <2>3
  <2> QED BY <2>2, <2>3, <2>4
<1> QED BY <1>1

----------------------------------------------------------------------------
(* Pages *)

(* A page has at least one symbol, and the search for a line end stays in   *)
(* the text.                                                                *)
LEMMA PageEndIs ==
    ASSUME NEW t \in Texts, NEW start \in 0 .. Len(t), start < Len(t)
    PROVE  PageEnd(t, start) \in start + 1 .. Len(t)
<1>1. Len(t) \in Nat /\ start \in Nat /\ PageSize \in Nat /\ PageSize >= 1 /\ BoundarySearch \in Nat
  BY TextLength, EditorBounds
<1> DEFINE end == Smaller(Len(t), start + PageSize)
           limit == Smaller(Len(t), end + BoundarySearch)
           breaks == {k \in end + 1 .. limit : t[k] = NewLine}
<1>2. end \in start + 1 .. Len(t)
  BY <1>1 DEF Smaller
<1>3. limit \in end .. Len(t)
  BY <1>1, <1>2 DEF Smaller
<1>4. PageEnd(t, start) = IF breaks = {} THEN end ELSE Least(breaks)
  BY DEF PageEnd
<1> HIDE DEF end, limit
<1>5. breaks \in SUBSET Nat
  BY <1>1, <1>2
<1>6. breaks # {} => Least(breaks) \in breaks
  BY <1>5, LeastExists
<1>7. breaks # {} => Least(breaks) \in end + 1 .. limit
  BY <1>6
<1> HIDE DEF breaks
<1>8. CASE breaks = {}
  BY <1>2, <1>4, <1>8
<1>9. CASE breaks # {}
  <2>1. PICK m \in end + 1 .. limit : PageEnd(t, start) = m
    BY <1>4, <1>7, <1>9
  <2> QED BY <2>1, <1>1, <1>2, <1>3
<1> QED BY <1>8, <1>9
(* The table from a position on: the pages follow each other up to the end. *)
TilesFrom(t, start, r) ==
    /\ r \in Seq(Ranges)
    /\ start = Len(t) => r = <<>>
    /\ start < Len(t) => /\ r # <<>> /\ r[1].start = start /\ r[Len(r)].end = Len(t)
    /\ \A k \in 1 .. Len(r) - 1 : r[k].end = r[k + 1].start
    /\ \A k \in 1 .. Len(r) : r[k].start <= r[k].end /\ r[k].end <= Len(t)
                              /\ r[k].line = 1 + Lines(Part(t, 0, r[k].start))

LEMMA PagesFromIs ==
    ASSUME NEW t \in Texts
    PROVE  PagesFrom(t) = [start \in 0 .. Len(t) |->
               IF start = Len(t) THEN <<>>
               ELSE << [start |-> start, end |-> PageEnd(t, start),
                        line |-> 1 + Lines(Part(t, 0, start))] >>
                    \o PagesFrom(t)[PageEnd(t, start)]]
<1> DEFINE Body(f, start) ==
                 IF start = Len(t) THEN <<>>
                 ELSE << [start |-> start, end |-> PageEnd(t, start),
                          line |-> 1 + Lines(Part(t, 0, start))] >>
                      \o f[PageEnd(t, start)]
<1>1. PagesFrom(t) = CHOOSE from : from = [start \in 0 .. Len(t) |-> Body(from, start)]
  BY DEF PagesFrom
<1> DEFINE D(n) == Len(t) - n .. Len(t)
           Good(g, n) == g = [start \in D(n) |-> Body(g, start)]
           S == {n \in Nat : n <= Len(t) => \E g : Good(g, n)}
<1>2. Len(t) \in Nat
  BY TextLength
<1>3. \A f, g, start : start = Len(t) \/ f[PageEnd(t, start)] = g[PageEnd(t, start)]
                          => Body(f, start) = Body(g, start)
  OBVIOUS
<1> HIDE DEF Body
<1>4. 0 \in S
  <2>1. D(0) = {Len(t)}
    BY <1>2
  <2> DEFINE g == [start \in D(0) |-> Body(<<>>, start)]
  <2>2. \A start \in D(0) : Body(<<>>, start) = Body(g, start)
    BY <1>3, <2>1
  <2>3. Good(g, 0)
    BY <2>2
  <2> QED BY <2>3
<1>5. ASSUME NEW n \in S \cap Nat PROVE n + 1 \in S
  <2> SUFFICES ASSUME n + 1 <= Len(t) PROVE \E h : Good(h, n + 1)
    OBVIOUS
  <2>1. PICK g : Good(g, n)
    BY <1>2
  <2> DEFINE h == [start \in D(n + 1) |-> IF start \in D(n) THEN g[start] ELSE Body(g, start)]
  <2>2. ASSUME NEW start \in D(n + 1) PROVE h[start] = Body(h, start)
    <3>1. start \in 0 .. Len(t) /\ (start = Len(t) \/ start < Len(t))
      BY <1>2
    <3>2. start < Len(t) => PageEnd(t, start) \in D(n) /\ PageEnd(t, start) \in D(n + 1)
      <4>1. SUFFICES ASSUME start < Len(t)
                     PROVE  PageEnd(t, start) \in D(n) /\ PageEnd(t, start) \in D(n + 1)
        OBVIOUS
      <4>2. PageEnd(t, start) \in start + 1 .. Len(t)
        BY <3>1, <4>1, PageEndIs
      <4> QED BY <1>2, <4>2
    <3>3. Body(h, start) = Body(g, start)
      <4>1. start = Len(t) \/ h[PageEnd(t, start)] = g[PageEnd(t, start)]
        BY <3>1, <3>2
      <4> HIDE DEF h
      <4> QED BY <1>3, <4>1
    <3>4. start \in D(n) => g[start] = Body(g, start)
      <4> HIDE DEF D
      <4> QED BY <2>1
    <3>5. h[start] = IF start \in D(n) THEN g[start] ELSE Body(g, start)
      <4> HIDE DEF D
      <4> QED OBVIOUS
    <3> HIDE DEF h, D
    <3> QED BY <3>3, <3>4, <3>5
  <2>3. Good(h, n + 1)
    <3>1. h = [start \in D(n + 1) |-> h[start]]
      OBVIOUS
    <3> HIDE DEF h, D
    <3> QED BY <2>2, <3>1
  <2> HIDE DEF h, Good
  <2> QED BY <2>3
<1>6. Len(t) \in S
  <2> HIDE DEF S
  <2> QED BY <1>2, <1>4, <1>5, Induction
<1>7. \E from : from = [start \in 0 .. Len(t) |-> Body(from, start)]
  <2>1. D(Len(t)) = 0 .. Len(t)
    BY <1>2
  <2> QED BY <1>2, <1>6, <2>1
<1>8. PagesFrom(t) = [start \in 0 .. Len(t) |-> Body(PagesFrom(t), start)]
  BY <1>1, <1>7
<1> QED BY <1>8 DEF Body

LEMMA TilesExtend ==
    ASSUME NEW t \in Texts, NEW start \in 0 .. Len(t), NEW end \in start .. Len(t), start < end,
           NEW r, TilesFrom(t, end, r)
    PROVE  TilesFrom(t, start, << [start |-> start, end |-> end,
                                   line |-> 1 + Lines(Part(t, 0, start))] >> \o r)
<1> DEFINE row == [start |-> start, end |-> end, line |-> 1 + Lines(Part(t, 0, start))]
           q == <<row>> \o r
<1>1. Len(t) \in Nat /\ start \in Nat /\ end \in Nat /\ start < end /\ end <= Len(t)
  BY TextLength
<1>2. row \in Ranges /\ row.start = start /\ row.end = end /\ row.line = 1 + Lines(Part(t, 0, start))
  <2>1. Part(t, 0, start) \in Texts
    BY <1>1, PartOf
  <2>2. Lines(Part(t, 0, start)) \in Nat
    BY <2>1, LinesCount
  <2>3. 1 + Lines(Part(t, 0, start)) \in Nat
    BY <2>2
  <2> QED BY <1>1, <2>3 DEF Ranges
<1>3. row.line = 1 + Lines(Part(t, 0, row.start))
  BY <1>2
<1> HIDE DEF row
<1>4. r \in Seq(Ranges) /\ Len(r) \in Nat
  BY DEF TilesFrom
<1>5. <<row>> \in Seq(Ranges) /\ Len(<<row>>) = 1 /\ (<<row>>)[1] = row
  BY <1>2
<1>6. /\ q \in Seq(Ranges) /\ Len(q) = 1 + Len(r)
      /\ \A i \in 1 .. 1 + Len(r) : q[i] = IF i <= 1 THEN (<<row>>)[i] ELSE r[i - 1]
  <2>1. /\ <<row>> \o r \in Seq(Ranges) /\ Len(<<row>> \o r) = Len(<<row>>) + Len(r)
        /\ \A i \in 1 .. Len(<<row>>) + Len(r) :
              (<<row>> \o r)[i] = IF i <= Len(<<row>>) THEN (<<row>>)[i] ELSE r[i - Len(<<row>>)]
    BY <1>4, <1>5, ConcatProperties
  <2> QED BY <1>5, <2>1
<1> HIDE DEF q
<1>7. q[1] = row /\ \A i \in 1 .. Len(r) : q[i + 1] = r[i]
  <2>1. q[1] = row
    BY <1>4, <1>5, <1>6
  <2>2. ASSUME NEW i \in 1 .. Len(r) PROVE q[i + 1] = r[i]
    <3>1. i + 1 \in 1 .. 1 + Len(r) /\ ~ (i + 1 <= 1) /\ i + 1 - 1 = i
      BY <1>4
    <3> QED BY <1>6, <3>1
  <2> QED BY <2>1, <2>2
<1>8. q # <<>> /\ q[1].start = start /\ q[Len(q)].end = Len(t)
  <2>1. q # <<>>
    BY <1>4, <1>6
  <2>2. CASE end = Len(t)
    <3>1. Len(r) = 0
      BY <2>2 DEF TilesFrom
    <3> QED BY <1>2, <1>6, <1>7, <2>1, <2>2, <3>1
  <2>3. CASE end < Len(t)
    <3>1. r # <<>> /\ r[Len(r)].end = Len(t)
      BY <2>3 DEF TilesFrom
    <3>2. Len(r) \in 1 .. Len(r)
      BY <1>4, <3>1
    <3>3. q[Len(r) + 1] = r[Len(r)] /\ Len(r) + 1 = Len(q)
      BY <1>4, <1>6, <1>7, <3>2
    <3> QED BY <1>2, <1>7, <2>1, <3>1, <3>3
  <2> QED BY <1>1, <2>2, <2>3
<1>9. ASSUME NEW k \in 1 .. Len(q) - 1 PROVE q[k].end = q[k + 1].start
  <2>1. k \in 1 .. Len(r) /\ q[k + 1] = r[k]
    BY <1>4, <1>6, <1>7
  <2>2. CASE k = 1
    <3>1. r # <<>>
      BY <1>4, <2>1
    <3>2. r[1].start = end
      BY <1>1, <3>1 DEF TilesFrom
    <3> QED BY <1>2, <1>7, <2>1, <2>2, <3>2
  <2>3. CASE k > 1
    <3>1. k - 1 \in 1 .. Len(r) - 1 /\ k - 1 \in 1 .. Len(r) /\ (k - 1) + 1 = k
      BY <1>4, <2>1, <2>3
    <3>2. PICK m \in 1 .. Len(r) - 1 : m \in 1 .. Len(r) /\ m + 1 = k
      BY <3>1
    <3>3. q[k] = r[m]
      BY <1>7, <3>2
    <3>4. r[m].end = r[m + 1].start
      BY DEF TilesFrom
    <3> QED BY <2>1, <3>2, <3>3, <3>4
  <2> QED BY <2>1, <2>2, <2>3
<1>10. ASSUME NEW k \in 1 .. Len(q)
       PROVE  q[k].start <= q[k].end /\ q[k].end <= Len(t)
              /\ q[k].line = 1 + Lines(Part(t, 0, q[k].start))
  <2>1. CASE k = 1
    BY <1>1, <1>2, <1>3, <1>7, <2>1
  <2>2. CASE k # 1
    <3>1. k - 1 \in 1 .. Len(r) /\ (k - 1) + 1 = k
      BY <1>4, <1>6, <2>2
    <3>2. PICK m \in 1 .. Len(r) : m + 1 = k
      BY <3>1
    <3>3. q[k] = r[m]
      BY <1>7, <3>2
    <3> QED BY <3>3 DEF TilesFrom
  <2> QED BY <2>1, <2>2
<1>11. ~ (start = Len(t))
  BY <1>1
<1>12. TilesFrom(t, start, q)
  BY <1>6, <1>8, <1>9, <1>10, <1>11 DEF TilesFrom
<1> QED BY <1>12 DEF q, row

LEMMA PagesFromTile ==
    ASSUME NEW t \in Texts, NEW start \in 0 .. Len(t)
    PROVE  TilesFrom(t, start, PagesFrom(t)[start])
<1>1. Len(t) \in Nat
  BY TextLength
<1> DEFINE S == {n \in Nat : \A s \in 0 .. Len(t) :
                     Len(t) - s <= n => TilesFrom(t, s, PagesFrom(t)[s])}
<1>2. TilesFrom(t, Len(t), PagesFrom(t)[Len(t)])
  <2>1. Len(t) \in 0 .. Len(t)
    BY <1>1
  <2>2. PagesFrom(t)[Len(t)] = <<>>
    BY <2>1, PagesFromIs
  <2>3. <<>> \in Seq(Ranges) /\ Len(<<>>) = 0
    BY EmptySeq
  <2>4. \A k : ~ (k \in 1 .. 0) /\ ~ (k \in 1 .. 0 - 1)
    OBVIOUS
  <2> QED BY <1>1, <2>2, <2>3, <2>4 DEF TilesFrom
<1>3. 0 \in S
  <2>1. ASSUME NEW s \in 0 .. Len(t), Len(t) - s <= 0 PROVE s = Len(t)
    BY <1>1, <2>1
  <2> QED BY <1>2, <2>1
<1>4. ASSUME NEW n \in S \cap Nat PROVE n + 1 \in S
  <2>1. ASSUME NEW s \in 0 .. Len(t), Len(t) - s <= n + 1
        PROVE  TilesFrom(t, s, PagesFrom(t)[s])
    <3>1. CASE s = Len(t)
      BY <1>2, <3>1
    <3>2. CASE s < Len(t)
      <4>1. PageEnd(t, s) \in s + 1 .. Len(t)
        BY <3>2, PageEndIs
      <4>2. /\ PageEnd(t, s) \in 0 .. Len(t) /\ PageEnd(t, s) \in s .. Len(t) /\ s < PageEnd(t, s)
            /\ Len(t) - PageEnd(t, s) <= n
        BY <1>1, <2>1, <4>1
      <4>3. TilesFrom(t, PageEnd(t, s), PagesFrom(t)[PageEnd(t, s)])
        BY <4>2
      <4>4. s # Len(t)
        BY <1>1, <3>2
      <4>5. PagesFrom(t)[s] = << [start |-> s, end |-> PageEnd(t, s),
                                  line |-> 1 + Lines(Part(t, 0, s))] >>
                              \o PagesFrom(t)[PageEnd(t, s)]
        BY <4>4, PagesFromIs
      <4> QED BY <4>2, <4>3, <4>5, TilesExtend
    <3> QED BY <1>1, <3>1, <3>2
  <2> QED BY <2>1
<1>5. Len(t) \in S
  <2> HIDE DEF S
  <2> QED BY <1>1, <1>3, <1>4, Induction
<1>6. Len(t) - start <= Len(t)
  BY <1>1
<1> QED BY <1>5, <1>6

(* Lines in front of a place that a splice does not reach, before and after. *)
LEMMA LinesBefore ==
    ASSUME NEW t \in Texts, NEW s \in Texts, NEW a \in 0 .. Len(t), NEW b \in a .. Len(t),
           NEW c \in b .. Len(t)
    PROVE  Lines(Part(Spliced(t, a, b, s), 0, c + (Len(s) - (b - a))))
               = Lines(Part(t, 0, c)) + (Lines(s) - Lines(Part(t, a, b)))
<1> DEFINE u == Spliced(t, a, b, s) m == a + Len(s) e == c + (Len(s) - (b - a))
<1>1. /\ Len(t) \in Nat /\ a \in Nat /\ b \in Nat /\ c \in Nat /\ Len(s) \in Nat
      /\ a <= b /\ b <= c /\ c <= Len(t)
  BY TextLength
<1>2. u \in Texts /\ Len(u) = Len(t) - (b - a) + Len(s)
  BY SplicedIs
<1>3. /\ Part(u, 0, a) = Part(t, 0, a)
      /\ Part(u, a, m) = s
      /\ Part(u, m, e) = Part(t, b, c)
  <2>1. 0 \in 0 .. a /\ a \in 0 .. a /\ 0 \in 0 .. Len(t) - b /\ c - b \in 0 .. Len(t) - b
    BY <1>1
  <2>2. /\ Part(u, 0, a) = Part(t, 0, a)
        /\ Part(u, a, a + Len(s)) = s
        /\ Part(u, a + Len(s) + 0, a + Len(s) + (c - b)) = Part(t, b + 0, b + (c - b))
    BY <2>1, SplicedParts
  <2>3. a + Len(s) + 0 = m /\ a + Len(s) + (c - b) = e /\ b + 0 = b /\ b + (c - b) = c
    BY <1>1
  <2> HIDE DEF u, m, e
  <2> QED BY <2>2, <2>3 DEF m
<1>4. m \in Nat /\ e \in Nat /\ a <= m /\ m <= e /\ e <= Len(u)
  BY <1>1, <1>2
<1> HIDE DEF u, m, e
<1>5. /\ Part(t, 0, a) \in Texts /\ Part(t, a, b) \in Texts /\ Part(t, b, c) \in Texts
      /\ Part(t, 0, b) \in Texts
  <2>1. 0 \in 0 .. Len(t) /\ a \in 0 .. Len(t) /\ b \in 0 .. Len(t) /\ b \in a .. Len(t)
        /\ c \in b .. Len(t) /\ b \in 0 .. Len(t)
    BY <1>1
  <2> QED BY <2>1, PartOf
<1>6. Lines(Part(t, 0, c)) = Lines(Part(t, 0, a)) + Lines(Part(t, a, b)) + Lines(Part(t, b, c))
  <2>1. Part(t, 0, c) = Part(t, 0, b) \o Part(t, b, c)
    <3>1. 0 \in 0 .. Len(t) /\ b \in 0 .. Len(t) /\ c \in b .. Len(t)
      BY <1>1
    <3> QED BY <3>1, PartSplit
  <2>2. Part(t, 0, b) = Part(t, 0, a) \o Part(t, a, b)
    <3>1. 0 \in 0 .. Len(t) /\ a \in 0 .. Len(t) /\ b \in a .. Len(t)
      BY <1>1
    <3> QED BY <3>1, PartSplit
  <2>3. Lines(Part(t, 0, c)) = Lines(Part(t, 0, b)) + Lines(Part(t, b, c))
    BY <1>5, <2>1, LinesCount
  <2>4. Lines(Part(t, 0, b)) = Lines(Part(t, 0, a)) + Lines(Part(t, a, b))
    BY <1>5, <2>2, LinesCount
  <2> QED BY <2>3, <2>4
<1>7. Lines(Part(u, 0, e)) = Lines(Part(t, 0, a)) + Lines(s) + Lines(Part(t, b, c))
  <2>1. Part(u, 0, e) = Part(u, 0, m) \o Part(u, m, e)
    <3>1. 0 \in 0 .. Len(u) /\ m \in 0 .. Len(u) /\ e \in m .. Len(u)
      BY <1>2, <1>4
    <3> QED BY <1>2, <3>1, PartSplit
  <2>2. Part(u, 0, m) = Part(u, 0, a) \o Part(u, a, m)
    <3>1. 0 \in 0 .. Len(u) /\ a \in 0 .. Len(u) /\ m \in a .. Len(u)
      BY <1>1, <1>2, <1>4
    <3> QED BY <1>2, <3>1, PartSplit
  <2>3. Part(u, 0, m) \in Texts
    BY <1>3, <1>5, <2>2, Joined
  <2>4. Lines(Part(u, 0, e)) = Lines(Part(u, 0, m)) + Lines(Part(t, b, c))
    <3>1. Lines(Part(u, 0, m) \o Part(t, b, c)) = Lines(Part(u, 0, m)) + Lines(Part(t, b, c))
      BY <1>5, <2>3, LinesCount
    <3> QED BY <1>3, <2>1, <3>1
  <2>5. Lines(Part(u, 0, m)) = Lines(Part(t, 0, a)) + Lines(s)
    <3>1. Lines(Part(t, 0, a) \o s) = Lines(Part(t, 0, a)) + Lines(s)
      BY <1>5, LinesCount
    <3> QED BY <1>3, <2>2, <3>1
  <2> QED BY <2>4, <2>5
<1>8. /\ Lines(Part(t, 0, a)) \in Nat /\ Lines(Part(t, a, b)) \in Nat /\ Lines(Part(t, b, c)) \in Nat
      /\ Lines(s) \in Nat
  BY <1>5, LinesCount
<1>9. Lines(Part(u, 0, e)) = Lines(Part(t, 0, c)) + (Lines(s) - Lines(Part(t, a, b)))
  BY <1>6, <1>7, <1>8
<1> QED BY <1>9 DEF u, e

(* A page table of t: PagesTile, but for the page that is shown. *)
Table(t, r) ==
    /\ r \in Seq(Ranges)
    /\ r # <<>>
    /\ r[1].start = 0 /\ r[Len(r)].end = Len(t)
    /\ \A k \in 1 .. Len(r) - 1 : r[k].end = r[k + 1].start
    /\ \A k \in DOMAIN r : /\ r[k].start <= r[k].end
                           /\ r[k].line = 1 + Lines(Part(t, 0, r[k].start))

(* The pages of a table are in order: what k pages further begins behind. *)
LEMMA TableOrdered ==
    ASSUME NEW t, NEW r, Table(t, r)
    PROVE  \A j, k \in 1 .. Len(r) : j < k => r[j].end <= r[k].start
<1>1. r \in Seq(Ranges) /\ Len(r) \in Nat /\ DOMAIN r = 1 .. Len(r)
  BY DEF Table
<1>2. \A k \in 1 .. Len(r) : r[k] \in Ranges
  BY <1>1
<1>3. \A k \in 1 .. Len(r) : r[k].start \in Nat /\ r[k].end \in Nat /\ r[k].start <= r[k].end
  BY <1>1, <1>2 DEF Table, Ranges
<1>4. \A k \in 1 .. Len(r) - 1 : r[k].end = r[k + 1].start
  BY DEF Table
<1> DEFINE S == {n \in Nat : \A j \in 1 .. Len(r) :
                     j + 1 + n \in 1 .. Len(r) => r[j].end <= r[j + 1 + n].start}
<1>5. 0 \in S
  <2>1. ASSUME NEW j \in 1 .. Len(r), j + 1 + 0 \in 1 .. Len(r)
        PROVE  r[j].end <= r[j + 1 + 0].start
    <3>1. j \in 1 .. Len(r) - 1 /\ j + 1 + 0 = j + 1
      BY <1>1, <2>1
    <3>2. r[j].end = r[j + 1].start /\ r[j].end \in Nat
      BY <1>3, <1>4, <3>1
    <3> QED BY <3>1, <3>2
  <2> QED BY <2>1
<1>6. ASSUME NEW n \in S \cap Nat PROVE n + 1 \in S
  <2>1. ASSUME NEW j \in 1 .. Len(r), j + 1 + (n + 1) \in 1 .. Len(r)
        PROVE  r[j].end <= r[j + 1 + (n + 1)].start
    <3> DEFINE k == j + 1 + n
    <3>1. k \in 1 .. Len(r) /\ k \in 1 .. Len(r) - 1 /\ k + 1 = j + 1 + (n + 1)
      BY <1>1, <2>1
    <3>2. r[j].end <= r[k].start
      BY <3>1
    <3> HIDE DEF k
    <3>3. r[k].end = r[k + 1].start /\ r[k].start <= r[k].end
      BY <1>3, <1>4, <3>1
    <3>4. r[j].end \in Nat /\ r[k].start \in Nat /\ r[k].end \in Nat
      BY <1>3, <3>1
    <3>5. r[j].end <= r[k + 1].start
      BY <3>2, <3>3, <3>4
    <3> QED BY <3>1, <3>5
  <2> QED BY <2>1
<1>7. Nat \subseteq S
  <2> HIDE DEF S
  <2> QED BY <1>5, <1>6, Induction
<1>8. ASSUME NEW j \in 1 .. Len(r), NEW k \in 1 .. Len(r), j < k
      PROVE  r[j].end <= r[k].start
  <2>1. k - j - 1 \in Nat /\ j + 1 + (k - j - 1) = k
    BY <1>1, <1>8
  <2>2. k - j - 1 \in S
    BY <1>7, <2>1
  <2> QED BY <2>1, <2>2
<1> QED BY <1>8

LEMMA TableBounds ==
    ASSUME NEW t \in Texts, NEW r, Table(t, r), NEW k \in 1 .. Len(r)
    PROVE  /\ r[k] \in Ranges
           /\ r[k].start \in 0 .. Len(t) /\ r[k].end \in r[k].start .. Len(t)
<1>1. r \in Seq(Ranges) /\ Len(r) \in Nat /\ DOMAIN r = 1 .. Len(r) /\ Len(t) \in Nat
  BY TextLength DEF Table
<1>2. Len(r) \in 1 .. Len(r)
  BY <1>1
<1>3. r[k] \in Ranges /\ r[Len(r)] \in Ranges
  BY <1>1, <1>2
<1>4. /\ r[k].start \in Nat /\ r[k].end \in Nat /\ r[Len(r)].start \in Nat /\ r[Len(r)].end \in Nat
  BY <1>3 DEF Ranges
<1>5. r[k].start <= r[k].end /\ r[Len(r)].start <= r[Len(r)].end /\ r[Len(r)].end = Len(t)
  BY <1>1, <1>2 DEF Table
<1>6. r[k].end <= Len(t)
  <2>1. CASE k = Len(r)
    <3>1. r[k].end = Len(t)
      BY <1>5, <2>1
    <3> QED BY <1>1, <3>1
  <2>2. CASE k < Len(r)
    <3>1. r[k].end <= r[Len(r)].start
      BY <1>2, <2>2, TableOrdered
    <3> DEFINE x == r[k].end y == r[Len(r)].start z == r[Len(r)].end
    <3>2. x <= y /\ y <= z /\ z = Len(t) /\ x \in Nat /\ y \in Nat /\ z \in Nat
      BY <1>4, <1>5, <3>1
    <3> HIDE DEF x, y, z
    <3>3. x <= Len(t)
      BY <1>1, <3>2
    <3> QED BY <3>3 DEF x
  <2>3. k = Len(r) \/ k < Len(r)
    <3>1. Len(r) \in Nat
      BY <1>1
    <3> QED BY <3>1
  <2> QED BY <2>1, <2>2, <2>3
<1> QED BY <1>1, <1>3, <1>4, <1>5, <1>6

(* A preview in order: PagesTile, with the types. *)
Tiled(p) ==
    /\ p \in Previews
    /\ p.page \in 1 .. Len(p.ranges)
    /\ Table(p.text, p.ranges)
    /\ p.lines = 1 + Lines(p.text)

LEMMA PagesTable ==
    ASSUME NEW t \in Texts
    PROVE  Table(t, Pages(t))
<1>1. CASE t = <<>>
  <2> DEFINE row == [start |-> 0, end |-> 0, line |-> 1]
  <2>1. row \in Ranges /\ row.start = 0 /\ row.end = 0 /\ row.line = 1
    BY DEF Ranges
  <2>2. Pages(t) = <<row>>
    BY <1>1 DEF Pages
  <2> HIDE DEF row
  <2>3. /\ <<row>> \in Seq(Ranges) /\ Len(<<row>>) = 1 /\ (<<row>>)[1] = row /\ <<row>> # <<>>
        /\ DOMAIN <<row>> = {1}
    BY <2>1
  <2>4. Part(t, 0, 0) = <<>> /\ Len(t) = 0
    BY <1>1, NoText, PartAll
  <2>5. \A k : ~ (k \in 1 .. 1 - 1)
    OBVIOUS
  <2>6. Lines(<<>>) = 0
    BY LinesCount
  <2> QED BY <2>1, <2>2, <2>3, <2>4, <2>5, <2>6 DEF Table
<1>2. CASE t # <<>>
  <2> DEFINE r == PagesFrom(t)[0]
  <2>1. Pages(t) = r
    BY <1>2 DEF Pages
  <2>2. Len(t) \in Nat /\ 0 \in 0 .. Len(t) /\ 0 < Len(t)
    BY <1>2, TextLength, NoText
  <2>3. TilesFrom(t, 0, r)
    BY <2>2, PagesFromTile
  <2> HIDE DEF r
  <2>4. r \in Seq(Ranges) /\ DOMAIN r = 1 .. Len(r)
    BY <2>3 DEF TilesFrom
  <2>5. Table(t, r)
    BY <2>2, <2>3, <2>4 DEF TilesFrom, Table
  <2> QED BY <2>1, <2>5
<1> QED BY <1>1, <1>2

LEMMA TableLength ==
    ASSUME NEW t, NEW r, Table(t, r)
    PROVE  Len(r) \in Nat /\ Len(r) >= 1 /\ 1 \in 1 .. Len(r) /\ DOMAIN r = 1 .. Len(r)
<1>1. r \in Seq(Ranges) /\ r # <<>>
  BY DEF Table
<1>2. Len(r) \in Nat /\ Len(r) # 0 /\ DOMAIN r = 1 .. Len(r)
  BY <1>1
<1> QED BY <1>2

LEMMA CreatedTiled ==
    ASSUME NEW t \in Texts
    PROVE  Tiled(Created(t)) /\ Created(t).text = t /\ Created(t).page = 1
<1>1. Table(t, Pages(t))
  BY PagesTable
<1>2. Pages(t) \in Seq(Ranges)
  BY <1>1 DEF Table
<1>3. 1 \in 1 .. Len(Pages(t))
  BY <1>1, TableLength
<1>4. Lines(t) \in Nat /\ 1 + Lines(t) \in Nat
  BY LinesCount
<1> QED BY <1>1, <1>2, <1>3, <1>4 DEF Created, Tiled, Previews, Texts

(* What page a preview shows. *)
LEMMA PageIs ==
    ASSUME NEW p, Tiled(p)
    PROVE  /\ p.text \in Texts
           /\ PageRange(p).start \in 0 .. Len(p.text)
           /\ PageRange(p).end \in PageRange(p).start .. Len(p.text)
           /\ Visible(p) \in Texts
           /\ Len(Visible(p)) = PageRange(p).end - PageRange(p).start
<1>1. p.text \in Texts /\ Table(p.text, p.ranges) /\ p.page \in 1 .. Len(p.ranges)
  BY DEF Tiled, Previews, Texts
<1>2. /\ PageRange(p).start \in 0 .. Len(p.text)
      /\ PageRange(p).end \in PageRange(p).start .. Len(p.text)
  BY <1>1, TableBounds DEF PageRange
<1> QED BY <1>1, <1>2, PartOf DEF Visible

LEMMA TurnedTiled ==
    ASSUME NEW p, Tiled(p), NEW k \in 1 .. Len(p.ranges)
    PROVE  /\ Tiled([p EXCEPT !.page = k]) /\ [p EXCEPT !.page = k].text = p.text
<1>1. Len(p.ranges) \in Nat
  BY TableLength DEF Tiled
<1>2. k \in Nat
  BY <1>1
<1> QED BY <1>2 DEF Tiled, Previews

(* replace_visible as an operator of the table: page i of t becomes s. *)
Shifted(r, i, t, s) ==
    LET delta == Len(s) - (r[i].end - r[i].start)
        lines == Lines(s) - Lines(Part(t, r[i].start, r[i].end))
        Moved(k) == IF k < i THEN r[k]
                    ELSE IF k = i THEN [r[i] EXCEPT !.end = @ + delta]
                    ELSE [start |-> r[k].start + delta,
                          end |-> r[k].end + delta,
                          line |-> r[k].line + lines]
    IN  [k \in DOMAIN r |-> Moved(k)]

LEMMA ShiftedTable ==
    ASSUME NEW t \in Texts, NEW s \in Texts, NEW r, Table(t, r), NEW i \in 1 .. Len(r)
    PROVE  /\ Table(Spliced(t, r[i].start, r[i].end, s), Shifted(r, i, t, s))
           /\ Len(Shifted(r, i, t, s)) = Len(r)
           /\ Shifted(r, i, t, s)[i].start = r[i].start
           /\ Shifted(r, i, t, s)[i].end = r[i].start + Len(s)
<1> DEFINE a == r[i].start b == r[i].end d == Len(s) - (b - a)
           lines == Lines(s) - Lines(Part(t, a, b))
           u == Spliced(t, a, b, s)
           q == Shifted(r, i, t, s)
           n == Len(r)
<1>1. /\ n \in Nat /\ n >= 1 /\ 1 \in 1 .. n /\ n \in 1 .. n /\ DOMAIN r = 1 .. n
      /\ \A k \in 1 .. n - 1 : k \in 1 .. n /\ k + 1 \in 1 .. n
      /\ \A k \in 1 .. n : k \in Nat
      /\ i \in 1 .. n
  BY TableLength
<1>2. \A k \in 1 .. n : /\ r[k] \in Ranges
                        /\ r[k].start \in 0 .. Len(t)
                        /\ r[k].end \in r[k].start .. Len(t)
  BY TableBounds
<1>3. \A k \in 1 .. n : /\ r[k].start \in Nat /\ r[k].end \in Nat /\ r[k].line \in Nat
                        /\ r[k].start <= r[k].end /\ r[k].end <= Len(t)
                        /\ r[k].line = 1 + Lines(Part(t, 0, r[k].start))
  <2>1. \A k \in 1 .. n : r[k].line \in Nat
    BY <1>2 DEF Ranges
  <2>2. \A k \in 1 .. n : r[k].line = 1 + Lines(Part(t, 0, r[k].start))
    BY <1>1 DEF Table
  <2>3. Len(t) \in Nat
    BY TextLength
  <2> QED BY <1>2, <2>1, <2>2, <2>3
<1>4. \A k \in 1 .. n - 1 : r[k].end = r[k + 1].start
  BY DEF Table
<1>5. /\ \A k \in 1 .. n : k < i => r[k].start <= a /\ r[k].end <= a
      /\ \A k \in 1 .. n : i < k => b <= r[k].start
  <2>1. \A j, k \in 1 .. n : j < k => r[j].end <= r[k].start
    BY TableOrdered
  <2>2. ASSUME NEW k \in 1 .. n, k < i PROVE r[k].start <= a /\ r[k].end <= a
    <3>1. r[k].end <= a /\ r[k].start <= r[k].end /\ r[k].start \in Nat /\ r[k].end \in Nat /\ a \in Nat
      BY <1>3, <2>1, <2>2
    <3> HIDE DEF a
    <3> QED BY <3>1
  <2> QED BY <2>1, <2>2
<1>6. /\ a \in 0 .. Len(t) /\ b \in a .. Len(t) /\ a \in Nat /\ b \in Nat /\ a <= b /\ b <= Len(t)
      /\ Len(t) \in Nat /\ Len(s) \in Nat /\ d \in Int
  BY <1>2, <1>3, TextLength
<1>7. /\ u \in Texts /\ Len(u) = Len(t) + d
  <2> HIDE DEF a, b
  <2>1. u \in Texts /\ Len(u) = Len(t) - (b - a) + Len(s)
    BY <1>6, SplicedIs
  <2> HIDE DEF u
  <2> QED BY <1>6, <2>1
<1>8. Part(t, a, b) \in Texts /\ Lines(Part(t, a, b)) \in Nat /\ Lines(s) \in Nat /\ lines \in Int
  <2>1. Part(t, a, b) \in Texts
    BY <1>6, PartOf
  <2> HIDE DEF a, b
  <2> QED BY <2>1, LinesCount
<1>9. /\ DOMAIN q = 1 .. n
      /\ q = [k \in 1 .. n |-> q[k]]
      /\ \A k \in 1 .. n : k < i => q[k] = r[k]
      /\ q[i] = [r[i] EXCEPT !.end = @ + d]
      /\ \A k \in 1 .. n : i < k => q[k] = [start |-> r[k].start + d, end |-> r[k].end + d,
                                            line |-> r[k].line + lines]
  <2>1. q = [k \in 1 .. n |-> IF k < i THEN r[k]
                              ELSE IF k = i THEN [r[i] EXCEPT !.end = @ + d]
                              ELSE [start |-> r[k].start + d, end |-> r[k].end + d,
                                    line |-> r[k].line + lines]]
    BY <1>1 DEF Shifted
  <2> HIDE DEF q, d, lines, a, b, n
  <2> QED BY <1>1, <2>1
<1> HIDE DEF q, u, lines, n
<1>10. \A k \in 1 .. n : k < i \/ k = i \/ i < k
  BY <1>1
<1>11. q[i].start = a /\ q[i].end = b + d /\ q[i].line = r[i].line /\ b + d = a + Len(s)
  <2>1. r[i] \in Ranges
    BY <1>1, <1>2
  <2>2. q[i].start = a /\ q[i].end = b + d /\ q[i].line = r[i].line
    <3> HIDE DEF d
    <3> QED BY <1>9, <2>1 DEF Ranges
  <2> HIDE DEF a, b
  <2> QED BY <1>6, <2>2
<1>12. \A k \in 1 .. n : k < i => /\ q[k].start = r[k].start /\ q[k].end = r[k].end
                                  /\ q[k].line = r[k].line
  BY <1>9
<1>13. \A k \in 1 .. n : i < k => /\ q[k].start = r[k].start + d /\ q[k].end = r[k].end + d
                                  /\ q[k].line = r[k].line + lines
  <2> HIDE DEF d
  <2> QED BY <1>9
<1>14. \A k \in 1 .. n : q[k].line = 1 + Lines(Part(u, 0, q[k].start))
  <2>1. \A c \in 0 .. a : Part(u, 0, c) = Part(t, 0, c)
    <3> HIDE DEF a, b
    <3>1. \A x \in 0 .. a : \A y \in x .. a : Part(u, x, y) = Part(t, x, y)
      BY <1>6, SplicedParts DEF u
    <3>2. 0 \in 0 .. a
      BY <1>6
    <3> QED BY <3>1, <3>2
  <2>2. ASSUME NEW k \in 1 .. n, k < i PROVE q[k].line = 1 + Lines(Part(u, 0, q[k].start))
    <3>1. r[k].start \in 0 .. a
      BY <1>3, <1>5, <1>6, <2>2
    <3> HIDE DEF a
    <3> QED BY <1>3, <1>12, <2>1, <2>2, <3>1
  <2>3. q[i].line = 1 + Lines(Part(u, 0, q[i].start))
    <3>1. r[i].line = 1 + Lines(Part(t, 0, a)) /\ a \in 0 .. a
      BY <1>1, <1>3, <1>6
    <3> HIDE DEF a
    <3> QED BY <1>11, <2>1, <3>1
  <2>4. ASSUME NEW k \in 1 .. n, i < k PROVE q[k].line = 1 + Lines(Part(u, 0, q[k].start))
    <3> DEFINE c == r[k].start
    <3>1. c \in b .. Len(t) /\ c \in Nat /\ r[k].line = 1 + Lines(Part(t, 0, c))
      BY <1>3, <1>5, <1>6, <2>4
    <3>2. Lines(Part(u, 0, c + d)) = Lines(Part(t, 0, c)) + lines
      <4> HIDE DEF a, b, c
      <4> QED BY <1>6, <3>1, LinesBefore DEF u, d, lines
    <3>3. Lines(Part(t, 0, c)) \in Nat
      <4>1. 0 \in 0 .. Len(t) /\ c \in 0 .. Len(t)
        BY <1>6, <3>1
      <4>2. Part(t, 0, c) \in Texts
        BY <4>1, PartOf
      <4> QED BY <4>2, LinesCount
    <3>4. q[k].start = c + d /\ q[k].line = r[k].line + lines
      BY <1>13, <2>4
    <3> HIDE DEF c, d
    <3> QED BY <1>8, <3>1, <3>2, <3>3, <3>4
  <2> QED BY <1>10, <2>2, <2>3, <2>4
<1>15. ASSUME NEW k \in 1 .. n
       PROVE  /\ q[k].start \in Nat /\ q[k].end \in Nat /\ q[k].line \in Nat
              /\ q[k].start <= q[k].end /\ q[k].end <= Len(u)
  <2> HIDE DEF a, b, d
  <2>1. CASE k < i
    <3>1. q[k].end <= a /\ a + Len(s) <= Len(u) /\ Len(u) \in Nat
      <4>1. b + d = a + Len(s) /\ Len(u) = Len(t) + d /\ Len(u) \in Nat
        BY <1>7, <1>11, TextLength
      <4> QED BY <1>5, <1>6, <1>12, <2>1, <4>1
    <3> QED BY <1>3, <1>6, <1>12, <2>1, <3>1
  <2>2. CASE k = i
    <3>1. b + d \in Nat /\ a <= b + d /\ b + d <= Len(u)
      BY <1>6, <1>7, <1>11
    <3> QED BY <1>3, <1>6, <1>11, <2>2, <3>1
  <2>3. CASE i < k
    <3> DEFINE x == r[k].start y == r[k].end
    <3>1. x \in Nat /\ y \in Nat /\ b <= x /\ x <= y /\ y <= Len(t)
      BY <1>3, <1>5, <2>3
    <3>2. q[k].start = x + d /\ q[k].end = y + d
      BY <1>13, <2>3
    <3> HIDE DEF x, y
    <3>3. x + d \in Nat /\ y + d \in Nat /\ x + d <= y + d /\ y + d <= Len(t) + d
      BY <1>6, <1>11, <3>1
    <3>4. Part(u, 0, x + d) \in Texts
      <4>1. Len(u) \in Nat /\ 0 \in 0 .. Len(u) /\ x + d \in 0 .. Len(u)
        BY <1>7, <3>3, TextLength
      <4> QED BY <1>7, <4>1, PartOf
    <3>5. Lines(Part(u, 0, x + d)) \in Nat
      BY <3>4, LinesCount
    <3>6. q[k].line = 1 + Lines(Part(u, 0, x + d))
      BY <1>14, <3>2
    <3> QED BY <1>7, <3>2, <3>3, <3>5, <3>6
  <2> QED BY <1>10, <2>1, <2>2, <2>3
<1>16. ASSUME NEW k \in 1 .. n PROVE q[k] \in Ranges
  <2>1. CASE k < i
    BY <1>2, <1>9, <2>1
  <2>2. CASE k = i
    <3>1. r[i] \in Ranges /\ q[i] = [r[i] EXCEPT !.end = b + d] /\ b + d = q[i].end /\ q[i].end \in Nat
      <4> HIDE DEF a, d
      <4> QED BY <1>1, <1>2, <1>9, <1>11, <1>15
    <3> HIDE DEF b, d
    <3> QED BY <2>2, <3>1 DEF Ranges
  <2>3. CASE i < k
    <3>1. q[k] = [start |-> q[k].start, end |-> q[k].end, line |-> q[k].line]
      <4> HIDE DEF d
      <4> QED BY <1>9, <2>3
    <3> QED BY <1>15, <3>1 DEF Ranges
  <2> QED BY <1>10, <2>1, <2>2, <2>3
<1>17. ASSUME NEW k \in 1 .. n - 1 PROVE q[k].end = q[k + 1].start
  <2>1. k \in 1 .. n /\ k + 1 \in 1 .. n /\ r[k].end = r[k + 1].start
    BY <1>1, <1>4
  <2>2. CASE k + 1 < i
    <3>1. k < i
      BY <1>1, <2>1, <2>2
    <3> QED BY <1>12, <2>1, <2>2, <3>1
  <2>3. CASE k + 1 = i
    <3>1. k < i
      BY <1>1, <2>1, <2>3
    <3> HIDE DEF d
    <3> QED BY <1>11, <1>12, <2>1, <2>3, <3>1
  <2>4. CASE k = i
    <3>1. i < k + 1
      BY <1>1, <2>4
    <3> HIDE DEF d
    <3> QED BY <1>11, <1>13, <2>1, <2>4, <3>1
  <2>5. CASE i < k
    <3>1. i < k + 1
      BY <1>1, <2>1, <2>5
    <3> HIDE DEF d
    <3> QED BY <1>13, <2>1, <2>5, <3>1
  <2>6. k + 1 < i \/ k + 1 = i \/ k = i \/ i < k
    BY <1>1, <2>1
  <2> QED BY <2>2, <2>3, <2>4, <2>5, <2>6
<1>18. q[1].start = 0 /\ q[n].end = Len(u)
  <2>1. r[1].start = 0 /\ r[n].end = Len(t)
    BY DEF Table, n
  <2>2. q[1].start = 0
    <3>1. CASE i = 1
      <4> HIDE DEF d
      <4> QED BY <1>11, <2>1, <3>1
    <3>2. CASE i # 1
      <4>1. 1 < i
        BY <1>1, <3>2
      <4> QED BY <1>1, <1>12, <2>1, <4>1
    <3> QED BY <3>1, <3>2
  <2>3. q[n].end = Len(u)
    <3>1. CASE i = n
      <4> HIDE DEF d, a
      <4> QED BY <1>7, <1>11, <2>1, <3>1
    <3>2. CASE i # n
      <4>1. i < n
        BY <1>1, <3>2
      <4> HIDE DEF d
      <4> QED BY <1>1, <1>7, <1>13, <2>1, <4>1
    <3> QED BY <3>1, <3>2
  <2> QED BY <2>2, <2>3
<1>19. q \in Seq(Ranges) /\ Len(q) = n /\ q # <<>>
  <2>1. q \in [1 .. n -> Ranges]
    BY <1>9, <1>16
  <2>2. q \in Seq(Ranges) /\ Len(q) = n
    BY <1>1, <2>1
  <2> QED BY <1>1, <2>2
<1>20. Table(u, q)
  BY <1>9, <1>14, <1>15, <1>17, <1>18, <1>19 DEF Table
<1> QED BY <1>11, <1>19, <1>20 DEF q, u, n

(* replace_visible keeps the pages in order and shows what is put in. *)
LEMMA ReplacedTiled ==
    ASSUME NEW p, Tiled(p), NEW s \in Texts
    PROVE  /\ Tiled(Replaced(p, s))
           /\ Replaced(p, s).text = Spliced(p.text, PageRange(p).start, PageRange(p).end, s)
           /\ PageRange(Replaced(p, s)).start = PageRange(p).start
           /\ Visible(Replaced(p, s)) = s
<1> DEFINE t == p.text r == p.ranges i == p.page
           a == r[i].start b == r[i].end
           q == Shifted(r, i, t, s)
           u == Spliced(t, a, b, s)
           lines == Lines(s) - Lines(Part(t, a, b))
           w == Replaced(p, s)
<1>1. t \in Texts /\ Table(t, r) /\ i \in 1 .. Len(r) /\ p.lines = 1 + Lines(t) /\ p \in Previews
  BY DEF Tiled, Previews, Texts
<1>2. a \in 0 .. Len(t) /\ b \in a .. Len(t) /\ PageRange(p) = r[i] /\ r[i] \in Ranges
  BY <1>1, TableBounds DEF PageRange
<1>3. /\ Table(u, q) /\ Len(q) = Len(r)
      /\ q[i].start = a /\ q[i].end = a + Len(s)
  BY <1>1, ShiftedTable
<1>4. w = [p EXCEPT !.text = u, !.ranges = q, !.lines = p.lines + lines]
  <2>1. Visible(p) = Part(t, a, b)
    BY <1>2 DEF Visible
  <2>2. q = [k \in DOMAIN r |->
                 IF k < i THEN r[k]
                 ELSE IF k = i THEN [r[i] EXCEPT !.end = @ + (Len(s) - (b - a))]
                 ELSE [start |-> r[k].start + (Len(s) - (b - a)),
                       end |-> r[k].end + (Len(s) - (b - a)),
                       line |-> r[k].line + lines]]
    BY DEF Shifted
  <2> QED BY <1>2, <2>1, <2>2 DEF Replaced
<1>5. w.text = u /\ w.ranges = q /\ w.page = i /\ w.lines = p.lines + lines
  <2> HIDE DEF t, r, i, a, b, q, u, lines, w
  <2> QED BY <1>1, <1>4 DEF Previews, i
<1>6. u \in Texts /\ Part(u, a, a + Len(s)) = s
  <2> HIDE DEF t, r, i, a, b
  <2> QED BY <1>1, <1>2, SplicedIs, SplicedParts
<1>7. p.lines + lines = 1 + Lines(u)
  <2> HIDE DEF r, i, a, b
  <2>1. Len(t) \in b .. Len(t) /\ Len(t) \in Nat /\ a \in Nat /\ b \in Nat /\ Len(s) \in Nat
    BY <1>1, <1>2, TextLength
  <2>2. Lines(Part(u, 0, Len(t) + (Len(s) - (b - a)))) = Lines(Part(t, 0, Len(t))) + lines
    BY <1>1, <1>2, <2>1, LinesBefore
  <2>3. Len(u) = Len(t) - (b - a) + Len(s)
    BY <1>1, <1>2, SplicedIs
  <2>4. Len(u) = Len(t) + (Len(s) - (b - a))
    <3> HIDE DEF u, t
    <3> QED BY <2>1, <2>3
  <2>5. Part(u, 0, Len(u)) = u /\ Part(t, 0, Len(t)) = t
    BY <1>1, <1>6, PartAll
  <2>6. Lines(u) = Lines(t) + lines
    BY <2>2, <2>4, <2>5
  <2>7. Lines(t) \in Nat /\ Lines(s) \in Nat /\ Lines(Part(t, a, b)) \in Nat
    <3>1. Part(t, a, b) \in Texts
      BY <1>1, <1>2, PartOf
    <3> QED BY <1>1, <3>1, LinesCount
  <2> HIDE DEF t, u
  <2> QED BY <1>1, <2>6, <2>7
<1> HIDE DEF t, a, b, u, q, lines, w
<1>8. w.page \in 1 .. Len(w.ranges) /\ w.page \in Nat
  BY <1>1, <1>3, <1>5, TableLength
<1>9. w \in Previews
  <2>1. q \in Seq(Ranges)
    BY <1>3 DEF Table
  <2>2. Lines(u) \in Nat /\ 1 + Lines(u) \in Nat
    BY <1>6, LinesCount
  <2> QED BY <1>1, <1>4, <1>6, <1>7, <2>1, <2>2 DEF Previews, Texts
<1>10. PageRange(w).start = a /\ PageRange(w).end = a + Len(s)
  BY <1>3, <1>5 DEF PageRange
<1>11. Visible(w) = s
  BY <1>5, <1>6, <1>10 DEF Visible
<1>12. Tiled(w)
  BY <1>3, <1>5, <1>7, <1>8, <1>9 DEF Tiled
<1> QED BY <1>2, <1>5, <1>10, <1>11, <1>12 DEF w, u, t, a, b

(* bisect_right: the page that a position is on, its end included on the    *)
(* last one.                                                                *)
LEMMA PageAtIs ==
    ASSUME NEW p, Tiled(p), NEW x \in 0 .. Len(p.text),
           NEW k, k = PageAt(p, x)
    PROVE  /\ k \in 1 .. Len(p.ranges)
           /\ p.ranges[k].start <= x /\ x <= p.ranges[k].end
           /\ x < p.ranges[k].end \/ p.ranges[k].end = Len(p.text)
<1> DEFINE r == p.ranges
           S == {i \in DOMAIN r : r[i].start <= x}
<1>1. p.text \in Texts /\ Table(p.text, r)
  BY DEF Tiled, Previews, Texts
<1>2. Len(r) \in Nat /\ Len(r) >= 1 /\ 1 \in 1 .. Len(r) /\ DOMAIN r = 1 .. Len(r)
  BY <1>1, TableLength
<1>3. x \in Nat /\ Len(p.text) \in Nat /\ x <= Len(p.text)
  BY <1>1, TextLength
<1>4. \A i \in 1 .. Len(r) : /\ r[i].start \in 0 .. Len(p.text)
                             /\ r[i].end \in r[i].start .. Len(p.text)
  BY <1>1, TableBounds
<1>5. 1 \in S
  <2>1. r[1].start = 0
    BY <1>1 DEF Table
  <2> QED BY <1>2, <1>3, <2>1
<1>6. PICK g \in S : \A i \in S : i <= g
  <2>1. S \in SUBSET (0 .. Len(r))
    BY <1>2
  <2> HIDE DEF S
  <2> QED BY <1>2, <1>5, <2>1, GreatestExists
<1>7. g \in 1 .. Len(r) /\ g \in Nat /\ g >= 1 /\ r[g].start <= x
  BY <1>2, <1>6
<1>8. S = 1 .. g
  <2>1. ASSUME NEW i \in 1 .. g PROVE i \in S
    <3>1. i \in 1 .. Len(r)
      BY <1>2, <1>7
    <3>2. CASE i = g
      BY <3>2
    <3>3. CASE i < g
      <4>1. r[i].end <= r[g].start
        BY <1>1, <1>7, <3>1, <3>3, TableOrdered
      <4>2. /\ r[i].start \in Nat /\ r[i].end \in Nat /\ r[g].start \in Nat
            /\ r[i].start <= r[i].end
        BY <1>3, <1>4, <1>7, <3>1
      <4>3. r[i].start <= x
        BY <1>3, <1>7, <4>1, <4>2
      <4> QED BY <1>2, <3>1, <4>3
    <3>4. i = g \/ i < g
      BY <1>7
    <3> QED BY <3>2, <3>3, <3>4
  <2>2. ASSUME NEW i \in S PROVE i \in 1 .. g
    BY <1>2, <1>6, <1>7
  <2> QED BY <2>1, <2>2
<1>9. k = g
  <2>1. Cardinality(S) = g
    <3>1. 1 \in Int /\ g \in Int
      BY <1>7
    <3>2. Cardinality(1 .. g) = IF 1 > g THEN 0 ELSE g - 1 + 1
      BY <3>1, FS_Interval
    <3>3. Cardinality(1 .. g) = g
      BY <1>7, <3>2
    <3> HIDE DEF S
    <3> QED BY <1>8, <3>3
  <2>2. PageAt(p, x) = IF Cardinality(S) = 0 THEN 1 ELSE Cardinality(S)
    BY DEF PageAt
  <2> HIDE DEF S
  <2> QED BY <1>7, <2>1, <2>2
<1>10. CASE g = Len(r)
  <2>1. r[g].end = Len(p.text)
    BY <1>1, <1>10 DEF Table
  <2> QED BY <1>3, <1>7, <1>9, <2>1
<1>11. CASE g # Len(r)
  <2>1. g \in 1 .. Len(r) - 1 /\ g + 1 \in 1 .. Len(r) /\ ~ (g + 1 <= g)
    BY <1>2, <1>7, <1>11
  <2>2. g + 1 \notin S
    BY <1>6, <2>1
  <2>3. ~ (r[g + 1].start <= x)
    BY <1>2, <2>1, <2>2
  <2>4. r[g].end = r[g + 1].start /\ r[g + 1].start \in Nat
    BY <1>1, <1>3, <1>4, <2>1 DEF Table
  <2>5. x < r[g].end
    BY <1>3, <2>3, <2>4
  <2> QED BY <1>3, <1>7, <1>9, <2>4, <2>5
<1> QED BY <1>10, <1>11

----------------------------------------------------------------------------
(* Positions *)

(* What is counted up to a position, in two parts. *)
LEMMA CountedInParts ==
    ASSUME NEW t \in Texts, NEW a \in 0 .. Len(t), NEW b \in a .. Len(t)
    PROVE  /\ Units(Part(t, 0, a)) \in Nat /\ Units(Part(t, a, b)) \in Nat
           /\ Units(Part(t, 0, b)) = Units(Part(t, 0, a)) + Units(Part(t, a, b))
           /\ Lines(Part(t, 0, a)) \in Nat /\ Lines(Part(t, a, b)) \in Nat
           /\ Lines(Part(t, 0, b)) = Lines(Part(t, 0, a)) + Lines(Part(t, a, b))
<1> DEFINE v == Part(t, 0, a) w == Part(t, a, b)
<1>1. 0 \in 0 .. Len(t) /\ a \in 0 .. Len(t) /\ b \in a .. Len(t)
  BY TextLength
<1>2. Part(t, 0, b) = v \o w
  BY <1>1, PartSplit
<1>3. v \in Texts /\ w \in Texts
  BY <1>1, PartOf
<1> HIDE DEF v, w
<1>4. /\ Units(v) \in Nat /\ Units(w) \in Nat /\ Units(v \o w) = Units(v) + Units(w)
      /\ Lines(v) \in Nat /\ Lines(w) \in Nat /\ Lines(v \o w) = Lines(v) + Lines(w)
  BY <1>3, LinesCount, UnitsCount
<1> QED BY <1>2, <1>4 DEF v, w

LEMMA LineOfSymbol ==
    ASSUME NEW t \in Texts, NEW k \in 1 .. Len(t)
    PROVE  Lines(Part(t, k - 1, k)) = IF t[k] = NewLine THEN 1 ELSE 0
<1> DEFINE w == Part(t, k - 1, k) S == {i \in DOMAIN w : w[i] = NewLine}
<1>1. Len(t) \in Nat /\ k \in Nat /\ k >= 1 /\ k <= Len(t)
  BY TextLength
<1>2. k - 1 \in 0 .. Len(t) /\ k \in k - 1 .. Len(t) /\ k - (k - 1) = 1 /\ (k - 1) + 1 = k
  BY <1>1
<1>3. /\ w \in Texts /\ Len(w) = 1
      /\ \A i \in 1 .. 1 : w[i] = t[(k - 1) + i]
  BY <1>2, PartOf
<1>4. 1 \in 1 .. 1 /\ \A i \in 1 .. 1 : i = 1
  OBVIOUS
<1>5. w[1] = t[k] /\ DOMAIN w = 1 .. 1
  <2>1. w[1] = t[(k - 1) + 1]
    BY <1>3, <1>4
  <2> QED BY <1>2, <1>3, <2>1, TextLength
<1>6. Lines(w) = Cardinality(S)
  BY DEF Lines
<1> HIDE DEF w
<1>7. CASE t[k] = NewLine
  <2>1. S = {1}
    BY <1>4, <1>5, <1>7
  <2> QED BY <1>6, <1>7, <2>1, FS_Singleton DEF w
<1>8. CASE t[k] # NewLine
  <2>1. S = {}
    BY <1>4, <1>5, <1>8
  <2> QED BY <1>6, <1>8, <2>1, FS_EmptySet DEF w
<1> QED BY <1>7, <1>8

(* A line end is behind one line more than any position in front of it. *)
LEMMA LinesGrow ==
    ASSUME NEW t \in Texts, NEW a \in 0 .. Len(t), NEW b \in 1 .. Len(t), a < b,
           t[b] = NewLine
    PROVE  Lines(Part(t, 0, a)) < Lines(Part(t, 0, b))
<1> DEFINE c == b - 1
<1>1. /\ Len(t) \in Nat /\ a \in 0 .. Len(t) /\ c \in 0 .. Len(t) /\ c \in a .. Len(t)
      /\ b \in c .. Len(t)
  BY TextLength
<1>2. Lines(Part(t, c, b)) = 1
  BY LineOfSymbol
<1> HIDE DEF c
<1>3. /\ Lines(Part(t, 0, a)) \in Nat /\ Lines(Part(t, a, c)) \in Nat
      /\ Lines(Part(t, 0, c)) = Lines(Part(t, 0, a)) + Lines(Part(t, a, c))
  BY <1>1, CountedInParts
<1>4. Lines(Part(t, 0, b)) = Lines(Part(t, 0, c)) + Lines(Part(t, c, b))
  BY <1>1, CountedInParts
<1> QED BY <1>2, <1>3, <1>4

LEMMA LineStartExists ==
    ASSUME NEW t \in Texts, NEW n \in 1 .. Lines(t)
    PROVE  \E k \in DOMAIN t : t[k] = NewLine /\ Lines(Part(t, 0, k)) = n
<1> DEFINE S == {k \in 0 .. Len(t) : Lines(Part(t, 0, k)) >= n}
<1>1. Len(t) \in Nat /\ Lines(t) \in Nat /\ n \in Nat /\ n >= 1 /\ n <= Lines(t)
      /\ DOMAIN t = 1 .. Len(t)
  BY TextLength, LinesCount
<1>2. S \in SUBSET Nat /\ S # {}
  <2>1. Part(t, 0, Len(t)) = t /\ Len(t) \in 0 .. Len(t)
    BY <1>1, PartAll
  <2>2. Len(t) \in S
    BY <1>1, <2>1
  <2> QED BY <1>1, <2>2
<1>3. PICK k \in S : \A m \in S : k <= m
  <2> HIDE DEF S
  <2> QED BY <1>2, LeastExists
<1>4. k \in 0 .. Len(t) /\ Lines(Part(t, 0, k)) >= n
  OBVIOUS
<1>5. k # 0
  <2>1. Part(t, 0, 0) = <<>> /\ Lines(<<>>) = 0
    BY <1>1, PartNone, LinesCount
  <2> QED BY <1>1, <1>4, <2>1
<1> DEFINE c == k - 1
<1>6. c \in 0 .. Len(t) /\ k \in c .. Len(t) /\ k \in 1 .. Len(t) /\ ~ (k <= c)
  BY <1>1, <1>4, <1>5
<1>7. c \notin S
  BY <1>3, <1>6
<1>8. Lines(Part(t, c, k)) = IF t[k] = NewLine THEN 1 ELSE 0
  BY <1>6, LineOfSymbol
<1> HIDE DEF c
<1>9. ~ (Lines(Part(t, 0, c)) >= n)
  BY <1>6, <1>7
<1>10. /\ Lines(Part(t, 0, c)) \in Nat
       /\ Lines(Part(t, 0, k)) = Lines(Part(t, 0, c)) + Lines(Part(t, c, k))
  BY <1>6, CountedInParts
<1>11. t[k] = NewLine /\ Lines(Part(t, 0, k)) = n
  <2> DEFINE x == Lines(Part(t, 0, c)) y == Lines(Part(t, c, k)) z == Lines(Part(t, 0, k))
  <2>1. x \in Nat /\ ~ (x >= n) /\ z = x + y /\ z >= n /\ y = IF t[k] = NewLine THEN 1 ELSE 0
    BY <1>4, <1>8, <1>9, <1>10
  <2> HIDE DEF x, y, z
  <2>2. t[k] = NewLine
    BY <1>1, <2>1
  <2>3. z = n
    BY <1>1, <2>1, <2>2
  <2> QED BY <2>2, <2>3 DEF z
<1> QED BY <1>1, <1>6, <1>11

(* The position a line begins at: there is one, and only one. *)
LEMMA LineStartIs ==
    ASSUME NEW t \in Texts, NEW line \in 1 .. 1 + Lines(t), NEW k, k = LineStart(t, line)
    PROVE  /\ k \in 0 .. Len(t) /\ Lines(Part(t, 0, k)) = line - 1
           /\ k = 0 \/ t[k] = NewLine
<1>1. Len(t) \in Nat /\ Lines(t) \in Nat /\ line \in Nat /\ DOMAIN t = 1 .. Len(t)
  BY TextLength, LinesCount
<1>2. CASE line = 1
  <2>1. k = 0
    BY <1>2 DEF LineStart
  <2>2. Part(t, 0, 0) = <<>> /\ Lines(<<>>) = 0
    BY <1>1, PartNone, LinesCount
  <2> QED BY <1>1, <1>2, <2>1, <2>2
<1>3. CASE line # 1
  <2> DEFINE n == line - 1
  <2>1. n \in 1 .. Lines(t)
    BY <1>1, <1>3
  <2>2. k = CHOOSE j \in DOMAIN t : t[j] = NewLine /\ Lines(Part(t, 0, j)) = n
    BY <1>3 DEF LineStart
  <2> HIDE DEF n
  <2>3. \E j \in DOMAIN t : t[j] = NewLine /\ Lines(Part(t, 0, j)) = n
    BY <2>1, LineStartExists
  <2>4. k \in DOMAIN t /\ t[k] = NewLine /\ Lines(Part(t, 0, k)) = n
    BY <2>2, <2>3
  <2> QED BY <1>1, <2>4 DEF n
<1> QED BY <1>2, <1>3

LEMMA LineStartOnly ==
    ASSUME NEW t \in Texts, NEW line \in 1 .. 1 + Lines(t), NEW j \in 0 .. Len(t),
           Lines(Part(t, 0, j)) = line - 1, j = 0 \/ t[j] = NewLine
    PROVE  LineStart(t, line) = j
<1> DEFINE k == LineStart(t, line)
<1>1. /\ k \in 0 .. Len(t) /\ Lines(Part(t, 0, k)) = line - 1
      /\ k = 0 \/ t[k] = NewLine
  BY LineStartIs
<1>2. Len(t) \in Nat /\ Lines(Part(t, 0, j)) \in Nat
  <2>1. j \in 0 .. Len(t) /\ j \in j .. Len(t)
    BY TextLength
  <2> QED BY <2>1, TextLength, CountedInParts
<1> HIDE DEF k
<1>3. ~ (j < k)
  <2> SUFFICES ASSUME j < k PROVE FALSE
    OBVIOUS
  <2>1. k \in 1 .. Len(t) /\ t[k] = NewLine
    BY <1>1, <1>2
  <2>2. Lines(Part(t, 0, j)) < Lines(Part(t, 0, k))
    BY <2>1, LinesGrow
  <2> QED BY <1>1, <1>2, <2>2
<1>4. ~ (k < j)
  <2> SUFFICES ASSUME k < j PROVE FALSE
    OBVIOUS
  <2>1. j \in 1 .. Len(t) /\ t[j] = NewLine
    BY <1>1, <1>2
  <2>2. Lines(Part(t, 0, k)) < Lines(Part(t, 0, j))
    BY <1>1, <2>1, LinesGrow
  <2> QED BY <1>1, <1>2, <2>2
<1>5. k = j
  BY <1>1, <1>2, <1>3, <1>4
<1> QED BY <1>5 DEF k

(* How many symbols the first units are. *)
LEMMA SymbolsInIs ==
    ASSUME NEW t \in Texts, NEW units \in Nat, NEW n, n = SymbolsIn(t, units)
    PROVE  /\ n \in 0 .. Len(t) /\ Units(Part(t, 0, n)) <= units
           /\ n = Len(t) \/ Units(Part(t, 0, n + 1)) > units
<1> DEFINE S == {k \in 0 .. Len(t) : Units(Part(t, 0, k)) <= units}
           Holds(k) == /\ Units(Part(t, 0, k)) <= units
                       /\ k = Len(t) \/ Units(Part(t, 0, k + 1)) > units
<1>1. Len(t) \in Nat
  BY TextLength
<1>2. 0 \in S
  <2>1. Part(t, 0, 0) = <<>> /\ Units(<<>>) = 0
    BY <1>1, PartNone, UnitsCount
  <2> QED BY <1>1, <2>1
<1>3. PICK g \in S : \A k \in S : k <= g
  <2>1. S \in SUBSET (0 .. Len(t))
    OBVIOUS
  <2> HIDE DEF S
  <2> QED BY <1>1, <1>2, <2>1, GreatestExists
<1>4. g \in 0 .. Len(t) /\ Holds(g)
  <2>1. g \in 0 .. Len(t) /\ Units(Part(t, 0, g)) <= units
    OBVIOUS
  <2>2. CASE g # Len(t)
    <3> DEFINE c == g + 1
    <3>1. c \in 0 .. Len(t) /\ ~ (c <= g) /\ c \in c .. Len(t)
      BY <1>1, <2>1, <2>2
    <3>2. c \notin S
      BY <1>3, <3>1
    <3> HIDE DEF c
    <3>3. ~ (Units(Part(t, 0, c)) <= units)
      BY <3>1, <3>2
    <3>4. Units(Part(t, 0, c)) \in Nat
      BY <3>1, CountedInParts
    <3>5. Units(Part(t, 0, c)) > units
      BY <3>3, <3>4
    <3> QED BY <2>1, <3>5 DEF c
  <2> QED BY <2>1, <2>2
<1>5. n = CHOOSE k \in 0 .. Len(t) : Holds(k)
  BY DEF SymbolsIn
<1> HIDE DEF Holds
<1>6. n \in 0 .. Len(t) /\ Holds(n)
  BY <1>4, <1>5
<1> QED BY <1>6 DEF Holds

(* A position of the text as a position of the page it is on. *)
LEMMA PlaceOnPage ==
    ASSUME NEW t \in Texts, NEW a \in 0 .. Len(t), NEW b \in a .. Len(t), NEW k \in a .. b
    PROVE  /\ Part(Part(t, a, b), 0, k - a) = Part(t, a, k)
           /\ Units(Part(t, a, k)) \in 0 .. Units(Part(t, a, b))
           /\ Units(Part(t, 0, k)) = Units(Part(t, 0, a)) + Units(Part(t, a, k))
           /\ Lines(Part(t, a, k)) \in 0 .. Lines(Part(t, a, b))
           /\ Lines(Part(t, 0, k)) = Lines(Part(t, 0, a)) + Lines(Part(t, a, k))
<1>1. /\ Len(t) \in Nat /\ a \in Nat /\ b \in Nat /\ k \in Nat
      /\ a <= k /\ k <= b /\ b <= Len(t)
  BY TextLength
<1>2. /\ 0 \in 0 .. b - a /\ k - a \in 0 .. b - a /\ a + 0 = a /\ a + (k - a) = k
      /\ k \in a .. Len(t) /\ k \in 0 .. Len(t) /\ b \in k .. Len(t)
  BY <1>1
<1>3. Part(Part(t, a, b), 0, k - a) = Part(t, a, k)
  <2>1. Part(Part(t, a, b), 0, k - a) = Part(t, a + 0, a + (k - a))
    BY <1>2, PartOfPart
  <2> QED BY <1>2, <2>1
<1>4. /\ Units(Part(t, 0, k)) = Units(Part(t, 0, a)) + Units(Part(t, a, k))
      /\ Lines(Part(t, 0, k)) = Lines(Part(t, 0, a)) + Lines(Part(t, a, k))
  BY <1>2, CountedInParts
<1>5. Part(t, a, b) = Part(t, a, k) \o Part(t, k, b)
  BY <1>2, PartSplit
<1>6. Part(t, a, k) \in Texts /\ Part(t, k, b) \in Texts
  BY <1>2, PartOf
<1> DEFINE v == Part(t, a, k) w == Part(t, k, b)
<1> HIDE DEF v, w
<1>7. v \in Texts /\ w \in Texts
  BY <1>6 DEF v, w
<1>8. /\ Units(v) \in Nat /\ Units(w) \in Nat /\ Units(v \o w) = Units(v) + Units(w)
      /\ Lines(v) \in Nat /\ Lines(w) \in Nat /\ Lines(v \o w) = Lines(v) + Lines(w)
  BY <1>7, LinesCount, UnitsCount
<1>9. Units(v) \in 0 .. Units(v \o w) /\ Lines(v) \in 0 .. Lines(v \o w)
  BY <1>8
<1> QED BY <1>3, <1>4, <1>5, <1>9 DEF v, w

(* lineInPreview: the line of the text as a line of the page it begins on. *)
LEMMA LineOnPage ==
    ASSUME NEW t \in Texts, NEW a \in 0 .. Len(t), NEW b \in a .. Len(t),
           NEW line \in 1 .. 1 + Lines(t), LineStart(t, line) \in a .. b,
           NEW relative, relative = line - (1 + Lines(Part(t, 0, a))) + 1
    PROVE  /\ relative \in 1 .. 1 + Lines(Part(t, a, b))
           /\ LineStart(Part(t, a, b), relative) = LineStart(t, line) - a
<1> DEFINE k == LineStart(t, line) w == Part(t, a, b) j == k - a
<1>1. /\ Len(t) \in Nat /\ a \in Nat /\ b \in Nat /\ k \in Nat
      /\ a <= k /\ k <= b /\ b <= Len(t) /\ Lines(t) \in Nat
  BY TextLength, LinesCount
<1>2. /\ k \in 0 .. Len(t) /\ Lines(Part(t, 0, k)) = line - 1
      /\ k = 0 \/ t[k] = NewLine
  BY LineStartIs
<1>3. w \in Texts /\ Len(w) = b - a /\ \A i \in 1 .. b - a : w[i] = t[a + i]
  BY PartOf
<1>4. k \in a .. b
  OBVIOUS
<1> HIDE DEF k, w
<1>5. /\ Part(w, 0, j) = Part(t, a, k)
      /\ Lines(Part(t, a, k)) \in 0 .. Lines(w)
      /\ Lines(Part(t, 0, k)) = Lines(Part(t, 0, a)) + Lines(Part(t, a, k))
  BY <1>4, PlaceOnPage DEF w
<1>6. Lines(Part(t, 0, a)) \in Nat /\ Lines(w) \in Nat
  BY <1>3, CountedInParts, LinesCount
<1>7. relative \in 1 .. 1 + Lines(w) /\ Lines(Part(w, 0, j)) = relative - 1
  <2> DEFINE x == Lines(Part(t, 0, a)) y == Lines(Part(t, a, k)) z == Lines(w)
  <2>1. line - 1 = x + y /\ y \in 0 .. z /\ x \in Nat /\ z \in Nat
        /\ relative = line - (1 + x) + 1 /\ Lines(Part(w, 0, j)) = y
    BY <1>2, <1>5, <1>6
  <2> HIDE DEF x, y, z
  <2>2. line \in Int
    BY <1>1
  <2>3. relative = y + 1
    BY <2>1, <2>2
  <2>4. relative \in 1 .. 1 + z /\ relative - 1 = y
    BY <2>1, <2>3
  <2> QED BY <2>1, <2>4 DEF z
<1>8. j \in 0 .. Len(w) /\ (j = 0 \/ w[j] = NewLine)
  <2>1. j \in 0 .. Len(w)
    BY <1>1, <1>3
  <2>2. CASE j # 0
    <3>1. j \in 1 .. b - a /\ a + j = k /\ k # 0
      BY <1>1, <2>2
    <3>2. w[j] = t[a + j]
      BY <1>3, <3>1
    <3> QED BY <1>2, <2>1, <3>1, <3>2
  <2> QED BY <2>1, <2>2
<1> HIDE DEF j
<1>9. LineStart(w, relative) = j
  BY <1>3, <1>7, <1>8, LineStartOnly
<1> QED BY <1>7, <1>9 DEF k, w, j

(* positionInPreview: the units in front of a hit that are on its page. *)
LEMMA UnitOnPage ==
    ASSUME NEW t \in Texts, NEW a \in 0 .. Len(t), NEW b \in a .. Len(t),
           NEW units \in 0 .. Units(t), SymbolsIn(t, units) \in a .. b,
           SymbolsIn(t, units) < b \/ b = Len(t)
    PROVE  units - Units(Part(t, 0, a)) \in 0 .. Units(Part(t, a, b))
<1> DEFINE n == SymbolsIn(t, units) x == Units(Part(t, 0, a)) y == Units(Part(t, a, b))
<1>1. /\ Len(t) \in Nat /\ a \in Nat /\ b \in Nat /\ n \in Nat
      /\ a <= n /\ n <= b /\ b <= Len(t) /\ Units(t) \in Nat /\ units \in Nat
  BY TextLength, UnitsCount
<1>2. /\ Units(Part(t, 0, n)) <= units
      /\ n = Len(t) \/ Units(Part(t, 0, n + 1)) > units
  BY <1>1, SymbolsInIs
<1>3. n < b \/ b = Len(t)
  OBVIOUS
<1> HIDE DEF n
<1>4. /\ x \in Nat /\ y \in Nat /\ Units(Part(t, 0, b)) = x + y
  BY CountedInParts
<1>5. x <= units
  <2>1. a \in 0 .. Len(t) /\ n \in a .. Len(t)
    BY <1>1
  <2>2. Units(Part(t, a, n)) \in Nat /\ Units(Part(t, 0, n)) = x + Units(Part(t, a, n))
    BY <2>1, CountedInParts
  <2> DEFINE z == Units(Part(t, a, n))
  <2> HIDE DEF x, z
  <2>3. z \in Nat /\ x \in Nat /\ x + z <= units
    BY <1>2, <1>4, <2>2 DEF x, z
  <2> QED BY <1>1, <2>3
<1>6. units <= x + y
  <2>1. CASE n < b
    <3> DEFINE c == n + 1
    <3>1. c \in 0 .. Len(t) /\ b \in c .. Len(t) /\ n # Len(t)
      BY <1>1, <2>1
    <3>2. Units(Part(t, 0, c)) > units
      BY <1>2, <3>1
    <3> HIDE DEF c
    <3>3. /\ Units(Part(t, 0, c)) \in Nat /\ Units(Part(t, c, b)) \in Nat
          /\ Units(Part(t, 0, b)) = Units(Part(t, 0, c)) + Units(Part(t, c, b))
      BY <3>1, CountedInParts
    <3> DEFINE u == Units(Part(t, 0, c)) v == Units(Part(t, c, b))
    <3> HIDE DEF x, y, u, v
    <3>4. u \in Nat /\ v \in Nat /\ x + y = u + v /\ u > units /\ x \in Nat /\ y \in Nat
      BY <1>4, <3>2, <3>3 DEF x, y, u, v
    <3> QED BY <1>1, <3>4
  <2>2. CASE b = Len(t)
    <3>1. Units(Part(t, 0, b)) = Units(t)
      BY <2>2, PartAll
    <3> QED BY <1>4, <3>1
  <2> QED BY <1>3, <2>1, <2>2
<1> HIDE DEF x, y
<1>7. x \in Nat /\ y \in Nat
  BY <1>4 DEF x, y
<1>8. units - x \in 0 .. y
  BY <1>1, <1>5, <1>6, <1>7
<1> QED BY <1>8 DEF x, y

----------------------------------------------------------------------------
(* Undo entries *)

(* The edit takes the text t to the text u. *)
Leads(t, edit, u) ==
    /\ t \in Texts
    /\ edit \in Spans
    /\ edit.start + Len(edit.removed) <= Len(t)
    /\ Part(t, edit.start, edit.start + Len(edit.removed)) = edit.removed
    /\ u = Redone(t, edit)

LEMMA SpanTypes ==
    ASSUME NEW edit \in Spans
    PROVE  /\ edit.start \in Nat /\ edit.removed \in Texts /\ edit.inserted \in Texts
           /\ Len(edit.removed) \in Nat /\ Len(edit.inserted) \in Nat
<1>1. edit.start \in Nat /\ edit.removed \in Texts /\ edit.inserted \in Texts
  BY DEF Spans, Texts
<1> QED BY <1>1, TextLength

LEMMA LeadsBack ==
    ASSUME NEW t, NEW u, NEW edit, Leads(t, edit, u)
    PROVE  /\ u \in Texts
           /\ Undone(u, edit) = t
           /\ edit.start + Len(edit.inserted) <= Len(u)
           /\ Part(u, edit.start, edit.start + Len(edit.inserted)) = edit.inserted
           /\ Len(u) = Len(t) - Len(edit.removed) + Len(edit.inserted)
<1> DEFINE a == edit.start r == edit.removed s == edit.inserted b == a + Len(r)
<1>1. t \in Texts /\ Len(t) \in Nat /\ a \in Nat /\ r \in Texts /\ s \in Texts
      /\ Len(r) \in Nat /\ Len(s) \in Nat /\ b <= Len(t) /\ Part(t, a, b) = r
      /\ u = Spliced(t, a, b, s)
  BY SpanTypes, TextLength DEF Leads, Redone
<1>2. b - a = Len(r) /\ b \in Nat
  BY <1>1
<1>3. Undone(u, edit) = Spliced(u, a, a + Len(s), r)
  BY DEF Undone
<1> HIDE DEF a, r, s, b
<1>4. a \in 0 .. Len(t) /\ b \in a .. Len(t)
  BY <1>1, <1>2
<1>5. u \in Texts /\ Len(u) = Len(t) - (b - a) + Len(s)
  BY <1>1, <1>4, SplicedIs
<1>6. Part(u, a, a + Len(s)) = s
  BY <1>1, <1>4, SplicedParts
<1>7. Spliced(u, a, a + Len(s), r) = t
  BY <1>1, <1>4, SplicedBack
<1>8. a + Len(s) <= Len(u) /\ Len(u) = Len(t) - Len(r) + Len(s)
  <2>1. Len(u) = Len(t) - Len(r) + Len(s)
    BY <1>2, <1>5
  <2> QED BY <1>1, <1>2, <2>1
<1> QED BY <1>3, <1>5, <1>6, <1>7, <1>8 DEF a, r, s

(* The edit is what is left of the texts without n symbols in front and m   *)
(* behind that both have.                                                   *)
Differs(edit, before, after, offset, n, m) ==
    /\ n + m <= Len(before) /\ n + m <= Len(after)
    /\ Part(before, 0, n) = Part(after, 0, n)
    /\ Part(before, Len(before) - m, Len(before)) = Part(after, Len(after) - m, Len(after))
    /\ edit = [start |-> offset + n,
               removed |-> Part(before, n, Len(before) - m),
               inserted |-> Part(after, n, Len(after) - m)]

LEMMA DifferenceIs ==
    ASSUME NEW before \in Texts, NEW after \in Texts, NEW offset
    PROVE  \E n, m \in Nat : Differs(Difference(before, after, offset), before, after, offset, n, m)
<1> DEFINE limit == Smaller(Len(before), Len(after))
           Starts(n) == /\ Part(before, 0, n) = Part(after, 0, n)
                        /\ n = limit \/ before[n + 1] # after[n + 1]
           start == CHOOSE n \in 0 .. limit : Starts(n)
           Same(n) == Part(before, Len(before) - n, Len(before))
                          = Part(after, Len(after) - n, Len(after))
           Ends(n) == Same(n) /\ (n = limit - start \/ ~ Same(n + 1))
           suffix == CHOOSE n \in 0 .. limit - start : Ends(n)
<1>1. Len(before) \in Nat /\ Len(after) \in Nat
  BY TextLength
<1>2. limit \in Nat /\ limit <= Len(before) /\ limit <= Len(after)
  BY <1>1 DEF Smaller
<1>3. Difference(before, after, offset)
          = [start |-> offset + start,
             removed |-> Part(before, start, Len(before) - suffix),
             inserted |-> Part(after, start, Len(after) - suffix)]
  BY DEF Difference
<1> HIDE DEF limit
<1>4. \E n \in 0 .. limit : Starts(n)
  <2> DEFINE S == {n \in 0 .. limit : Part(before, 0, n) = Part(after, 0, n)}
  <2>1. 0 \in S
    <3>1. 0 \in 0 .. limit /\ 0 \in 0 .. Len(before) /\ 0 \in 0 .. Len(after)
      BY <1>1, <1>2
    <3>2. Part(before, 0, 0) = <<>> /\ Part(after, 0, 0) = <<>>
      BY <3>1, PartNone
    <3> QED BY <3>1, <3>2
  <2>2. PICK n \in S : \A k \in S : k <= n
    <3>1. S \in SUBSET (0 .. limit)
      OBVIOUS
    <3> HIDE DEF S
    <3> QED BY <1>2, <2>1, <3>1, GreatestExists
  <2>3. n \in 0 .. limit /\ n \in Nat /\ Part(before, 0, n) = Part(after, 0, n)
    OBVIOUS
  <2>4. ASSUME n # limit, before[n + 1] = after[n + 1] PROVE FALSE
    <3> DEFINE x == n + 1
    <3>1. /\ x \in 0 .. limit /\ 0 \in 0 .. Len(before) /\ 0 \in 0 .. Len(after)
          /\ n \in 0 .. Len(before) /\ x \in n .. Len(before) /\ x \in 0 .. Len(before)
          /\ n \in 0 .. Len(after) /\ x \in n .. Len(after) /\ x \in 0 .. Len(after)
          /\ x - n = 1 /\ ~ (x <= n)
      BY <1>1, <1>2, <2>3, <2>4
    <3>2. n + 1 = x
      OBVIOUS
    <3> HIDE DEF x
    <3>3. Part(before, 0, x) = Part(before, 0, n) \o Part(before, n, x)
      BY <3>1, PartSplit
    <3>4. Part(after, 0, x) = Part(after, 0, n) \o Part(after, n, x)
      BY <3>1, PartSplit
    <3>5. Part(before, n, x) = Part(after, n, x)
      <4>1. /\ Part(before, n, x) \in Texts /\ Len(Part(before, n, x)) = 1
            /\ Part(before, n, x)[1] = before[x]
        <5>1. /\ Part(before, n, x) \in Texts /\ Len(Part(before, n, x)) = x - n
              /\ \A i \in 1 .. x - n : Part(before, n, x)[i] = before[n + i]
          BY <3>1, PartOf
        <5>2. 1 \in 1 .. x - n
          BY <3>1
        <5> QED BY <3>1, <3>2, <5>1, <5>2
      <4>2. /\ Part(after, n, x) \in Texts /\ Len(Part(after, n, x)) = 1
            /\ Part(after, n, x)[1] = after[x]
        <5>1. /\ Part(after, n, x) \in Texts /\ Len(Part(after, n, x)) = x - n
              /\ \A i \in 1 .. x - n : Part(after, n, x)[i] = after[n + i]
          BY <3>1, PartOf
        <5>2. 1 \in 1 .. x - n
          BY <3>1
        <5> QED BY <3>1, <3>2, <5>1, <5>2
      <4>3. \A i \in 1 .. 1 : i = 1
        OBVIOUS
      <4>4. before[x] = after[x]
        BY <2>4, <3>2
      <4> QED BY <4>1, <4>2, <4>3, <4>4, SameText
    <3>6. x \in S
      BY <2>3, <3>1, <3>3, <3>4, <3>5
    <3> QED BY <2>2, <3>1, <3>6
  <2> QED BY <2>3, <2>4
<1>5. start \in 0 .. limit /\ Starts(start)
  <2> HIDE DEF Starts
  <2> QED BY <1>4
<1>6. start \in Nat /\ start <= limit /\ limit - start \in Nat
  BY <1>2, <1>5
<1>7. Part(before, 0, start) = Part(after, 0, start)
  BY <1>5
<1> HIDE DEF start
<1>8. \E n \in 0 .. limit - start : Ends(n)
  <2> DEFINE S == {n \in 0 .. limit - start : Same(n)}
  <2>1. 0 \in S
    <3>1. 0 \in 0 .. limit - start /\ Len(before) \in 0 .. Len(before) /\ Len(after) \in 0 .. Len(after)
          /\ Len(before) - 0 = Len(before) /\ Len(after) - 0 = Len(after)
      BY <1>1, <1>6
    <3>2. Part(before, Len(before), Len(before)) = <<>> /\ Part(after, Len(after), Len(after)) = <<>>
      BY <3>1, PartNone
    <3> QED BY <3>1, <3>2
  <2> HIDE DEF Same
  <2>2. PICK n \in S : \A k \in S : k <= n
    <3>1. S \in SUBSET (0 .. limit - start)
      OBVIOUS
    <3> HIDE DEF S
    <3> QED BY <1>6, <2>1, <3>1, GreatestExists
  <2>3. n \in 0 .. limit - start /\ n \in Nat /\ Same(n)
    OBVIOUS
  <2>4. ASSUME n # limit - start, Same(n + 1) PROVE FALSE
    <3>1. n + 1 \in 0 .. limit - start /\ ~ (n + 1 <= n)
      BY <1>6, <2>3, <2>4
    <3> QED BY <2>2, <2>4, <3>1
  <2> QED BY <2>3, <2>4
<1>9. suffix \in 0 .. limit - start /\ Ends(suffix)
  <2> HIDE DEF Ends
  <2> QED BY <1>8
<1>10. Same(suffix)
  BY <1>9
<1>11. suffix \in Nat /\ start + suffix <= Len(before) /\ start + suffix <= Len(after)
  BY <1>1, <1>2, <1>6, <1>9
<1> HIDE DEF suffix
<1>12. Differs(Difference(before, after, offset), before, after, offset, start, suffix)
  BY <1>3, <1>7, <1>10, <1>11 DEF Differs
<1> QED BY <1>6, <1>11, <1>12

(* What the span of two texts in one place of a document records. *)
LEMMA DifferenceLeads ==
    ASSUME NEW t \in Texts, NEW a \in 0 .. Len(t), NEW b \in a .. Len(t), NEW s \in Texts
    PROVE  Leads(t, Difference(Part(t, a, b), s, a), Spliced(t, a, b, s))
<1> DEFINE w == Part(t, a, b)
<1>1. w \in Texts /\ Len(w) = b - a
  BY PartOf
<1>2. /\ Len(t) \in Nat /\ a \in Nat /\ b \in Nat /\ a <= b /\ b <= Len(t)
      /\ Len(w) \in Nat /\ Len(s) \in Nat
  BY <1>1, TextLength
<1> HIDE DEF w
<1>3. PICK n \in Nat, m \in Nat : Differs(Difference(w, s, a), w, s, a, n, m)
  BY <1>1, DifferenceIs
<1>4. /\ n + m <= Len(w) /\ n + m <= Len(s)
      /\ Part(w, 0, n) = Part(s, 0, n)
      /\ Part(w, Len(w) - m, Len(w)) = Part(s, Len(s) - m, Len(s))
      /\ Difference(w, s, a) = [start |-> a + n,
                                removed |-> Part(w, n, Len(w) - m),
                                inserted |-> Part(s, n, Len(s) - m)]
  BY <1>3 DEF Differs
<1> DEFINE edit == Difference(w, s, a)
           i == Len(w) - m
           r == Part(w, n, i)
           x == Part(s, n, Len(s) - m)
<1>5. /\ n \in 0 .. Len(w) /\ i \in n .. Len(w) /\ i \in 0 .. Len(w) /\ Len(w) \in i .. Len(w)
      /\ 0 \in 0 .. Len(w) /\ Len(w) \in 0 .. Len(w)
      /\ n \in 0 .. Len(s) /\ Len(s) - m \in n .. Len(s) /\ Len(s) - m \in 0 .. Len(s)
      /\ Len(s) \in Len(s) - m .. Len(s) /\ 0 \in 0 .. Len(s) /\ n \in 0 .. Len(s)
      /\ Len(s) \in n .. Len(s)
      /\ n \in 0 .. b - a /\ i \in n .. b - a /\ i \in Nat
  BY <1>1, <1>2, <1>4
<1>6. edit.start = a + n /\ edit.removed = r /\ edit.inserted = x
  BY <1>4
<1>7. r \in Texts /\ Len(r) = i - n /\ x \in Texts
  <2> HIDE DEF i
  <2> QED BY <1>1, <1>5, PartOf
<1>8. edit \in Spans
  <2>1. a + n \in Nat
    BY <1>2
  <2>2. edit = [start |-> a + n, removed |-> r, inserted |-> x]
    BY <1>4
  <2> HIDE DEF edit, r, x
  <2> QED BY <1>7, <2>1, <2>2 DEF Spans, Texts
<1>9. Spliced(w, n, i, x) = s
  <2> HIDE DEF i
  <2>1. Spliced(w, n, i, x) = Part(s, 0, n) \o x \o Part(s, Len(s) - m, Len(s))
    BY <1>4 DEF Spliced, i
  <2>2. Part(s, 0, Len(s)) = s
    BY PartAll
  <2>3. Part(s, n, Len(s)) = x \o Part(s, Len(s) - m, Len(s))
    BY <1>5, PartSplit
  <2>4. Part(s, 0, Len(s)) = Part(s, 0, n) \o Part(s, n, Len(s))
    BY <1>5, PartSplit
  <2> HIDE DEF x
  <2> DEFINE y == Part(s, 0, n) z == Part(s, Len(s) - m, Len(s))
  <2>5. y \in Texts /\ z \in Texts /\ x \in Texts
    BY <1>5, <1>7, PartOf
  <2>6. Spliced(w, n, i, x) = (y \o x) \o z /\ s = y \o (x \o z)
    BY <2>1, <2>2, <2>3, <2>4
  <2> HIDE DEF y, z
  <2>7. (y \o x) \o z = y \o (x \o z)
    BY <2>5, ConcatAssociative DEF Texts
  <2> QED BY <2>6, <2>7
<1> HIDE DEF edit, x, r, i
<1>10. Part(t, a + n, a + i) = r
  BY <1>5, PartOfPart DEF w, r
<1>11. Spliced(t, a + n, a + i, x) = Spliced(t, a, b, s)
  BY <1>5, <1>7, <1>9, SplicedIn DEF w
<1>12. a + n + Len(r) = a + i /\ a + i <= Len(t)
  BY <1>1, <1>2, <1>5, <1>7
<1>13. Leads(t, edit, Spliced(t, a, b, s))
  BY <1>6, <1>8, <1>10, <1>11, <1>12 DEF Leads, Redone
<1> QED BY <1>13 DEF edit, w

(* The second of two splices of one place is the one that counts. *)
LEMMA SplicedOver ==
    ASSUME NEW t \in Texts, NEW s \in Texts, NEW x \in Texts,
           NEW a \in 0 .. Len(t), NEW b \in a .. Len(t)
    PROVE  Spliced(Spliced(t, a, b, s), a, a + Len(s), x) = Spliced(t, a, b, x)
<1> DEFINE u == Spliced(t, a, b, s) c == a + Len(s)
<1>1. /\ Len(t) \in Nat /\ a \in Nat /\ b \in Nat /\ a <= b /\ b <= Len(t)
      /\ Len(s) \in Nat /\ Len(x) \in Nat
  BY TextLength
<1>2. u \in Texts /\ Len(u) = Len(t) - (b - a) + Len(s)
  BY SplicedIs
<1>3. Part(u, 0, a) = Part(t, 0, a) /\ Part(u, c, Len(u)) = Part(t, b, Len(t))
  <2>1. 0 \in 0 .. a /\ a \in 0 .. a /\ 0 \in 0 .. Len(t) - b /\ Len(t) - b \in 0 .. Len(t) - b
    BY <1>1
  <2>2. /\ Part(u, 0, a) = Part(t, 0, a)
        /\ Part(u, a + Len(s) + 0, a + Len(s) + (Len(t) - b)) = Part(t, b + 0, b + (Len(t) - b))
    BY <2>1, SplicedParts
  <2>3. a + Len(s) + 0 = c /\ b + 0 = b /\ b + (Len(t) - b) = Len(t)
    BY <1>1
  <2>4. a + Len(s) + (Len(t) - b) = Len(u)
    <3> HIDE DEF u
    <3> QED BY <1>1, <1>2
  <2> HIDE DEF u, c
  <2> QED BY <2>2, <2>3, <2>4
<1> HIDE DEF u
<1> QED BY <1>3 DEF Spliced, u

LEMMA MergedLeads ==
    ASSUME NEW t, NEW u, NEW v, NEW last, NEW edit,
           Leads(t, last, u), Leads(u, edit, v), Merged(last, edit) # None
    PROVE  Leads(t, Merged(last, edit), v)
<1> DEFINE a == last.start r == last.removed s == last.inserted b == a + Len(r)
           c == edit.start q == edit.removed x == edit.inserted
           m == Merged(last, edit)
<1>1. /\ t \in Texts /\ Len(t) \in Nat /\ a \in Nat /\ r \in Texts /\ s \in Texts
      /\ Len(r) \in Nat /\ Len(s) \in Nat /\ b <= Len(t) /\ Part(t, a, b) = r
      /\ u = Spliced(t, a, b, s) /\ b \in Nat /\ b - a = Len(r)
  BY SpanTypes, TextLength DEF Leads, Redone
<1>2. /\ u \in Texts /\ Len(u) \in Nat /\ c \in Nat /\ q \in Texts /\ x \in Texts
      /\ Len(q) \in Nat /\ Len(x) \in Nat /\ c + Len(q) <= Len(u) /\ Part(u, c, c + Len(q)) = q
      /\ v = Spliced(u, c, c + Len(q), x)
  BY SpanTypes, TextLength DEF Leads, Redone
<1>3. last \in Spans /\ edit \in Spans
  BY DEF Leads
<1>4. a \in 0 .. Len(t) /\ b \in a .. Len(t)
  BY <1>1
<1>5. Len(u) = Len(t) - Len(r) + Len(s) /\ Part(u, a, a + Len(s)) = s /\ a + Len(s) <= Len(u)
  BY LeadsBack
<1>6. <<>> \in Texts /\ Len(<<>>) = 0 /\ \A y \in Texts : Len(y) = 0 <=> y = <<>>
  BY NoText
<1>7. CASE TypesOn(last, edit)
  <2>1. q = <<>> /\ r = <<>> /\ a + Len(s) = c /\ Len(q) = 0 /\ Len(r) = 0
    BY <1>6, <1>7 DEF TypesOn
  <2>2. m = [last EXCEPT !.inserted = s \o x]
    BY <1>7 DEF Merged
  <2>3. s \o x \in Texts
    BY <1>1, <1>2, Joined
  <2>4. m \in Spans /\ m.start = a /\ m.removed = r /\ m.inserted = s \o x
    <3> HIDE DEF m
    <3> QED BY <1>3, <2>2, <2>3 DEF Spans, Texts
  <2> HIDE DEF a, b, r, s, c, q, x, m
  <2>5. v = Spliced(u, a + Len(s), a + Len(s), x)
    <3>1. c + Len(q) = a + Len(s)
      BY <1>1, <1>2, <2>1
    <3> QED BY <1>2, <2>1, <3>1
  <2>6. Spliced(s, Len(s), Len(s), x) = s \o x
    <3>1. Len(s) \in 0 .. Len(s)
      BY <1>1
    <3>2. Part(s, 0, Len(s)) = s /\ Part(s, Len(s), Len(s)) = <<>>
      BY <1>1, <3>1, PartAll, PartNone
    <3> QED BY <2>3, <3>2, ConcatEmptySeq DEF Spliced, Texts
  <2>7. Spliced(u, a, a + Len(s), s \o x) = v
    <3> DEFINE e == a + Len(s)
    <3>1. /\ a \in 0 .. Len(u) /\ e \in a .. Len(u)
          /\ Len(s) \in 0 .. e - a /\ Len(s) \in Len(s) .. e - a
      BY <1>1, <1>2, <1>5
    <3> HIDE DEF e
    <3>2. Spliced(u, a, e, Spliced(Part(u, a, e), Len(s), Len(s), x))
              = Spliced(u, a + Len(s), a + Len(s), x)
      BY <1>2, <3>1, SplicedIn
    <3> QED BY <1>5, <2>5, <2>6, <3>2 DEF e
  <2>8. Spliced(u, a, a + Len(s), s \o x) = Spliced(t, a, b, s \o x)
    BY <1>1, <1>4, <2>3, SplicedOver
  <2>9. Leads(t, m, v)
    BY <1>1, <2>4, <2>7, <2>8 DEF Leads, Redone, b
  <2> QED BY <2>9 DEF m
<1>8. CASE Erases(last, edit) /\ c + 1 = a
  <2>1. x = <<>> /\ Len(q) = 1 /\ s = <<>> /\ Len(s) = 0
    BY <1>6, <1>8 DEF Erases
  <2>2. m = [last EXCEPT !.start = c, !.removed = q \o r]
    <3>1. ~ TypesOn(last, edit)
      BY <1>6, <2>1 DEF TypesOn
    <3> QED BY <1>8, <3>1 DEF Merged
  <2>3. q \o r \in Texts /\ Len(q \o r) = Len(q) + Len(r)
    BY <1>1, <1>2, Joined
  <2>4. m \in Spans /\ m.start = c /\ m.removed = q \o r /\ m.inserted = <<>>
    <3> HIDE DEF m
    <3> QED BY <1>2, <1>3, <2>1, <2>2, <2>3 DEF Spans, Texts
  <2> HIDE DEF a, b, r, s, c, q, x, m
  <2> DEFINE w == Part(t, c, b) y == Part(w, 0, 1) n == b - c
  <2>5. /\ c \in 0 .. Len(t) /\ b \in c .. Len(t) /\ c \in Nat /\ n \in Nat /\ n >= 1
        /\ a \in c .. Len(t) /\ c + n = b /\ c + 0 = c /\ c + Len(q) = a
        /\ 1 \in 0 .. n /\ n \in 1 .. n /\ 0 \in 0 .. n /\ 1 \in 0 .. b - c /\ n \in 1 .. b - c
        /\ b \in a .. Len(t) /\ 0 \in 0 .. b - c
    BY <1>1, <1>2, <1>8, <2>1
  <2>6. w \in Texts /\ Len(w) = n
    BY <1>1, <2>5, PartOf
  <2>7. y \in Texts /\ Len(y) = 1 /\ y = Part(t, c, a)
    <3>1. y = Part(t, c + 0, c + 1)
      BY <1>1, <2>5, PartOfPart
    <3> HIDE DEF w, n
    <3>2. 0 \in 0 .. Len(w) /\ 1 \in 0 .. Len(w)
      BY <2>5, <2>6
    <3>3. y \in Texts /\ Len(y) = 1 - 0
      BY <2>6, <3>2, PartOf
    <3> QED BY <1>8, <2>5, <3>1, <3>3
  <2>8. Spliced(w, 1, n, <<>>) = y
    <3> HIDE DEF w, n
    <3>1. n \in 0 .. Len(w)
      BY <2>5, <2>6
    <3>2. Part(w, n, Len(w)) = <<>>
      BY <2>6, <3>1, PartNone
    <3> QED BY <2>7, <3>2, ConcatEmptySeq DEF Spliced, y, Texts
  <2>9. u = Spliced(t, c, b, y)
    <3>1. Spliced(t, c, b, Spliced(w, 1, n, <<>>)) = Spliced(t, c + 1, c + n, <<>>)
      BY <1>1, <1>6, <2>5, SplicedIn
    <3> HIDE DEF w, n, y
    <3> QED BY <1>1, <1>8, <2>1, <2>5, <2>8, <3>1
  <2> HIDE DEF w, y
  <2>10. v = Spliced(t, c, b, <<>>)
    <3>1. v = Spliced(u, c, c + Len(y), <<>>)
      BY <1>2, <2>1, <2>7
    <3>2. t \in Texts /\ <<>> \in Texts /\ y \in Texts /\ c \in 0 .. Len(t) /\ b \in c .. Len(t)
      BY <1>1, <1>6, <2>5, <2>7
    <3>3. Spliced(Spliced(t, c, b, y), c, c + Len(y), <<>>) = Spliced(t, c, b, <<>>)
      BY <3>2, SplicedOver
    <3> QED BY <2>9, <3>1, <3>3
  <2>11. q = Part(t, c, a)
    <3>1. t \in Texts /\ y \in Texts /\ c \in 0 .. Len(t) /\ b \in c .. Len(t)
      BY <1>1, <2>5, <2>7
    <3>2. Part(Spliced(t, c, b, y), c, c + Len(y)) = y
      BY <3>1, SplicedParts
    <3>3. Part(u, c, c + Len(y)) = q
      BY <1>2, <2>1, <2>7
    <3> QED BY <2>7, <2>9, <3>2, <3>3
  <2>12. q \o r = Part(t, c, b)
    <3>1. t \in Texts /\ c \in 0 .. Len(t) /\ a \in c .. Len(t) /\ b \in a .. Len(t)
      BY <1>1, <2>5
    <3>2. Part(t, c, b) = Part(t, c, a) \o Part(t, a, b)
      BY <3>1, PartSplit
    <3> QED BY <1>1, <2>11, <3>2
  <2>13. c + Len(q \o r) = b
    BY <1>1, <2>1, <2>3, <2>5
  <2>14. Leads(t, m, v)
    BY <1>1, <2>4, <2>10, <2>12, <2>13 DEF Leads, Redone
  <2> QED BY <2>14 DEF m
<1>9. CASE Erases(last, edit) /\ c = a
  <2>1. x = <<>> /\ Len(q) = 1 /\ s = <<>> /\ Len(s) = 0
    BY <1>6, <1>9 DEF Erases
  <2>2. m = [last EXCEPT !.removed = r \o q]
    <3>1. ~ TypesOn(last, edit)
      BY <1>6, <2>1 DEF TypesOn
    <3>2. ~ (c + 1 = a)
      BY <1>1, <1>9
    <3> QED BY <1>9, <3>1, <3>2 DEF Merged
  <2>3. r \o q \in Texts /\ Len(r \o q) = Len(r) + Len(q)
    BY <1>1, <1>2, Joined
  <2>4. m \in Spans /\ m.start = a /\ m.removed = r \o q /\ m.inserted = <<>>
    <3> HIDE DEF m
    <3> QED BY <1>1, <1>3, <2>1, <2>2, <2>3 DEF Spans, Texts
  <2> HIDE DEF a, b, r, s, c, q, x, m
  <2> DEFINE d == b + 1 w == Part(t, a, d) n == b - a y == Part(w, n, d - a)
  <2>5. /\ a \in 0 .. Len(t) /\ d \in a .. Len(t) /\ n \in Nat /\ b \in a .. Len(t) /\ b \in 0 .. Len(t)
        /\ d \in b .. Len(t) /\ a + n = b /\ a + 0 = a /\ a + Len(q) = a + 1 /\ d - a = n + 1
        /\ n \in 0 .. d - a /\ 0 \in 0 .. d - a /\ d - a \in n .. d - a /\ a + (d - a) = d
        /\ d - b = 1
    BY <1>1, <1>2, <1>5, <1>9, <2>1
  <2> HIDE DEF d, n
  <2>6. w \in Texts /\ Len(w) = d - a
    BY <1>1, <2>5, PartOf
  <2>7. y \in Texts /\ Len(y) = 1 /\ y = Part(t, b, d)
    <3>1. y = Part(t, a + n, a + (d - a))
      BY <1>1, <2>5, PartOfPart
    <3>2. Part(t, b, d) \in Texts /\ Len(Part(t, b, d)) = d - b
      BY <1>1, <2>5, PartOf
    <3> HIDE DEF w, y
    <3> QED BY <2>5, <3>1, <3>2
  <2>8. Spliced(w, 0, n, <<>>) = y
    <3> HIDE DEF w
    <3>1. 0 \in 0 .. Len(w)
      BY <2>5, <2>6
    <3>2. Part(w, 0, 0) = <<>>
      BY <2>6, <3>1, PartNone
    <3>3. <<>> \o y = y /\ <<>> \o <<>> = <<>>
      BY <1>6, <2>7, ConcatEmptySeq DEF Texts
    <3> QED BY <2>6, <3>2, <3>3 DEF Spliced, y
  <2>9. u = Spliced(t, a, d, y)
    <3>1. Spliced(t, a, d, Spliced(w, 0, n, <<>>)) = Spliced(t, a + 0, a + n, <<>>)
      BY <1>1, <1>6, <2>5, SplicedIn
    <3> HIDE DEF w, y
    <3> QED BY <1>1, <2>1, <2>5, <2>8, <3>1
  <2> HIDE DEF w, y
  <2>10. t \in Texts /\ <<>> \in Texts /\ y \in Texts /\ a \in 0 .. Len(t) /\ d \in a .. Len(t)
    BY <1>1, <1>6, <2>5, <2>7
  <2>11. v = Spliced(t, a, d, <<>>)
    <3>1. v = Spliced(u, a, a + Len(y), <<>>)
      BY <1>2, <1>9, <2>1, <2>7
    <3>2. Spliced(Spliced(t, a, d, y), a, a + Len(y), <<>>) = Spliced(t, a, d, <<>>)
      BY <2>10, SplicedOver
    <3> QED BY <2>9, <3>1, <3>2
  <2>12. q = Part(t, b, d)
    <3>1. Part(Spliced(t, a, d, y), a, a + Len(y)) = y
      BY <2>10, SplicedParts
    <3>2. Part(u, a, a + Len(y)) = q
      BY <1>2, <1>9, <2>1, <2>7
    <3> QED BY <2>7, <2>9, <3>1, <3>2
  <2>13. r \o q = Part(t, a, d)
    <3>1. Part(t, a, d) = Part(t, a, b) \o Part(t, b, d)
      BY <2>5, <2>10, PartSplit
    <3> QED BY <1>1, <2>12, <3>1
  <2>14. a + Len(r \o q) = d
    BY <1>1, <2>1, <2>3, <2>5
  <2>15. Leads(t, m, v)
    BY <1>1, <2>4, <2>5, <2>11, <2>13, <2>14 DEF Leads, Redone
  <2> QED BY <2>15 DEF m
<1>10. CASE ~ TypesOn(last, edit) /\ ~ (Erases(last, edit) /\ c + 1 = a)
            /\ ~ (Erases(last, edit) /\ c = a)
  <2>1. Merged(last, edit) = None
    BY Zenon, <1>10 DEF Merged
  <2> QED BY <2>1
<1> QED BY Zenon, <1>7, <1>8, <1>9, <1>10

----------------------------------------------------------------------------
(* The undo history *)

(* The text behind text k of a stack over the text t. *)
Above(texts, k, t) == IF k = Len(texts) THEN t ELSE texts[k + 1]

(* past holds the texts that the undo entries of h go back to. *)
Undoes(h, past) ==
    /\ past \in Seq(Texts) /\ Len(past) = Len(h.undo)
    /\ \A k \in 1 .. Len(past) : Leads(past[k], h.undo[k], Above(past, k, h.text))

(* future holds the texts that the redo entries of h lead to. *)
Redoes(h, future) ==
    /\ future \in Seq(Texts) /\ Len(future) = Len(h.redo)
    /\ \A k \in 1 .. Len(future) : Leads(Above(future, k, h.text), h.redo[k], future[k])

(* A history whose entries fit its text. *)
Chained(h) ==
    /\ h \in Histories
    /\ \E past : Undoes(h, past)
    /\ \E future : Redoes(h, future)

(* What a step makes of the texts of a history. *)
Stays(h, g) == g.text = h.text /\ g.undo = h.undo /\ g.redo = h.redo

Opens(h, g) == g.text \in Texts /\ g.undo = <<>> /\ g.redo = <<>>

Adds(h, g) ==
    \E edit : /\ Leads(h.text, edit, g.text)
              /\ g.undo = Append(h.undo, edit) /\ g.redo = <<>>

Joins(h, g) ==
    \E edit : /\ Leads(h.text, edit, g.text) /\ h.undo # <<>>
              /\ Merged(Last(h.undo), edit) # None
              /\ g.undo = Append(Front(h.undo), Merged(Last(h.undo), edit))
              /\ g.redo = <<>>

GoesBack(h, g) ==
    /\ h.undo # <<>>
    /\ g.text = Undone(h.text, Last(h.undo))
    /\ g.undo = Front(h.undo) /\ g.redo = Append(h.redo, Last(h.undo))

GoesOn(h, g) ==
    /\ h.redo # <<>>
    /\ g.text = Redone(h.text, Last(h.redo))
    /\ g.undo = Append(h.undo, Last(h.redo)) /\ g.redo = Front(h.redo)

Moves(h, g) ==
    /\ g.open \in BOOLEAN /\ g = [text |-> g.text, undo |-> g.undo, redo |-> g.redo, open |-> g.open]
    /\ \/ Stays(h, g) \/ Opens(h, g) \/ Adds(h, g) \/ Joins(h, g)
       \/ GoesBack(h, g) \/ GoesOn(h, g)

(* The last element of a sequence and what is in front of it. *)
LEMMA FrontAndLast ==
    ASSUME NEW S, NEW s \in Seq(S), s # <<>>
    PROVE  /\ Len(s) \in Nat /\ Len(s) >= 1
           /\ Front(s) \in Seq(S) /\ Len(Front(s)) = Len(s) - 1
           /\ \A k \in 1 .. Len(s) - 1 : Front(s)[k] = s[k]
           /\ Last(s) = s[Len(s)] /\ Last(s) \in S
<1>1. Len(s) \in Nat /\ Len(s) >= 1
  <2>1. Len(s) \in Nat /\ Len(s) # 0
    BY EmptySeq
  <2> QED BY <2>1
<1>2. /\ SubSeq(s, 1, Len(s) - 1) \in Seq(S)
      /\ Len(SubSeq(s, 1, Len(s) - 1)) = Len(s) - 1
      /\ \A k \in 1 .. Len(s) - 1 : SubSeq(s, 1, Len(s) - 1)[k] = s[k]
  <2>1. \A i \in 1 .. Len(s) - 1 : s[i] \in S
    BY <1>1
  <2>2. 1 \in Int /\ Len(s) - 1 \in Int
    BY <1>1
  <2> DEFINE n == Len(s) - 1 p == SubSeq(s, 1, n)
  <2> HIDE DEF n
  <2>3. /\ p \in Seq(S) /\ Len(p) = IF 1 <= n THEN n - 1 + 1 ELSE 0
        /\ \A i \in 1 .. n - 1 + 1 : p[i] = s[1 + i - 1]
    BY <2>1, <2>2, SubSeqProperties DEF n
  <2>4. n \in Nat /\ n - 1 + 1 = n /\ (IF 1 <= n THEN n - 1 + 1 ELSE 0) = n
    <3>1. n \in Nat
      BY <1>1 DEF n
    <3> QED BY <3>1
  <2>5. \A i \in 1 .. n : 1 + i - 1 = i
    BY <2>4
  <2> QED BY <2>3, <2>4, <2>5 DEF n
<1>3. Len(s) \in 1 .. Len(s)
  BY <1>1
<1> QED BY <1>1, <1>2, <1>3 DEF Front, Last

LEMMA Appended ==
    ASSUME NEW S, NEW s \in Seq(S), NEW e \in S
    PROVE  /\ Append(s, e) \in Seq(S) /\ Len(Append(s, e)) = Len(s) + 1
           /\ \A k \in 1 .. Len(s) : Append(s, e)[k] = s[k]
           /\ Append(s, e)[Len(s) + 1] = e
           /\ Len(s) \in Nat /\ Append(s, e) # <<>>
<1>1. Len(s) \in Nat
  OBVIOUS
<1>2. /\ Append(s, e) \in Seq(S) /\ Len(Append(s, e)) = Len(s) + 1
      /\ \A k \in 1 .. Len(s) : Append(s, e)[k] = s[k]
      /\ Append(s, e)[Len(s) + 1] = e
  BY <1>1
<1>3. Append(s, e) # <<>>
  BY <1>1, <1>2, EmptySeq
<1> QED BY <1>1, <1>2, <1>3

LEMMA NothingStacked ==
    ASSUME NEW h
    PROVE  /\ h.undo = <<>> => Undoes(h, <<>>)
           /\ h.redo = <<>> => Redoes(h, <<>>)
<1>1. <<>> \in Seq(Texts) /\ Len(<<>>) = 0
  BY EmptySeq
<1>2. \A k : ~ (k \in 1 .. 0)
  OBVIOUS
<1> QED BY <1>1, <1>2 DEF Undoes, Redoes

LEMMA HistoryTypes ==
    ASSUME NEW h \in Histories
    PROVE  h.text \in Texts /\ h.undo \in Seq(Spans) /\ h.redo \in Seq(Spans) /\ h.open \in BOOLEAN
BY DEF Histories, Texts

(* A new entry on a stack that is in order. *)
LEMMA UndoesAppend ==
    ASSUME NEW h \in Histories, NEW past, Undoes(h, past), NEW edit, NEW t, Leads(h.text, edit, t),
           NEW g \in Histories, g.text = t, g.undo = Append(h.undo, edit)
    PROVE  Undoes(g, Append(past, h.text))
<1> DEFINE more == Append(past, h.text) n == Len(past)
<1>1. past \in Seq(Texts) /\ n = Len(h.undo) /\ n \in Nat
  BY LenProperties DEF Undoes
<1>2. h.text \in Texts /\ h.undo \in Seq(Spans) /\ edit \in Spans
  BY HistoryTypes DEF Leads
<1>3. /\ more \in Seq(Texts) /\ Len(more) = n + 1
      /\ \A k \in 1 .. n : more[k] = past[k]
      /\ more[n + 1] = h.text
  BY <1>1, <1>2, Appended
<1>4. /\ Len(g.undo) = n + 1
      /\ \A k \in 1 .. n : g.undo[k] = h.undo[k]
      /\ g.undo[n + 1] = edit
  <2>1. /\ Len(Append(h.undo, edit)) = Len(h.undo) + 1
        /\ \A k \in 1 .. Len(h.undo) : Append(h.undo, edit)[k] = h.undo[k]
        /\ Append(h.undo, edit)[Len(h.undo) + 1] = edit
    BY <1>2, Appended
  <2> QED BY <1>1, <2>1
<1>5. \A k \in 1 .. n : Leads(past[k], h.undo[k], Above(past, k, h.text))
  BY DEF Undoes
<1>6. /\ \A k \in 1 .. n : Above(more, k, g.text) = Above(past, k, h.text)
      /\ Above(more, n + 1, g.text) = t
  <2> HIDE DEF more
  <2>1. ASSUME NEW k \in 1 .. n PROVE Above(more, k, g.text) = Above(past, k, h.text)
    <3>1. k # n + 1
      BY <1>1
    <3>2. CASE k = n
      BY <1>3, <3>1, <3>2 DEF Above
    <3>3. CASE k # n
      <4>1. k + 1 \in 1 .. n
        BY <1>1, <3>3
      <4> QED BY <1>3, <3>1, <3>3, <4>1 DEF Above
    <3> QED BY <3>2, <3>3
  <2> QED BY <1>3, <2>1 DEF Above
<1> HIDE DEF more, n
<1>7. ASSUME NEW k \in 1 .. n + 1 PROVE Leads(more[k], g.undo[k], Above(more, k, g.text))
  <2>1. CASE k = n + 1
    BY <1>3, <1>4, <1>6, <2>1
  <2>2. CASE k # n + 1
    <3>1. k \in 1 .. n
      BY <1>1, <2>2
    <3> QED BY <1>3, <1>4, <1>5, <1>6, <3>1
  <2> QED BY <2>1, <2>2
<1>8. Undoes(g, more)
  BY <1>3, <1>4, <1>7 DEF Undoes
<1> QED BY <1>8 DEF more

LEMMA RedoesAppend ==
    ASSUME NEW h \in Histories, NEW future, Redoes(h, future), NEW edit, NEW t, Leads(t, edit, h.text),
           NEW g \in Histories, g.text = t, g.redo = Append(h.redo, edit)
    PROVE  Redoes(g, Append(future, h.text))
<1> DEFINE more == Append(future, h.text) n == Len(future)
<1>1. future \in Seq(Texts) /\ n = Len(h.redo) /\ n \in Nat
  BY LenProperties DEF Redoes
<1>2. h.text \in Texts /\ h.redo \in Seq(Spans) /\ edit \in Spans
  BY HistoryTypes DEF Leads
<1>3. /\ more \in Seq(Texts) /\ Len(more) = n + 1
      /\ \A k \in 1 .. n : more[k] = future[k]
      /\ more[n + 1] = h.text
  BY <1>1, <1>2, Appended
<1>4. /\ Len(g.redo) = n + 1
      /\ \A k \in 1 .. n : g.redo[k] = h.redo[k]
      /\ g.redo[n + 1] = edit
  <2>1. /\ Len(Append(h.redo, edit)) = Len(h.redo) + 1
        /\ \A k \in 1 .. Len(h.redo) : Append(h.redo, edit)[k] = h.redo[k]
        /\ Append(h.redo, edit)[Len(h.redo) + 1] = edit
    BY <1>2, Appended
  <2> QED BY <1>1, <2>1
<1>5. \A k \in 1 .. n : Leads(Above(future, k, h.text), h.redo[k], future[k])
  BY DEF Redoes
<1>6. /\ \A k \in 1 .. n : Above(more, k, g.text) = Above(future, k, h.text)
      /\ Above(more, n + 1, g.text) = t
  <2> HIDE DEF more
  <2>1. ASSUME NEW k \in 1 .. n PROVE Above(more, k, g.text) = Above(future, k, h.text)
    <3>1. k # n + 1
      BY <1>1
    <3>2. CASE k = n
      BY <1>3, <3>1, <3>2 DEF Above
    <3>3. CASE k # n
      <4>1. k + 1 \in 1 .. n
        BY <1>1, <3>3
      <4> QED BY <1>3, <3>1, <3>3, <4>1 DEF Above
    <3> QED BY <3>2, <3>3
  <2> QED BY <1>3, <2>1 DEF Above
<1> HIDE DEF more, n
<1>7. ASSUME NEW k \in 1 .. n + 1 PROVE Leads(Above(more, k, g.text), g.redo[k], more[k])
  <2>1. CASE k = n + 1
    BY <1>3, <1>4, <1>6, <2>1
  <2>2. CASE k # n + 1
    <3>1. k \in 1 .. n
      BY <1>1, <2>2
    <3> QED BY <1>3, <1>4, <1>5, <1>6, <3>1
  <2> QED BY <2>1, <2>2
<1>8. Redoes(g, more)
  BY <1>3, <1>4, <1>7 DEF Redoes
<1> QED BY <1>8 DEF more

(* What the entries on top of the stacks lead from and to. *)
LEMMA LastUndone ==
    ASSUME NEW h \in Histories, NEW past, Undoes(h, past), h.undo # <<>>
    PROVE  past # <<>> /\ Leads(Last(past), Last(h.undo), h.text)
<1> DEFINE n == Len(past)
<1>1. past \in Seq(Texts) /\ n = Len(h.undo) /\ h.undo \in Seq(Spans)
  BY HistoryTypes DEF Undoes
<1>2. n \in Nat /\ n >= 1 /\ Last(h.undo) = h.undo[n]
  BY <1>1, FrontAndLast
<1>3. past # <<>> /\ n \in 1 .. n
  BY <1>2, EmptySeq
<1>4. Last(past) = past[n]
  BY <1>1, <1>3, FrontAndLast
<1>5. Leads(past[n], h.undo[n], Above(past, n, h.text))
  BY <1>3 DEF Undoes
<1> QED BY <1>2, <1>3, <1>4, <1>5 DEF Above

LEMMA LastRedone ==
    ASSUME NEW h \in Histories, NEW future, Redoes(h, future), h.redo # <<>>
    PROVE  future # <<>> /\ Leads(h.text, Last(h.redo), Last(future))
<1> DEFINE n == Len(future)
<1>1. future \in Seq(Texts) /\ n = Len(h.redo) /\ h.redo \in Seq(Spans)
  BY HistoryTypes DEF Redoes
<1>2. n \in Nat /\ n >= 1 /\ Last(h.redo) = h.redo[n]
  BY <1>1, FrontAndLast
<1>3. future # <<>> /\ n \in 1 .. n
  BY <1>2, EmptySeq
<1>4. Last(future) = future[n]
  BY <1>1, <1>3, FrontAndLast
<1>5. Leads(Above(future, n, h.text), h.redo[n], future[n])
  BY <1>3 DEF Redoes
<1> QED BY <1>2, <1>3, <1>4, <1>5 DEF Above

(* A stack that loses its last entry, when the text becomes the one the     *)
(* entry goes back to.                                                      *)
LEMMA UndoesFront ==
    ASSUME NEW h \in Histories, NEW past, Undoes(h, past), h.undo # <<>>,
           NEW g \in Histories, g.text = Last(past), g.undo = Front(h.undo)
    PROVE  Undoes(g, Front(past))
<1> DEFINE n == Len(past) less == Front(past)
<1>1. past \in Seq(Texts) /\ n = Len(h.undo) /\ h.undo \in Seq(Spans)
  BY HistoryTypes DEF Undoes
<1>2. /\ n \in Nat /\ n >= 1 /\ Len(g.undo) = n - 1
      /\ \A k \in 1 .. n - 1 : g.undo[k] = h.undo[k]
      /\ Last(h.undo) = h.undo[n]
  <2>1. /\ Len(h.undo) \in Nat /\ Len(h.undo) >= 1 /\ Len(Front(h.undo)) = Len(h.undo) - 1
        /\ \A k \in 1 .. Len(h.undo) - 1 : Front(h.undo)[k] = h.undo[k]
        /\ Last(h.undo) = h.undo[Len(h.undo)]
    BY <1>1, FrontAndLast
  <2> QED BY <1>1, <2>1
<1>3. past # <<>>
  BY <1>2, EmptySeq
<1>4. /\ less \in Seq(Texts) /\ Len(less) = n - 1
      /\ \A k \in 1 .. n - 1 : less[k] = past[k]
      /\ Last(past) = past[n]
  BY <1>1, <1>3, FrontAndLast
<1>5. \A k \in 1 .. n : Leads(past[k], h.undo[k], Above(past, k, h.text))
  BY DEF Undoes
<1> HIDE DEF less
<1>6. ASSUME NEW k \in 1 .. n - 1 PROVE Leads(less[k], g.undo[k], Above(less, k, g.text))
  <2>1. k \in 1 .. n /\ k # n
    BY <1>2
  <2>2. Above(less, k, g.text) = past[k + 1]
    <3>1. CASE k = n - 1
      <4>1. k + 1 = n
        BY <1>2, <3>1
      <4> QED BY <1>4, <3>1, <4>1 DEF Above
    <3>2. CASE k # n - 1
      <4>1. k + 1 \in 1 .. n - 1
        BY <1>2, <3>2
      <4> QED BY <1>4, <3>2, <4>1 DEF Above
    <3> QED BY <3>1, <3>2
  <2>3. Above(past, k, h.text) = past[k + 1]
    BY <2>1 DEF Above
  <2> QED BY <1>2, <1>4, <1>5, <2>1, <2>2, <2>3
<1>7. Undoes(g, less)
  BY <1>2, <1>4, <1>6 DEF Undoes
<1> QED BY <1>7 DEF less

LEMMA RedoesFront ==
    ASSUME NEW h \in Histories, NEW future, Redoes(h, future), h.redo # <<>>,
           NEW g \in Histories, g.text = Last(future), g.redo = Front(h.redo)
    PROVE  Redoes(g, Front(future))
<1> DEFINE n == Len(future) less == Front(future)
<1>1. future \in Seq(Texts) /\ n = Len(h.redo) /\ h.redo \in Seq(Spans)
  BY HistoryTypes DEF Redoes
<1>2. /\ n \in Nat /\ n >= 1 /\ Len(g.redo) = n - 1
      /\ \A k \in 1 .. n - 1 : g.redo[k] = h.redo[k]
      /\ Last(h.redo) = h.redo[n]
  <2>1. /\ Len(h.redo) \in Nat /\ Len(h.redo) >= 1 /\ Len(Front(h.redo)) = Len(h.redo) - 1
        /\ \A k \in 1 .. Len(h.redo) - 1 : Front(h.redo)[k] = h.redo[k]
        /\ Last(h.redo) = h.redo[Len(h.redo)]
    BY <1>1, FrontAndLast
  <2> QED BY <1>1, <2>1
<1>3. future # <<>>
  BY <1>2, EmptySeq
<1>4. /\ less \in Seq(Texts) /\ Len(less) = n - 1
      /\ \A k \in 1 .. n - 1 : less[k] = future[k]
      /\ Last(future) = future[n]
  BY <1>1, <1>3, FrontAndLast
<1>5. \A k \in 1 .. n : Leads(Above(future, k, h.text), h.redo[k], future[k])
  BY DEF Redoes
<1> HIDE DEF less
<1>6. ASSUME NEW k \in 1 .. n - 1 PROVE Leads(Above(less, k, g.text), g.redo[k], less[k])
  <2>1. k \in 1 .. n /\ k # n
    BY <1>2
  <2>2. Above(less, k, g.text) = future[k + 1]
    <3>1. CASE k = n - 1
      <4>1. k + 1 = n
        BY <1>2, <3>1
      <4> QED BY <1>4, <3>1, <4>1 DEF Above
    <3>2. CASE k # n - 1
      <4>1. k + 1 \in 1 .. n - 1
        BY <1>2, <3>2
      <4> QED BY <1>4, <3>2, <4>1 DEF Above
    <3> QED BY <3>1, <3>2
  <2>3. Above(future, k, h.text) = future[k + 1]
    BY <2>1 DEF Above
  <2> QED BY <1>2, <1>4, <1>5, <2>1, <2>2, <2>3
<1>7. Redoes(g, less)
  BY <1>2, <1>4, <1>6 DEF Redoes
<1> QED BY <1>7 DEF less

(* A last entry that another one is merged into. *)
LEMMA UndoesJoin ==
    ASSUME NEW h \in Histories, NEW past, Undoes(h, past), h.undo # <<>>,
           NEW edit, NEW t, Leads(h.text, edit, t), Merged(Last(h.undo), edit) # None,
           NEW g \in Histories, g.text = t,
           g.undo = Append(Front(h.undo), Merged(Last(h.undo), edit))
    PROVE  Undoes(g, past)
<1> DEFINE n == Len(past) merged == Merged(Last(h.undo), edit)
<1>1. past \in Seq(Texts) /\ n = Len(h.undo) /\ h.undo \in Seq(Spans)
  BY HistoryTypes DEF Undoes
<1>2. /\ n \in Nat /\ n >= 1
      /\ Front(h.undo) \in Seq(Spans) /\ Len(Front(h.undo)) = n - 1
      /\ \A k \in 1 .. n - 1 : Front(h.undo)[k] = h.undo[k]
      /\ Last(h.undo) = h.undo[n]
  <2>1. /\ Len(h.undo) \in Nat /\ Len(h.undo) >= 1
        /\ Front(h.undo) \in Seq(Spans) /\ Len(Front(h.undo)) = Len(h.undo) - 1
        /\ \A k \in 1 .. Len(h.undo) - 1 : Front(h.undo)[k] = h.undo[k]
        /\ Last(h.undo) = h.undo[Len(h.undo)]
    BY <1>1, FrontAndLast
  <2> QED BY <1>1, <2>1
<1>3. \A k \in 1 .. n : Leads(past[k], h.undo[k], Above(past, k, h.text))
  BY DEF Undoes
<1>4. Leads(past[n], merged, t)
  <2>1. past # <<>> /\ Leads(Last(past), Last(h.undo), h.text)
    BY LastUndone
  <2>2. Last(past) = past[n]
    BY <1>1, <2>1, FrontAndLast
  <2> QED BY <2>1, <2>2, MergedLeads
<1>5. merged \in Spans
  BY <1>4 DEF Leads
<1>6. /\ Len(g.undo) = n
      /\ \A k \in 1 .. n - 1 : g.undo[k] = h.undo[k]
      /\ g.undo[n] = merged
  <2> DEFINE s == Front(h.undo)
  <2>1. s \in Seq(Spans) /\ Len(s) = n - 1
    BY <1>2
  <2> HIDE DEF s, merged
  <2>2. /\ Len(Append(s, merged)) = Len(s) + 1
        /\ \A k \in 1 .. Len(s) : Append(s, merged)[k] = s[k]
        /\ Append(s, merged)[Len(s) + 1] = merged
    BY <1>5, <2>1, Appended
  <2>3. Len(s) + 1 = n
    BY <1>2, <2>1
  <2>4. g.undo = Append(s, merged)
    BY DEF s, merged
  <2>5. \A k \in 1 .. n - 1 : s[k] = h.undo[k]
    BY <1>2 DEF s
  <2> QED BY <2>1, <2>2, <2>3, <2>4, <2>5
<1> HIDE DEF merged
<1>7. ASSUME NEW k \in 1 .. n PROVE Leads(past[k], g.undo[k], Above(past, k, g.text))
  <2>1. CASE k = n
    BY <1>4, <1>6, <2>1 DEF Above
  <2>2. CASE k # n
    <3>1. k \in 1 .. n - 1
      BY <1>2, <2>2
    <3>2. Above(past, k, g.text) = Above(past, k, h.text)
      BY <2>2 DEF Above
    <3> QED BY <1>3, <1>6, <3>1, <3>2
  <2> QED BY <2>1, <2>2
<1>8. Undoes(g, past)
  BY <1>1, <1>6, <1>7 DEF Undoes
<1> QED BY <1>8

LEMMA HistoryIs ==
    ASSUME NEW h, h = [text |-> h.text, undo |-> h.undo, redo |-> h.redo, open |-> h.open],
           h.text \in Texts, h.undo \in Seq(Spans), h.redo \in Seq(Spans), h.open \in BOOLEAN
    PROVE  h \in Histories
<1> DEFINE t == h.text u == h.undo r == h.redo o == h.open
<1>1. h = [text |-> t, undo |-> u, redo |-> r, open |-> o]
  OBVIOUS
<1>2. t \in Texts /\ u \in Seq(Spans) /\ r \in Seq(Spans) /\ o \in BOOLEAN
  OBVIOUS
<1> HIDE DEF t, u, r, o
<1> QED BY <1>1, <1>2 DEF Histories, Texts

(* A step of the plain editor, of its three variables. *)
PlainStep(text, past, future, text2, past2, future2) ==
    \/ text2 = text /\ past2 = past /\ future2 = future
    \/ past2 = <<>> /\ future2 = <<>>
    \/ past2 = Append(past, text) /\ future2 = <<>>
    \/ past # <<>> /\ past2 = past /\ future2 = <<>>
    \/ /\ past # <<>> /\ text2 = Last(past)
       /\ past2 = Front(past) /\ future2 = Append(future, text)
    \/ /\ future # <<>> /\ text2 = Last(future)
       /\ past2 = Append(past, text) /\ future2 = Front(future)

Goes(h, past, future, g, past2, future2) ==
    /\ Undoes(g, past2) /\ Redoes(g, future2)
    /\ PlainStep(h.text, past, future, g.text, past2, future2)

LEMMA MovesPlainly ==
    ASSUME NEW h \in Histories, NEW past, NEW future, Undoes(h, past), Redoes(h, future),
           NEW g, Moves(h, g)
    PROVE  g \in Histories /\ \E p, f : Goes(h, past, future, g, p, f)
<1>1. /\ g.open \in BOOLEAN
      /\ g = [text |-> g.text, undo |-> g.undo, redo |-> g.redo, open |-> g.open]
  BY DEF Moves
<1>2. h.text \in Texts /\ h.undo \in Seq(Spans) /\ h.redo \in Seq(Spans)
  BY HistoryTypes
<1>3. <<>> \in Seq(Spans)
  BY EmptySeq
<1>4. CASE Stays(h, g)
  <2>1. g \in Histories
    BY <1>1, <1>2, <1>4, HistoryIs DEF Stays
  <2>2. Undoes(g, past) /\ Redoes(g, future)
    BY <1>4 DEF Stays, Undoes, Redoes
  <2>3. Goes(h, past, future, g, past, future)
    BY <1>4, <2>2 DEF Stays, Goes, PlainStep
  <2> QED BY <2>1, <2>3
<1>5. CASE Opens(h, g)
  <2>1. g \in Histories
    BY <1>1, <1>3, <1>5, HistoryIs DEF Opens
  <2>2. Undoes(g, <<>>) /\ Redoes(g, <<>>)
    BY <1>5, NothingStacked DEF Opens
  <2>3. Goes(h, past, future, g, <<>>, <<>>)
    BY <2>2 DEF Goes, PlainStep
  <2> QED BY <2>1, <2>3
<1>6. CASE Adds(h, g)
  <2>1. PICK edit : /\ Leads(h.text, edit, g.text)
                    /\ g.undo = Append(h.undo, edit) /\ g.redo = <<>>
    BY <1>6 DEF Adds
  <2>2. g.text \in Texts /\ edit \in Spans
    <3>1. g.text \in Texts
      BY <2>1, LeadsBack
    <3> QED BY <2>1, <3>1 DEF Leads
  <2>3. g.undo \in Seq(Spans)
    BY <1>2, <2>1, <2>2, Appended
  <2>4. g \in Histories
    BY <1>1, <1>3, <2>1, <2>2, <2>3, HistoryIs
  <2>5. Undoes(g, Append(past, h.text))
    BY <2>1, <2>4, UndoesAppend
  <2>6. Redoes(g, <<>>)
    BY <2>1, NothingStacked
  <2>7. Goes(h, past, future, g, Append(past, h.text), <<>>)
    BY <2>5, <2>6 DEF Goes, PlainStep
  <2> QED BY <2>4, <2>7
<1>7. CASE Joins(h, g)
  <2>1. PICK edit : /\ Leads(h.text, edit, g.text) /\ h.undo # <<>>
                    /\ Merged(Last(h.undo), edit) # None
                    /\ g.undo = Append(Front(h.undo), Merged(Last(h.undo), edit))
                    /\ g.redo = <<>>
    BY <1>7 DEF Joins
  <2> DEFINE merged == Merged(Last(h.undo), edit)
  <2>2. g.text \in Texts
    BY <2>1, LeadsBack
  <2>3. Front(h.undo) \in Seq(Spans)
    BY <1>2, <2>1, FrontAndLast
  <2>4. merged \in Spans
    <3>1. Leads(Last(past), Last(h.undo), h.text)
      BY <2>1, LastUndone
    <3>2. Leads(Last(past), merged, g.text)
      BY <2>1, <3>1, MergedLeads
    <3> QED BY <3>2 DEF Leads
  <2>5. g.undo = Append(Front(h.undo), merged)
    BY <2>1
  <2> HIDE DEF merged
  <2>6. g.undo \in Seq(Spans)
    BY <2>3, <2>4, <2>5, Appended
  <2>7. g \in Histories
    BY <1>1, <1>3, <2>1, <2>2, <2>6, HistoryIs
  <2>8. Undoes(g, past) /\ past # <<>>
    BY <2>1, <2>7, UndoesJoin, LastUndone
  <2>9. Redoes(g, <<>>)
    BY <2>1, NothingStacked
  <2>10. Goes(h, past, future, g, past, <<>>)
    BY <2>8, <2>9 DEF Goes, PlainStep
  <2> QED BY <2>7, <2>10
<1>8. CASE GoesBack(h, g)
  <2> DEFINE last == Last(h.undo)
  <2>1. /\ h.undo # <<>> /\ g.text = Undone(h.text, last)
        /\ g.undo = Front(h.undo) /\ g.redo = Append(h.redo, last)
    BY <1>8 DEF GoesBack
  <2>2. Front(h.undo) \in Seq(Spans) /\ last \in Spans
    BY <1>2, <2>1, FrontAndLast
  <2>3. past # <<>> /\ Leads(Last(past), last, h.text)
    BY <2>1, LastUndone
  <2>4. g.text = Last(past)
    <3>1. Undone(h.text, last) = Last(past)
      BY <2>3, LeadsBack
    <3> QED BY <2>1, <3>1
  <2>5. g.text \in Texts
    BY <2>3, <2>4 DEF Leads
  <2> HIDE DEF last
  <2>6. g.redo \in Seq(Spans)
    BY <1>2, <2>1, <2>2, Appended
  <2>7. g \in Histories
    BY <1>1, <2>1, <2>2, <2>5, <2>6, HistoryIs
  <2>8. Undoes(g, Front(past))
    BY <2>1, <2>4, <2>7, UndoesFront
  <2>9. Redoes(g, Append(future, h.text))
    BY <2>1, <2>3, <2>4, <2>7, RedoesAppend
  <2>10. Goes(h, past, future, g, Front(past), Append(future, h.text))
    BY <2>3, <2>4, <2>8, <2>9 DEF Goes, PlainStep
  <2> QED BY <2>7, <2>10
<1>9. CASE GoesOn(h, g)
  <2> DEFINE last == Last(h.redo)
  <2>1. /\ h.redo # <<>> /\ g.text = Redone(h.text, last)
        /\ g.undo = Append(h.undo, last) /\ g.redo = Front(h.redo)
    BY <1>9 DEF GoesOn
  <2>2. Front(h.redo) \in Seq(Spans) /\ last \in Spans
    BY <1>2, <2>1, FrontAndLast
  <2>3. future # <<>> /\ Leads(h.text, last, Last(future))
    BY <2>1, LastRedone
  <2>4. g.text = Last(future)
    BY <2>1, <2>3 DEF Leads
  <2>5. g.text \in Texts
    BY <2>3, <2>4, LeadsBack
  <2> HIDE DEF last
  <2>6. g.undo \in Seq(Spans)
    BY <1>2, <2>1, <2>2, Appended
  <2>7. g \in Histories
    BY <1>1, <2>1, <2>2, <2>5, <2>6, HistoryIs
  <2>8. Redoes(g, Front(future))
    BY <2>1, <2>4, <2>7, RedoesFront
  <2>9. Undoes(g, Append(past, h.text))
    BY <2>1, <2>3, <2>4, <2>7, UndoesAppend
  <2>10. Goes(h, past, future, g, Append(past, h.text), Front(future))
    BY <2>3, <2>4, <2>8, <2>9 DEF Goes, PlainStep
  <2> QED BY <2>7, <2>10
<1> QED BY <1>4, <1>5, <1>6, <1>7, <1>8, <1>9 DEF Moves

LEMMA MovesChained ==
    ASSUME NEW h, Chained(h), NEW g, Moves(h, g)
    PROVE  Chained(g)
<1>1. h \in Histories
  BY DEF Chained
<1>2. PICK past : Undoes(h, past)
  BY DEF Chained
<1>3. PICK future : Redoes(h, future)
  BY DEF Chained
<1>4. g \in Histories /\ \E p, f : Goes(h, past, future, g, p, f)
  BY <1>1, <1>2, <1>3, MovesPlainly
<1> QED BY <1>4 DEF Chained, Goes

(* record: what an edit does to the history of the text it is made in. *)
LEMMA RecordedMoves ==
    ASSUME NEW h \in Histories, NEW a \in 0 .. Len(h.text), NEW b \in a .. Len(h.text),
           NEW s \in Texts,
           NEW u, u = Spliced(h.text, a, b, s)
    PROVE  Moves(h, [Recorded(h, Part(h.text, a, b), s, a) EXCEPT !.text = u])
<1> DEFINE w == Part(h.text, a, b)
           edit == Difference(w, s, a)
           merged == IF h.open /\ h.undo # <<>> /\ h.redo = <<>>
                     THEN Merged(Last(h.undo), edit) ELSE None
           g == [Recorded(h, w, s, a) EXCEPT !.text = u]
<1>1. h.text \in Texts /\ h.undo \in Seq(Spans) /\ h.redo \in Seq(Spans) /\ h.open \in BOOLEAN
  BY HistoryTypes
<1>2. h = [text |-> h.text, undo |-> h.undo, redo |-> h.redo, open |-> h.open]
  BY DEF Histories
<1>3. CASE w = s
  <2>1. u = h.text
    BY <1>1, <1>3, SplicedSame
  <2>2. g = [h EXCEPT !.text = u]
    BY <1>3 DEF Recorded
  <2>3. g.text = u /\ g.undo = h.undo /\ g.redo = h.redo /\ g.open = h.open
        /\ g = [text |-> g.text, undo |-> g.undo, redo |-> g.redo, open |-> g.open]
    <3> HIDE DEF g
    <3> QED BY <1>2, <2>2
  <2> HIDE DEF g
  <2>4. Moves(h, g)
    BY <1>1, <2>1, <2>3 DEF Moves, Stays
  <2> QED BY <2>4 DEF g, w
<1>4. CASE w # s
  <2>1. Leads(h.text, edit, u)
    BY <1>1, DifferenceLeads
  <2> HIDE DEF edit
  <2>2. g = [[h EXCEPT !.undo = IF merged = None THEN Append(h.undo, edit)
                                ELSE Append(Front(h.undo), merged),
                       !.redo = <<>>,
                       !.open = Len(edit.removed) + Len(edit.inserted) = 1] EXCEPT !.text = u]
    BY <1>4 DEF Recorded, edit
  <2> HIDE DEF merged, w
  <2>3. /\ g.text = u /\ g.redo = <<>> /\ g.open \in BOOLEAN
        /\ g.undo = IF merged = None THEN Append(h.undo, edit) ELSE Append(Front(h.undo), merged)
        /\ g = [text |-> g.text, undo |-> g.undo, redo |-> g.redo, open |-> g.open]
    <3> DEFINE o == Len(edit.removed) + Len(edit.inserted) = 1
               v == IF merged = None THEN Append(h.undo, edit) ELSE Append(Front(h.undo), merged)
    <3>1. g = [[h EXCEPT !.undo = v, !.redo = <<>>, !.open = o] EXCEPT !.text = u]
      BY <2>2
    <3>2. o \in BOOLEAN
      OBVIOUS
    <3> HIDE DEF g, o, v
    <3>3. g.text = u /\ g.redo = <<>> /\ g.open = o /\ g.undo = v
          /\ g = [text |-> g.text, undo |-> g.undo, redo |-> g.redo, open |-> g.open]
      BY <1>2, <3>1
    <3> QED BY <3>2, <3>3 DEF v
  <2> HIDE DEF g
  <2>4. CASE merged = None
    <3>1. Adds(h, g)
      BY <2>1, <2>3, <2>4 DEF Adds
    <3>2. Moves(h, g)
      BY <2>3, <3>1 DEF Moves
    <3> QED BY <3>2 DEF g, w
  <2>5. CASE merged # None
    <3>1. h.undo # <<>> /\ merged = Merged(Last(h.undo), edit)
      BY <2>5 DEF merged
    <3>2. Joins(h, g)
      BY <2>1, <2>3, <2>5, <3>1 DEF Joins
    <3>3. Moves(h, g)
      BY <2>3, <3>2 DEF Moves
    <3> QED BY <3>3 DEF g, w
  <2> QED BY <2>4, <2>5
<1> QED BY <1>3, <1>4

LEMMA ClosedIs ==
    ASSUME NEW h, h = [text |-> h.text, undo |-> h.undo, redo |-> h.redo, open |-> h.open]
    PROVE  Closed(h) = [text |-> h.text, undo |-> h.undo, redo |-> h.redo, open |-> FALSE]
<1>1. ASSUME NEW t, NEW u, NEW r, NEW o, NEW c,
             h = [text |-> t, undo |-> u, redo |-> r, open |-> o]
      PROVE  [h EXCEPT !.open = c] = [text |-> t, undo |-> u, redo |-> r, open |-> c]
  BY <1>1
<1>2. [h EXCEPT !.open = FALSE]
          = [text |-> h.text, undo |-> h.undo, redo |-> h.redo, open |-> FALSE]
  BY <1>1, Zenon
<1> QED BY <1>2, Zenon DEF Closed

(* The group of keys of a history makes no difference to its moves. *)
LEMMA MovesClosed ==
    ASSUME NEW h \in Histories, NEW g, Moves(Closed(h), g)
    PROVE  Moves(h, Closed(g))
<1>1. /\ Closed(h).text = h.text /\ Closed(h).undo = h.undo /\ Closed(h).redo = h.redo
  BY DEF Closed, Histories
<1>2. /\ g.open \in BOOLEAN
      /\ g = [text |-> g.text, undo |-> g.undo, redo |-> g.redo, open |-> g.open]
  BY DEF Moves
<1>3. /\ Closed(g).text = g.text /\ Closed(g).undo = g.undo /\ Closed(g).redo = g.redo
      /\ Closed(g).open = FALSE
      /\ Closed(g) = [text |-> Closed(g).text, undo |-> Closed(g).undo,
                      redo |-> Closed(g).redo, open |-> Closed(g).open]
  <2>1. Closed(g) = [text |-> g.text, undo |-> g.undo, redo |-> g.redo, open |-> FALSE]
    BY <1>2, ClosedIs, Zenon
  <2> QED BY <2>1
<1> DEFINE k == Closed(h) m == Closed(g)
<1> HIDE DEF k, m
<1>4. Moves(k, g)
  BY DEF k
<1>5. Moves(h, m)
  BY <1>1, <1>3, <1>4 DEF Moves, Stays, Opens, Adds, Joins, GoesBack, GoesOn, k, m
<1> QED BY <1>5 DEF m

LEMMA ClosedMoves ==
    ASSUME NEW h \in Histories
    PROVE  /\ Moves(h, h) /\ Moves(h, Closed(h))
           /\ Closed(h) \in Histories /\ Closed(h).text = h.text
<1>1. h.text \in Texts /\ h.undo \in Seq(Spans) /\ h.redo \in Seq(Spans) /\ h.open \in BOOLEAN
  BY HistoryTypes
<1>2. h = [text |-> h.text, undo |-> h.undo, redo |-> h.redo, open |-> h.open]
  BY DEF Histories
<1>3. Moves(h, h)
  BY <1>1, <1>2 DEF Moves, Stays
<1>4. Closed(h) = [text |-> h.text, undo |-> h.undo, redo |-> h.redo, open |-> FALSE]
  BY <1>2, ClosedIs
<1> DEFINE g == Closed(h)
<1>5. g.text = h.text /\ g.undo = h.undo /\ g.redo = h.redo /\ g.open = FALSE
      /\ g = [text |-> g.text, undo |-> g.undo, redo |-> g.redo, open |-> g.open]
  BY <1>4
<1> HIDE DEF g
<1>6. Moves(h, g)
  BY <1>5 DEF Moves, Stays
<1>7. g \in Histories
  BY <1>1, <1>5, HistoryIs
<1> QED BY <1>3, <1>5, <1>6, <1>7 DEF g

LEMMA FreshMoves ==
    ASSUME NEW h, NEW t \in Texts
    PROVE  Moves(h, Fresh(t)) /\ Fresh(t).text = t
BY DEF Moves, Opens, Fresh

----------------------------------------------------------------------------
(* The text area and its copies of the document *)

(* The fields of an editor. *)
Made(e, shown, paged, loading, selected, preview, history) ==
    /\ e = [shown |-> e.shown, paged |-> e.paged, loading |-> e.loading,
            selected |-> e.selected, preview |-> e.preview, history |-> e.history]
    /\ e.shown = shown /\ e.paged = paged /\ e.loading = loading
    /\ e.selected = selected /\ e.preview = preview /\ e.history = history

LEMMA MadeFields ==
    ASSUME NEW e, NEW s, NEW g, NEW l, NEW c, NEW p, NEW h, Made(e, s, g, l, c, p, h)
    PROVE  /\ e.shown = s /\ e.paged = g /\ e.loading = l
           /\ e.selected = c /\ e.preview = p /\ e.history = h
BY DEF Made

LEMMA MadeEdited ==
    ASSUME NEW e, NEW s, NEW g, NEW l, NEW c, NEW p, NEW h, Made(e, s, g, l, c, p, h),
           NEW s2, NEW c2, NEW p2, NEW h2,
           NEW x, x = [e EXCEPT !.shown = s2, !.selected = c2, !.preview = p2, !.history = h2]
    PROVE  Made(x, s2, g, l, c2, p2, h2)
BY DEF Made

LEMMA EditorMade ==
    ASSUME NEW e \in Editors
    PROVE  /\ Made(e, e.shown, e.paged, e.loading, e.selected, e.preview, e.history)
           /\ e.shown \in Texts /\ e.paged \in BOOLEAN /\ e.loading \in BOOLEAN
           /\ e.selected \in BOOLEAN /\ e.history \in Histories
BY DEF Made, Editors, Texts

(* The page table, the history and the paging mark are of one document. *)
Sound(e) ==
    /\ e \in Editors
    /\ Chained(e.history)
    /\ e.preview # None => /\ Tiled(e.preview)
                           /\ e.preview.text = e.history.text
                           /\ e.paged

(* The area shows the document or its page. *)
Shows(e) == e.shown = IF e.preview # None THEN Visible(e.preview) ELSE e.history.text

(* The document is shown in pages when it is long. *)
Fits(e) == /\ e.paged <=> Len(e.history.text) > PagedAbove
           /\ e.paged <=> e.preview # None

LEMMA SoundMade ==
    ASSUME NEW e, NEW s \in Texts, NEW g \in BOOLEAN, NEW l \in BOOLEAN, NEW c \in BOOLEAN,
           NEW p, NEW h, Made(e, s, g, l, c, p, h), Chained(h),
           p # None => Tiled(p) /\ p.text = h.text /\ g
    PROVE  Sound(e)
<1>1. p \in Previews \cup {None}
  BY DEF Tiled
<1>2. h \in Histories
  BY DEF Chained
<1>3. e \in Editors
  BY <1>1, <1>2 DEF Made, Editors, Texts
<1>4. e.paged = g /\ e.preview = p /\ e.history = h
  BY MadeFields
<1> QED BY <1>3, <1>4 DEF Sound

LEMMA TiledIsSome ==
    ASSUME NEW p, Tiled(p)
    PROVE  p # None
BY NoneIsNoRecord DEF Tiled

LEMMA FullIs ==
    ASSUME NEW e, Sound(e), e.preview # None \/ Shows(e)
    PROVE  Full(e) = e.history.text
BY DEF Sound, Shows, Full

(* commitPreviewText: x is e after the text t of the area went to its place *)
(* in the document.                                                         *)
Commits(e, t, x) ==
    /\ Sound(x) /\ Shows(x) /\ Moves(e.history, x.history)
    /\ x.shown = t /\ x.paged = e.paged /\ x.loading = e.loading /\ ~ x.selected
    /\ e.selected \/ e.preview = None => x.preview = None /\ x.history.text = t
    /\ ~ e.selected /\ e.preview # None =>
           /\ x.preview # None
           /\ PageStart(x) = PageStart(e)
           /\ x.history.text = Spliced(e.history.text, PageStart(e),
                                       PageRange(e.preview).end, t)
    /\ t = e.shown /\ Shows(e) /\ ~ e.selected =>
           x.history = [e.history EXCEPT !.text = x.history.text]

LEMMA CommittedIs ==
    ASSUME NEW e, Sound(e), NEW t \in Texts, NEW x, x = Committed(e, t)
    PROVE  Commits(e, t, x)
<1> DEFINE p == IF e.selected THEN None ELSE e.preview
           H == e.history.text
           previous == IF p # None THEN Visible(p) ELSE H
           offset == IF p # None THEN PageStart(e) ELSE 0
           r == Recorded(e.history, previous, t, offset)
           after == IF p # None THEN Replaced(p, t) ELSE None
           u == IF p # None THEN after.text ELSE t
           h == [r EXCEPT !.text = u]
<1>1. e \in Editors /\ Chained(e.history)
  BY DEF Sound
<1>2. e.history \in Histories /\ H \in Texts
  BY <1>1, HistoryTypes DEF Chained
<1>3. Made(x, t, e.paged, e.loading, FALSE, after, h)
  <2>1. x = [e EXCEPT !.shown = t, !.selected = FALSE, !.preview = after, !.history = h]
    BY DEF Committed
  <2> HIDE DEF after, h
  <2>2. Made(e, e.shown, e.paged, e.loading, e.selected, e.preview, e.history)
    BY <1>1, EditorMade
  <2> QED BY <2>1, <2>2, MadeEdited, Zenon
<1> DEFINE same == t = e.shown /\ Shows(e) /\ ~ e.selected
<1>4. same => h = [e.history EXCEPT !.text = u]
  <2> SUFFICES ASSUME same PROVE h = [e.history EXCEPT !.text = u]
    OBVIOUS
  <2>1. p = e.preview /\ previous = t
    BY DEF Shows
  <2>2. r = e.history
    BY <2>1 DEF Recorded
  <2> HIDE DEF u, r
  <2> QED BY <2>2
<1> HIDE DEF same
<1>5. CASE p = None
  <2>1. previous = Part(H, 0, Len(H)) /\ offset = 0 /\ u = t
    BY <1>2, <1>5, PartAll
  <2>2. t = Spliced(H, 0, Len(H), t)
    BY <1>2, SplicedAll
  <2>3. 0 \in 0 .. Len(H) /\ Len(H) \in 0 .. Len(H)
    BY <1>2, TextLength
  <2>4. Moves(e.history, [Recorded(e.history, Part(H, 0, Len(H)), t, 0) EXCEPT !.text = t])
    BY <1>2, <2>2, <2>3, RecordedMoves
  <2>5. Moves(e.history, h)
    BY <2>1, <2>4
  <2>6. Chained(h) /\ h \in Histories
    BY <1>1, <2>5, MovesChained DEF Chained
  <2>7. h.text = t
    <3>1. h = [r EXCEPT !.text = t]
      BY <2>1
    <3> QED BY <2>6, <3>1 DEF Histories
  <2>8. after = None
    BY <1>5
  <2> HIDE DEF after, h
  <2>9. /\ x.shown = t /\ x.paged = e.paged /\ x.loading = e.loading /\ x.selected = FALSE
        /\ x.preview = None /\ x.history = h
    BY <1>3, <2>8, MadeFields, Zenon
  <2>10. Sound(x)
    <3>1. e.paged \in BOOLEAN /\ e.loading \in BOOLEAN /\ FALSE \in BOOLEAN
      BY <1>1, EditorMade
    <3> QED BY <1>3, <2>6, <2>8, <3>1, SoundMade
  <2>11. Shows(x)
    BY <2>7, <2>9 DEF Shows
  <2>12. same => x.history = [e.history EXCEPT !.text = x.history.text]
    BY <1>4, <2>1, <2>7, <2>9 DEF h
  <2> QED BY <1>5, <2>5, <2>7, <2>9, <2>10, <2>11, <2>12 DEF same, Commits
<1>6. CASE p # None
  <2>1. e.preview = p /\ ~ e.selected
    BY <1>6
  <2>2. Tiled(p) /\ p.text = H /\ e.paged = TRUE
    <3>1. Tiled(p) /\ p.text = H /\ e.paged
      BY <1>6, <2>1 DEF Sound
    <3>2. e.paged \in BOOLEAN
      BY <1>1, EditorMade
    <3> QED BY <3>1, <3>2
  <2> DEFINE a == PageRange(p).start b == PageRange(p).end
  <2>3. a \in 0 .. Len(H) /\ b \in a .. Len(H) /\ Visible(p) = Part(H, a, b)
    BY <2>2, PageIs DEF Visible
  <2>4. /\ Tiled(Replaced(p, t)) /\ Replaced(p, t).text = Spliced(H, a, b, t)
        /\ PageRange(Replaced(p, t)).start = a /\ Visible(Replaced(p, t)) = t
    BY <2>2, ReplacedTiled
  <2>5. after = Replaced(p, t) /\ PageStart(e) = a /\ u = Spliced(H, a, b, t)
    BY <1>6, <2>1, <2>4 DEF PageStart
  <2>6. previous = Part(H, a, b) /\ offset = a
    BY <1>6, <2>3, <2>5
  <2> HIDE DEF a, b
  <2>7. Moves(e.history, [Recorded(e.history, Part(H, a, b), t, a) EXCEPT !.text = u])
    BY <1>2, <2>3, <2>5, RecordedMoves
  <2>8. Moves(e.history, h)
    BY <2>6, <2>7
  <2>9. Chained(h) /\ h \in Histories
    BY <1>1, <2>8, MovesChained DEF Chained
  <2>10. h.text = u
    <3>1. h = [r EXCEPT !.text = u]
      OBVIOUS
    <3> HIDE DEF u
    <3> QED BY <2>9, <3>1 DEF Histories
  <2> HIDE DEF after, h, u
  <2>11. /\ x.shown = t /\ x.paged = e.paged /\ x.loading = e.loading /\ x.selected = FALSE
         /\ x.preview = after /\ x.history = h
    BY <1>3, MadeFields, Zenon
  <2>12. after # None
    BY <2>4, <2>5, TiledIsSome
  <2>13. Sound(x)
    <3>1. e.paged \in BOOLEAN /\ e.loading \in BOOLEAN /\ FALSE \in BOOLEAN
      BY <1>1, EditorMade
    <3>2. Tiled(after) /\ after.text = h.text /\ e.paged
      BY <2>2, <2>4, <2>5, <2>10
    <3> QED BY <1>3, <2>9, <3>1, <3>2, SoundMade
  <2>14. Shows(x)
    BY <2>4, <2>5, <2>11, <2>12 DEF Shows
  <2>15. PageStart(x) = PageStart(e)
    BY <2>4, <2>5, <2>11, <2>12 DEF PageStart
  <2>16. x.history.text = Spliced(H, PageStart(e), PageRange(e.preview).end, t)
    BY <2>1, <2>5, <2>10, <2>11 DEF b
  <2>17. same => x.history = [e.history EXCEPT !.text = x.history.text]
    BY <1>4, <2>10, <2>11
  <2> QED BY <1>6, <2>5, <2>8, <2>11, <2>12, <2>13, <2>14, <2>15, <2>16, <2>17 DEF same, Commits
<1> QED BY <1>5, <1>6

LEMMA MadePrepared ==
    ASSUME NEW e, NEW s, NEW g, NEW l, NEW c, NEW p, NEW h, Made(e, s, g, l, c, p, h),
           NEW s2, NEW g2, NEW l2, NEW p2, NEW h2,
           NEW x, x = [e EXCEPT !.loading = l2, !.paged = g2, !.preview = p2, !.history = h2,
                                !.shown = s2]
    PROVE  Made(x, s2, g2, l2, c, p2, h2)
BY DEF Made

LEMMA SameMade ==
    ASSUME NEW e, NEW x, NEW s, NEW g, NEW l, NEW c, NEW p, NEW h,
           Made(e, s, g, l, c, p, h), Made(x, s, g, l, c, p, h)
    PROVE  x = e
BY DEF Made

(* prepareText: the document becomes the text of the controller. *)
LEMMA PreparedIs ==
    ASSUME NEW e, Sound(e), NEW t \in Texts, NEW x, x = Prepared(e, t)
    PROVE  /\ Sound(x) /\ Shows(x) /\ Fits(x)
           /\ Moves(e.history, x.history) /\ x.history.text = t /\ Full(x) = t
           /\ e.history.text = t => x.history = e.history
           /\ x.selected = e.selected
           /\ x.loading <=> e.loading \/ Full(e) # t
           /\ e.history.text = t /\ Shows(e) /\ Fits(e) => x = e
<1> DEFINE g == Len(t) > PagedAbove
           l == e.loading \/ Full(e) # t
           p == IF ~ g THEN None
                ELSE IF e.preview # None /\ Full(e) = t THEN e.preview ELSE Created(t)
           h == IF e.history.text # t THEN Fresh(t) ELSE e.history
           s == IF g THEN Visible(p) ELSE t
<1>1. e \in Editors /\ Chained(e.history) /\ e.history \in Histories
  BY DEF Sound, Chained
<1>2. x = [e EXCEPT !.loading = l, !.paged = g, !.preview = p, !.history = h, !.shown = s]
  BY Zenon DEF Prepared
<1>3. g \in BOOLEAN /\ l \in BOOLEAN
  OBVIOUS
<1>4. /\ Made(e, e.shown, e.paged, e.loading, e.selected, e.preview, e.history)
      /\ e.paged \in BOOLEAN /\ e.loading \in BOOLEAN /\ e.selected \in BOOLEAN
      /\ e.shown \in Texts
  BY <1>1, EditorMade
<1>5. Moves(e.history, h) /\ h.text = t /\ (e.history.text = t => h = e.history)
  <2>1. CASE e.history.text = t
    BY <1>1, <2>1, ClosedMoves
  <2>2. CASE e.history.text # t
    <3>1. h = Fresh(t)
      BY <2>2
    <3>2. Moves(e.history, Fresh(t)) /\ Fresh(t).text = t
      BY FreshMoves
    <3> QED BY <2>2, <3>1, <3>2
  <2> QED BY <2>1, <2>2
<1>6. Chained(h)
  BY <1>1, <1>5, MovesChained
<1>7. g => Tiled(p) /\ p.text = t
  <2>1. CASE g /\ e.preview # None /\ Full(e) = t
    <3>1. p = e.preview /\ p.text = t
      BY <2>1 DEF Full
    <3> QED BY <2>1, <3>1 DEF Sound
  <2>2. CASE g /\ ~ (e.preview # None /\ Full(e) = t)
    <3>1. p = Created(t)
      BY <2>2
    <3>2. Tiled(Created(t)) /\ Created(t).text = t
      BY CreatedTiled
    <3> QED BY <3>1, <3>2
  <2> QED BY <2>1, <2>2
<1>8. g => p # None
  BY <1>7, TiledIsSome
<1>9. ~ g => p = None
  OBVIOUS
<1>10. s \in Texts
  BY <1>7, PageIs
<1>11. e.history.text = t /\ Shows(e) /\ Fits(e) =>
           s = e.shown /\ g = e.paged /\ l = e.loading /\ p = e.preview /\ h = e.history
  <2> SUFFICES ASSUME e.history.text = t, Shows(e), Fits(e)
               PROVE  s = e.shown /\ g = e.paged /\ l = e.loading /\ p = e.preview /\ h = e.history
    OBVIOUS
  <2>1. g = e.paged
    <3>1. g <=> e.paged
      BY DEF Fits
    <3> QED BY <1>3, <1>4, <3>1
  <2>2. Full(e) = t
    BY FullIs
  <2>3. l = e.loading
    BY <1>4, <2>2
  <2>4. p = e.preview
    <3>1. g <=> e.preview # None
      BY DEF Fits
    <3> QED BY <2>2, <3>1
  <2>5. s = e.shown
    <3>1. g <=> e.preview # None
      BY DEF Fits
    <3> QED BY <2>4, <3>1 DEF Shows
  <2> QED BY <1>5, <2>1, <2>3, <2>4, <2>5
<1> DEFINE fits == g <=> Len(t) > PagedAbove
           loads == l <=> e.loading \/ Full(e) # t
<1>12. fits /\ loads
  OBVIOUS
<1>13. p # None <=> g
  BY <1>8, <1>9
<1>14. s = IF p # None THEN Visible(p) ELSE t
  BY <1>13
<1> HIDE DEF g, l, p, h, s
<1>15. Made(x, s, g, l, e.selected, p, h)
  <2>1. Made(e, e.shown, e.paged, e.loading, e.selected, e.preview, e.history)
    BY <1>4
  <2>2. \A y : y = [e EXCEPT !.loading = l, !.paged = g, !.preview = p, !.history = h, !.shown = s]
                 => Made(y, s, g, l, e.selected, p, h)
    BY <2>1, MadePrepared
  <2> QED BY <1>2, <2>2
<1>16. /\ x.shown = s /\ x.paged = g /\ x.loading = l /\ x.selected = e.selected
       /\ x.preview = p /\ x.history = h
  BY <1>15, MadeFields
<1>17. p # None => Tiled(p) /\ p.text = h.text /\ g
  BY <1>5, <1>7, <1>13
<1>18. Sound(x)
  BY <1>3, <1>4, <1>6, <1>10, <1>15, <1>17, SoundMade
<1>19. Shows(x)
  BY <1>5, <1>14, <1>16 DEF Shows
<1>20. Fits(x)
  BY <1>5, <1>12, <1>13, <1>16 DEF Fits
<1>21. Full(x) = t
  BY <1>5, <1>16, <1>18, <1>19, FullIs
<1>22. x.loading <=> e.loading \/ Full(e) # t
  BY <1>12, <1>16
<1>23. e.history.text = t /\ Shows(e) /\ Fits(e) => x = e
  BY <1>4, <1>11, <1>15, SameMade
<1> QED BY <1>5, <1>16, <1>18, <1>19, <1>20, <1>21, <1>22, <1>23

LEMMA MadeSelected ==
    ASSUME NEW e, NEW s, NEW g, NEW l, NEW c, NEW p, NEW h, Made(e, s, g, l, c, p, h),
           NEW c2, NEW x, x = [e EXCEPT !.selected = c2]
    PROVE  Made(x, s, g, l, c2, p, h)
BY DEF Made

(* Whether the document is selected is of no matter to its copies. *)
LEMMA ReselectedIs ==
    ASSUME NEW e, NEW p, Sound(p), NEW x, x = Reselected(e, p)
    PROVE  /\ Sound(x) /\ (Shows(x) <=> Shows(p)) /\ (Fits(x) <=> Fits(p))
           /\ x.shown = p.shown /\ x.paged = p.paged /\ x.loading = p.loading
           /\ x.preview = p.preview /\ x.history = p.history
           /\ Full(x) = Full(p) /\ PageStart(x) = PageStart(p)
           /\ x.selected <=> p.selected /\ p.shown \in {e.shown, <<>>}
           /\ ~ p.selected => x = p
<1> DEFINE c == p.selected /\ p.shown \in {e.shown, <<>>}
<1>1. x = [p EXCEPT !.selected = c]
  BY DEF Reselected
<1>2. c \in BOOLEAN /\ (c <=> p.selected /\ p.shown \in {e.shown, <<>>})
  OBVIOUS
<1>3. p \in Editors
  BY DEF Sound
<1>4. ~ p.selected => c = p.selected
  BY <1>3, EditorMade
<1> HIDE DEF c
<1>5. /\ Made(p, p.shown, p.paged, p.loading, p.selected, p.preview, p.history)
      /\ p.shown \in Texts /\ p.paged \in BOOLEAN /\ p.loading \in BOOLEAN
  BY <1>3, EditorMade
<1>6. Made(x, p.shown, p.paged, p.loading, c, p.preview, p.history)
  BY <1>1, <1>5, MadeSelected, Zenon
<1>7. /\ x.shown = p.shown /\ x.paged = p.paged /\ x.loading = p.loading
      /\ x.preview = p.preview /\ x.history = p.history /\ x.selected = c
  BY <1>6, MadeFields
<1>8. Sound(x)
  <2>1. Chained(p.history)
        /\ (p.preview # None => Tiled(p.preview) /\ p.preview.text = p.history.text /\ p.paged)
    BY DEF Sound
  <2> QED BY <1>2, <1>5, <1>6, <2>1, SoundMade
<1>9. ~ p.selected => x = p
  BY <1>4, <1>5, <1>6, SameMade
<1>10. x.selected <=> p.selected /\ p.shown \in {e.shown, <<>>}
  BY <1>2, <1>7
<1> QED BY <1>7, <1>8, <1>9, <1>10 DEF Shows, Fits, Full, PageStart

(* What is shown is committed as it is: nothing changes. *)
LEMMA CommittedSame ==
    ASSUME NEW e, Sound(e), Shows(e), ~ e.selected, NEW x, x = Committed(e, e.shown)
    PROVE  x.history = e.history /\ (Fits(e) => Fits(x))
<1> DEFINE h == e.history
<1>1. e.shown \in Texts /\ h \in Histories
  BY EditorMade DEF Sound
<1>2. h.text \in Texts
  BY <1>1, HistoryTypes
<1>3. /\ x.paged = e.paged
      /\ e.preview = None => x.preview = None /\ x.history.text = e.shown
      /\ e.preview # None => /\ x.preview # None
                             /\ x.history.text = Spliced(h.text, PageStart(e),
                                                         PageRange(e.preview).end, e.shown)
      /\ x.history = [h EXCEPT !.text = x.history.text]
  <2> DEFINE s == e.shown
  <2>1. s \in Texts /\ s = e.shown /\ x = Committed(e, s)
    BY <1>1
  <2> HIDE DEF s
  <2>2. /\ x.paged = e.paged
        /\ e.selected \/ e.preview = None => x.preview = None /\ x.history.text = s
        /\ ~ e.selected /\ e.preview # None =>
              /\ x.preview # None
              /\ x.history.text = Spliced(e.history.text, PageStart(e),
                                          PageRange(e.preview).end, s)
        /\ s = e.shown /\ Shows(e) /\ ~ e.selected =>
              x.history = [e.history EXCEPT !.text = x.history.text]
    <3>1. Commits(e, s, x)
      BY <2>1, CommittedIs
    <3> QED BY <3>1 DEF Commits
  <2> QED BY <2>1, <2>2
<1>4. x.history.text = h.text
  <2>1. CASE e.preview = None
    BY <1>3, <2>1 DEF Shows
  <2>2. CASE e.preview # None
    <3> DEFINE p == e.preview a == PageRange(p).start b == PageRange(p).end
    <3>1. Tiled(p) /\ p.text = h.text /\ PageStart(e) = a /\ e.shown = Visible(p)
      BY <2>2 DEF Sound, Shows, PageStart
    <3>2. a \in 0 .. Len(h.text) /\ b \in a .. Len(h.text) /\ Visible(p) = Part(h.text, a, b)
      BY <3>1, PageIs DEF Visible
    <3> HIDE DEF a, b
    <3>3. Spliced(h.text, a, b, Part(h.text, a, b)) = h.text
      BY <1>2, <3>2, SplicedSame
    <3> QED BY <1>3, <2>2, <3>1, <3>2, <3>3 DEF b
  <2> QED BY <2>1, <2>2
<1>5. x.history = h
  <2>1. x.history = [h EXCEPT !.text = h.text]
    BY <1>3, <1>4
  <2> QED BY <1>1, <2>1 DEF Histories
<1>6. Fits(e) => Fits(x)
  BY <1>3, <1>5 DEF Fits
<1> QED BY <1>5, <1>6

LEMMA CommittedShown ==
    ASSUME NEW e, Sound(e), NEW x, x = Committed(e, e.shown)
    PROVE  /\ Sound(x) /\ Shows(x) /\ Moves(e.history, x.history)
           /\ x.loading = e.loading
<1>1. e.shown \in Texts
  BY EditorMade DEF Sound
<1>2. \A t \in Texts : Commits(e, t, Committed(e, t))
  BY CommittedIs
<1>3. Commits(e, e.shown, x)
  BY <1>1, <1>2, Zenon
<1> QED BY <1>3 DEF Commits

(* The binding: the document becomes the text of the controller, unless the *)
(* whole document was selected when it was shown in pages anew.             *)
LEMMA BoundIs ==
    ASSUME NEW e, Sound(e), NEW t \in Texts, NEW x, x = Bound(e, t)
    PROVE  /\ Sound(x) /\ Shows(x)
           /\ \/ /\ x.history.text = t /\ Fits(x) /\ Moves(e.history, x.history)
                 /\ e.history.text = t => x.history = e.history
              \/ /\ e.selected /\ Full(e) = t /\ ~ x.loading
                 /\ e.preview # None \/ Len(t) > PagedAbove
                 /\ e.history.text = t => Moves(e.history, x.history)
           /\ e.history.text = t /\ Shows(e) /\ Fits(e) /\ ~ e.selected => x = e
<1> DEFINE p == Prepared(e, t)
           commits == p.shown # e.shown /\ ~ p.loading /\ ~ readOnly
<1>1. /\ Sound(p) /\ Shows(p) /\ Fits(p)
      /\ Moves(e.history, p.history) /\ p.history.text = t /\ Full(p) = t
      /\ e.history.text = t => p.history = e.history
      /\ p.selected = e.selected
      /\ p.loading <=> e.loading \/ Full(e) # t
      /\ e.history.text = t /\ Shows(e) /\ Fits(e) => p = e
  BY PreparedIs
<1>2. x = IF commits THEN Committed(p, p.shown) ELSE Reselected(e, p)
  BY DEF Bound
<1>3. p.shown \in Texts
  BY <1>1, EditorMade DEF Sound
<1>4. commits => p.shown # e.shown /\ ~ p.loading
  OBVIOUS
<1>5. ~ Len(t) > PagedAbove => p.shown = t
  BY <1>1 DEF Fits, Shows
<1> HIDE DEF p, commits
<1>6. CASE ~ commits
  <2>1. x = Reselected(e, p)
    BY <1>2, <1>6
  <2>2. /\ Sound(x) /\ (Shows(x) <=> Shows(p)) /\ (Fits(x) <=> Fits(p))
        /\ x.history = p.history /\ (~ p.selected => x = p)
    BY <1>1, <2>1, ReselectedIs
  <2> QED BY <1>1, <2>2
<1>7. CASE commits
  <2>1. x = Committed(p, p.shown)
    BY <1>2, <1>7
  <2>2. /\ Sound(x) /\ Shows(x) /\ Moves(p.history, x.history)
        /\ x.loading = p.loading
    <3>1. ASSUME NEW y, y = Committed(p, p.shown)
          PROVE  /\ Sound(y) /\ Shows(y) /\ Moves(p.history, y.history)
                 /\ y.loading = p.loading
      BY <1>1, <3>1, CommittedShown
    <3> QED BY <2>1, <3>1
  <2>3. ~ (e.history.text = t /\ Shows(e) /\ Fits(e))
    BY <1>1, <1>4, <1>7
  <2>4. CASE ~ e.selected
    <3>1. x.history = p.history /\ Fits(x)
      BY <1>1, <2>1, <2>4, CommittedSame
    <3> QED BY <1>1, <2>2, <2>3, <3>1
  <2>5. CASE e.selected
    <3>1. Full(e) = t /\ ~ x.loading
      BY <1>1, <1>4, <1>7, <2>2
    <3>2. e.preview # None \/ Len(t) > PagedAbove
      <4>1. e.preview = None => e.shown = t
        BY <3>1 DEF Full
      <4> QED BY <1>4, <1>5, <1>7, <4>1
    <3>3. e.history.text = t => Moves(e.history, x.history)
      BY <1>1, <2>2
    <3> QED BY <2>2, <2>3, <2>5, <3>1, <3>2, <3>3
  <2> QED BY <2>4, <2>5
<1> QED BY <1>6, <1>7

LEMMA MadeApplied ==
    ASSUME NEW e, NEW s, NEW g, NEW l, NEW c, NEW p, NEW h, Made(e, s, g, l, c, p, h),
           NEW s2, NEW g2, NEW l2, NEW c2, NEW p2, NEW h2,
           NEW x, x = [e EXCEPT !.loading = l2, !.selected = c2, !.paged = g2, !.preview = p2,
                                !.history = h2, !.shown = s2]
    PROVE  Made(x, s2, g2, l2, c2, p2, h2)
BY DEF Made

(* _apply_document: the history and the page of the position are shown. *)
LEMMA AppliedIs ==
    ASSUME NEW e, e \in Editors, NEW h, Chained(h), NEW position \in 0 .. Len(h.text),
           NEW x, x = Applied(e, h, position)
    PROVE  /\ Sound(x) /\ Shows(x) /\ Fits(x)
           /\ x.history = h /\ ~ x.selected /\ ~ x.loading
           /\ PageStart(x) \in 0 .. position
           /\ position <= PageStart(x) + Len(x.shown)
<1> DEFINE t == h.text
           g == Len(t) > PagedAbove
           q == [Created(t) EXCEPT !.page = PageAt(Created(t), position)]
           p == IF g THEN q ELSE None
           s == IF g THEN Visible(p) ELSE t
<1>1. t \in Texts /\ Len(t) \in Nat
  BY HistoryTypes, TextLength DEF Chained
<1>2. x = [e EXCEPT !.loading = FALSE, !.selected = FALSE, !.paged = g, !.preview = p,
                    !.history = h, !.shown = s]
  BY Zenon DEF Applied
<1>3. Tiled(q) /\ q.text = t /\ position \in PageRange(q).start .. PageRange(q).end
  <2> DEFINE c == Created(t) k == PageAt(c, position)
  <2>1. Tiled(c) /\ c.text = t
    BY <1>1, CreatedTiled
  <2> HIDE DEF c
  <2>2. /\ k \in 1 .. Len(c.ranges)
        /\ c.ranges[k].start <= position /\ position <= c.ranges[k].end
    BY <2>1, PageAtIs
  <2>3. q = [c EXCEPT !.page = k]
    BY DEF c
  <2> HIDE DEF k, q
  <2>4. Tiled(q) /\ q.text = t
    BY <2>1, <2>2, <2>3, TurnedTiled
  <2>5. q.ranges = c.ranges /\ q.page = k
    BY <2>1, <2>3 DEF Tiled, Previews
  <2>6. PageRange(q) = c.ranges[k]
    BY <2>5 DEF PageRange
  <2>7. PageRange(q).start \in 0 .. Len(t) /\ PageRange(q).end \in PageRange(q).start .. Len(t)
    BY <2>4, PageIs
  <2>8. position \in PageRange(q).start .. PageRange(q).end
    <3> DEFINE a == PageRange(q).start b == PageRange(q).end
    <3>1. a <= position /\ position <= b /\ a \in 0 .. Len(t) /\ b \in a .. Len(t)
      BY <2>2, <2>6, <2>7
    <3> HIDE DEF a, b
    <3>2. position \in a .. b
      BY <1>1, <3>1
    <3> QED BY <3>2 DEF a, b
  <2> QED BY <2>4, <2>8
<1> HIDE DEF q
<1>4. g \in BOOLEAN /\ (g <=> Len(t) > PagedAbove)
  OBVIOUS
<1>5. q # None
  BY <1>3, TiledIsSome
<1>6. /\ p # None <=> g
      /\ p # None => p = q
      /\ s = IF p # None THEN Visible(p) ELSE t
  BY <1>5
<1> HIDE DEF g, p, s
<1>7. s \in Texts
  BY <1>1, <1>3, <1>6, PageIs
<1>8. Made(x, s, g, FALSE, FALSE, p, h)
  <2>1. Made(e, e.shown, e.paged, e.loading, e.selected, e.preview, e.history)
    BY EditorMade
  <2>2. \A y, l, c : y = [e EXCEPT !.loading = l, !.selected = c, !.paged = g, !.preview = p,
                                   !.history = h, !.shown = s]
                     => Made(y, s, g, l, c, p, h)
    BY <2>1, MadeApplied
  <2> QED BY <1>2, <2>2, Zenon
<1>9. /\ x.shown = s /\ x.paged = g /\ ~ x.loading /\ ~ x.selected
      /\ x.preview = p /\ x.history = h
  <2>1. /\ x.shown = s /\ x.paged = g /\ x.loading = FALSE /\ x.selected = FALSE
        /\ x.preview = p /\ x.history = h
    BY <1>8, MadeFields, Zenon
  <2> QED BY <2>1
<1>10. Sound(x)
  <2>1. FALSE \in BOOLEAN
    OBVIOUS
  <2>2. p # None => Tiled(p) /\ p.text = h.text /\ g
    BY <1>3, <1>6
  <2> QED BY <1>4, <1>7, <1>8, <2>1, <2>2, SoundMade, Zenon
<1>11. Shows(x)
  BY <1>6, <1>9 DEF Shows
<1>12. Fits(x)
  BY <1>4, <1>6, <1>9 DEF Fits
<1>13. PageStart(x) \in 0 .. position /\ position <= PageStart(x) + Len(x.shown)
  <2>1. CASE p = None
    <3>1. PageStart(x) = 0 /\ x.shown = t
      BY <1>6, <1>9, <2>1 DEF PageStart
    <3> QED BY <1>1, <3>1
  <2>2. CASE p # None
    <3> DEFINE a == PageRange(q).start b == PageRange(q).end
    <3>1. PageStart(x) = a /\ x.shown = Visible(q)
      BY <1>6, <1>9, <2>2 DEF PageStart
    <3>2. Len(Visible(q)) = b - a /\ a \in 0 .. Len(t) /\ b \in a .. Len(t) /\ position \in a .. b
      BY <1>3, PageIs
    <3> HIDE DEF a, b
    <3> QED BY <1>1, <3>1, <3>2
  <2> QED BY <2>1, <2>2
<1> QED BY <1>9, <1>10, <1>11, <1>12, <1>13

LEMMA MadeShown ==
    ASSUME NEW e, NEW s, NEW g, NEW l, NEW c, NEW p, NEW h, Made(e, s, g, l, c, p, h),
           NEW s2, NEW l2, NEW c2, NEW p2, NEW h2,
           NEW x, x = [e EXCEPT !.preview = p2, !.shown = s2, !.loading = l2, !.selected = c2,
                                !.history = h2]
    PROVE  Made(x, s2, g, l2, c2, p2, h2)
BY DEF Made

(* A page of the same table is shown. *)
LEMMA ShowingIs ==
    ASSUME NEW e, Sound(e), e.preview # None, NEW k \in 1 .. Len(e.preview.ranges),
           NEW q, q = [e.preview EXCEPT !.page = k],
           NEW x, x = Showing(e, q)
    PROVE  /\ Sound(x) /\ Shows(x) /\ (Fits(e) => Fits(x))
           /\ x.history = Closed(e.history) /\ ~ x.selected /\ ~ x.loading
           /\ x.preview = q /\ q # None /\ q.ranges = e.preview.ranges /\ q.page = k
           /\ q.text = e.preview.text
<1> DEFINE p == e.preview h == Closed(e.history) s == Visible(q)
<1>1. Tiled(p) /\ p.text = e.history.text /\ e.paged /\ e \in Editors /\ Chained(e.history)
  BY DEF Sound
<1>2. Tiled(q) /\ q.text = p.text /\ q.ranges = p.ranges /\ q.page = k
  <2>1. Tiled(q) /\ q.text = p.text
    BY <1>1, TurnedTiled
  <2>2. q.ranges = p.ranges /\ q.page = k
    BY <1>1 DEF Tiled, Previews
  <2> QED BY <2>1, <2>2
<1>3. q # None
  BY <1>2, TiledIsSome
<1>4. /\ Moves(e.history, h) /\ h.text = e.history.text /\ h \in Histories
  BY <1>1, ClosedMoves DEF Chained
<1>5. Chained(h)
  BY <1>1, <1>4, MovesChained
<1>6. s \in Texts
  BY <1>2, PageIs
<1>7. x = [e EXCEPT !.preview = q, !.shown = s, !.loading = FALSE, !.selected = FALSE,
                    !.history = h]
  BY DEF Showing
<1> DEFINE g == e.paged
<1> HIDE DEF h, s
<1>8. Made(x, s, g, FALSE, FALSE, q, h)
  <2>1. Made(e, e.shown, e.paged, e.loading, e.selected, e.preview, e.history)
    BY <1>1, EditorMade
  <2>2. \A y, l, c : y = [e EXCEPT !.preview = q, !.shown = s, !.loading = l, !.selected = c,
                                   !.history = h]
                     => Made(y, s, g, l, c, q, h)
    BY <2>1, MadeShown
  <2> QED BY <1>7, <2>2, Zenon
<1> HIDE DEF g
<1>9. /\ x.shown = s /\ x.paged = g /\ ~ x.loading /\ ~ x.selected
      /\ x.preview = q /\ x.history = h
  <2>1. /\ x.shown = s /\ x.paged = g /\ x.loading = FALSE /\ x.selected = FALSE
        /\ x.preview = q /\ x.history = h
    <3>1. \A l, c : Made(x, s, g, l, c, q, h)
              => /\ x.shown = s /\ x.paged = g /\ x.loading = l
                 /\ x.selected = c /\ x.preview = q /\ x.history = h
      BY MadeFields
    <3> QED BY <1>8, <3>1, Zenon
  <2> QED BY <2>1
<1>10. Sound(x)
  <2>1. FALSE \in BOOLEAN /\ g \in BOOLEAN
    BY <1>1, EditorMade DEF g
  <2>2. q # None => Tiled(q) /\ q.text = h.text /\ g
    BY <1>1, <1>2, <1>4 DEF g
  <2> QED BY <1>5, <1>6, <1>8, <2>1, <2>2, SoundMade, Zenon
<1>11. Shows(x)
  BY <1>3, <1>9 DEF Shows, s
<1>12. Fits(e) => Fits(x)
  BY <1>3, <1>4, <1>9 DEF Fits, g
<1> QED BY <1>2, <1>3, <1>9, <1>10, <1>11, <1>12 DEF h

(* What undo and redo show, and where. *)
LEMMA UndoPlace ==
    ASSUME NEW h, Chained(h), h.undo # <<>>
    PROVE  /\ Undone(h.text, Last(h.undo)) \in Texts
           /\ Last(h.undo).start + Len(Last(h.undo).removed) \in 0 .. Len(Undone(h.text, Last(h.undo)))
<1> DEFINE last == Last(h.undo) u == Undone(h.text, last)
<1>1. h \in Histories
  BY DEF Chained
<1>2. PICK past : Undoes(h, past)
  BY DEF Chained
<1>3. Leads(Last(past), last, h.text)
  BY <1>1, <1>2, LastUndone
<1>4. u = Last(past)
  BY <1>3, LeadsBack
<1>5. u \in Texts /\ last \in Spans /\ last.start + Len(last.removed) <= Len(u)
  BY <1>3, <1>4 DEF Leads
<1>6. last.start \in Nat /\ Len(last.removed) \in Nat /\ Len(u) \in Nat
  BY <1>5, SpanTypes, TextLength
<1> QED BY <1>5, <1>6

LEMMA RedoPlace ==
    ASSUME NEW h, Chained(h), h.redo # <<>>
    PROVE  /\ Redone(h.text, Last(h.redo)) \in Texts
           /\ Last(h.redo).start + Len(Last(h.redo).inserted) \in 0 .. Len(Redone(h.text, Last(h.redo)))
<1> DEFINE last == Last(h.redo) u == Redone(h.text, last)
<1>1. h \in Histories
  BY DEF Chained
<1>2. PICK future : Redoes(h, future)
  BY DEF Chained
<1>3. Leads(h.text, last, Last(future))
  BY <1>1, <1>2, LastRedone
<1>4. u = Last(future)
  BY <1>3 DEF Leads
<1>5. u \in Texts /\ last.start + Len(last.inserted) <= Len(u)
  BY <1>3, <1>4, LeadsBack
<1>6. last.start \in Nat /\ Len(last.inserted) \in Nat /\ Len(u) \in Nat
  <2>1. last \in Spans
    BY <1>3 DEF Leads
  <2> QED BY <1>5, <2>1, SpanTypes, TextLength
<1> QED BY <1>5, <1>6

(* The area shows a part of the document that begins at PageStart. *)
LEMMA ShownIs ==
    ASSUME NEW e, Sound(e), Shows(e),
           NEW t, t = e.history.text, NEW a, a = PageStart(e)
    PROVE  /\ t \in Texts /\ a \in 0 .. Len(t) /\ a + Len(e.shown) \in a .. Len(t)
           /\ e.shown \in Texts /\ e.shown = Part(t, a, a + Len(e.shown))
           /\ e.preview = None => a = 0 /\ e.shown = t
           /\ e.preview # None => /\ a = PageRange(e.preview).start
                                  /\ a + Len(e.shown) = PageRange(e.preview).end
<1>1. e.history \in Histories /\ t \in Texts /\ Len(t) \in Nat
  BY HistoryTypes, TextLength DEF Sound, Chained
<1>2. CASE e.preview = None
  <2>1. a = 0 /\ e.shown = t /\ t = Part(t, 0, Len(t)) /\ 0 + Len(t) = Len(t)
    BY <1>1, <1>2, PartAll DEF PageStart, Shows
  <2> QED BY <1>1, <1>2, <2>1
<1>3. CASE e.preview # None
  <2> DEFINE p == e.preview b == PageRange(p).end
  <2>1. Tiled(p) /\ p.text = t /\ a = PageRange(p).start /\ e.shown = Visible(p)
    BY <1>3 DEF Sound, Shows, PageStart
  <2>2. /\ a \in 0 .. Len(t) /\ b \in a .. Len(t) /\ Visible(p) = Part(t, a, b)
        /\ Visible(p) \in Texts /\ Len(Visible(p)) = b - a
    BY <2>1, PageIs DEF Visible
  <2> HIDE DEF b
  <2>3. a + (b - a) = b
    BY <1>1, <2>2
  <2>4. a + Len(e.shown) = b
    BY <2>1, <2>2, <2>3
  <2> QED BY <1>1, <1>3, <2>1, <2>2, <2>4 DEF b
<1> QED BY <1>2, <1>3

LEMMA MadeLoaded ==
    ASSUME NEW e, NEW s, NEW g, NEW l, NEW c, NEW p, NEW h, Made(e, s, g, l, c, p, h),
           NEW s2, NEW l2, NEW h2
    PROVE  /\ Made([e EXCEPT !.shown = s2], s2, g, l, c, p, h)
           /\ Made([e EXCEPT !.loading = l2], s, g, l2, c, p, h)
           /\ Made([e EXCEPT !.history = h2], s, g, l, c, p, h2)
BY DEF Made

(* What is shown, the marks and the group of keys may change on their own. *)
LEMMA Retouched ==
    ASSUME NEW e, Sound(e), NEW s \in Texts, NEW l \in BOOLEAN, NEW c \in BOOLEAN,
           NEW h, h = e.history \/ h = Closed(e.history),
           NEW x, Made(x, s, e.paged, l, c, e.preview, h)
    PROVE  /\ Sound(x) /\ (Fits(x) <=> Fits(e)) /\ Moves(e.history, x.history)
           /\ x.history.text = e.history.text /\ x.preview = e.preview /\ x.shown = s
           /\ x.paged = e.paged /\ (x.loading <=> l) /\ (x.selected <=> c)
           /\ PageStart(x) = PageStart(e)
           /\ s = e.shown => Full(x) = Full(e) /\ (Shows(x) <=> Shows(e))
<1>1. /\ e \in Editors /\ e.history \in Histories /\ Chained(e.history)
      /\ e.preview # None => Tiled(e.preview) /\ e.preview.text = e.history.text /\ e.paged
  BY DEF Sound, Chained
<1>2. Moves(e.history, h) /\ h.text = e.history.text
  BY <1>1, ClosedMoves
<1>3. Chained(h)
  BY <1>1, <1>2, MovesChained
<1>4. e.paged \in BOOLEAN
  BY <1>1, EditorMade
<1>5. /\ x.shown = s /\ x.paged = e.paged /\ x.loading = l
      /\ x.selected = c /\ x.preview = e.preview /\ x.history = h
  BY MadeFields
<1>6. Sound(x)
  BY <1>1, <1>2, <1>3, <1>4, SoundMade
<1> QED BY <1>2, <1>5, <1>6 DEF Fits, Full, PageStart, Shows

(* The area shows another text, and nothing else changes. *)
LEMMA ShownAnew ==
    ASSUME NEW e, Sound(e), NEW s \in Texts, NEW x, x = [e EXCEPT !.shown = s]
    PROVE  /\ Sound(x) /\ (Fits(x) <=> Fits(e)) /\ x.history = e.history
           /\ x.shown = s /\ (x.selected <=> e.selected) /\ x.loading = e.loading
           /\ x.preview = e.preview
<1> DEFINE l == e.loading c == e.selected h == e.history
<1>1. e \in Editors /\ l \in BOOLEAN /\ c \in BOOLEAN
  BY EditorMade DEF Sound
<1>2. Made(e, e.shown, e.paged, l, c, e.preview, h)
  BY <1>1, EditorMade
<1>3. Made(x, s, e.paged, l, c, e.preview, h)
  BY <1>2, MadeLoaded
<1>4. h = e.history \/ h = Closed(e.history)
  OBVIOUS
<1> HIDE DEF l, c, h
<1>5. ASSUME NEW y, Made(y, s, e.paged, l, c, e.preview, h)
      PROVE  /\ Sound(y) /\ (Fits(y) <=> Fits(e))
             /\ y.shown = s /\ (y.selected <=> c)
  BY <1>1, <1>4, <1>5, Retouched
<1>6. /\ Sound(x) /\ (Fits(x) <=> Fits(e))
      /\ x.shown = s /\ (x.selected <=> c)
  BY <1>3, <1>5, Zenon
<1>7. x.loading = l /\ x.history = h /\ x.preview = e.preview
  BY <1>3, MadeFields
<1> QED BY <1>6, <1>7 DEF l, c, h

----------------------------------------------------------------------------
(* The invariant *)

(* CopiesAgree, and what keeps it: the paging fits while a change of the    *)
(* text may come that replaces no page, and a selection that a key slipped  *)
(* into is one of nothing.                                                  *)
Agrees(e, binds, text, extract, slips) ==
    /\ Sound(e)
    /\ text \in Texts
    /\ ~ extract => text = e.history.text
    /\ slips \/ Shows(e)
    /\ binds \/ slips \/ e.loading => Fits(e)
    /\ slips /\ e.preview = None /\ e.selected => e.shown = <<>>

(* MarkHolds and EditIsLocal, with the types. *)
Placed(m, e, text, slips) ==
    \/ m = None
    \/ m \in [text : Texts] /\ text = m.text
    \/ /\ m \in [at : Int, want : Int]
       /\ m.at \in 0 .. Units(e.shown)
       /\ slips \/ Units(Part(Full(e), 0, PageStart(e))) + m.at = m.want

IInv ==
    /\ rebinds \in BOOLEAN /\ readOnly \in BOOLEAN /\ slipped \in BOOLEAN
    /\ inputs \in 0 .. MaxInputs
    /\ Agrees(editor, rebinds, source, readOnly, slipped)
    /\ Placed(mark, editor, source, slipped)

(* A step that keeps the invariant and is one of the history. *)
Keeps ==
    /\ Agrees(editor', rebinds', source', readOnly', slipped')
    /\ Placed(mark', editor', source', slipped')
    /\ Moves(editor.history, editor'.history)

(* textEdited, after the bridge: the binding takes the same text back. *)
LEMMA EditedIs ==
    ASSUME NEW e, Sound(e), Shows(e), ~ e.selected, ~ e.loading,
           NEW t, t = e.history.text,
           rebinds /\ t = source => Fits(e),
           Edited(e, t)
    PROVE  /\ Sound(editor') /\ Shows(editor') /\ editor'.history = e.history
           /\ rebinds \/ editor'.loading => Fits(editor')
           /\ source' = t /\ ~ slipped'
           /\ Fits(e) => editor' = e
<1>1. t \in Texts
  BY HistoryTypes DEF Sound, Chained
<1>2. /\ editor' = IF rebinds /\ t # source THEN Bound(e, t) ELSE e
      /\ source' = IF rebinds /\ t # source THEN Full(editor') ELSE t
      /\ slipped' = FALSE
  BY DEF Edited
<1>3. CASE rebinds /\ t # source
  <2> DEFINE x == Bound(e, t)
  <2>1. editor' = x /\ source' = Full(x)
    BY <1>2, <1>3
  <2>2. /\ Sound(x) /\ Shows(x)
        /\ x.history.text = t /\ Fits(x) /\ x.history = e.history
        /\ Shows(e) /\ Fits(e) => x = e
    BY <1>1, BoundIs
  <2> HIDE DEF x
  <2>3. Full(x) = x.history.text
    BY <2>2, FullIs
  <2> QED BY <1>2, <2>1, <2>2, <2>3
<1>4. CASE ~ (rebinds /\ t # source)
  <2>1. editor' = e /\ source' = t
    BY <1>2, <1>4
  <2> QED BY <1>2, <1>4, <2>1
<1> QED BY <1>3, <1>4

(* The same as a step. *)
LEMMA EditedKeeps ==
    ASSUME rebinds \in BOOLEAN,
           NEW e, Sound(e), Shows(e), ~ e.selected, ~ e.loading,
           NEW t, t = e.history.text,
           rebinds /\ t = source => Fits(e),
           Moves(editor.history, e.history),
           Edited(e, t), rebinds' = rebinds
    PROVE  /\ Agrees(editor', rebinds', source', readOnly', slipped')
           /\ Moves(editor.history, editor'.history)
           /\ source' = t
           /\ Fits(e) => editor' = e
<1>1. t \in Texts
  BY HistoryTypes DEF Sound, Chained
<1>2. /\ Sound(editor') /\ Shows(editor') /\ editor'.history = e.history
      /\ rebinds \/ editor'.loading => Fits(editor')
      /\ source' = t /\ ~ slipped'
      /\ Fits(e) => editor' = e
  BY EditedIs
<1>3. Agrees(editor', rebinds', source', readOnly', slipped')
  BY <1>1, <1>2 DEF Agrees
<1> QED BY <1>2, <1>3

LEMMA TextsTyped ==
    /\ \A n \in Nat : TextsUpTo(n) \subseteq Texts
    /\ Documents \subseteq Texts
<1>1. ASSUME NEW n \in Nat, NEW s \in TextsUpTo(n) PROVE s \in Texts
  <2>1. PICK k \in 0 .. n : s \in [1 .. k -> Symbols]
    BY DEF TextsUpTo
  <2>2. k \in Nat
    OBVIOUS
  <2> QED BY <2>1, <2>2 DEF Texts
<1> QED BY <1>1, EditorBounds DEF Texts

(* A change of the area that is not reported. *)
LEMMA TypeUnreported ==
    ASSUME IInv, NEW from \in 0 .. Len(editor.shown), NEW to \in from .. Len(editor.shown),
           NEW s \in Texts, Type(from, to, s), editor.loading
    PROVE  Keeps
<1> DEFINE t == Spliced(editor.shown, from, to, s)
           p == [editor EXCEPT !.shown = t]
<1>1. /\ Sound(editor) /\ source \in Texts /\ (~ readOnly => source = editor.history.text)
      /\ Fits(editor)
      /\ rebinds \in BOOLEAN /\ readOnly \in BOOLEAN
  BY DEF IInv, Agrees
<1>2. /\ t # editor.shown
      /\ editor' = Reselected(editor, p) /\ slipped' = TRUE /\ source' = source
      /\ mark' = None /\ readOnly' = readOnly /\ rebinds' = rebinds
  BY DEF Type
<1>3. editor \in Editors /\ editor.history \in Histories
  BY <1>1 DEF Sound, Chained
<1>4. t \in Texts
  <2>1. editor.shown \in Texts
    BY <1>3, EditorMade
  <2> QED BY <2>1, SplicedIs
<1> HIDE DEF t
<1>5. /\ Sound(p) /\ (Fits(p) <=> Fits(editor)) /\ p.history = editor.history
      /\ p.shown = t /\ (p.selected <=> editor.selected)
  BY <1>1, <1>4, ShownAnew
<1> HIDE DEF p
<1> DEFINE x == Reselected(editor, p)
<1>6. /\ Sound(x) /\ (Fits(x) <=> Fits(p)) /\ x.history = p.history /\ x.shown = p.shown
      /\ x.selected <=> p.selected /\ p.shown \in {editor.shown, <<>>}
  BY <1>5, ReselectedIs
<1> HIDE DEF x
<1>7. editor' = x
  BY <1>2 DEF x
<1>8. Moves(editor.history, editor'.history)
  BY <1>3, <1>5, <1>6, <1>7, ClosedMoves
<1>9. Agrees(editor', rebinds', source', readOnly', slipped')
  BY <1>1, <1>2, <1>5, <1>6, <1>7 DEF Agrees
<1>10. Placed(mark', editor', source', slipped')
  BY <1>2 DEF Placed
<1> QED BY <1>8, <1>9, <1>10 DEF Keeps

LEMMA TypeReported ==
    ASSUME IInv, NEW from \in 0 .. Len(editor.shown), NEW to \in from .. Len(editor.shown),
           NEW s \in Texts, Type(from, to, s), ~ editor.loading
    PROVE  Keeps
<1> DEFINE H == editor.history.text
           t == Spliced(editor.shown, from, to, s)
           e == Committed(editor, t)
           u == e.history.text
           a == PageStart(editor)
<1>1. /\ Sound(editor) /\ source \in Texts /\ (~ readOnly => source = H)
      /\ slipped \/ Shows(editor)
      /\ rebinds => Fits(editor)
      /\ rebinds \in BOOLEAN /\ readOnly \in BOOLEAN /\ slipped \in BOOLEAN
  BY DEF IInv, Agrees
<1>2. /\ ~ readOnly
      /\ editor.selected => from = 0 /\ to = Len(editor.shown) /\ Len(s) <= PagedAbove
      /\ Edited(e, Full(e))
      /\ mark' = IF slipped THEN None
                 ELSE [text |-> IF editor.selected THEN s ELSE Spliced(source, a + from, a + to, s)]
      /\ readOnly' = readOnly /\ rebinds' = rebinds
  BY DEF Type
<1>3. editor \in Editors /\ editor.history \in Histories /\ H \in Texts
  BY <1>1, HistoryTypes DEF Sound, Chained
<1>4. editor.shown \in Texts /\ t \in Texts
  <2>1. editor.shown \in Texts
    BY <1>3, EditorMade
  <2> QED BY <2>1, SplicedIs
<1>5. editor.selected => t = s
  BY <1>2, <1>4, SplicedAll
<1> HIDE DEF t
<1>6. /\ Sound(e) /\ Shows(e) /\ Moves(editor.history, e.history)
      /\ e.paged = editor.paged /\ e.loading = editor.loading /\ ~ e.selected
      /\ editor.selected \/ editor.preview = None => e.preview = None /\ u = t
      /\ ~ editor.selected /\ editor.preview # None =>
            /\ e.preview # None
            /\ u = Spliced(H, a, PageRange(editor.preview).end, t)
  <2>1. Commits(editor, t, e)
    BY <1>1, <1>4, CommittedIs
  <2> HIDE DEF e
  <2> QED BY <2>1 DEF Commits
<1> HIDE DEF e
<1>7. Full(e) = u /\ u \in Texts
  <2>1. Full(e) = u
    BY <1>6, FullIs
  <2> QED BY <1>6, <2>1, HistoryTypes DEF Sound, Chained
<1>8. rebinds /\ u = source => Fits(e)
  <2> SUFFICES ASSUME rebinds, u = source PROVE Fits(e)
    OBVIOUS
  <2>1. Fits(editor) /\ u = H
    BY <1>1, <1>2
  <2>2. CASE ~ (editor.selected /\ editor.preview # None)
    <3>1. e.preview # None <=> editor.preview # None
      BY <1>6, <2>2
    <3> QED BY <1>6, <2>1, <3>1 DEF Fits
  <2>3. CASE editor.selected /\ editor.preview # None
    <3>1. H = s /\ Len(s) <= PagedAbove
      BY <1>2, <1>5, <1>6, <2>1, <2>3
    <3>2. Len(H) > PagedAbove
      BY <2>1, <2>3 DEF Fits
    <3>3. Len(s) \in Nat /\ PagedAbove \in Nat
      BY TextLength, EditorBounds
    <3> QED BY <3>1, <3>2, <3>3
  <2> QED BY <2>2, <2>3
<1>9. /\ Agrees(editor', rebinds', source', readOnly', slipped')
      /\ Moves(editor.history, editor'.history)
      /\ source' = u
  <2>1. Edited(e, u) /\ ~ e.loading
    BY <1>2, <1>6, <1>7
  <2> HIDE DEF u
  <2>2. u = e.history.text
    BY DEF u
  <2> QED BY <1>1, <1>2, <1>6, <1>8, <2>1, <2>2, EditedKeeps
<1>10. ~ slipped => u = IF editor.selected THEN s ELSE Spliced(source, a + from, a + to, s)
  <2> SUFFICES ASSUME ~ slipped
               PROVE  u = IF editor.selected THEN s ELSE Spliced(source, a + from, a + to, s)
    OBVIOUS
  <2>1. CASE editor.selected
    BY <1>5, <1>6, <2>1
  <2>2. CASE ~ editor.selected
    <3>1. Shows(editor) /\ source = H
      BY <1>1, <1>2
    <3>2. CASE editor.preview = None
      <4>1. a = 0 /\ editor.shown = H
        BY <3>1, <3>2 DEF PageStart, Shows
      <4>2. 0 + from = from /\ 0 + to = to
        BY <1>4, TextLength
      <4>3. u = Spliced(H, from, to, s)
        BY <1>6, <3>2, <4>1 DEF t
      <4> QED BY <2>2, <3>1, <4>1, <4>2, <4>3
    <3>3. CASE editor.preview # None
      <4> DEFINE b == PageRange(editor.preview).end
      <4>1. /\ a \in 0 .. Len(H) /\ b \in a .. Len(H)
            /\ editor.shown = Part(H, a, b) /\ Len(editor.shown) = b - a
        <5> DEFINE p == editor.preview
        <5>1. Tiled(p) /\ p.text = H /\ a = PageRange(p).start /\ editor.shown = Visible(p)
          BY <1>1, <3>1, <3>3 DEF Sound, Shows, PageStart
        <5> QED BY <5>1, PageIs DEF Visible
      <4>2. u = Spliced(H, a, b, Spliced(Part(H, a, b), from, to, s))
        BY <1>6, <2>2, <3>3, <4>1 DEF t
      <4> HIDE DEF a, b, u
      <4>3. from \in 0 .. b - a /\ to \in from .. b - a
        BY <4>1
      <4>4. Spliced(H, a, b, Spliced(Part(H, a, b), from, to, s))
                = Spliced(H, a + from, a + to, s)
        BY <1>3, <4>1, <4>3, SplicedIn
      <4> QED BY <2>2, <3>1, <4>2, <4>4
    <3> QED BY <3>2, <3>3
  <2> QED BY <2>1, <2>2
<1>11. Placed(mark', editor', source', slipped')
  <2>1. CASE slipped
    BY <1>2, <2>1 DEF Placed
  <2>2. CASE ~ slipped
    <3>1. mark' = [text |-> u]
      BY <1>2, <1>10, <2>2
    <3>2. mark' \in [text : Texts] /\ mark'.text = u
      BY <1>7, <3>1
    <3> QED BY <1>9, <3>2 DEF Placed
  <2> QED BY <1>1, <2>1, <2>2
<1> QED BY <1>9, <1>11 DEF Keeps

(* Settle, BreakGroup, MoveCaret and SelectAll: only marks change. *)
Touched(e, x) ==
    /\ Sound(x) /\ (Fits(x) <=> Fits(e)) /\ (Shows(x) <=> Shows(e))
    /\ Moves(e.history, x.history) /\ x.history.text = e.history.text
    /\ x.preview = e.preview /\ x.shown = e.shown /\ x.paged = e.paged
    /\ PageStart(x) = PageStart(e) /\ Full(x) = Full(e)

LEMMA TouchedIs ==
    ASSUME NEW e, Sound(e), NEW l \in BOOLEAN, NEW c \in BOOLEAN,
           NEW h, h = e.history \/ h = Closed(e.history),
           NEW x, Made(x, e.shown, e.paged, l, c, e.preview, h)
    PROVE  Touched(e, x) /\ (x.loading <=> l) /\ (x.selected <=> c)
<1> DEFINE s == e.shown
<1>1. s \in Texts /\ Made(x, s, e.paged, l, c, e.preview, h) /\ s = e.shown
  BY EditorMade DEF Sound
<1> HIDE DEF s
<1>2. /\ Sound(x) /\ (Fits(x) <=> Fits(e)) /\ Moves(e.history, x.history)
      /\ x.history.text = e.history.text /\ x.preview = e.preview /\ x.shown = s
      /\ x.paged = e.paged /\ (x.loading <=> l) /\ (x.selected <=> c)
      /\ PageStart(x) = PageStart(e)
      /\ Full(x) = Full(e) /\ (Shows(x) <=> Shows(e))
  BY <1>1, Retouched
<1> QED BY <1>1, <1>2 DEF Touched

LEMMA MarkedAnew ==
    ASSUME NEW e, Sound(e), NEW l \in BOOLEAN, NEW c \in BOOLEAN,
           NEW x, \/ x = [e EXCEPT !.loading = l] /\ (c <=> e.selected)
                  \/ x = [e EXCEPT !.selected = c] /\ (l <=> e.loading)
                  \/ /\ x = [e EXCEPT !.history = Closed(@)]
                     /\ (c <=> e.selected) /\ (l <=> e.loading)
    PROVE  Touched(e, x) /\ (x.loading <=> l) /\ (x.selected <=> c)
<1> DEFINE h == Closed(e.history)
<1>1. /\ Made(e, e.shown, e.paged, e.loading, e.selected, e.preview, e.history)
      /\ e.loading \in BOOLEAN /\ e.selected \in BOOLEAN
  BY EditorMade DEF Sound
<1>2. /\ (c <=> e.selected) => c = e.selected
      /\ (l <=> e.loading) => l = e.loading
  BY <1>1
<1>3. ASSUME NEW m, NEW k, NEW y,
             \/ y = [e EXCEPT !.loading = m] /\ k = e.selected
             \/ y = [e EXCEPT !.selected = k] /\ m = e.loading
             \/ y = [e EXCEPT !.history = h] /\ k = e.selected /\ m = e.loading
      PROVE  \/ Made(y, e.shown, e.paged, m, k, e.preview, e.history)
             \/ Made(y, e.shown, e.paged, m, k, e.preview, h)
  <2> HIDE DEF h
  <2> QED BY <1>1, <1>3 DEF Made
<1>4. \/ Made(x, e.shown, e.paged, l, c, e.preview, e.history)
      \/ Made(x, e.shown, e.paged, l, c, e.preview, h)
  BY <1>2, <1>3, Zenon
<1> DEFINE g == e.history
<1> HIDE DEF h
<1>5. CASE Made(x, e.shown, e.paged, l, c, e.preview, g)
  <2> HIDE DEF g
  <2>1. g = e.history
    BY DEF g
  <2> QED BY <1>5, <2>1, TouchedIs
<1>6. CASE Made(x, e.shown, e.paged, l, c, e.preview, h)
  <2>1. h = Closed(e.history)
    BY DEF h
  <2> QED BY <1>6, <2>1, TouchedIs
<1> QED BY <1>4, <1>5, <1>6

LEMMA Unmarked ==
    ASSUME NEW e, Sound(e), NEW x, x = [e EXCEPT !.selected = FALSE, !.history = Closed(@)]
    PROVE  Touched(e, x) /\ (x.loading <=> e.loading) /\ ~ x.selected
<1> DEFINE h == Closed(e.history) l == e.loading
<1>1. /\ Made(e, e.shown, e.paged, l, e.selected, e.preview, e.history)
      /\ l \in BOOLEAN
  BY EditorMade DEF Sound
<1>2. x = [e EXCEPT !.selected = FALSE, !.history = h]
  OBVIOUS
<1>3. h = Closed(e.history)
  OBVIOUS
<1> HIDE DEF h, l
<1>4. ASSUME NEW k, NEW y, y = [e EXCEPT !.selected = k, !.history = h]
      PROVE  Made(y, e.shown, e.paged, l, k, e.preview, h)
  BY <1>1, <1>4 DEF Made
<1>5. Made(x, e.shown, e.paged, l, FALSE, e.preview, h)
  BY <1>2, <1>4, Zenon
<1>6. ASSUME NEW c \in BOOLEAN, Made(x, e.shown, e.paged, l, c, e.preview, h)
      PROVE  Touched(e, x) /\ (x.loading <=> l) /\ (x.selected <=> c)
  BY <1>1, <1>3, <1>6, TouchedIs
<1>7. FALSE \in BOOLEAN
  OBVIOUS
<1>8. Touched(e, x) /\ (x.loading <=> l) /\ (x.selected <=> FALSE)
  BY <1>5, <1>6, <1>7, Zenon
<1> QED BY <1>8 DEF l

LEMMA TouchedKeeps ==
    ASSUME IInv, Touched(editor, editor'),
           editor'.loading => editor.loading,
           slipped /\ editor.preview = None /\ editor'.selected => editor.shown = <<>>,
           UNCHANGED <<rebinds, source, readOnly, mark, slipped>>
    PROVE  Keeps
<1>1. Agrees(editor', rebinds', source', readOnly', slipped')
  <2>1. Agrees(editor, rebinds, source, readOnly, slipped)
    BY DEF IInv
  <2> QED BY <2>1 DEF Agrees, Touched
<1>2. Placed(mark', editor', source', slipped')
  <2>1. Placed(mark, editor, source, slipped)
    BY DEF IInv
  <2> QED BY <2>1 DEF Placed, Touched
<1>3. Moves(editor.history, editor'.history)
  BY DEF Touched
<1> QED BY <1>1, <1>2, <1>3 DEF Keeps

LEMMA SettleKeeps ==
    ASSUME IInv, Settle
    PROVE  Keeps
<1>1. Sound(editor) /\ (slipped /\ editor.preview = None /\ editor.selected => editor.shown = <<>>)
  BY DEF IInv, Agrees
<1>2. /\ editor' = [editor EXCEPT !.loading = FALSE] /\ editor.loading
      /\ UNCHANGED <<rebinds, source, readOnly, mark, slipped>>
  BY DEF Settle
<1>3. editor.selected \in BOOLEAN
  BY <1>1, EditorMade DEF Sound
<1>4. Touched(editor, editor') /\ ~ editor'.loading /\ (editor'.selected <=> editor.selected)
  <2>1. ASSUME NEW l \in BOOLEAN, NEW c \in BOOLEAN, NEW x,
               x = [editor EXCEPT !.loading = l], c <=> editor.selected
        PROVE  Touched(editor, x) /\ (x.loading <=> l) /\ (x.selected <=> c)
    BY <1>1, <2>1, MarkedAnew
  <2> QED BY <1>2, <1>3, <2>1
<1> QED BY <1>1, <1>2, <1>4, TouchedKeeps

LEMMA BreakKeeps ==
    ASSUME IInv, BreakGroup
    PROVE  Keeps
<1>1. Sound(editor) /\ (slipped /\ editor.preview = None /\ editor.selected => editor.shown = <<>>)
  BY DEF IInv, Agrees
<1>2. /\ editor' = [editor EXCEPT !.history = Closed(@)]
      /\ UNCHANGED <<rebinds, source, readOnly, mark, slipped>>
  BY DEF BreakGroup
<1>3. editor.selected \in BOOLEAN /\ editor.loading \in BOOLEAN
  BY <1>1, EditorMade DEF Sound
<1>4. /\ Touched(editor, editor') /\ (editor'.loading <=> editor.loading)
      /\ editor'.selected <=> editor.selected
  <2>1. ASSUME NEW l \in BOOLEAN, NEW c \in BOOLEAN, NEW x,
               x = [editor EXCEPT !.history = Closed(@)],
               c <=> editor.selected, l <=> editor.loading
        PROVE  Touched(editor, x) /\ (x.loading <=> l) /\ (x.selected <=> c)
    BY <1>1, <2>1, MarkedAnew
  <2> QED BY <1>2, <1>3, <2>1
<1> QED BY <1>1, <1>2, <1>4, TouchedKeeps

LEMMA CaretKeeps ==
    ASSUME IInv, MoveCaret
    PROVE  Keeps
<1>1. Sound(editor)
  BY DEF IInv, Agrees
<1>2. /\ editor' = [editor EXCEPT !.selected = FALSE, !.history = Closed(@)]
      /\ UNCHANGED <<rebinds, source, readOnly, mark, slipped>>
  BY DEF MoveCaret
<1>3. Touched(editor, editor') /\ (editor'.loading <=> editor.loading) /\ ~ editor'.selected
  BY <1>1, <1>2, Unmarked
<1> QED BY <1>2, <1>3, TouchedKeeps

LEMMA SelectKeeps ==
    ASSUME IInv, SelectAll
    PROVE  Keeps
<1>1. Sound(editor) /\ (slipped => Fits(editor))
  BY DEF IInv, Agrees
<1>2. /\ editor' = [editor EXCEPT !.selected = editor.paged]
      /\ UNCHANGED <<rebinds, source, readOnly, mark, slipped>>
  BY DEF SelectAll
<1>3. editor.loading \in BOOLEAN /\ editor.paged \in BOOLEAN
  BY <1>1, EditorMade DEF Sound
<1>4. /\ Touched(editor, editor') /\ (editor'.loading <=> editor.loading)
      /\ editor'.selected <=> editor.paged
  <2>1. ASSUME NEW l \in BOOLEAN, NEW c \in BOOLEAN, NEW x,
               x = [editor EXCEPT !.selected = c],
               l <=> editor.loading
        PROVE  Touched(editor, x) /\ (x.loading <=> l) /\ (x.selected <=> c)
    BY <1>1, <2>1, MarkedAnew
  <2> QED BY <1>2, <1>3, <2>1
<1>5. slipped /\ editor.preview = None => ~ editor'.selected
  BY <1>1, <1>4 DEF Fits
<1> QED BY <1>2, <1>4, <1>5, TouchedKeeps

LEMMA ClearKeeps ==
    ASSUME IInv, ClearPage
    PROVE  Keeps
<1> DEFINE d == [editor EXCEPT !.selected = FALSE]
           e == Committed(d, <<>>)
           u == e.history.text
<1>1. /\ Sound(editor) /\ source \in Texts /\ source = editor.history.text
      /\ rebinds => Fits(editor)
      /\ rebinds \in BOOLEAN /\ ~ editor.loading /\ editor.paged
  BY DEF IInv, Agrees, ClearPage
<1>2. /\ Edited(e, Full(e)) /\ mark' = None
      /\ readOnly' = readOnly /\ rebinds' = rebinds
  BY DEF ClearPage
<1>3. /\ Touched(editor, d) /\ ~ d.loading /\ ~ d.selected
      /\ d.history = editor.history
  <2>1. ASSUME NEW l \in BOOLEAN, NEW c \in BOOLEAN, NEW x,
               x = [editor EXCEPT !.selected = c],
               l <=> editor.loading
        PROVE  Touched(editor, x) /\ (x.loading <=> l) /\ (x.selected <=> c)
    BY <1>1, <2>1, MarkedAnew
  <2>2. editor.loading \in BOOLEAN /\ FALSE \in BOOLEAN
    BY <1>1, EditorMade DEF Sound
  <2>3. Touched(editor, d) /\ (d.loading <=> editor.loading) /\ (d.selected <=> FALSE)
    BY <2>1, <2>2
  <2>4. d.history = editor.history
    BY <1>1 DEF Sound, Editors
  <2> QED BY <1>1, <2>3, <2>4
<1> HIDE DEF d
<1>4. Commits(d, <<>>, e)
  BY <1>3, CommittedIs, NoText DEF Touched
<1> HIDE DEF e
<1>5. /\ Sound(e) /\ Shows(e) /\ Moves(editor.history, e.history)
      /\ e.paged = editor.paged /\ ~ e.loading /\ ~ e.selected
      /\ editor.preview # None => e.preview # None
  BY <1>3, <1>4 DEF Commits, Touched
<1>6. Full(e) = u
  BY <1>5, FullIs
<1>7. rebinds /\ u = source => Fits(e)
  BY <1>1, <1>5 DEF Fits
<1>8. /\ Agrees(editor', rebinds', source', readOnly', slipped')
      /\ Moves(editor.history, editor'.history)
  <2>1. Edited(e, u)
    BY <1>2, <1>6
  <2> HIDE DEF u
  <2>2. u = e.history.text
    BY DEF u
  <2> QED BY <1>1, <1>2, <1>5, <1>7, <2>1, <2>2, EditedKeeps
<1> QED BY <1>2, <1>8 DEF Keeps, Placed

(* The mark of a place on the page that is shown. *)
LEMMA MarkOnPage ==
    ASSUME NEW e, Sound(e), Shows(e), NEW t, t = e.history.text,
           NEW k, k \in PageStart(e) .. PageStart(e) + Len(e.shown),
           NEW text, NEW slips,
           NEW m, m = [at |-> Units(Part(t, PageStart(e), k)), want |-> Units(Part(t, 0, k))]
    PROVE  Placed(m, e, text, slips)
<1> DEFINE a == PageStart(e) b == a + Len(e.shown)
<1>1. t \in Texts /\ a \in 0 .. Len(t) /\ b \in a .. Len(t) /\ e.shown = Part(t, a, b)
  BY ShownIs
<1>2. Full(e) = t
  BY FullIs
<1>3. /\ m.at = Units(Part(t, a, k)) /\ m.want = Units(Part(t, 0, k))
      /\ m = [at |-> m.at, want |-> m.want]
  OBVIOUS
<1>4. k \in a .. b
  OBVIOUS
<1> HIDE DEF b
<1>5. /\ Units(Part(t, a, k)) \in 0 .. Units(Part(t, a, b))
      /\ Units(Part(t, 0, k)) = Units(Part(t, 0, a)) + Units(Part(t, a, k))
      /\ Units(Part(t, 0, a)) \in Nat /\ Units(Part(t, a, b)) \in Nat
  BY <1>1, <1>4, PlaceOnPage, CountedInParts
<1> HIDE DEF a
<1>6. m.at \in Int /\ m.want \in Int
  BY <1>3, <1>5
<1>7. m \in [at : Int, want : Int]
  BY <1>3, <1>6
<1>8. m.at \in 0 .. Units(e.shown) /\ Units(Part(Full(e), 0, a)) + m.at = m.want
  BY <1>1, <1>2, <1>3, <1>5
<1> QED BY <1>7, <1>8 DEF Placed, a

(* _apply_document: the history h, which the last one became, is shown. *)
LEMMA ApplyKeeps ==
    ASSUME IInv, ~ readOnly,
           NEW h, Moves(editor.history, h), NEW k \in 0 .. Len(h.text),
           NEW e, e = Applied(editor, h, k),
           Edited(e, h.text),
           mark' = [at |-> Units(Part(h.text, PageStart(e), k)),
                    want |-> Units(Part(h.text, 0, k))],
           UNCHANGED <<readOnly, rebinds>>
    PROVE  Keeps
<1> DEFINE t == h.text
<1>1. editor \in Editors /\ Chained(editor.history) /\ rebinds \in BOOLEAN
  BY DEF IInv, Agrees, Sound
<1>2. Chained(h)
  BY <1>1, MovesChained
<1>3. /\ Sound(e) /\ Shows(e) /\ Fits(e) /\ e.history = h
      /\ ~ e.selected /\ ~ e.loading
      /\ PageStart(e) \in 0 .. k /\ k <= PageStart(e) + Len(e.shown)
  BY <1>1, <1>2, AppliedIs
<1>4. t = e.history.text /\ Edited(e, t)
  BY <1>3
<1>5. /\ Agrees(editor', rebinds', source', readOnly', slipped')
      /\ Moves(editor.history, editor'.history)
      /\ editor' = e
  <2> HIDE DEF t
  <2> QED BY <1>1, <1>3, <1>4, EditedKeeps
<1>6. k \in PageStart(e) .. PageStart(e) + Len(e.shown)
  <2>1. Len(e.shown) \in Nat /\ Len(h.text) \in Nat
    BY <1>2, <1>3, EditorMade, HistoryTypes, TextLength DEF Sound, Chained
  <2> QED BY <1>3, <2>1
<1>7. Placed(mark', e, source', slipped')
  <2>1. mark' = [at |-> Units(Part(t, PageStart(e), k)), want |-> Units(Part(t, 0, k))]
    OBVIOUS
  <2> HIDE DEF t
  <2> QED BY <1>3, <1>4, <1>6, <2>1, MarkOnPage
<1> QED BY <1>5, <1>7 DEF Keeps

LEMMA UndoKeeps ==
    ASSUME IInv, UndoDocument
    PROVE  Keeps
<1> DEFINE h == editor.history
           edit == Last(h.undo)
           t == Undone(h.text, edit)
           k == edit.start + Len(edit.removed)
           g == [text |-> t, undo |-> Front(h.undo), redo |-> Append(h.redo, edit), open |-> FALSE]
<1>1. ~ readOnly /\ h.undo # <<>> /\ Stepped(t, Front(h.undo), Append(h.redo, edit), k)
  BY DEF UndoDocument
<1>2. Chained(h)
  BY DEF IInv, Agrees, Sound
<1>3. k \in 0 .. Len(t)
  BY <1>1, <1>2, UndoPlace
<1>4. /\ Edited(Applied(editor, g, k), t)
      /\ mark' = [at |-> Units(Part(t, PageStart(Applied(editor, g, k)), k)),
                  want |-> Units(Part(t, 0, k))]
      /\ UNCHANGED <<readOnly, rebinds>>
  BY <1>1 DEF Stepped
<1>5. Moves(h, g) /\ g.text = t
  BY <1>1 DEF Moves, GoesBack
<1> HIDE DEF g, t, k
<1> QED BY <1>1, <1>3, <1>4, <1>5, ApplyKeeps

LEMMA RedoKeeps ==
    ASSUME IInv, RedoDocument
    PROVE  Keeps
<1> DEFINE h == editor.history
           edit == Last(h.redo)
           t == Redone(h.text, edit)
           k == edit.start + Len(edit.inserted)
           g == [text |-> t, undo |-> Append(h.undo, edit), redo |-> Front(h.redo), open |-> FALSE]
<1>1. ~ readOnly /\ h.redo # <<>> /\ Stepped(t, Append(h.undo, edit), Front(h.redo), k)
  BY DEF RedoDocument
<1>2. Chained(h)
  BY DEF IInv, Agrees, Sound
<1>3. k \in 0 .. Len(t)
  BY <1>1, <1>2, RedoPlace
<1>4. /\ Edited(Applied(editor, g, k), t)
      /\ mark' = [at |-> Units(Part(t, PageStart(Applied(editor, g, k)), k)),
                  want |-> Units(Part(t, 0, k))]
      /\ UNCHANGED <<readOnly, rebinds>>
  BY <1>1 DEF Stepped
<1>5. Moves(h, g) /\ g.text = t
  BY <1>1 DEF Moves, GoesOn
<1> HIDE DEF g, t, k
<1> QED BY <1>1, <1>3, <1>4, <1>5, ApplyKeeps

LEMMA ReplaceKeeps ==
    ASSUME IInv, NEW t \in Texts, ReplaceDocument(t)
    PROVE  Keeps
<1> DEFINE h == editor.history
           r == Recorded(Closed(h), h.text, t, 0)
           g == [Closed(r) EXCEPT !.text = t]
           k == Len(t)
<1>1. /\ ~ readOnly /\ UNCHANGED <<readOnly, rebinds>>
      /\ Edited(Applied(editor, g, k), t)
      /\ mark' = [at |-> Units(Part(t, PageStart(Applied(editor, g, k)), k)), want |-> Units(t)]
  BY DEF ReplaceDocument
<1>2. Chained(h) /\ h \in Histories /\ h.text \in Texts
  BY HistoryTypes DEF IInv, Agrees, Sound, Chained
<1>3. k \in 0 .. Len(t) /\ Part(t, 0, k) = t
  BY TextLength, PartAll
<1>4. Moves(Closed(h), [r EXCEPT !.text = t])
  <2> DEFINE c == Closed(h)
  <2>1. c \in Histories /\ c.text = h.text
    BY <1>2, ClosedMoves
  <2> HIDE DEF c
  <2>2. /\ 0 \in 0 .. Len(c.text) /\ Len(c.text) \in 0 .. Len(c.text)
        /\ Part(c.text, 0, Len(c.text)) = c.text /\ t = Spliced(c.text, 0, Len(c.text), t)
    BY <1>2, <2>1, TextLength, PartAll, SplicedAll
  <2>3. Moves(c, [Recorded(c, Part(c.text, 0, Len(c.text)), t, 0) EXCEPT !.text = t])
    BY <2>1, <2>2, RecordedMoves
  <2> QED BY <2>1, <2>2, <2>3 DEF c
<1> DEFINE f == [r EXCEPT !.text = t]
<1>5. Moves(h, Closed(f))
  <2> HIDE DEF f, h
  <2>1. Moves(Closed(h), f)
    BY <1>4 DEF f
  <2> QED BY <1>2, <2>1, MovesClosed
<1>6. f.text = t /\ Closed(f) = g
  <2>1. f = [text |-> f.text, undo |-> f.undo, redo |-> f.redo, open |-> f.open]
    BY <1>4 DEF Moves
  <2> HIDE DEF r
  <2> QED BY <2>1 DEF Closed
<1>7. Moves(h, g) /\ g.text = t
  BY <1>5, <1>6 DEF Closed
<1> HIDE DEF g, k
<1> QED BY <1>1, <1>3, <1>7, ApplyKeeps

LEMMA LoadKeeps ==
    ASSUME IInv, NEW t \in Texts, Load(t)
    PROVE  Keeps
<1> DEFINE H == editor.history.text
<1>1. /\ Agrees(editor, rebinds, source, readOnly, slipped)
      /\ Sound(editor) /\ (slipped \/ Shows(editor))
      /\ slipped /\ editor.preview = None /\ editor.selected => editor.shown = <<>>
  BY DEF IInv, Agrees
<1>2. /\ source' = t /\ ~ readOnly' /\ mark' = None /\ rebinds' = rebinds
      /\ IF t = H THEN editor' = editor /\ slipped' = slipped
         ELSE editor' = Bound(editor, t) /\ slipped' = FALSE
  BY DEF Load
<1>3. Placed(mark', editor', source', slipped')
  BY <1>2 DEF Placed
<1>4. CASE t = H
  <2>1. editor' = editor /\ slipped' = slipped
    BY <1>2, <1>4
  <2>2. Agrees(editor', rebinds', source', readOnly', slipped')
    BY <1>1, <1>2, <1>4, <2>1 DEF Agrees
  <2>3. Moves(editor.history, editor'.history)
    BY <1>1, <2>1, ClosedMoves DEF Sound, Chained
  <2> QED BY <1>3, <2>2, <2>3 DEF Keeps
<1>5. CASE t # H
  <2> DEFINE x == Bound(editor, t)
  <2>1. editor' = x /\ slipped' = FALSE
    BY <1>2, <1>5
  <2>2. /\ Sound(x) /\ Shows(x)
        /\ \/ x.history.text = t /\ Fits(x) /\ Moves(editor.history, x.history)
           \/ /\ editor.selected /\ Full(editor) = t
              /\ editor.preview # None \/ Len(t) > PagedAbove
    BY <1>1, BoundIs
  <2> HIDE DEF x
  <2>3. ~ (/\ editor.selected /\ Full(editor) = t
           /\ editor.preview # None \/ Len(t) > PagedAbove)
    <3> SUFFICES ASSUME editor.selected, Full(editor) = t,
                        editor.preview # None \/ Len(t) > PagedAbove
                 PROVE  FALSE
      OBVIOUS
    <3>1. editor.preview = None
      BY <1>1, <1>5 DEF Sound, Full
    <3>2. t = editor.shown
      BY <3>1 DEF Full
    <3>3. ~ Shows(editor)
      BY <1>5, <3>1, <3>2 DEF Shows
    <3>4. t = <<>>
      BY <1>1, <3>1, <3>2, <3>3
    <3> QED BY <3>1, <3>4, NoText, EditorBounds
  <2>4. Agrees(editor', rebinds', source', readOnly', slipped')
    BY <1>2, <2>1, <2>2, <2>3 DEF Agrees
  <2> QED BY <1>3, <2>1, <2>2, <2>3, <2>4 DEF Keeps
<1> QED BY <1>4, <1>5

LEMMA ExtractKeeps ==
    ASSUME IInv, NEW t \in Texts, ShowExtract(t)
    PROVE  Keeps
<1> DEFINE p == Prepared(editor, t) x == Reselected(editor, p)
<1>1. Sound(editor) /\ source \in Texts
  BY DEF IInv, Agrees
<1>2. /\ editor' = x /\ readOnly' = TRUE /\ slipped' = FALSE /\ mark' = None
      /\ source' = source /\ rebinds' = rebinds
  BY DEF ShowExtract
<1>3. Sound(p) /\ Shows(p) /\ Fits(p) /\ Moves(editor.history, p.history)
  BY <1>1, PreparedIs
<1> HIDE DEF p
<1>4. /\ Sound(x) /\ Shows(x) /\ Fits(x) /\ x.history = p.history
  BY <1>3, ReselectedIs
<1> HIDE DEF x
<1>5. Agrees(editor', rebinds', source', readOnly', slipped')
  BY <1>1, <1>2, <1>4 DEF Agrees
<1> QED BY <1>2, <1>3, <1>4, <1>5 DEF Keeps, Placed

LEMMA SaveKeeps ==
    ASSUME IInv, SaveDraft
    PROVE  Keeps
<1> DEFINE H == editor.history.text t == Full(editor) x == Bound(editor, t)
<1>1. /\ Sound(editor) /\ (slipped \/ Shows(editor))
      /\ slipped /\ editor.preview = None /\ editor.selected => editor.shown = <<>>
  BY DEF IInv, Agrees
<1>2. /\ ~ rebinds /\ rebinds' = rebinds /\ editor' = x /\ source' = Full(x)
      /\ slipped' = FALSE /\ mark' = None
  BY DEF SaveDraft
<1>3. t \in Texts
  BY <1>1 DEF Sound, Full, Editors, Tiled, Previews, Texts
<1>4. editor.preview # None => t = H
  BY <1>1 DEF Sound, Full
<1>5. editor.preview = None => t = editor.shown
  BY DEF Full
<1> HIDE DEF t
<1>6. /\ Sound(x) /\ Shows(x)
      /\ \/ x.history.text = t /\ Fits(x) /\ Moves(editor.history, x.history)
         \/ /\ editor.selected /\ ~ x.loading
            /\ editor.preview # None \/ Len(t) > PagedAbove
            /\ H = t => Moves(editor.history, x.history)
  BY <1>1, <1>3, BoundIs
<1> HIDE DEF x
<1>7. x.history.text \in Texts
  BY <1>6, HistoryTypes DEF Sound, Chained
<1>8. Full(x) = x.history.text
  BY <1>6, FullIs
<1>9. (x.loading => Fits(x)) /\ Moves(editor.history, x.history)
  <2>1. CASE x.history.text = t /\ Fits(x) /\ Moves(editor.history, x.history)
    BY <2>1
  <2>2. CASE /\ editor.selected /\ ~ x.loading
             /\ editor.preview # None \/ Len(t) > PagedAbove
             /\ H = t => Moves(editor.history, x.history)
    <3>1. CASE editor.preview # None
      BY <1>4, <2>2, <3>1
    <3>2. CASE editor.preview = None
      <4>1. t # <<>>
        BY <2>2, <3>2, NoText, EditorBounds
      <4>2. Shows(editor)
        BY <1>1, <1>5, <2>2, <3>2, <4>1
      <4>3. t = H
        BY <1>5, <3>2, <4>2 DEF Shows
      <4> QED BY <2>2, <4>3
    <3> QED BY <3>1, <3>2
  <2> QED BY <1>6, <2>1, <2>2
<1>10. Agrees(editor', rebinds', source', readOnly', slipped')
  BY <1>2, <1>6, <1>7, <1>8, <1>9 DEF Agrees
<1> QED BY <1>2, <1>9, <1>10 DEF Keeps, Placed

(* Another page of the document is shown. *)
LEMMA ShowingKeeps ==
    ASSUME IInv, editor.preview # None, NEW k \in 1 .. Len(editor.preview.ranges),
           editor' = Showing(editor, [editor.preview EXCEPT !.page = k]),
           ~ slipped', UNCHANGED <<rebinds, source, readOnly>>
    PROVE  /\ Agrees(editor', rebinds', source', readOnly', slipped')
           /\ Moves(editor.history, editor'.history)
           /\ Sound(editor') /\ Shows(editor')
           /\ editor'.history.text = editor.preview.text
           /\ editor'.preview # None
           /\ PageRange(editor'.preview) = editor.preview.ranges[k]
<1> DEFINE q == [editor.preview EXCEPT !.page = k] x == Showing(editor, q)
<1>1. /\ Sound(editor) /\ source \in Texts /\ (~ readOnly => source = editor.history.text)
      /\ rebinds => Fits(editor)
      /\ editor.preview.text = editor.history.text
  BY DEF IInv, Agrees, Sound
<1>2. /\ Sound(x) /\ Shows(x) /\ (Fits(editor) => Fits(x))
      /\ x.history = Closed(editor.history) /\ ~ x.selected /\ ~ x.loading
      /\ x.preview = q /\ q # None /\ q.ranges = editor.preview.ranges /\ q.page = k
  BY <1>1, ShowingIs
<1>3. editor' = x
  OBVIOUS
<1> HIDE DEF x, q
<1>4. Moves(editor.history, x.history) /\ x.history.text = editor.history.text
  BY <1>1, <1>2, ClosedMoves DEF Sound, Chained
<1>5. Agrees(editor', rebinds', source', readOnly', slipped')
  BY <1>1, <1>2, <1>3, <1>4 DEF Agrees
<1> QED BY <1>1, <1>2, <1>3, <1>4, <1>5 DEF PageRange

LEMMA StepKeeps ==
    ASSUME IInv, NEW delta \in {-1, 1}, StepPage(delta)
    PROVE  Keeps
<1> DEFINE p == editor.preview
           k == IF p.page + delta < 1 THEN 1 ELSE Smaller(p.page + delta, Len(p.ranges))
<1>1. /\ p # None /\ editor' = Showing(editor, [p EXCEPT !.page = k])
      /\ slipped' = FALSE /\ mark' = None /\ UNCHANGED <<rebinds, source, readOnly>>
  BY DEF StepPage
<1>2. Tiled(p)
  BY <1>1 DEF IInv, Agrees, Sound
<1>3. k \in 1 .. Len(p.ranges)
  <2>1. Len(p.ranges) \in Nat /\ p.page \in 1 .. Len(p.ranges)
    BY <1>2, TableLength DEF Tiled
  <2> QED BY <2>1 DEF Smaller
<1> HIDE DEF k
<1>4. Agrees(editor', rebinds', source', readOnly', slipped') /\ Moves(editor.history, editor'.history)
  BY <1>1, <1>3, ShowingKeeps
<1> QED BY <1>1, <1>4 DEF Keeps, Placed

(* A jump in a text without pages. *)
LEMMA JumpedPlain ==
    ASSUME IInv, editor.preview = None, NEW at, NEW want, Jump(editor, at, want),
           at \in 0 .. Units(editor.shown), want = at
    PROVE  Keeps
<1>1. /\ editor' = editor /\ mark' = [at |-> at, want |-> want]
      /\ slipped' = slipped /\ UNCHANGED <<rebinds, source, readOnly>>
  BY DEF Jump, IInv
<1>2. Agrees(editor, rebinds, source, readOnly, slipped) /\ Sound(editor)
  BY DEF IInv, Agrees
<1>3. Moves(editor.history, editor'.history)
  BY <1>1, <1>2, ClosedMoves DEF Sound, Chained
<1>4. Units(editor.shown) \in Nat /\ Units(Part(Full(editor), 0, PageStart(editor))) = 0
  <2>1. editor.shown \in Texts
    BY <1>2, EditorMade DEF Sound
  <2>2. Full(editor) = editor.shown /\ PageStart(editor) = 0
    BY DEF Full, PageStart
  <2>3. Units(Part(editor.shown, 0, 0)) = 0
    <3>1. 0 \in 0 .. Len(editor.shown)
      BY <2>1, TextLength
    <3>2. /\ Units(Part(editor.shown, 0, 0)) \in Nat
          /\ Units(Part(editor.shown, 0, 0))
               = Units(Part(editor.shown, 0, 0)) + Units(Part(editor.shown, 0, 0))
      BY <2>1, <3>1, CountedInParts
    <3> QED BY <3>2
  <2> QED BY <2>1, <2>2, <2>3, UnitsCount
<1>5. Placed(mark', editor, source', slipped')
  <2>1. at \in Int
    BY <1>4
  <2>2. mark' \in [at : Int, want : Int] /\ mark'.at = at /\ mark'.want = at
    BY <1>1, <2>1
  <2>3. 0 + at = at
    BY <2>1
  <2> QED BY <1>4, <2>2, <2>3 DEF Placed
<1> QED BY <1>1, <1>2, <1>3, <1>5 DEF Keeps

(* A jump to the page of position n. *)
Turns(t, e, n) ==
    /\ Sound(e) /\ Shows(e) /\ t = e.history.text /\ e.preview # None
    /\ n \in PageStart(e) .. PageStart(e) + Len(e.shown)
    /\ n < PageStart(e) + Len(e.shown) \/ PageStart(e) + Len(e.shown) = Len(t)
    /\ PageRange(e.preview).line = 1 + Lines(Part(t, 0, PageStart(e)))

LEMMA JumpedTurns ==
    ASSUME IInv, editor.preview # None, NEW t, t = editor.preview.text,
           NEW n \in 0 .. Len(t), NEW at, NEW want, Jump(Turned(n), at, want)
    PROVE  /\ Turns(t, editor', n) /\ editor' = Turned(n)
           /\ mark' = [at |-> at, want |-> want]
           /\ Agrees(editor', rebinds', source', readOnly', slipped')
           /\ Moves(editor.history, editor'.history)
<1> DEFINE p == editor.preview k == PageAt(p, n) e == editor'
<1>1. /\ e = Showing(editor, [p EXCEPT !.page = k]) /\ e = Turned(n)
      /\ ~ slipped' /\ mark' = [at |-> at, want |-> want]
      /\ UNCHANGED <<rebinds, source, readOnly>>
  BY DEF Jump, Turned
<1>2. Tiled(p)
  BY DEF IInv, Agrees, Sound
<1>3. /\ k \in 1 .. Len(p.ranges)
      /\ p.ranges[k].start <= n /\ n <= p.ranges[k].end
      /\ n < p.ranges[k].end \/ p.ranges[k].end = Len(t)
  BY <1>2, PageAtIs
<1> HIDE DEF k
<1>4. /\ Agrees(e, rebinds', source', readOnly', slipped')
      /\ Moves(editor.history, e.history)
      /\ Sound(e) /\ Shows(e) /\ e.history.text = t /\ e.preview # None
      /\ PageRange(e.preview) = p.ranges[k]
  BY <1>1, <1>3, ShowingKeeps
<1>5. e.preview.text = t /\ Tiled(e.preview)
  BY <1>4 DEF Sound
<1> HIDE DEF e
<1> DEFINE a == PageStart(e) b == PageStart(e) + Len(e.shown)
<1>6. /\ a = PageRange(e.preview).start /\ b = PageRange(e.preview).end
      /\ a \in 0 .. Len(t) /\ b \in a .. Len(t) /\ t \in Texts
  BY <1>4, ShownIs
<1>7. p.ranges[k].line = 1 + Lines(Part(t, 0, p.ranges[k].start))
  BY <1>2, <1>3 DEF Tiled, Table
<1>8. n \in a .. b /\ (n < b \/ b = Len(t))
  <2>1. a <= n /\ n <= b /\ (n < b \/ b = Len(t))
    BY <1>3, <1>4, <1>6
  <2> HIDE DEF a, b
  <2> QED BY <1>6, <2>1, TextLength
<1>9. Turns(t, e, n)
  BY <1>4, <1>6, <1>7, <1>8 DEF Turns
<1> QED BY <1>1, <1>4, <1>9 DEF e

LEMMA LineKeeps ==
    ASSUME IInv, NEW line \in 1 .. 1 + Lines(Full(editor)), JumpToLine(line)
    PROVE  Keeps
<1> DEFINE t == Full(editor)
           n == LineStart(t, line)
           e == Turned(n)
           relative == IF e.preview = None THEN line ELSE line - PageRange(e.preview).line + 1
           safe == IF relative < 1 THEN 1 ELSE Smaller(relative, 1 + Lines(e.shown))
           at == Units(Part(e.shown, 0, LineStart(e.shown, safe)))
           want == Units(Part(t, 0, n))
<1>1. Jump(e, at, want)
  BY DEF JumpToLine
<1>2. Sound(editor) /\ t \in Texts
  BY DEF IInv, Agrees, Sound, Full, Editors, Tiled, Previews, Texts
<1>3. /\ n \in 0 .. Len(t) /\ line \in Nat /\ Lines(t) \in Nat /\ Len(t) \in Nat
  <2>1. n \in 0 .. Len(t)
    BY <1>2, LineStartIs
  <2> QED BY <1>2, <2>1, LinesCount, TextLength
<1>4. CASE editor.preview = None
  <2>1. e = editor /\ t = editor.shown
    BY <1>4 DEF Turned, Full
  <2>2. relative = line
    BY <1>4, <2>1
  <2>3. safe = line
    <3> HIDE DEF relative, e, n
    <3>1. 1 <= line /\ line <= 1 + Lines(t)
      OBVIOUS
    <3> HIDE DEF t
    <3> QED BY <1>3, <2>1, <2>2, <3>1 DEF Smaller
  <2>4. at = want
    BY <2>1, <2>3
  <2>5. want \in 0 .. Units(t)
    <3> HIDE DEF t, n
    <3>1. /\ Len(t) \in 0 .. Len(t) /\ 0 \in 0 .. Len(t) /\ Len(t) \in 0 .. Len(t)
          /\ n \in 0 .. Len(t) /\ Part(t, 0, Len(t)) = t
      BY <1>2, <1>3, PartAll
    <3>2. Units(Part(t, 0, n)) \in 0 .. Units(Part(t, 0, Len(t)))
      BY <1>2, <3>1, PlaceOnPage
    <3> QED BY <3>1, <3>2
  <2> HIDE DEF at, want, e, t
  <2>6. at \in 0 .. Units(editor.shown)
    BY <2>1, <2>4, <2>5
  <2> QED BY <1>1, <1>4, <2>1, <2>4, <2>6, JumpedPlain
<1>5. CASE editor.preview # None
  <2>1. t = editor.preview.text
    BY <1>5 DEF Full
  <2>2. /\ Turns(t, editor', n) /\ editor' = e
        /\ mark' = [at |-> at, want |-> want]
        /\ Agrees(editor', rebinds', source', readOnly', slipped')
        /\ Moves(editor.history, editor'.history)
    <3>1. n \in 0 .. Len(t) /\ Jump(Turned(n), at, want)
      BY <1>1, <1>3
    <3> HIDE DEF t, n, at, want
    <3>2. /\ Turns(t, editor', n) /\ editor' = Turned(n)
          /\ mark' = [at |-> at, want |-> want]
          /\ Agrees(editor', rebinds', source', readOnly', slipped')
          /\ Moves(editor.history, editor'.history)
      BY <1>5, <2>1, <3>1, JumpedTurns
    <3> QED BY <3>2
  <2>3. /\ Sound(e) /\ Shows(e) /\ t = e.history.text /\ e.preview # None
        /\ n \in PageStart(e) .. PageStart(e) + Len(e.shown)
        /\ PageRange(e.preview).line = 1 + Lines(Part(t, 0, PageStart(e)))
    <3> HIDE DEF t, n, e
    <3> QED BY <2>2 DEF Turns
  <2> DEFINE a == PageStart(e) b == a + Len(e.shown)
  <2>4. /\ a \in 0 .. Len(t) /\ b \in a .. Len(t) /\ e.shown = Part(t, a, b)
    <3> HIDE DEF t, e
    <3> QED BY <2>3, ShownIs
  <2>5. relative = line - (1 + Lines(Part(t, 0, a))) + 1
    <3> HIDE DEF t, e
    <3> QED BY <2>3
  <2>6. n \in a .. b
    BY <2>3
  <2>7. LineStart(t, line) = n
    OBVIOUS
  <2>8. line \in 1 .. 1 + Lines(t)
    OBVIOUS
  <2> HIDE DEF t, n, e, relative, a, b
  <2>9. /\ relative \in 1 .. 1 + Lines(Part(t, a, b))
        /\ LineStart(Part(t, a, b), relative) = n - a
    BY <1>2, <2>4, <2>5, <2>6, <2>7, <2>8, LineOnPage
  <2>10. safe = relative
    <3>1. Lines(e.shown) \in Nat
      BY <2>3, EditorMade, LinesCount DEF Sound
    <3> QED BY <2>4, <2>9, <3>1 DEF Smaller
  <2>11. at = Units(Part(Part(t, a, b), 0, n - a))
    BY <2>4, <2>9, <2>10
  <2>12. at = Units(Part(t, a, n))
    <3>1. Part(Part(t, a, b), 0, n - a) = Part(t, a, n)
      BY <1>2, <2>4, <2>6, PlaceOnPage
    <3> HIDE DEF at
    <3> QED BY <2>11, <3>1
  <2> HIDE DEF at
  <2>13. Placed(mark', e, source', slipped')
    <3>1. mark' = [at |-> Units(Part(t, PageStart(e), n)), want |-> Units(Part(t, 0, n))]
      BY <2>2, <2>12 DEF a
    <3> QED BY <2>3, <3>1, MarkOnPage
  <2> QED BY <2>2, <2>13 DEF Keeps
<1> QED BY <1>4, <1>5

LEMMA UnitKeeps ==
    ASSUME IInv, NEW unit \in 0 .. Units(Full(editor)), JumpToUnit(unit)
    PROVE  Keeps
<1> DEFINE t == Full(editor)
           n == SymbolsIn(t, unit)
           e == Turned(n)
           at == unit - Units(Part(t, 0, PageStart(e)))
<1>1. Jump(e, at, unit)
  BY DEF JumpToUnit
<1>2. Sound(editor) /\ t \in Texts
  BY DEF IInv, Agrees, Sound, Full, Editors, Tiled, Previews, Texts
<1>3. unit \in Nat /\ Units(t) \in Nat /\ Len(t) \in Nat
  <2>1. Units(t) \in Nat /\ Len(t) \in Nat
    BY <1>2, UnitsCount, TextLength
  <2> QED BY <2>1
<1>4. n \in 0 .. Len(t)
  BY <1>2, <1>3, SymbolsInIs
<1>5. CASE editor.preview = None
  <2>1. e = editor /\ t = editor.shown /\ PageStart(editor) = 0
    BY <1>5 DEF Turned, Full, PageStart
  <2>2. Units(Part(t, 0, 0)) = 0
    <3> HIDE DEF t
    <3>1. 0 \in 0 .. Len(t)
      BY <1>3
    <3>2. /\ Units(Part(t, 0, 0)) \in Nat
          /\ Units(Part(t, 0, 0)) = Units(Part(t, 0, 0)) + Units(Part(t, 0, 0))
      BY <1>2, <3>1, CountedInParts
    <3> QED BY <3>2
  <2>3. at = unit
    <3>1. at = unit - Units(Part(t, 0, 0))
      BY <2>1
    <3> HIDE DEF at, t
    <3> QED BY <1>3, <2>2, <3>1
  <2>4. unit \in 0 .. Units(editor.shown)
    BY <2>1
  <2> HIDE DEF at, e
  <2> QED BY <1>1, <1>5, <2>1, <2>3, <2>4, JumpedPlain
<1>6. CASE editor.preview # None
  <2>1. t = editor.preview.text
    BY <1>6 DEF Full
  <2>2. /\ Turns(t, editor', n) /\ editor' = e
        /\ mark' = [at |-> at, want |-> unit]
        /\ Agrees(editor', rebinds', source', readOnly', slipped')
        /\ Moves(editor.history, editor'.history)
    <3>1. Jump(Turned(n), at, unit)
      BY <1>1
    <3> HIDE DEF t, n, at
    <3>2. /\ Turns(t, editor', n) /\ editor' = Turned(n)
          /\ mark' = [at |-> at, want |-> unit]
          /\ Agrees(editor', rebinds', source', readOnly', slipped')
          /\ Moves(editor.history, editor'.history)
      BY <1>4, <1>6, <2>1, <3>1, JumpedTurns
    <3> QED BY <3>2
  <2> DEFINE a == PageStart(e) b == a + Len(e.shown)
  <2>3. /\ Sound(e) /\ Shows(e) /\ t = e.history.text
        /\ n \in a .. b /\ (n < b \/ b = Len(t))
    <3> HIDE DEF t, n, e
    <3> QED BY <2>2 DEF Turns
  <2>4. /\ a \in 0 .. Len(t) /\ b \in a .. Len(t) /\ e.shown = Part(t, a, b)
    <3> HIDE DEF t, e
    <3> QED BY <2>3, ShownIs
  <2>5. Full(e) = t
    BY <2>3, FullIs
  <2>6. SymbolsIn(t, unit) = n /\ unit \in 0 .. Units(t) /\ at = unit - Units(Part(t, 0, a))
    OBVIOUS
  <2> HIDE DEF t, n, e, a, b, at
  <2>7. unit - Units(Part(t, 0, a)) \in 0 .. Units(Part(t, a, b))
    BY <1>2, <2>3, <2>4, <2>6, UnitOnPage
  <2>8. Units(Part(t, 0, a)) \in Nat /\ Units(Part(t, a, b)) \in Nat
    BY <1>2, <2>4, CountedInParts
  <2>9. /\ at \in 0 .. Units(e.shown) /\ at \in Int /\ unit \in Int
        /\ Units(Part(t, 0, a)) + at = unit
    BY <1>3, <2>4, <2>6, <2>7, <2>8
  <2>10. mark' \in [at : Int, want : Int] /\ mark'.at = at /\ mark'.want = unit
    BY <2>2, <2>9
  <2>11. Placed(mark', e, source', slipped')
    BY <2>5, <2>9, <2>10 DEF Placed, a
  <2> QED BY <2>2, <2>11 DEF Keeps
<1> QED BY <1>5, <1>6

----------------------------------------------------------------------------
(* The steps together *)

LEMMA InitInv ==
    ASSUME Init
    PROVE  IInv
<1> DEFINE h == Fresh(<<>>)
<1>1. /\ editor = [shown |-> <<>>, paged |-> FALSE, loading |-> FALSE,
                   selected |-> FALSE, preview |-> None, history |-> h]
      /\ rebinds \in BOOLEAN /\ source = <<>> /\ readOnly = FALSE
      /\ mark = None /\ slipped = FALSE /\ inputs = 0
  BY DEF Init
<1>2. <<>> \in Texts /\ Len(<<>>) = 0 /\ PagedAbove \in Nat /\ MaxInputs \in Nat
  BY NoText, EditorBounds
<1>3. h.text = <<>> /\ h.undo = <<>> /\ h.redo = <<>> /\ h \in Histories
  BY <1>2 DEF Fresh, Histories, Texts
<1> HIDE DEF h
<1>4. Chained(h)
  BY <1>3, NothingStacked DEF Chained
<1>5. /\ editor.shown = <<>> /\ editor.paged = FALSE /\ editor.loading = FALSE
      /\ editor.selected = FALSE /\ editor.preview = None /\ editor.history = h
      /\ editor \in Editors
  BY <1>1, <1>2, <1>3 DEF Editors, Texts
<1>6. Sound(editor)
  BY <1>4, <1>5 DEF Sound
<1>7. Shows(editor) /\ Fits(editor)
  BY <1>2, <1>3, <1>5 DEF Shows, Fits
<1>8. Agrees(editor, rebinds, source, readOnly, slipped)
  BY <1>1, <1>2, <1>3, <1>5, <1>6, <1>7 DEF Agrees
<1>9. Placed(mark, editor, source, slipped)
  BY <1>1 DEF Placed
<1>10. readOnly \in BOOLEAN /\ slipped \in BOOLEAN /\ inputs \in 0 .. MaxInputs
  <2>1. readOnly \in BOOLEAN /\ slipped \in BOOLEAN
    BY <1>1
  <2>2. inputs = 0
    BY <1>1
  <2> QED BY <1>2, <2>1, <2>2
<1> QED BY <1>1, <1>8, <1>9, <1>10 DEF IInv

LEMMA NextKeeps ==
    ASSUME IInv, Next
    PROVE  Keeps
<1>1. ASSUME TypeAny PROVE Keeps
  <2>1. PICK from \in 0 .. Len(editor.shown), to \in 0 .. Len(editor.shown),
             s \in TextsUpTo(MaxInsert) : from <= to /\ Type(from, to, s)
    BY <1>1 DEF TypeAny
  <2>2. Len(editor.shown) \in Nat /\ editor.loading \in BOOLEAN
    BY EditorMade, TextLength DEF IInv, Agrees, Sound
  <2>3. to \in from .. Len(editor.shown)
    BY <2>1, <2>2
  <2>4. s \in Texts
    BY TextsTyped, EditorBounds
  <2>5. Type(from, to, s)
    BY <2>1
  <2> QED BY <2>3, <2>4, <2>5, TypeUnreported, TypeReported
<1>2. ASSUME NEW t \in Documents, ReplaceDocument(t) \/ Load(t) \/ ShowExtract(t)
      PROVE  Keeps
  <2>1. t \in Texts
    BY TextsTyped
  <2> QED BY <1>2, <2>1, ReplaceKeeps, LoadKeeps, ExtractKeeps
<1>3. ASSUME NEW delta \in {-1, 1}, StepPage(delta) PROVE Keeps
  BY <1>3, StepKeeps
<1>4. ASSUME NEW line \in 1 .. 1 + Lines(Full(editor)), JumpToLine(line) PROVE Keeps
  BY <1>4, LineKeeps
<1>5. ASSUME NEW unit \in 0 .. Units(Full(editor)), JumpToUnit(unit) PROVE Keeps
  BY <1>5, UnitKeeps
<1> QED BY <1>1, <1>2, <1>3, <1>4, <1>5, ClearKeeps, UndoKeeps, RedoKeeps, SaveKeeps,
           SettleKeeps, BreakKeeps, CaretKeeps, SelectKeeps DEF Next

(* What no copy of the document takes part in. *)
LEMMA NextTyped ==
    ASSUME IInv, Next
    PROVE  /\ rebinds' \in BOOLEAN /\ readOnly' \in BOOLEAN /\ slipped' \in BOOLEAN
           /\ inputs' \in 0 .. MaxInputs
<1>1. /\ rebinds \in BOOLEAN /\ readOnly \in BOOLEAN /\ slipped \in BOOLEAN
      /\ inputs \in 0 .. MaxInputs
  BY DEF IInv
<1>2. Input => inputs' \in 0 .. MaxInputs
  BY <1>1, EditorBounds DEF Input
<1> USE <1>1, <1>2
<1>3. ASSUME TypeAny
      PROVE  rebinds' = rebinds /\ readOnly' = readOnly /\ slipped' \in BOOLEAN /\ Input
  BY <1>3 DEF TypeAny, Type, Edited
<1>4. ASSUME NEW t \in Documents, ReplaceDocument(t) \/ Load(t) \/ ShowExtract(t)
      PROVE  rebinds' = rebinds /\ readOnly' \in BOOLEAN /\ slipped' \in BOOLEAN /\ Input
  BY <1>4 DEF ReplaceDocument, Load, ShowExtract, Edited
<1>5. ASSUME ClearPage \/ UndoDocument \/ RedoDocument \/ SaveDraft
      PROVE  rebinds' = rebinds /\ readOnly' = readOnly /\ slipped' \in BOOLEAN /\ Input
  BY <1>5 DEF ClearPage, UndoDocument, RedoDocument, Stepped, SaveDraft, Edited
<1>6. ASSUME Settle \/ BreakGroup \/ MoveCaret
      PROVE  UNCHANGED <<rebinds, readOnly, slipped, inputs>>
  BY <1>6 DEF Settle, BreakGroup, MoveCaret
<1>7. ASSUME SelectAll \/ (\E delta \in {-1, 1} : StepPage(delta))
      PROVE  rebinds' = rebinds /\ readOnly' = readOnly /\ slipped' \in BOOLEAN /\ Input
  BY <1>7 DEF SelectAll, StepPage
<1>8. ASSUME NEW e, NEW at, NEW want, Jump(e, at, want)
      PROVE  rebinds' = rebinds /\ readOnly' = readOnly /\ slipped' \in BOOLEAN /\ Input
  BY <1>8 DEF Jump
<1>9. ASSUME NEW line, JumpToLine(line)
      PROVE  rebinds' = rebinds /\ readOnly' = readOnly /\ slipped' \in BOOLEAN /\ Input
  BY <1>8, <1>9 DEF JumpToLine
<1>10. ASSUME NEW unit, JumpToUnit(unit)
       PROVE  rebinds' = rebinds /\ readOnly' = readOnly /\ slipped' \in BOOLEAN /\ Input
  BY <1>8, <1>10 DEF JumpToUnit
<1> QED BY <1>3, <1>4, <1>5, <1>6, <1>7, <1>9, <1>10 DEF Next

LEMMA StepInv ==
    ASSUME IInv, [Next]_vars
    PROVE  IInv' /\ (Moves(editor.history, editor'.history) \/ UNCHANGED editor)
<1>1. CASE Next
  <2>1. Keeps
    BY <1>1, NextKeeps
  <2>2. /\ rebinds' \in BOOLEAN /\ readOnly' \in BOOLEAN /\ slipped' \in BOOLEAN
        /\ inputs' \in 0 .. MaxInputs
    BY <1>1, NextTyped
  <2>3. IInv'
    BY <2>1, <2>2 DEF Keeps, IInv
  <2> QED BY <2>1, <2>3 DEF Keeps
<1>2. CASE UNCHANGED vars
  BY <1>2 DEF vars, IInv, Agrees, Placed, Sound, Shows, Fits, Full, PageStart
<1> QED BY <1>1, <1>2

LEMMA InvHolds == Spec => []IInv
<1>1. Init => IInv
  BY InitInv
<1>2. IInv /\ [Next]_vars => IInv'
  BY StepInv
<1> QED BY <1>1, <1>2, PTL DEF Spec

----------------------------------------------------------------------------
(* The properties *)

(* The state keeps its types. *)
THEOREM TypesHold == Spec => []TypeOK
<1>1. IInv => TypeOK
  <2> SUFFICES ASSUME IInv PROVE TypeOK
    OBVIOUS
  <2>1. editor \in Editors /\ source \in Seq(Symbols)
    BY DEF IInv, Agrees, Sound, Texts
  <2>2. mark \in Marks \cup {None}
    BY DEF IInv, Placed, Marks, Texts
  <2> QED BY <2>1, <2>2 DEF IInv, TypeOK
<1> QED BY <1>1, InvHolds, PTL

(* The copies of the document in the page table, the history, the area, the *)
(* paging mark and the controller stay in step, for texts of every length.  *)
THEOREM CopiesInStep == Spec => []CopiesAgree
<1>1. IInv => CopiesAgree
  <2> SUFFICES ASSUME IInv PROVE CopiesAgree
    OBVIOUS
  <2>1. /\ Sound(editor) /\ (~ readOnly => source = editor.history.text)
        /\ slipped \/ Shows(editor)
        /\ rebinds => Fits(editor)
    BY DEF IInv, Agrees
  <2> QED BY <2>1 DEF CopiesAgree, Sound, Shows, Fits
<1> QED BY <1>1, InvHolds, PTL

(* The pages tile the document and know the line they begin in, after any   *)
(* edits on any pages.                                                      *)
THEOREM PagesInOrder == Spec => []PagesTile
<1>1. IInv => PagesTile
  <2> SUFFICES ASSUME IInv, editor.preview # None PROVE PagesTile
    BY DEF PagesTile
  <2>1. Tiled(editor.preview)
    BY DEF IInv, Agrees, Sound
  <2>2. editor.preview.page \in DOMAIN editor.preview.ranges
    BY <2>1 DEF Tiled, Table
  <2> QED BY <2>1, <2>2 DEF PagesTile, Tiled, Table
<1> QED BY <1>1, InvHolds, PTL

(* Jumps, undo and redo put the caret on the page shown, at the place of    *)
(* the document that was wanted.                                            *)
THEOREM MarksHold == Spec => []MarkHolds
<1>1. IInv => MarkHolds
  <2> SUFFICES ASSUME IInv, mark # None, "at" \in DOMAIN mark
               PROVE  /\ mark.at \in 0 .. Units(editor.shown)
                      /\ slipped \/ Units(Part(Full(editor), 0, PageStart(editor))) + mark.at
                                        = mark.want
    BY DEF MarkHolds
  <2>1. mark \notin [text : Texts]
    OBVIOUS
  <2> QED BY <2>1 DEF IInv, Placed
<1> QED BY <1>1, InvHolds, PTL

(* What is typed on a page changes its place of the document and no other. *)
THEOREM EditsAreLocal == Spec => []EditIsLocal
<1>1. IInv => EditIsLocal
  <2> SUFFICES ASSUME IInv, mark # None, "text" \in DOMAIN mark PROVE source = mark.text
    BY DEF EditIsLocal
  <2>1. mark \notin [at : Int, want : Int]
    OBVIOUS
  <2> QED BY <2>1 DEF IInv, Placed
<1> QED BY <1>1, InvHolds, PTL

----------------------------------------------------------------------------
(* PlainEditor *)

(* Going back through the undo entries gives the texts they lead from. *)
LEMMA UndoTextsAre ==
    ASSUME NEW h \in Histories, NEW past, Undoes(h, past)
    PROVE  UndoTexts(h) = past
<1> DEFINE n == Len(h.undo)
           Body(f, k) == IF k > n THEN h.text ELSE Undone(f[k + 1], h.undo[k])
           b == CHOOSE f : f = [k \in 1 .. n + 1 |-> Body(f, k)]
           A(k) == IF k > n THEN h.text ELSE past[k]
           S == {j \in Nat : j <= n => b[n + 1 - j] = A(n + 1 - j)}
<1>1. /\ n \in Nat /\ past \in Seq(Texts) /\ Len(past) = n
      /\ \A k \in 1 .. n : Leads(past[k], h.undo[k], Above(past, k, h.text))
  BY HistoryTypes, LenProperties DEF Undoes
<1>2. ASSUME NEW k \in 1 .. n PROVE A(k) = past[k] /\ A(k) = Undone(A(k + 1), h.undo[k])
  <2>1. Undone(Above(past, k, h.text), h.undo[k]) = past[k]
    BY <1>1, LeadsBack
  <2>2. k + 1 > n <=> k = Len(past)
    BY <1>1
  <2>3. Above(past, k, h.text) = A(k + 1)
    BY <2>2 DEF Above
  <2>4. ~ (k > n)
    BY <1>1
  <2> QED BY <2>1, <2>3, <2>4
<1>3. UndoTexts(h) = [k \in 1 .. n |-> b[k]]
  BY DEF UndoTexts
<1> HIDE DEF n
<1>4. \E f : f = [k \in 1 .. n + 1 |-> Body(f, k)]
  <2> DEFINE f == [k \in 1 .. n + 1 |-> A(k)]
  <2>1. ASSUME NEW k \in 1 .. n + 1 PROVE A(k) = Body(f, k)
    <3>1. CASE k > n
      BY <3>1
    <3>2. CASE ~ (k > n)
      <4>1. k \in 1 .. n /\ k + 1 \in 1 .. n + 1
        BY <1>1, <3>2
      <4>2. f[k + 1] = A(k + 1)
        BY <4>1
      <4> HIDE DEF f
      <4>3. A(k) = Undone(A(k + 1), h.undo[k])
        BY <1>2, <4>1
      <4> QED BY <3>2, <4>2, <4>3
    <3> QED BY <3>1, <3>2
  <2> HIDE DEF A, Body
  <2>2. f = [k \in 1 .. n + 1 |-> Body(f, k)]
    BY <2>1
  <2> QED BY <2>2
<1>5. b = [k \in 1 .. n + 1 |-> Body(b, k)]
  BY <1>4
<1> HIDE DEF b
<1>6. 0 \in S
  <2>1. n + 1 \in 1 .. n + 1 /\ n + 1 > n /\ n + 1 - 0 = n + 1
    BY <1>1
  <2>2. b[n + 1] = Body(b, n + 1)
    <3> HIDE DEF Body
    <3> QED BY <1>5, <2>1
  <2> QED BY <2>1, <2>2
<1>7. ASSUME NEW j \in S \cap Nat PROVE j + 1 \in S
  <2> SUFFICES ASSUME j + 1 <= n PROVE b[n + 1 - (j + 1)] = A(n + 1 - (j + 1))
    OBVIOUS
  <2> DEFINE k == n - j
  <2>1. /\ k \in 1 .. n /\ k \in 1 .. n + 1 /\ ~ (k > n)
        /\ n + 1 - (j + 1) = k /\ n + 1 - j = k + 1
    BY <1>1
  <2>2. b[k + 1] = A(k + 1)
    <3>1. b[n + 1 - j] = A(n + 1 - j)
      BY <1>1
    <3> HIDE DEF A
    <3> QED BY <2>1, <3>1
  <2> HIDE DEF k
  <2>3. b[k] = Body(b, k)
    <3> HIDE DEF Body
    <3> QED BY <1>5, <2>1
  <2>4. b[k] = Undone(b[k + 1], h.undo[k])
    BY <2>1, <2>3
  <2>5. A(k) = Undone(A(k + 1), h.undo[k])
    BY <1>2, <2>1
  <2> QED BY <2>1, <2>2, <2>4, <2>5
<1>8. Nat \subseteq S
  <2> HIDE DEF S
  <2> QED BY <1>6, <1>7, Induction
<1>9. ASSUME NEW k \in 1 .. n PROVE b[k] = past[k]
  <2> DEFINE j == n + 1 - k
  <2>1. j \in Nat /\ j <= n /\ n + 1 - j = k
    BY <1>1
  <2>2. j \in S
    BY <1>8, <2>1
  <2>3. b[n + 1 - j] = A(n + 1 - j)
    BY <2>1, <2>2
  <2> HIDE DEF j
  <2>4. b[k] = A(k)
    BY <2>1, <2>3
  <2> QED BY <1>2, <2>4
<1>10. past = [k \in 1 .. n |-> past[k]]
  BY <1>1
<1> QED BY <1>3, <1>9, <1>10

LEMMA RedoTextsAre ==
    ASSUME NEW h \in Histories, NEW future, Redoes(h, future)
    PROVE  RedoTexts(h) = future
<1> DEFINE n == Len(h.redo)
           Body(f, k) == IF k > n THEN h.text ELSE Redone(f[k + 1], h.redo[k])
           b == CHOOSE f : f = [k \in 1 .. n + 1 |-> Body(f, k)]
           A(k) == IF k > n THEN h.text ELSE future[k]
           S == {j \in Nat : j <= n => b[n + 1 - j] = A(n + 1 - j)}
<1>1. /\ n \in Nat /\ future \in Seq(Texts) /\ Len(future) = n
      /\ \A k \in 1 .. n : Leads(Above(future, k, h.text), h.redo[k], future[k])
  BY HistoryTypes, LenProperties DEF Redoes
<1>2. ASSUME NEW k \in 1 .. n PROVE A(k) = future[k] /\ A(k) = Redone(A(k + 1), h.redo[k])
  <2>1. Redone(Above(future, k, h.text), h.redo[k]) = future[k]
    BY <1>1 DEF Leads
  <2>2. k + 1 > n <=> k = Len(future)
    BY <1>1
  <2>3. Above(future, k, h.text) = A(k + 1)
    BY <2>2 DEF Above
  <2>4. ~ (k > n)
    BY <1>1
  <2> QED BY <2>1, <2>3, <2>4
<1>3. RedoTexts(h) = [k \in 1 .. n |-> b[k]]
  BY DEF RedoTexts
<1> HIDE DEF n
<1>4. \E f : f = [k \in 1 .. n + 1 |-> Body(f, k)]
  <2> DEFINE f == [k \in 1 .. n + 1 |-> A(k)]
  <2>1. ASSUME NEW k \in 1 .. n + 1 PROVE A(k) = Body(f, k)
    <3>1. CASE k > n
      BY <3>1
    <3>2. CASE ~ (k > n)
      <4>1. k \in 1 .. n /\ k + 1 \in 1 .. n + 1
        BY <1>1, <3>2
      <4>2. f[k + 1] = A(k + 1)
        BY <4>1
      <4> HIDE DEF f
      <4>3. A(k) = Redone(A(k + 1), h.redo[k])
        BY <1>2, <4>1
      <4> QED BY <3>2, <4>2, <4>3
    <3> QED BY <3>1, <3>2
  <2> HIDE DEF A, Body
  <2>2. f = [k \in 1 .. n + 1 |-> Body(f, k)]
    BY <2>1
  <2> QED BY <2>2
<1>5. b = [k \in 1 .. n + 1 |-> Body(b, k)]
  BY <1>4
<1> HIDE DEF b
<1>6. 0 \in S
  <2>1. n + 1 \in 1 .. n + 1 /\ n + 1 > n /\ n + 1 - 0 = n + 1
    BY <1>1
  <2>2. b[n + 1] = Body(b, n + 1)
    <3> HIDE DEF Body
    <3> QED BY <1>5, <2>1
  <2> QED BY <2>1, <2>2
<1>7. ASSUME NEW j \in S \cap Nat PROVE j + 1 \in S
  <2> SUFFICES ASSUME j + 1 <= n PROVE b[n + 1 - (j + 1)] = A(n + 1 - (j + 1))
    OBVIOUS
  <2> DEFINE k == n - j
  <2>1. /\ k \in 1 .. n /\ k \in 1 .. n + 1 /\ ~ (k > n)
        /\ n + 1 - (j + 1) = k /\ n + 1 - j = k + 1
    BY <1>1
  <2>2. b[k + 1] = A(k + 1)
    <3>1. b[n + 1 - j] = A(n + 1 - j)
      BY <1>1
    <3> HIDE DEF A
    <3> QED BY <2>1, <3>1
  <2> HIDE DEF k
  <2>3. b[k] = Body(b, k)
    <3> HIDE DEF Body
    <3> QED BY <1>5, <2>1
  <2>4. b[k] = Redone(b[k + 1], h.redo[k])
    BY <2>1, <2>3
  <2>5. A(k) = Redone(A(k + 1), h.redo[k])
    BY <1>2, <2>1
  <2> QED BY <2>1, <2>2, <2>4, <2>5
<1>8. Nat \subseteq S
  <2> HIDE DEF S
  <2> QED BY <1>6, <1>7, Induction
<1>9. ASSUME NEW k \in 1 .. n PROVE b[k] = future[k]
  <2> DEFINE j == n + 1 - k
  <2>1. j \in Nat /\ j <= n /\ n + 1 - j = k
    BY <1>1
  <2>2. j \in S
    BY <1>8, <2>1
  <2>3. b[n + 1 - j] = A(n + 1 - j)
    BY <2>1, <2>2
  <2> HIDE DEF j
  <2>4. b[k] = A(k)
    BY <2>1, <2>3
  <2> QED BY <1>2, <2>4
<1>10. future = [k \in 1 .. n |-> future[k]]
  BY <1>1
<1> QED BY <1>3, <1>9, <1>10

(* A step of the history is one of the plain editor. *)
LEMMA StepsPlainly ==
    ASSUME NEW h, Chained(h), NEW g, Moves(h, g)
    PROVE  /\ g.text \in Seq(Symbols)
           /\ PlainStep(h.text, UndoTexts(h), RedoTexts(h),
                        g.text, UndoTexts(g), RedoTexts(g))
<1>1. h \in Histories
  BY DEF Chained
<1>2. PICK past : Undoes(h, past)
  BY DEF Chained
<1>3. PICK future : Redoes(h, future)
  BY DEF Chained
<1>4. g \in Histories /\ \E p, f : Goes(h, past, future, g, p, f)
  BY <1>1, <1>2, <1>3, MovesPlainly
<1>5. PICK p, f : Goes(h, past, future, g, p, f)
  BY <1>4
<1>6. Undoes(g, p) /\ Redoes(g, f) /\ PlainStep(h.text, past, future, g.text, p, f)
  BY <1>5 DEF Goes
<1>7. /\ UndoTexts(h) = past /\ RedoTexts(h) = future
      /\ UndoTexts(g) = p /\ RedoTexts(g) = f
  BY <1>1, <1>2, <1>3, <1>4, <1>6, UndoTextsAre, RedoTextsAre
<1>8. g.text \in Seq(Symbols)
  BY <1>4, HistoryTypes DEF Texts
<1> QED BY <1>6, <1>7, <1>8

(* Undo, redo, the merging of keys into one entry and the compact entries   *)
(* implement an editor that keeps every text whole.                         *)
THEOREM RefinesPlainEditor == Spec => ImplementsPlainEditor
<1>1. Init => Plain!Init
  <2> SUFFICES ASSUME Init PROVE Plain!Init
    OBVIOUS
  <2>1. editor.history = Fresh(<<>>)
    BY DEF Init
  <2> DEFINE h == Fresh(<<>>)
  <2>2. h.text = <<>> /\ h.undo = <<>> /\ h.redo = <<>> /\ h \in Histories /\ <<>> \in Texts
    BY NoText DEF Fresh, Histories, Texts
  <2> HIDE DEF h
  <2>3. UndoTexts(h) = <<>> /\ RedoTexts(h) = <<>>
    BY <2>2, NothingStacked, UndoTextsAre, RedoTextsAre
  <2> QED BY <2>1, <2>2, <2>3 DEF Plain!Init, h, Texts
<1>2. IInv /\ [Next]_vars => [Plain!Next]_<<editor.history.text, UndoTexts(editor.history),
                                           RedoTexts(editor.history)>>
  <2> SUFFICES ASSUME IInv, [Next]_vars
               PROVE  [Plain!Next]_<<editor.history.text, UndoTexts(editor.history),
                                     RedoTexts(editor.history)>>
    OBVIOUS
  <2>1. CASE Moves(editor.history, editor'.history)
    <3> DEFINE h == editor.history g == editor'.history
    <3>1. Chained(h)
      BY DEF IInv, Agrees, Sound
    <3>2. /\ g.text \in Seq(Symbols)
          /\ PlainStep(h.text, UndoTexts(h), RedoTexts(h),
                       g.text, UndoTexts(g), RedoTexts(g))
      BY <2>1, <3>1, StepsPlainly
    <3> QED BY <3>2 DEF PlainStep, Plain!Next, Plain!Open, Plain!Edit, Plain!Undo, Plain!Redo,
                        Plain!Last, Plain!Front, Last, Front
  <2>2. CASE UNCHANGED editor
    BY <2>2
  <2> QED BY <2>1, <2>2, StepInv
<1> QED BY <1>1, <1>2, InvHolds, PTL DEF Spec, ImplementsPlainEditor, Plain!Spec
=============================================================================
