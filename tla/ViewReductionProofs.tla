------------------------ MODULE ViewReductionProofs ------------------------
(***************************************************************************)
(* Proofs about ViewReduction, for every text and every set of commands a  *)
(* plugin knows: the view index gives each line one place, the reduction   *)
(* drops lines whole or keeps them, no line is both in force and           *)
(* superseded, and one line more brings no superseded line back.           *)
(***************************************************************************)
EXTENDS ViewReduction, FiniteSetTheorems, SequenceTheorems, WellFoundedInduction, TLAPS

----------------------------------------------------------------------------
(* Folds *)

(* A set of naturals has a least element. *)
LEMMA LeastExists ==
    ASSUME NEW T \in SUBSET Nat, T # {}
    PROVE  \E x \in T : \A y \in T : x <= y
<1> DEFINE R == OpToRel(<, Nat)
<1>1. IsWellFoundedOn(R, Nat)
  BY Zenon, NatLessThanWellFounded
<1>2. \A x, y \in Nat : x < y => <<x, y>> \in R
  BY DEF OpToRel
<1> HIDE DEF R
<1>3. PICK x \in T : \A y \in T : ~ (<<y, x>> \in R)
  BY <1>1, WFMin
<1>4. ASSUME NEW y \in T PROVE x <= y
  <2>1. x \in Nat /\ y \in Nat /\ ~ (y < x)
    BY <1>2, <1>3
  <2> QED BY <2>1
<1> QED BY <1>4

(* Induction, for the members of a set. *)
LEMMA Induction ==
    ASSUME NEW S, 0 \in S, \A n \in S \cap Nat : n + 1 \in S
    PROVE  Nat \subseteq S
<1> DEFINE T == Nat \ S
<1>1. ASSUME T # {} PROVE FALSE
  <2>1. PICK x \in T : \A y \in T : x <= y
    BY <1>1, LeastExists
  <2>2. x # 0 /\ x \in Nat
    OBVIOUS
  <2>3. x - 1 \in Nat /\ ~ (x <= x - 1) /\ (x - 1) + 1 = x
    BY <2>2
  <2>4. x - 1 \in S
    BY <2>1, <2>3
  <2> QED BY <2>2, <2>3, <2>4
<1> QED BY <1>1

(* The greatest member of a set, where there is one. *)
LEMMA MaxIs ==
    ASSUME NEW s \in SUBSET Int, NEW m \in s, \A x \in s : x <= m
    PROVE  Max(s) = m
<1> DEFINE x == Max(s)
<1>1. \E y \in s : \A z \in s : y >= z
  OBVIOUS
<1>2. x \in s /\ \A y \in s : x >= y
  BY <1>1, Zenon DEF Max
<1>3. x \in Int /\ m \in Int /\ x >= m /\ x <= m
  BY <1>2
<1> HIDE DEF x
<1>4. x = m
  BY <1>3
<1> QED BY <1>4 DEF x

(* A set of numbers up to n has a greatest one. *)
LEMMA MaxOf ==
    ASSUME NEW n \in Nat, NEW s \in SUBSET (1 .. n), s # {}
    PROVE  Max(s) \in s /\ \A x \in s : x <= Max(s)
<1> DEFINE T == {n - x : x \in s}
<1>0. ASSUME NEW x \in s PROVE n - x \in Nat
  OBVIOUS
<1>1. T \in SUBSET Nat /\ T # {}
  BY <1>0
<1>2. PICK t \in T : \A y \in T : t <= y
  BY <1>1, LeastExists
<1>3. PICK m \in s : t = n - m
  BY <1>2
<1>4. ASSUME NEW x \in s PROVE x <= m
  <2>1. n - m <= n - x
    BY <1>2, <1>3
  <2>2. m \in 1 .. n /\ x \in 1 .. n
    OBVIOUS
  <2> QED BY <2>1, <2>2
<1>5. s \in SUBSET Int
  OBVIOUS
<1>6. Max(s) = m
  BY <1>4, <1>5, MaxIs
<1> QED BY <1>4, <1>6

(* Without its greatest member, a set of numbers up to n + 1 is one up to n. *)
LEMMA MaxWithin ==
    ASSUME NEW n \in Nat, NEW s \in SUBSET (1 .. n + 1), s # {}
    PROVE  s \ {Max(s)} \in SUBSET (1 .. n) /\ s \ {Max(s)} \in SUBSET (1 .. n + 1)
<1> DEFINE m == Max(s)
<1>1. m \in s /\ \A x \in s : x <= m
  <2>1. n + 1 \in Nat
    OBVIOUS
  <2> QED BY <2>1, MaxOf, Zenon
<1> HIDE DEF m
<1>2. ASSUME NEW x \in s, x # m PROVE x \in 1 .. n
  <2>1. x \in 1 .. n + 1 /\ m \in 1 .. n + 1 /\ x <= m
    BY <1>1
  <2> QED BY <1>2, <2>1
<1>3. s \ {m} \in SUBSET (1 .. n)
  BY <1>2
<1> QED BY <1>3 DEF m

(* A run of the fold over the sets of its first indices. *)
KeepRuns(it, D, kept, base, seq) ==
  it = [s \in SUBSET D |-> IF s = {} THEN base ELSE (IF seq[Max(s)] \in kept THEN Append(it[s \ {Max(s)}], seq[Max(s)]) ELSE it[s \ {Max(s)}])]

(* What the fold yields. *)
KeepFolded(kept, base, seq) == FoldLeft(LAMBDA r, x : IF x \in kept THEN Append(r, x) ELSE r, base, seq)

(* The recursion that a fold of the kept elements unfolds to has a solution. *)
LEMMA KeepSolved ==
    ASSUME NEW kept, NEW base, NEW seq, NEW n \in Nat, NEW D, D = 1 .. n
    PROVE  \E it : KeepRuns(it, D, kept, base, seq)
<1> DEFINE Solves(it, m) == it = [s \in SUBSET (1 .. m) |->
                              IF s = {} THEN base ELSE (IF seq[Max(s)] \in kept THEN Append(it[s \ {Max(s)}], seq[Max(s)]) ELSE it[s \ {Max(s)}])]
           S == {m \in Nat : \E it : Solves(it, m)}
<1>1. 0 \in S
  <2> DEFINE it == [s \in SUBSET (1 .. 0) |-> base]
  <2>1. \A s \in SUBSET (1 .. 0) : s = {}
    OBVIOUS
  <2>2. Solves(it, 0)
    BY <2>1, Zenon
  <2> QED BY <2>2
<1>2. ASSUME NEW m \in S \cap Nat PROVE m + 1 \in S
  <2>1. PICK it : Solves(it, m)
    BY <1>2
  <2> DEFINE jt == [s \in SUBSET (1 .. m + 1) |->
                      IF s = {} THEN base ELSE (IF seq[Max(s)] \in kept THEN Append(it[s \ {Max(s)}], seq[Max(s)]) ELSE it[s \ {Max(s)}])]
  <2>2. ASSUME NEW s \in SUBSET (1 .. m + 1), s # {} PROVE jt[s \ {Max(s)}] = it[s \ {Max(s)}]
    <3> DEFINE r == s \ {Max(s)}
    <3>1. r \in SUBSET (1 .. m) /\ r \in SUBSET (1 .. m + 1)
      BY <2>2, MaxWithin
    <3>2. it[r] = IF r = {} THEN base ELSE (IF seq[Max(r)] \in kept THEN Append(it[r \ {Max(r)}], seq[Max(r)]) ELSE it[r \ {Max(r)}])
      <4> HIDE DEF r
      <4> QED BY <2>1, <3>1, Zenon
    <3>3. jt[r] = IF r = {} THEN base ELSE (IF seq[Max(r)] \in kept THEN Append(it[r \ {Max(r)}], seq[Max(r)]) ELSE it[r \ {Max(r)}])
      <4> HIDE DEF r
      <4> QED BY <3>1, Zenon
    <3> QED BY <3>2, <3>3, Zenon
  <2>3. Solves(jt, m + 1)
    <3> DEFINE F(s) == IF s = {} THEN base ELSE (IF seq[Max(s)] \in kept THEN Append(jt[s \ {Max(s)}], seq[Max(s)]) ELSE jt[s \ {Max(s)}])
               G(s) == IF s = {} THEN base ELSE (IF seq[Max(s)] \in kept THEN Append(it[s \ {Max(s)}], seq[Max(s)]) ELSE it[s \ {Max(s)}])
    <3>1. \A s \in SUBSET (1 .. m + 1) : F(s) = G(s)
      <4> HIDE DEF jt
      <4> QED BY <2>2, Zenon
    <3>2. [s \in SUBSET (1 .. m + 1) |-> G(s)] = [s \in SUBSET (1 .. m + 1) |-> F(s)]
      <4> HIDE DEF F, G
      <4> QED BY <3>1, Zenon
    <3>3. jt = [s \in SUBSET (1 .. m + 1) |-> G(s)]
      BY Zenon
    <3>4. jt = [s \in SUBSET (1 .. m + 1) |-> F(s)]
      <4> HIDE DEF F, G, jt
      <4> QED BY <3>2, <3>3, Zenon
    <3> QED BY <3>4, Zenon
  <2> QED
    <3> HIDE DEF jt, Solves
    <3> QED BY <1>2, <2>3
<1> HIDE DEF S
<1>3. n \in S
  BY <1>1, <1>2, Induction
<1>4. \E it : Solves(it, n)
  <2> HIDE DEF Solves
  <2> QED BY <1>3, Zenon DEF S
<1> QED BY <1>4, Zenon DEF KeepRuns

(* A fold of the kept elements takes the elements one at a time, from the first on. *)
LEMMA KeepFold ==
    ASSUME NEW kept, NEW base, NEW seq, NEW n \in Nat, DOMAIN seq = 1 .. n
    PROVE  \E g : /\ g[0] = base
                  /\ \A k \in 1 .. n : g[k] = (IF seq[k] \in kept THEN Append(g[k - 1], seq[k]) ELSE g[k - 1])
                  /\ KeepFolded(kept, base, seq) = g[n]
<1> DEFINE F(it) == [s \in SUBSET (DOMAIN seq) |-> IF s = {} THEN base ELSE (IF seq[Max(s)] \in kept THEN Append(it[s \ {Max(s)}], seq[Max(s)]) ELSE it[s \ {Max(s)}])]
           it == CHOOSE it : it = F(it)
           g == [k \in 0 .. n |-> it[1 .. k]]
<1>1. it = F(it)
  <2>1. \E i : i = F(i)
    <3> DEFINE D == DOMAIN seq
    <3>1. D = 1 .. n
      OBVIOUS
    <3> HIDE DEF D
    <3>2. \E i : KeepRuns(i, D, kept, base, seq)
      BY <3>1, KeepSolved
    <3> QED BY <3>2, Zenon DEF D, KeepRuns
  <2> HIDE DEF F
  <2> QED BY <2>1, Zenon
<1>2. KeepFolded(kept, base, seq) = it[DOMAIN seq]
  BY Zenon DEF KeepFolded, FoldLeft, MapThenFoldSet
<1> HIDE DEF it
<1>3. g[0] = base
  <2>1. 1 .. 0 = {} /\ 1 .. 0 \in SUBSET (DOMAIN seq)
    OBVIOUS
  <2>2. it[1 .. 0] = base
    BY <1>1, <2>1, Zenon
  <2> QED BY <2>2
<1>4. ASSUME NEW k \in 1 .. n PROVE g[k] = (IF seq[k] \in kept THEN Append(g[k - 1], seq[k]) ELSE g[k - 1])
  <2> DEFINE s == 1 .. k
  <2>1. s # {} /\ s \in SUBSET (DOMAIN seq) /\ k - 1 \in 0 .. n /\ k \in 0 .. n
    <3>1. k \in s /\ s \in SUBSET (1 .. n)
      OBVIOUS
    <3>2. k - 1 \in 0 .. n /\ k \in 0 .. n
      OBVIOUS
    <3> HIDE DEF s
    <3> QED BY <3>1, <3>2
  <2>2. s \ {k} = 1 .. k - 1
    OBVIOUS
  <2>3. Max(s) = k
    <3>1. s \in SUBSET Int /\ k \in s /\ \A x \in s : x <= k
      OBVIOUS
    <3> HIDE DEF s
    <3> QED BY <3>1, MaxIs, Zenon
  <2>4. it[s] = (IF seq[Max(s)] \in kept THEN Append(it[s \ {Max(s)}], seq[Max(s)]) ELSE it[s \ {Max(s)}])
    <3> HIDE DEF s
    <3> QED BY <1>1, <2>1, Zenon
  <2>5. it[s] = (IF seq[k] \in kept THEN Append(it[1 .. k - 1], seq[k]) ELSE it[1 .. k - 1])
    <3> HIDE DEF s
    <3> QED BY <2>2, <2>3, <2>4, Zenon
  <2>6. g[k] = it[s] /\ g[k - 1] = it[1 .. k - 1]
    BY <2>1
  <2> QED BY <2>5, <2>6, Zenon
<1>5. g[n] = it[DOMAIN seq]
  OBVIOUS
<1> HIDE DEF g
<1> QED BY <1>2, <1>3, <1>4, <1>5, Zenon

(* A run of the fold over the sets of its first indices. *)
ReadRuns(it, D, base, seq) ==
  it = [s \in SUBSET D |-> IF s = {} THEN base ELSE Read(it[s \ {Max(s)}], seq[Max(s)])]

(* What the fold yields. *)
ReadFolded(base, seq) == FoldLeft(Read, base, seq)

(* The recursion that a fold of Read unfolds to has a solution. *)
LEMMA ReadSolved ==
    ASSUME NEW base, NEW seq, NEW n \in Nat, NEW D, D = 1 .. n
    PROVE  \E it : ReadRuns(it, D, base, seq)
<1> DEFINE Solves(it, m) == it = [s \in SUBSET (1 .. m) |->
                              IF s = {} THEN base ELSE Read(it[s \ {Max(s)}], seq[Max(s)])]
           S == {m \in Nat : \E it : Solves(it, m)}
<1>1. 0 \in S
  <2> DEFINE it == [s \in SUBSET (1 .. 0) |-> base]
  <2>1. \A s \in SUBSET (1 .. 0) : s = {}
    OBVIOUS
  <2>2. Solves(it, 0)
    BY <2>1, Zenon
  <2> QED BY <2>2
<1>2. ASSUME NEW m \in S \cap Nat PROVE m + 1 \in S
  <2>1. PICK it : Solves(it, m)
    BY <1>2
  <2> DEFINE jt == [s \in SUBSET (1 .. m + 1) |->
                      IF s = {} THEN base ELSE Read(it[s \ {Max(s)}], seq[Max(s)])]
  <2>2. ASSUME NEW s \in SUBSET (1 .. m + 1), s # {} PROVE jt[s \ {Max(s)}] = it[s \ {Max(s)}]
    <3> DEFINE r == s \ {Max(s)}
    <3>1. r \in SUBSET (1 .. m) /\ r \in SUBSET (1 .. m + 1)
      BY <2>2, MaxWithin
    <3>2. it[r] = IF r = {} THEN base ELSE Read(it[r \ {Max(r)}], seq[Max(r)])
      <4> HIDE DEF r
      <4> QED BY <2>1, <3>1, Zenon
    <3>3. jt[r] = IF r = {} THEN base ELSE Read(it[r \ {Max(r)}], seq[Max(r)])
      <4> HIDE DEF r
      <4> QED BY <3>1, Zenon
    <3> QED BY <3>2, <3>3, Zenon
  <2>3. Solves(jt, m + 1)
    <3> DEFINE F(s) == IF s = {} THEN base ELSE Read(jt[s \ {Max(s)}], seq[Max(s)])
               G(s) == IF s = {} THEN base ELSE Read(it[s \ {Max(s)}], seq[Max(s)])
    <3>1. \A s \in SUBSET (1 .. m + 1) : F(s) = G(s)
      <4> HIDE DEF jt
      <4> QED BY <2>2, Zenon
    <3>2. [s \in SUBSET (1 .. m + 1) |-> G(s)] = [s \in SUBSET (1 .. m + 1) |-> F(s)]
      <4> HIDE DEF F, G
      <4> QED BY <3>1, Zenon
    <3>3. jt = [s \in SUBSET (1 .. m + 1) |-> G(s)]
      BY Zenon
    <3>4. jt = [s \in SUBSET (1 .. m + 1) |-> F(s)]
      <4> HIDE DEF F, G, jt
      <4> QED BY <3>2, <3>3, Zenon
    <3> QED BY <3>4, Zenon
  <2> QED
    <3> HIDE DEF jt, Solves
    <3> QED BY <1>2, <2>3
<1> HIDE DEF S
<1>3. n \in S
  BY <1>1, <1>2, Induction
<1>4. \E it : Solves(it, n)
  <2> HIDE DEF Solves
  <2> QED BY <1>3, Zenon DEF S
<1> QED BY <1>4, Zenon DEF ReadRuns

(* A fold of Read takes the elements one at a time, from the first on. *)
LEMMA ReadFold ==
    ASSUME NEW base, NEW seq, NEW n \in Nat, DOMAIN seq = 1 .. n
    PROVE  \E g : /\ g[0] = base
                  /\ \A k \in 1 .. n : g[k] = Read(g[k - 1], seq[k])
                  /\ ReadFolded(base, seq) = g[n]
<1> DEFINE F(it) == [s \in SUBSET (DOMAIN seq) |-> IF s = {} THEN base ELSE Read(it[s \ {Max(s)}], seq[Max(s)])]
           it == CHOOSE it : it = F(it)
           g == [k \in 0 .. n |-> it[1 .. k]]
<1>1. it = F(it)
  <2>1. \E i : i = F(i)
    <3> DEFINE D == DOMAIN seq
    <3>1. D = 1 .. n
      OBVIOUS
    <3> HIDE DEF D
    <3>2. \E i : ReadRuns(i, D, base, seq)
      BY <3>1, ReadSolved
    <3> QED BY <3>2, Zenon DEF D, ReadRuns
  <2> HIDE DEF F
  <2> QED BY <2>1, Zenon
<1>2. ReadFolded(base, seq) = it[DOMAIN seq]
  BY Zenon DEF ReadFolded, FoldLeft, MapThenFoldSet
<1> HIDE DEF it
<1>3. g[0] = base
  <2>1. 1 .. 0 = {} /\ 1 .. 0 \in SUBSET (DOMAIN seq)
    OBVIOUS
  <2>2. it[1 .. 0] = base
    BY <1>1, <2>1, Zenon
  <2> QED BY <2>2
<1>4. ASSUME NEW k \in 1 .. n PROVE g[k] = Read(g[k - 1], seq[k])
  <2> DEFINE s == 1 .. k
  <2>1. s # {} /\ s \in SUBSET (DOMAIN seq) /\ k - 1 \in 0 .. n /\ k \in 0 .. n
    <3>1. k \in s /\ s \in SUBSET (1 .. n)
      OBVIOUS
    <3>2. k - 1 \in 0 .. n /\ k \in 0 .. n
      OBVIOUS
    <3> HIDE DEF s
    <3> QED BY <3>1, <3>2
  <2>2. s \ {k} = 1 .. k - 1
    OBVIOUS
  <2>3. Max(s) = k
    <3>1. s \in SUBSET Int /\ k \in s /\ \A x \in s : x <= k
      OBVIOUS
    <3> HIDE DEF s
    <3> QED BY <3>1, MaxIs, Zenon
  <2>4. it[s] = Read(it[s \ {Max(s)}], seq[Max(s)])
    <3> HIDE DEF s
    <3> QED BY <1>1, <2>1, Zenon
  <2>5. it[s] = Read(it[1 .. k - 1], seq[k])
    <3> HIDE DEF s
    <3> QED BY <2>2, <2>3, <2>4, Zenon
  <2>6. g[k] = it[s] /\ g[k - 1] = it[1 .. k - 1]
    BY <2>1
  <2> QED BY <2>5, <2>6, Zenon
<1>5. g[n] = it[DOMAIN seq]
  OBVIOUS
<1> HIDE DEF g
<1> QED BY <1>2, <1>3, <1>4, <1>5, Zenon

(* A run of the fold over the sets of its first indices. *)
ObeyRuns(it, D, h, base, seq) ==
  it = [s \in SUBSET D |-> IF s = {} THEN base ELSE Obeyed(h, it[s \ {Max(s)}], seq[Max(s)])]

(* What the fold yields. *)
ObeyFolded(h, base, seq) == FoldLeft(LAMBDA active, c : Obeyed(h, active, c), base, seq)

(* The recursion that a fold of Obeyed unfolds to has a solution. *)
LEMMA ObeySolved ==
    ASSUME NEW h, NEW base, NEW seq, NEW n \in Nat, NEW D, D = 1 .. n
    PROVE  \E it : ObeyRuns(it, D, h, base, seq)
<1> DEFINE Solves(it, m) == it = [s \in SUBSET (1 .. m) |->
                              IF s = {} THEN base ELSE Obeyed(h, it[s \ {Max(s)}], seq[Max(s)])]
           S == {m \in Nat : \E it : Solves(it, m)}
<1>1. 0 \in S
  <2> DEFINE it == [s \in SUBSET (1 .. 0) |-> base]
  <2>1. \A s \in SUBSET (1 .. 0) : s = {}
    OBVIOUS
  <2>2. Solves(it, 0)
    BY <2>1, Zenon
  <2> QED BY <2>2
<1>2. ASSUME NEW m \in S \cap Nat PROVE m + 1 \in S
  <2>1. PICK it : Solves(it, m)
    BY <1>2
  <2> DEFINE jt == [s \in SUBSET (1 .. m + 1) |->
                      IF s = {} THEN base ELSE Obeyed(h, it[s \ {Max(s)}], seq[Max(s)])]
  <2>2. ASSUME NEW s \in SUBSET (1 .. m + 1), s # {} PROVE jt[s \ {Max(s)}] = it[s \ {Max(s)}]
    <3> DEFINE r == s \ {Max(s)}
    <3>1. r \in SUBSET (1 .. m) /\ r \in SUBSET (1 .. m + 1)
      BY <2>2, MaxWithin
    <3>2. it[r] = IF r = {} THEN base ELSE Obeyed(h, it[r \ {Max(r)}], seq[Max(r)])
      <4> HIDE DEF r
      <4> QED BY <2>1, <3>1, Zenon
    <3>3. jt[r] = IF r = {} THEN base ELSE Obeyed(h, it[r \ {Max(r)}], seq[Max(r)])
      <4> HIDE DEF r
      <4> QED BY <3>1, Zenon
    <3> QED BY <3>2, <3>3, Zenon
  <2>3. Solves(jt, m + 1)
    <3> DEFINE F(s) == IF s = {} THEN base ELSE Obeyed(h, jt[s \ {Max(s)}], seq[Max(s)])
               G(s) == IF s = {} THEN base ELSE Obeyed(h, it[s \ {Max(s)}], seq[Max(s)])
    <3>1. \A s \in SUBSET (1 .. m + 1) : F(s) = G(s)
      <4> HIDE DEF jt
      <4> QED BY <2>2, Zenon
    <3>2. [s \in SUBSET (1 .. m + 1) |-> G(s)] = [s \in SUBSET (1 .. m + 1) |-> F(s)]
      <4> HIDE DEF F, G
      <4> QED BY <3>1, Zenon
    <3>3. jt = [s \in SUBSET (1 .. m + 1) |-> G(s)]
      BY Zenon
    <3>4. jt = [s \in SUBSET (1 .. m + 1) |-> F(s)]
      <4> HIDE DEF F, G, jt
      <4> QED BY <3>2, <3>3, Zenon
    <3> QED BY <3>4, Zenon
  <2> QED
    <3> HIDE DEF jt, Solves
    <3> QED BY <1>2, <2>3
<1> HIDE DEF S
<1>3. n \in S
  BY <1>1, <1>2, Induction
<1>4. \E it : Solves(it, n)
  <2> HIDE DEF Solves
  <2> QED BY <1>3, Zenon DEF S
<1> QED BY <1>4, Zenon DEF ObeyRuns

(* A fold of Obeyed takes the elements one at a time, from the first on. *)
LEMMA ObeyFold ==
    ASSUME NEW h, NEW base, NEW seq, NEW n \in Nat, DOMAIN seq = 1 .. n
    PROVE  \E g : /\ g[0] = base
                  /\ \A k \in 1 .. n : g[k] = Obeyed(h, g[k - 1], seq[k])
                  /\ ObeyFolded(h, base, seq) = g[n]
<1> DEFINE F(it) == [s \in SUBSET (DOMAIN seq) |-> IF s = {} THEN base ELSE Obeyed(h, it[s \ {Max(s)}], seq[Max(s)])]
           it == CHOOSE it : it = F(it)
           g == [k \in 0 .. n |-> it[1 .. k]]
<1>1. it = F(it)
  <2>1. \E i : i = F(i)
    <3> DEFINE D == DOMAIN seq
    <3>1. D = 1 .. n
      OBVIOUS
    <3> HIDE DEF D
    <3>2. \E i : ObeyRuns(i, D, h, base, seq)
      BY <3>1, ObeySolved
    <3> QED BY <3>2, Zenon DEF D, ObeyRuns
  <2> HIDE DEF F
  <2> QED BY <2>1, Zenon
<1>2. ObeyFolded(h, base, seq) = it[DOMAIN seq]
  BY Zenon DEF ObeyFolded, FoldLeft, MapThenFoldSet
<1> HIDE DEF it
<1>3. g[0] = base
  <2>1. 1 .. 0 = {} /\ 1 .. 0 \in SUBSET (DOMAIN seq)
    OBVIOUS
  <2>2. it[1 .. 0] = base
    BY <1>1, <2>1, Zenon
  <2> QED BY <2>2
<1>4. ASSUME NEW k \in 1 .. n PROVE g[k] = Obeyed(h, g[k - 1], seq[k])
  <2> DEFINE s == 1 .. k
  <2>1. s # {} /\ s \in SUBSET (DOMAIN seq) /\ k - 1 \in 0 .. n /\ k \in 0 .. n
    <3>1. k \in s /\ s \in SUBSET (1 .. n)
      OBVIOUS
    <3>2. k - 1 \in 0 .. n /\ k \in 0 .. n
      OBVIOUS
    <3> HIDE DEF s
    <3> QED BY <3>1, <3>2
  <2>2. s \ {k} = 1 .. k - 1
    OBVIOUS
  <2>3. Max(s) = k
    <3>1. s \in SUBSET Int /\ k \in s /\ \A x \in s : x <= k
      OBVIOUS
    <3> HIDE DEF s
    <3> QED BY <3>1, MaxIs, Zenon
  <2>4. it[s] = Obeyed(h, it[s \ {Max(s)}], seq[Max(s)])
    <3> HIDE DEF s
    <3> QED BY <1>1, <2>1, Zenon
  <2>5. it[s] = Obeyed(h, it[1 .. k - 1], seq[k])
    <3> HIDE DEF s
    <3> QED BY <2>2, <2>3, <2>4, Zenon
  <2>6. g[k] = it[s] /\ g[k - 1] = it[1 .. k - 1]
    BY <2>1
  <2> QED BY <2>5, <2>6, Zenon
<1>5. g[n] = it[DOMAIN seq]
  OBVIOUS
<1> HIDE DEF g
<1> QED BY <1>2, <1>3, <1>4, <1>5, Zenon

(* A run of the fold over the sets of its first indices. *)
AbsorbRuns(it, D, aliases, base, seq) ==
  it = [s \in SUBSET D |-> IF s = {} THEN base ELSE Absorbed(it[s \ {Max(s)}], seq[Max(s)], aliases)]

(* What the fold yields. *)
AbsorbFolded(aliases, base, seq) == FoldLeft(LAMBDA s, b : Absorbed(s, b, aliases), base, seq)

(* The recursion that a fold of Absorbed unfolds to has a solution. *)
LEMMA AbsorbSolved ==
    ASSUME NEW aliases, NEW base, NEW seq, NEW n \in Nat, NEW D, D = 1 .. n
    PROVE  \E it : AbsorbRuns(it, D, aliases, base, seq)
<1> DEFINE Solves(it, m) == it = [s \in SUBSET (1 .. m) |->
                              IF s = {} THEN base ELSE Absorbed(it[s \ {Max(s)}], seq[Max(s)], aliases)]
           S == {m \in Nat : \E it : Solves(it, m)}
<1>1. 0 \in S
  <2> DEFINE it == [s \in SUBSET (1 .. 0) |-> base]
  <2>1. \A s \in SUBSET (1 .. 0) : s = {}
    OBVIOUS
  <2>2. Solves(it, 0)
    BY <2>1, Zenon
  <2> QED BY <2>2
<1>2. ASSUME NEW m \in S \cap Nat PROVE m + 1 \in S
  <2>1. PICK it : Solves(it, m)
    BY <1>2
  <2> DEFINE jt == [s \in SUBSET (1 .. m + 1) |->
                      IF s = {} THEN base ELSE Absorbed(it[s \ {Max(s)}], seq[Max(s)], aliases)]
  <2>2. ASSUME NEW s \in SUBSET (1 .. m + 1), s # {} PROVE jt[s \ {Max(s)}] = it[s \ {Max(s)}]
    <3> DEFINE r == s \ {Max(s)}
    <3>1. r \in SUBSET (1 .. m) /\ r \in SUBSET (1 .. m + 1)
      BY <2>2, MaxWithin
    <3>2. it[r] = IF r = {} THEN base ELSE Absorbed(it[r \ {Max(r)}], seq[Max(r)], aliases)
      <4> HIDE DEF r
      <4> QED BY <2>1, <3>1, Zenon
    <3>3. jt[r] = IF r = {} THEN base ELSE Absorbed(it[r \ {Max(r)}], seq[Max(r)], aliases)
      <4> HIDE DEF r
      <4> QED BY <3>1, Zenon
    <3> QED BY <3>2, <3>3, Zenon
  <2>3. Solves(jt, m + 1)
    <3> DEFINE F(s) == IF s = {} THEN base ELSE Absorbed(jt[s \ {Max(s)}], seq[Max(s)], aliases)
               G(s) == IF s = {} THEN base ELSE Absorbed(it[s \ {Max(s)}], seq[Max(s)], aliases)
    <3>1. \A s \in SUBSET (1 .. m + 1) : F(s) = G(s)
      <4> HIDE DEF jt
      <4> QED BY <2>2, Zenon
    <3>2. [s \in SUBSET (1 .. m + 1) |-> G(s)] = [s \in SUBSET (1 .. m + 1) |-> F(s)]
      <4> HIDE DEF F, G
      <4> QED BY <3>1, Zenon
    <3>3. jt = [s \in SUBSET (1 .. m + 1) |-> G(s)]
      BY Zenon
    <3>4. jt = [s \in SUBSET (1 .. m + 1) |-> F(s)]
      <4> HIDE DEF F, G, jt
      <4> QED BY <3>2, <3>3, Zenon
    <3> QED BY <3>4, Zenon
  <2> QED
    <3> HIDE DEF jt, Solves
    <3> QED BY <1>2, <2>3
<1> HIDE DEF S
<1>3. n \in S
  BY <1>1, <1>2, Induction
<1>4. \E it : Solves(it, n)
  <2> HIDE DEF Solves
  <2> QED BY <1>3, Zenon DEF S
<1> QED BY <1>4, Zenon DEF AbsorbRuns

(* A fold of Absorbed takes the elements one at a time, from the first on. *)
LEMMA AbsorbFold ==
    ASSUME NEW aliases, NEW base, NEW seq, NEW n \in Nat, DOMAIN seq = 1 .. n
    PROVE  \E g : /\ g[0] = base
                  /\ \A k \in 1 .. n : g[k] = Absorbed(g[k - 1], seq[k], aliases)
                  /\ AbsorbFolded(aliases, base, seq) = g[n]
<1> DEFINE F(it) == [s \in SUBSET (DOMAIN seq) |-> IF s = {} THEN base ELSE Absorbed(it[s \ {Max(s)}], seq[Max(s)], aliases)]
           it == CHOOSE it : it = F(it)
           g == [k \in 0 .. n |-> it[1 .. k]]
<1>1. it = F(it)
  <2>1. \E i : i = F(i)
    <3> DEFINE D == DOMAIN seq
    <3>1. D = 1 .. n
      OBVIOUS
    <3> HIDE DEF D
    <3>2. \E i : AbsorbRuns(i, D, aliases, base, seq)
      BY <3>1, AbsorbSolved
    <3> QED BY <3>2, Zenon DEF D, AbsorbRuns
  <2> HIDE DEF F
  <2> QED BY <2>1, Zenon
<1>2. AbsorbFolded(aliases, base, seq) = it[DOMAIN seq]
  BY Zenon DEF AbsorbFolded, FoldLeft, MapThenFoldSet
<1> HIDE DEF it
<1>3. g[0] = base
  <2>1. 1 .. 0 = {} /\ 1 .. 0 \in SUBSET (DOMAIN seq)
    OBVIOUS
  <2>2. it[1 .. 0] = base
    BY <1>1, <2>1, Zenon
  <2> QED BY <2>2
<1>4. ASSUME NEW k \in 1 .. n PROVE g[k] = Absorbed(g[k - 1], seq[k], aliases)
  <2> DEFINE s == 1 .. k
  <2>1. s # {} /\ s \in SUBSET (DOMAIN seq) /\ k - 1 \in 0 .. n /\ k \in 0 .. n
    <3>1. k \in s /\ s \in SUBSET (1 .. n)
      OBVIOUS
    <3>2. k - 1 \in 0 .. n /\ k \in 0 .. n
      OBVIOUS
    <3> HIDE DEF s
    <3> QED BY <3>1, <3>2
  <2>2. s \ {k} = 1 .. k - 1
    OBVIOUS
  <2>3. Max(s) = k
    <3>1. s \in SUBSET Int /\ k \in s /\ \A x \in s : x <= k
      OBVIOUS
    <3> HIDE DEF s
    <3> QED BY <3>1, MaxIs, Zenon
  <2>4. it[s] = Absorbed(it[s \ {Max(s)}], seq[Max(s)], aliases)
    <3> HIDE DEF s
    <3> QED BY <1>1, <2>1, Zenon
  <2>5. it[s] = Absorbed(it[1 .. k - 1], seq[k], aliases)
    <3> HIDE DEF s
    <3> QED BY <2>2, <2>3, <2>4, Zenon
  <2>6. g[k] = it[s] /\ g[k - 1] = it[1 .. k - 1]
    BY <2>1
  <2> QED BY <2>5, <2>6, Zenon
<1>5. g[n] = it[DOMAIN seq]
  OBVIOUS
<1> HIDE DEF g
<1> QED BY <1>2, <1>3, <1>4, <1>5, Zenon

----------------------------------------------------------------------------
(* Kept elements *)

(* The sequence r picks the elements of s that are in kept, at places f.    *)
Picks(f, r, s, m, kept) ==
    /\ f \in [1 .. Len(r) -> 1 .. m]
    /\ \A i, j \in 1 .. Len(r) : i < j => f[i] < f[j]
    /\ \A i \in 1 .. Len(r) : r[i] = s[f[i]] /\ s[f[i]] \in kept
    /\ \A k \in 1 .. m : s[k] \in kept => \E i \in 1 .. Len(r) : f[i] = k

(* One element more: it is picked, or it is not. *)
LEMMA PicksMore ==
    ASSUME NEW X, NEW s \in Seq(X), NEW m \in Nat, m + 1 <= Len(s), NEW kept,
           NEW r \in Seq(X), NEW f, Picks(f, r, s, m, kept), NEW t,
           t = IF s[m + 1] \in kept THEN Append(r, s[m + 1]) ELSE r
    PROVE  t \in Seq(X) /\ \E e : Picks(e, t, s, m + 1, kept)
<1>1. m + 1 \in 1 .. Len(s) /\ s[m + 1] \in X /\ Len(r) \in Nat
  OBVIOUS
<1>2. f \in [1 .. Len(r) -> 1 .. m]
  BY DEF Picks
<1>3. ASSUME s[m + 1] \notin kept PROVE t \in Seq(X) /\ \E e : Picks(e, t, s, m + 1, kept)
  <2>1. t = r
    BY <1>3
  <2>2. f \in [1 .. Len(r) -> 1 .. m + 1]
    BY <1>2
  <2>3. ASSUME NEW k \in 1 .. m + 1, s[k] \in kept PROVE \E i \in 1 .. Len(r) : f[i] = k
    <3>1. k # m + 1
      BY <1>3, <2>3
    <3>2. k \in 1 .. m
      BY <3>1
    <3> QED BY <2>3, <3>2 DEF Picks
  <2>4. Picks(f, r, s, m + 1, kept)
    BY <2>2, <2>3 DEF Picks
  <2> QED BY <2>1, <2>4
<1>4. ASSUME s[m + 1] \in kept PROVE t \in Seq(X) /\ \E e : Picks(e, t, s, m + 1, kept)
  <2> DEFINE n == Len(r)
             e == [i \in 1 .. n + 1 |-> IF i <= n THEN f[i] ELSE m + 1]
  <2>1. t = Append(r, s[m + 1])
    BY <1>4
  <2>2. t \in Seq(X) /\ Len(t) = n + 1 /\ t[n + 1] = s[m + 1] /\ \A i \in 1 .. n : t[i] = r[i]
    BY <1>1, <2>1
  <2>3. \A i \in 1 .. n : i \in 1 .. n + 1 /\ e[i] = f[i] /\ f[i] \in 1 .. m
    BY <1>1, <1>2
  <2>4. n + 1 \in 1 .. n + 1 /\ e[n + 1] = m + 1
    BY <1>1
  <2>5. DOMAIN e = 1 .. n + 1 /\ e = [i \in 1 .. n + 1 |-> e[i]]
    OBVIOUS
  <2>6. \A i \in 1 .. n + 1 : i \in 1 .. n \/ i = n + 1
    BY <1>1
  <2> HIDE DEF e, n
  <2>7. \A i \in 1 .. n + 1 : e[i] \in 1 .. m + 1
    BY <2>3, <2>4, <2>6
  <2>8. ASSUME NEW i \in 1 .. n + 1, NEW j \in 1 .. n + 1, i < j PROVE e[i] < e[j]
    <3>1. i \in 1 .. n
      BY <1>1, <2>8 DEF n
    <3>2. CASE j \in 1 .. n
      BY <2>3, <2>8, <3>1, <3>2 DEF Picks, n
    <3>3. CASE j = n + 1
      BY <2>3, <2>4, <3>1, <3>3
    <3> QED BY <2>6, <3>2, <3>3
  <2>9. ASSUME NEW i \in 1 .. n + 1 PROVE t[i] = s[e[i]] /\ s[e[i]] \in kept
    <3>1. CASE i \in 1 .. n
      BY <2>2, <2>3, <3>1 DEF Picks, n
    <3>2. CASE i = n + 1
      BY <1>4, <2>2, <2>4, <3>2
    <3> QED BY <2>6, <3>1, <3>2
  <2>10. ASSUME NEW k \in 1 .. m + 1, s[k] \in kept PROVE \E i \in 1 .. n + 1 : e[i] = k
    <3>1. CASE k = m + 1
      BY <2>4, <3>1
    <3>2. CASE k # m + 1
      <4>1. k \in 1 .. m
        BY <3>2
      <4>2. PICK i \in 1 .. n : f[i] = k
        BY <2>10, <4>1 DEF Picks, n
      <4> QED BY <2>3, <4>2
    <3> QED BY <3>1, <3>2
  <2>11. e \in [1 .. n + 1 -> 1 .. m + 1]
    BY <2>5, <2>7, Zenon
  <2>12. Picks(e, t, s, m + 1, kept)
    BY <2>2, <2>8, <2>9, <2>10, <2>11 DEF Picks
  <2> QED BY <2>2, <2>12
<1> QED BY <1>3, <1>4

(* What Those leaves: the elements of s that are kept, each at the place it *)
(* had among them.                                                          *)
LEMMA ThoseIs ==
    ASSUME NEW X, NEW s \in Seq(X), NEW kept
    PROVE  /\ Those(s, kept) \in Seq(X)
           /\ \E f : Picks(f, Those(s, kept), s, Len(s), kept)
<1> DEFINE n == Len(s)
<1>1. n \in Nat /\ DOMAIN s = 1 .. n
  OBVIOUS
<1>2. PICK g : /\ g[0] = <<>>
               /\ \A k \in 1 .. n : g[k] = (IF s[k] \in kept THEN Append(g[k - 1], s[k]) ELSE g[k - 1])
               /\ KeepFolded(kept, <<>>, s) = g[n]
  <2> HIDE DEF n
  <2> QED BY <1>1, KeepFold
<1> HIDE DEF n
<1> DEFINE Holds(k) == g[k] \in Seq(X) /\ \E f : Picks(f, g[k], s, k, kept)
           S == {k \in Nat : k <= n => Holds(k)}
<1>3. 0 \in S
  <2>1. g[0] \in Seq(X) /\ Len(g[0]) = 0
    BY <1>2
  <2> DEFINE f == [i \in 1 .. 0 |-> 0]
  <2>2. \A i \in 1 .. 0 : FALSE
    OBVIOUS
  <2>3. f \in [1 .. 0 -> 1 .. 0]
    BY <2>2
  <2> HIDE DEF f
  <2>4. Picks(f, g[0], s, 0, kept)
    BY <2>1, <2>2, <2>3 DEF Picks
  <2> QED BY <2>1, <2>4
<1>4. ASSUME NEW k \in S \cap Nat PROVE k + 1 \in S
  <2> SUFFICES ASSUME k + 1 <= n PROVE Holds(k + 1)
    OBVIOUS
  <2>1. k \in Nat /\ k <= n /\ k + 1 \in 1 .. n /\ (k + 1) - 1 = k
    BY <1>1
  <2>2. Holds(k)
    BY <1>4, <2>1
  <2>3. g[k + 1] = (IF s[k + 1] \in kept THEN Append(g[k], s[k + 1]) ELSE g[k])
    BY <1>2, <2>1
  <2>4. PICK f : Picks(f, g[k], s, k, kept)
    BY <2>2
  <2>5. g[k] \in Seq(X) /\ k + 1 <= Len(s)
    BY <2>1, <2>2 DEF n
  <2> QED BY <2>1, <2>3, <2>4, <2>5, PicksMore
<1>5. Holds(n)
  <2>1. n \in S
    <3> HIDE DEF S
    <3> QED BY <1>1, <1>3, <1>4, Induction
  <2> QED BY <1>1, <2>1
<1>6. Those(s, kept) = g[n]
  BY <1>2, Zenon DEF Those, KeepFolded
<1> QED BY <1>5, <1>6 DEF n

(* As sets: those that are kept. *)
LEMMA ThoseSet ==
    ASSUME NEW X, NEW s \in Seq(X), NEW kept
    PROVE  Those(s, kept) \in Seq(X) /\ ToSet(Those(s, kept)) = ToSet(s) \cap kept
<1> DEFINE r == Those(s, kept)
<1>1. r \in Seq(X)
  BY ThoseIs
<1>2. PICK f : Picks(f, r, s, Len(s), kept)
  BY ThoseIs
<1> HIDE DEF r
<1>3. DOMAIN r = 1 .. Len(r) /\ DOMAIN s = 1 .. Len(s)
  BY <1>1
<1>4. f \in [1 .. Len(r) -> 1 .. Len(s)] /\ \A i \in 1 .. Len(r) : r[i] = s[f[i]] /\ s[f[i]] \in kept
  BY <1>2 DEF Picks
<1>5. ToSet(r) \subseteq ToSet(s) \cap kept
  BY <1>3, <1>4 DEF ToSet
<1>6. ASSUME NEW k \in 1 .. Len(s), s[k] \in kept PROVE s[k] \in ToSet(r)
  <2>1. PICK i \in 1 .. Len(r) : f[i] = k
    BY <1>2, <1>6 DEF Picks
  <2>2. r[i] = s[k]
    BY <1>4, <2>1
  <2> QED BY <1>3, <2>1, <2>2 DEF ToSet
<1>7. ToSet(s) \cap kept \subseteq ToSet(r)
  BY <1>3, <1>6 DEF ToSet
<1> QED BY <1>1, <1>5, <1>7 DEF r

----------------------------------------------------------------------------
(* The view index *)

(* The provers do not know a literal for a string. *)
Word == STRING \cup {"unknown", "context"}
Words == Seq(Word)
TextLines == [words : Words, indent : Int, prompt : {NoWord}, at : Nat]
Commands == [words : Words, at : Nat, views : Seq(Words)]
Blocks == [header : Words, at : Nat, known : BOOLEAN, commands : Seq(Commands)]
Entries == [level : Int, view : Words]
Readings == [blocks : Seq(Blocks), open : BOOLEAN, views : Seq(Entries), previous : Seq(Entries)]

(* Lines that end a view and configure nothing. *)
Structural == {<<"return">>, <<"system-view">>, <<"quit">>, <<"#">>}
(* The name of a block without a header. *)
Unknown == <<"unknown", "context">>
(* A line that configures something, and one that opens a view. *)
Configures(ls, i) == ls[i].words \notin Structural
TopLine(ls, i) == ls[i].indent = 0 /\ Configures(ls, i)

(* A text as the parsers index it: its lines know their places.  A snippet  *)
(* in a view v of the caller's choice stands one deeper, and v opens a view. *)
Text(ls, v) ==
    /\ ls \in Seq(TextLines)
    /\ \A i \in 1 .. Len(ls) : ls[i].at = i
    /\ v \in Words
    /\ v # <<>> => ~ Undone(v) /\ \A i \in 1 .. Len(ls) : ~ TopLine(ls, i)

(* The lines of the commands of a block. *)
CmdLines(b) == {c.at : c \in ToSet(b.commands)}
(* The lines a block holds; the header of a snippet's view is none of them. *)
Held(b, v) == IF v = <<>> THEN LinesOf(b) ELSE CmdLines(b)

(* A block of the first k lines: no header stands between its own header    *)
(* and one of its commands, and a block without a header starts at one.     *)
BlockOk(ls, v, b, k) ==
    /\ CmdLines(b) \subseteq {j \in 1 .. k : Configures(ls, j) /\ ~ TopLine(ls, j)}
    /\ b.known /\ v = <<>> =>
          /\ b.at \in 1 .. k /\ TopLine(ls, b.at)
          /\ \A j \in CmdLines(b) : b.at < j /\ \A t \in 1 .. j : b.at < t => ~ TopLine(ls, t)
    /\ ~ b.known => b.header = Unknown /\ b.at \in CmdLines(b)
(* That of every block. *)
BlocksOk(ls, v, bs, k) == \A m \in 1 .. Len(bs) : BlockOk(ls, v, bs[m], k)

(* A snippet's view is the one header there is. *)
OneView(v, bs) ==
    v # <<>> => /\ bs # <<>> /\ bs[1].header = v
                /\ \A m \in 1 .. Len(bs) : bs[m].known => m = 1

(* No line is in two blocks. *)
Parted(v, bs) ==
    \A m, n \in 1 .. Len(bs) : m # n => Held(bs[m], v) \cap Held(bs[n], v) = {}
(* Every line read that configures something is in a block. *)
Covered(ls, v, bs, k) ==
    \A j \in 1 .. k : Configures(ls, j) => \E m \in 1 .. Len(bs) : j \in Held(bs[m], v)

(* Each configuring line of the first k has one block. *)
Indexed(ls, v, bs, k) ==
    /\ bs \in Seq(Blocks)
    /\ BlocksOk(ls, v, bs, k) /\ OneView(v, bs) /\ Parted(v, bs) /\ Covered(ls, v, bs, k)

(* No header since the one of the open block. *)
Within(ls, v, s, k) ==
    s.open => /\ s.blocks # <<>>
              /\ s.blocks[Len(s.blocks)].known /\ v = <<>> =>
                   \A t \in 1 .. k : s.blocks[Len(s.blocks)].at < t => ~ TopLine(ls, t)

(* After k lines. *)
ReadInv(ls, v, s, k) == s \in Readings /\ Indexed(ls, v, s.blocks, k) /\ Within(ls, v, s, k)

(* What a block of the first k lines is, it is of the first k + 1. *)
LEMMA BlockOkMore ==
    ASSUME NEW ls, NEW v, NEW b, NEW k \in Nat, BlockOk(ls, v, b, k)
    PROVE  BlockOk(ls, v, b, k + 1)
<1>1. 1 .. k \subseteq 1 .. k + 1
  OBVIOUS
<1> QED BY <1>1, Zenon DEF BlockOk

(* The lines a block of the index holds are among those read. *)
LEMMA HeldRead ==
    ASSUME NEW ls, NEW v, NEW b, NEW k \in Nat, BlockOk(ls, v, b, k), NEW j \in Held(b, v)
    PROVE  j \in 1 .. k /\ Configures(ls, j)
<1>1. ASSUME j \in CmdLines(b) PROVE j \in 1 .. k /\ Configures(ls, j)
  BY <1>1 DEF BlockOk
<1>2. ASSUME v = <<>>, j = b.at PROVE j \in 1 .. k /\ Configures(ls, j)
  <2>1. CASE b.known
    BY <1>2, <2>1, Zenon DEF BlockOk, TopLine
  <2>2. CASE ~ b.known
    BY <1>1, <1>2, <2>2, Zenon DEF BlockOk
  <2> QED BY <2>1, <2>2
<1>3. j \in CmdLines(b) \/ (v = <<>> /\ j = b.at)
  BY DEF Held, LinesOf, CmdLines
<1> QED BY <1>1, <1>2, <1>3, Zenon

(* A line that configures nothing changes no block. *)
LEMMA IndexedSkip ==
    ASSUME NEW ls, NEW v, NEW bs, NEW k \in Nat, Indexed(ls, v, bs, k), ~ Configures(ls, k + 1)
    PROVE  Indexed(ls, v, bs, k + 1)
<1>1. BlocksOk(ls, v, bs, k + 1)
  BY BlockOkMore, Zenon DEF BlocksOk, Indexed
<1>2. ASSUME NEW j \in 1 .. k + 1, Configures(ls, j) PROVE j \in 1 .. k
  <2>1. j # k + 1
    BY <1>2
  <2> QED BY <2>1
<1>3. Covered(ls, v, bs, k + 1)
  BY <1>2, Zenon DEF Covered, Indexed
<1> QED BY <1>1, <1>3, Zenon DEF Indexed

(* A configuring line may open a block. *)
LEMMA IndexedAppend ==
    ASSUME NEW ls, NEW v, NEW bs, NEW k \in Nat, Indexed(ls, v, bs, k), Configures(ls, k + 1),
           NEW b \in Blocks, BlockOk(ls, v, b, k + 1), Held(b, v) = {k + 1}, v # <<>> => ~ b.known
    PROVE  Indexed(ls, v, Append(bs, b), k + 1)
<1> DEFINE r == Append(bs, b)
           n == Len(bs)
<1>1. bs \in Seq(Blocks) /\ n \in Nat
  BY DEF Indexed
<1>2. r \in Seq(Blocks) /\ Len(r) = n + 1 /\ r[n + 1] = b /\ \A m \in 1 .. n : r[m] = bs[m]
  BY <1>1
<1>3. \A m \in 1 .. n + 1 : m \in 1 .. n \/ m = n + 1
  BY <1>1
<1>4. \A m \in 1 .. n : m # n + 1 /\ m \in 1 .. n + 1
  BY <1>1
<1> HIDE DEF r, n
<1>5. BlocksOk(ls, v, r, k + 1)
  <2> SUFFICES ASSUME NEW m \in 1 .. n + 1 PROVE BlockOk(ls, v, r[m], k + 1)
    BY <1>2, Zenon DEF BlocksOk
  <2>1. CASE m = n + 1
    BY <1>2, <2>1, Zenon
  <2>2. CASE m \in 1 .. n
    <3>1. BlockOk(ls, v, bs[m], k)
      BY <2>2, Zenon DEF Indexed, BlocksOk, n
    <3> QED BY <1>2, <2>2, <3>1, BlockOkMore, Zenon
  <2> QED BY <1>3, <2>1, <2>2
<1>6. OneView(v, r)
  <2> SUFFICES ASSUME v # <<>> PROVE r # <<>> /\ r[1].header = v /\ \A m \in 1 .. n + 1 : r[m].known => m = 1
    BY <1>2, Zenon DEF OneView
  <2>1. bs # <<>> /\ bs[1].header = v /\ \A m \in 1 .. n : bs[m].known => m = 1
    BY Zenon DEF Indexed, OneView, n
  <2>2. 1 \in 1 .. n
    BY <1>1, <2>1 DEF n
  <2>3. r # <<>>
    BY <1>1, <1>2
  <2>4. \A m \in 1 .. n + 1 : r[m].known => m = 1
    BY <1>2, <1>3, <2>1, Zenon
  <2> QED BY <1>2, <2>1, <2>2, <2>3, <2>4, Zenon
<1>7. \A m \in 1 .. n : k + 1 \notin Held(bs[m], v)
  <2> SUFFICES ASSUME NEW m \in 1 .. n, k + 1 \in Held(bs[m], v) PROVE FALSE
    OBVIOUS
  <2>1. BlockOk(ls, v, bs[m], k)
    BY Zenon DEF Indexed, BlocksOk, n
  <2>2. k + 1 \in 1 .. k
    BY <2>1, HeldRead, Zenon
  <2> QED BY <2>2
<1>8. Parted(v, r)
  <2> SUFFICES ASSUME NEW m \in 1 .. n + 1, NEW p \in 1 .. n + 1, m # p
               PROVE  Held(r[m], v) \cap Held(r[p], v) = {}
    BY <1>2, Zenon DEF Parted
  <2>1. CASE m \in 1 .. n /\ p \in 1 .. n
    BY <1>2, <2>1, Zenon DEF Indexed, Parted, n
  <2>2. CASE m = n + 1 /\ p \in 1 .. n
    BY <1>2, <1>7, <2>2
  <2>3. CASE m \in 1 .. n /\ p = n + 1
    BY <1>2, <1>7, <2>3
  <2> QED BY <1>3, <2>1, <2>2, <2>3
<1>9. Covered(ls, v, r, k + 1)
  <2> SUFFICES ASSUME NEW j \in 1 .. k + 1, Configures(ls, j)
               PROVE  \E m \in 1 .. n + 1 : j \in Held(r[m], v)
    BY <1>2, Zenon DEF Covered
  <2>1. CASE j = k + 1
    <3>1. n + 1 \in 1 .. n + 1
      BY <1>1
    <3>2. j \in Held(r[n + 1], v)
      BY <1>2, <2>1
    <3> QED BY <3>1, <3>2
  <2>2. CASE j # k + 1
    <3>1. j \in 1 .. k
      BY <2>2
    <3>2. PICK m \in 1 .. n : j \in Held(bs[m], v)
      BY <3>1, Zenon DEF Indexed, Covered, n
    <3> QED BY <1>2, <1>4, <3>2, Zenon
  <2> QED BY <2>1, <2>2
<1> QED BY <1>2, <1>5, <1>6, <1>8, <1>9, Zenon DEF Indexed, r

(* A block given other commands. *)
LEMMA WithCommands ==
    ASSUME NEW b \in Blocks, NEW cs \in Seq(Commands), NEW r, r = [b EXCEPT !.commands = cs]
    PROVE  r \in Blocks /\ r.header = b.header /\ r.at = b.at /\ r.known = b.known /\ r.commands = cs
<1> DEFINE S == Seq(Commands)
<1>1. Blocks = [header : Words, at : Nat, known : BOOLEAN, commands : S]
  BY DEF Blocks
<1>2. cs \in S
  OBVIOUS
<1> HIDE DEF S
<1> QED BY <1>1, <1>2

(* The blocks, with one command more in the n-th. *)
Grown(bs, n, c) == [bs EXCEPT ![n].commands = Append(@, c)]

(* A command joins the last block. *)
LEMMA IndexedGrow ==
    ASSUME NEW ls, NEW v, NEW bs, NEW k \in Nat, Indexed(ls, v, bs, k),
           Configures(ls, k + 1), ~ TopLine(ls, k + 1), NEW c \in Commands, c.at = k + 1,
           NEW n, n = Len(bs), n # 0,
           bs[n].known /\ v = <<>> => \A t \in 1 .. k : bs[n].at < t => ~ TopLine(ls, t)
    PROVE  Indexed(ls, v, Grown(bs, n, c), k + 1)
<1> DEFINE M == bs[n]
           B == [M EXCEPT !.commands = Append(@, c)]
           r == [bs EXCEPT ![n] = B]
<1>1. bs \in Seq(Blocks) /\ n \in Nat /\ n \in 1 .. n
  BY DEF Indexed
<1>2. M \in Blocks
  BY <1>1
<1>3. B \in Blocks /\ B.header = M.header /\ B.at = M.at /\ B.known = M.known
      /\ B.commands = Append(M.commands, c)
  <2>1. M.commands \in Seq(Commands)
    BY <1>2 DEF Blocks
  <2>2. Append(M.commands, c) \in Seq(Commands)
    BY <2>1
  <2> HIDE DEF M
  <2> QED BY <1>2, <2>2, WithCommands
<1>4. CmdLines(B) = CmdLines(M) \cup {k + 1}
  <2> DEFINE s == M.commands
             t == Append(s, c)
  <2>1. s \in Seq(Commands)
    BY <1>2 DEF Blocks
  <2> HIDE DEF s
  <2>2. ToSet(t) = ToSet(s) \cup {c}
    <3>1. Len(t) = Len(s) + 1 /\ t[Len(s) + 1] = c /\ \A i \in 1 .. Len(s) : t[i] = s[i]
      BY <2>1
    <3>2. DOMAIN t = 1 .. Len(s) + 1 /\ DOMAIN s = 1 .. Len(s) /\ Len(s) \in Nat
      BY <2>1
    <3> HIDE DEF t
    <3>3. \A i \in 1 .. Len(s) + 1 : i \in 1 .. Len(s) \/ i = Len(s) + 1
      BY <3>2
    <3>4. Len(s) + 1 \in 1 .. Len(s) + 1 /\ \A i \in 1 .. Len(s) : i \in 1 .. Len(s) + 1
      BY <3>2
    <3> QED BY <3>1, <3>2, <3>3, <3>4 DEF ToSet
  <2>3. ToSet(B.commands) = ToSet(M.commands) \cup {c}
    BY <1>3, <2>2, Zenon DEF s
  <2> HIDE DEF B, M
  <2> QED BY <2>3 DEF CmdLines
<1>5. Held(B, v) = Held(M, v) \cup {k + 1}
  <2> HIDE DEF B, M
  <2>1. LinesOf(B) = {B.at} \cup CmdLines(B) /\ LinesOf(M) = {M.at} \cup CmdLines(M)
    BY Zenon DEF LinesOf, CmdLines
  <2>2. CASE v = <<>>
    BY <1>3, <1>4, <2>1, <2>2 DEF Held
  <2>3. CASE v # <<>>
    BY <1>4, <2>3 DEF Held
  <2> QED BY <2>2, <2>3
<1>6. r \in Seq(Blocks) /\ Len(r) = n /\ r[n] = B /\ \A m \in 1 .. n : m # n => r[m] = bs[m]
  <2> HIDE DEF B
  <2> QED BY <1>1, <1>3
<1>7. \A m \in 1 .. n : r[m].header = bs[m].header /\ r[m].known = bs[m].known
  <2> HIDE DEF r, B
  <2> QED BY <1>3, <1>6 DEF M
<1>8. \A m \in 1 .. n : BlockOk(ls, v, bs[m], k)
  BY Zenon DEF Indexed, BlocksOk
<1>. HIDE DEF r, B
<1>9. BlockOk(ls, v, B, k + 1)
  <2>0. BlockOk(ls, v, M, k)
    BY <1>1, <1>8
  <2> HIDE DEF M
  <2>1. CmdLines(M) \subseteq {j \in 1 .. k : Configures(ls, j) /\ ~ TopLine(ls, j)}
    BY <2>0 DEF BlockOk
  <2>2. CmdLines(B) \subseteq {j \in 1 .. k + 1 : Configures(ls, j) /\ ~ TopLine(ls, j)}
    BY <1>4, <2>1
  <2>3. ASSUME B.known, v = <<>>
        PROVE  /\ B.at \in 1 .. k + 1 /\ TopLine(ls, B.at)
               /\ \A j \in CmdLines(B) : B.at < j /\ \A t \in 1 .. j : B.at < t => ~ TopLine(ls, t)
    <3>1. /\ M.at \in 1 .. k /\ TopLine(ls, M.at)
          /\ \A j \in CmdLines(M) : M.at < j /\ \A t \in 1 .. j : M.at < t => ~ TopLine(ls, t)
      BY <1>3, <2>0, <2>3 DEF BlockOk
    <3>2. \A t \in 1 .. k : M.at < t => ~ TopLine(ls, t)
      BY <1>3, <2>3 DEF M
    <3>3. M.at < k + 1 /\ M.at \in 1 .. k + 1
      BY <3>1
    <3>4. ASSUME NEW t \in 1 .. k + 1, M.at < t PROVE ~ TopLine(ls, t)
      <4>1. CASE t = k + 1
        BY <4>1
      <4>2. CASE t # k + 1
        <5>1. t \in 1 .. k
          BY <4>2
        <5> QED BY <3>2, <3>4, <5>1
      <4> QED BY <4>1, <4>2
    <3>5. ASSUME NEW j \in CmdLines(B) PROVE M.at < j /\ \A t \in 1 .. j : M.at < t => ~ TopLine(ls, t)
      <4>1. CASE j = k + 1
        BY <3>3, <3>4, <4>1, Zenon
      <4>2. CASE j \in CmdLines(M)
        BY <3>1, <4>2, Zenon
      <4> QED BY <1>4, <4>1, <4>2
    <3> QED BY <1>3, <3>1, <3>3, <3>5, Zenon
  <2>4. ~ B.known => B.header = Unknown /\ B.at \in CmdLines(B)
    BY <1>3, <1>4, <2>0 DEF BlockOk
  <2> QED BY <2>2, <2>3, <2>4, Zenon DEF BlockOk
<1>10. BlocksOk(ls, v, r, k + 1)
  <2> SUFFICES ASSUME NEW m \in 1 .. n PROVE BlockOk(ls, v, r[m], k + 1)
    BY <1>6, Zenon DEF BlocksOk
  <2>1. CASE m = n
    BY <1>6, <1>9, <2>1, Zenon
  <2>2. CASE m # n
    BY <1>6, <1>8, <2>2, BlockOkMore, Zenon
  <2> QED BY <2>1, <2>2
<1>11. OneView(v, r)
  <2> SUFFICES ASSUME v # <<>> PROVE r # <<>> /\ r[1].header = v /\ \A m \in 1 .. n : r[m].known => m = 1
    BY <1>6, Zenon DEF OneView
  <2>1. bs[1].header = v /\ \A m \in 1 .. n : bs[m].known => m = 1
    BY Zenon DEF Indexed, OneView
  <2>2. r # <<>> /\ 1 \in 1 .. n
    BY <1>1, <1>6
  <2> QED BY <1>7, <2>1, <2>2, Zenon
<1>12. \A m \in 1 .. n : k + 1 \notin Held(bs[m], v)
  <2> SUFFICES ASSUME NEW m \in 1 .. n, k + 1 \in Held(bs[m], v) PROVE FALSE
    OBVIOUS
  <2>1. k + 1 \in 1 .. k
    BY <1>8, HeldRead, Zenon
  <2> QED BY <2>1
<1>13. \A m, p \in 1 .. n : m # p => Held(bs[m], v) \cap Held(bs[p], v) = {}
  BY Zenon DEF Indexed, Parted
<1>14. Parted(v, r)
  <2> SUFFICES ASSUME NEW m \in 1 .. n, NEW p \in 1 .. n, m # p
               PROVE  Held(r[m], v) \cap Held(r[p], v) = {}
    BY <1>6, Zenon DEF Parted
  <2>0. Held(bs[m], v) \cap Held(bs[p], v) = {} /\ k + 1 \notin Held(bs[m], v) /\ k + 1 \notin Held(bs[p], v)
    BY <1>12, <1>13
  <2>1. CASE m # n /\ p # n
    BY <1>6, <2>0, <2>1, Zenon
  <2>2. CASE m = n /\ p # n
    BY <1>5, <1>6, <2>0, <2>2
  <2>3. CASE m # n /\ p = n
    BY <1>5, <1>6, <2>0, <2>3
  <2> QED BY <2>1, <2>2, <2>3
<1>15. Covered(ls, v, r, k + 1)
  <2> SUFFICES ASSUME NEW j \in 1 .. k + 1, Configures(ls, j)
               PROVE  \E m \in 1 .. n : j \in Held(r[m], v)
    BY <1>6, Zenon DEF Covered
  <2>1. CASE j = k + 1
    BY <1>1, <1>5, <1>6, <2>1
  <2>2. CASE j # k + 1
    <3>1. j \in 1 .. k
      BY <2>2
    <3>2. PICK m \in 1 .. n : j \in Held(bs[m], v)
      BY <3>1, Zenon DEF Indexed, Covered
    <3>3. Held(bs[m], v) \subseteq Held(r[m], v)
      BY <1>5, <1>6 DEF M
    <3> QED BY <3>2, <3>3
  <2> QED BY <2>1, <2>2
<1>16. r = Grown(bs, n, c)
  BY Zenon DEF r, B, M, Grown
<1>17. Indexed(ls, v, r, k + 1)
  BY <1>6, <1>10, <1>11, <1>14, <1>15, Zenon DEF Indexed
<1> QED BY <1>16, <1>17, Zenon

(* What a line does to the reading, by what the line is. *)
LEMMA ReadCases ==
    ASSUME NEW s, NEW l, l.prompt = NoWord
    PROVE  /\ l.words \in Structural => Read(s, l) \in {Closed(s), Quit(s), Separator(s, l.indent)}
           /\ l.words \notin Structural =>
                Read(s, l) = IF l.indent = 0 THEN Header(s, l) ELSE Inner(s, l, l.indent)
<1>1. Level(s, l) = l.indent
  BY Zenon DEF Level
<1>2. /\ <<"quit">> \notin {<<"return">>, <<"system-view">>}
      /\ <<"#">> \notin {<<"return">>, <<"system-view">>}
      /\ <<"quit">> # <<"#">>
  OBVIOUS
<1>3. CASE l.words \in {<<"return">>, <<"system-view">>}
  <2>1. Read(s, l) = Closed(s)
    BY <1>2, <1>3 DEF Read
  <2> QED BY <1>3, <2>1 DEF Structural
<1>4. CASE l.words = <<"quit">>
  <2>1. Read(s, l) = Quit(s)
    BY <1>2, <1>4 DEF Read
  <2> QED BY <1>4, <2>1 DEF Structural
<1>5. CASE l.words = <<"#">>
  <2>1. Read(s, l) = Separator(s, l.indent)
    BY <1>1, <1>2, <1>5 DEF Read
  <2> QED BY <1>5, <2>1 DEF Structural
<1>6. CASE l.words \notin Structural
  <2>1. Read(s, l) = IF l.indent = 0 THEN Header(s, l) ELSE Inner(s, l, l.indent)
    BY <1>1, <1>6 DEF Read, Structural
  <2> QED BY <1>6, <2>1
<1> QED BY <1>3, <1>4, <1>5, <1>6, Zenon DEF Structural

(* The records a reading is made of. *)
LEMMA ReadingFields ==
    ASSUME NEW s \in Readings
    PROVE  /\ s.blocks \in Seq(Blocks) /\ s.open \in BOOLEAN
           /\ s.views \in Seq(Entries) /\ s.previous \in Seq(Entries)
<1> DEFINE B == Seq(Blocks)  E == Seq(Entries)
<1>1. Readings = [blocks : B, open : BOOLEAN, views : E, previous : E]
  BY DEF Readings
<1> HIDE DEF B, E
<1>2. s.blocks \in B /\ s.open \in BOOLEAN /\ s.views \in E /\ s.previous \in E
  BY <1>1
<1> QED BY <1>2 DEF B, E

(* And back. *)
LEMMA ReadingMade ==
    ASSUME NEW bs \in Seq(Blocks), NEW open \in BOOLEAN,
           NEW views \in Seq(Entries), NEW previous \in Seq(Entries)
    PROVE  [blocks |-> bs, open |-> open, views |-> views, previous |-> previous] \in Readings
<1> DEFINE B == Seq(Blocks)  E == Seq(Entries)
<1>1. Readings = [blocks : B, open : BOOLEAN, views : E, previous : E]
  BY DEF Readings
<1>2. bs \in B /\ views \in E /\ previous \in E
  OBVIOUS
<1> HIDE DEF B, E
<1> QED BY <1>1, <1>2

(* The reading t is s with its views changed, in one of the ways the code has. *)
Changes(s, o, vs, ps, t) ==
    \/ t = [s EXCEPT !.open = o, !.views = vs, !.previous = ps]
    \/ t = [s EXCEPT !.open = o, !.previous = ps, !.views = vs]
    \/ t = [s EXCEPT !.views = vs, !.previous = ps] /\ o = s.open
    \/ t = [s EXCEPT !.open = o, !.previous = ps] /\ vs = s.views

(* A reading whose views change keeps its blocks. *)
LEMMA ViewsChange ==
    ASSUME NEW s \in Readings, NEW o \in BOOLEAN, NEW vs \in Seq(Entries), NEW ps \in Seq(Entries), NEW t,
           Changes(s, o, vs, ps, t)
    PROVE  t \in Readings /\ t.blocks = s.blocks /\ t.open = o
<1> DEFINE B == Seq(Blocks)  E == Seq(Entries)
<1>1. Readings = [blocks : B, open : BOOLEAN, views : E, previous : E]
  BY DEF Readings
<1>2. vs \in E /\ ps \in E
  OBVIOUS
<1> HIDE DEF B, E
<1>3. CASE t = [s EXCEPT !.open = o, !.views = vs, !.previous = ps]
  BY <1>1, <1>2, <1>3
<1>4. CASE t = [s EXCEPT !.open = o, !.previous = ps, !.views = vs]
  BY <1>1, <1>2, <1>4
<1>5. CASE t = [s EXCEPT !.views = vs, !.previous = ps] /\ o = s.open
  BY <1>1, <1>2, <1>5
<1>6. CASE t = [s EXCEPT !.open = o, !.previous = ps] /\ vs = s.views
  BY <1>1, <1>2, <1>6
<1> QED BY <1>3, <1>4, <1>5, <1>6 DEF Changes

(* The reading t is s after a line that ends views. *)
Ends(s, level, t) == t \in {Closed(s), Quit(s), Separator(s, level)}

(* Such a line leaves a reading with the blocks it had. *)
LEMMA ReadEnds ==
    ASSUME NEW s \in Readings, NEW level, NEW t, Ends(s, level, t)
    PROVE  t \in Readings /\ t.blocks = s.blocks /\ (t.open => s.open)
<1> DEFINE Good(r) == r \in Readings /\ r.blocks = s.blocks /\ (r.open => s.open)
           none == <<>>
           kept == Those(s.views, {v \in ToSet(s.views) : v.level < level})
           front == Front(s.views)
           still == s.open /\ level # 0
<1>1. s.open \in BOOLEAN /\ s.views \in Seq(Entries) /\ s.previous \in Seq(Entries)
  BY ReadingFields
<1>2. none \in Seq(Entries)
  OBVIOUS
<1>3. kept \in Seq(Entries)
  BY <1>1, ThoseIs
<1>4. s.views # <<>> => front \in Seq(Entries)
  BY <1>1 DEF Front
<1>5. still \in BOOLEAN /\ (still => s.open)
  OBVIOUS
<1>6. Closed(s) = [s EXCEPT !.open = FALSE, !.views = none, !.previous = none]
  BY Zenon DEF Closed
<1>7. Quit(s) = IF s.views # <<>> THEN [s EXCEPT !.views = front, !.previous = none]
                ELSE [s EXCEPT !.open = FALSE, !.previous = none]
  BY Zenon DEF Quit
<1>8. Separator(s, level) = [s EXCEPT !.open = still, !.previous = none, !.views = kept]
  BY Zenon DEF Separator
<1> HIDE DEF none, kept, front, still
<1>9. Good(Closed(s))
  <2>1. Changes(s, FALSE, none, none, Closed(s))
    BY <1>6, Zenon DEF Changes
  <2> QED BY <1>2, <2>1, ViewsChange
<1>10. Good(Quit(s))
  <2>1. CASE s.views # <<>>
    <3>1. Quit(s) = [s EXCEPT !.views = front, !.previous = none]
      BY <1>7, <2>1
    <3>2. front \in Seq(Entries)
      BY <1>4, <2>1
    <3>3. Changes(s, s.open, front, none, Quit(s))
      BY <3>1, Zenon DEF Changes
    <3> QED BY <1>1, <1>2, <3>2, <3>3, ViewsChange
  <2>2. CASE s.views = <<>>
    <3>1. Quit(s) = [s EXCEPT !.open = FALSE, !.previous = none]
      BY <1>7, <2>2
    <3>2. Changes(s, FALSE, s.views, none, Quit(s))
      BY <3>1, Zenon DEF Changes
    <3> QED BY <1>1, <1>2, <3>2, ViewsChange
  <2> QED BY <2>1, <2>2
<1>11. Good(Separator(s, level))
  <2>1. Changes(s, still, kept, none, Separator(s, level))
    BY <1>8, Zenon DEF Changes
  <2> QED BY <1>2, <1>3, <1>5, <2>1, ViewsChange
<1> QED BY <1>9, <1>10, <1>11, Zenon DEF Ends

(* A sequence as a function. *)
LEMMA SeqMaps ==
    ASSUME NEW X, NEW s \in Seq(X)
    PROVE  s \in [1 .. Len(s) -> X]
OBVIOUS

(* Two elements make a sequence. *)
LEMMA PairSeq ==
    ASSUME NEW X, NEW a \in X, NEW b \in X
    PROVE  <<a, b>> \in Seq(X)
<1>1. <<a>> \in Seq(X)
  OBVIOUS
<1>2. <<a, b>> = Append(<<a>>, b)
  OBVIOUS
<1>3. Append(<<a>>, b) \in Seq(X)
  BY <1>1
<1> QED BY <1>2, <1>3

(* Blocks stay blocks when one of them grows. *)
LEMMA GrownBlocks ==
    ASSUME NEW bs \in Seq(Blocks), NEW n \in 1 .. Len(bs), NEW c \in Commands
    PROVE  Grown(bs, n, c) \in Seq(Blocks)
<1> DEFINE b == bs[n]
           cs == Append(b.commands, c)
           d == [b EXCEPT !.commands = cs]
<1>1. b \in Blocks
  OBVIOUS
<1>2. b.commands \in Seq(Commands)
  BY <1>1 DEF Blocks
<1>3. cs \in Seq(Commands)
  <2> HIDE DEF b
  <2> QED BY <1>2
<1>4. d \in Blocks
  <2> HIDE DEF b, cs
  <2> QED BY <1>1, <1>3, WithCommands
<1>5. Grown(bs, n, c) = [bs EXCEPT ![n] = d]
  BY Zenon DEF Grown
<1> HIDE DEF d
<1> QED BY <1>4, <1>5

(* A sequence with one element replaced. *)
Put(s, i, e) == [s EXCEPT ![i] = e]

(* The last element of a sequence, put there and then changed. *)
LEMMA AppendChanged ==
    ASSUME NEW X, NEW s \in Seq(X), NEW e \in X, NEW d \in X, NEW r, r = Append(s, e)
    PROVE  Put(r, Len(r), d) = Append(s, d)
<1> DEFINE n == Len(s)
           t == [r EXCEPT ![n + 1] = d]
           u == Append(s, d)
<1>1. n \in Nat /\ r \in Seq(X) /\ Len(r) = n + 1 /\ r[n + 1] = e /\ \A i \in 1 .. n : r[i] = s[i]
  OBVIOUS
<1>2. u \in Seq(X) /\ Len(u) = n + 1 /\ u[n + 1] = d /\ \A i \in 1 .. n : u[i] = s[i]
  OBVIOUS
<1>3. DOMAIN r = 1 .. n + 1 /\ DOMAIN u = 1 .. n + 1
  BY <1>1, <1>2
<1>4. \A i \in 1 .. n + 1 : (i \in 1 .. n /\ i # n + 1) \/ i = n + 1
  BY <1>1
<1> HIDE DEF n, u
<1> DEFINE D == 1 .. n + 1
<1>5. u \in [D -> X] /\ r \in [D -> X] /\ n + 1 \in D
  <2>1. u \in [1 .. Len(u) -> X] /\ r \in [1 .. Len(r) -> X]
    BY <1>1, <1>2, SeqMaps, Zenon
  <2>2. n + 1 \in D
    BY <1>1
  <2> HIDE DEF D
  <2> QED BY <1>1, <1>2, <2>1, <2>2, Zenon DEF D
<1> HIDE DEF D
<1>6. t \in [D -> X] /\ \A i \in D : t[i] = IF i = n + 1 THEN d ELSE r[i]
  BY <1>5
<1>7. t = u
  <2> HIDE DEF t
  <2>1. \A i \in D : t[i] = u[i]
    BY <1>1, <1>2, <1>4, <1>6 DEF D
  <2> QED BY <1>5, <1>6, <2>1
<1> HIDE DEF t
<1>8. t = Put(r, Len(r), d)
  BY <1>1, Zenon DEF t, Put
<1> QED BY <1>1, <1>7, <1>8 DEF n, u

(* A block that starts at a command no header stands over. *)
Loose(c) == [header |-> Unknown, at |-> c.at, known |-> FALSE, commands |-> <<c>>]
(* One that holds nothing yet. *)
Empty(at) == [header |-> Unknown, at |-> at, known |-> FALSE, commands |-> <<>>]

(* It is an empty block given its first command. *)
LEMMA LooseIs ==
    ASSUME NEW c \in Commands
    PROVE  /\ Empty(c.at) \in Blocks /\ Loose(c) \in Blocks
           /\ [Empty(c.at) EXCEPT !.commands = Append(@, c)] = Loose(c)
<1> DEFINE S == Seq(Commands)  none == <<>>  one == <<c>>
           e == [header |-> Unknown, at |-> c.at, known |-> FALSE, commands |-> none]
           d == [header |-> Unknown, at |-> c.at, known |-> FALSE, commands |-> one]
<1>1. none \in S /\ one \in S /\ Append(none, c) = one
  OBVIOUS
<1>2. Unknown \in Words
  <2>1. "unknown" \in Word /\ "context" \in Word
    BY DEF Word
  <2>2. <<"unknown", "context">> \in Seq(Word)
    BY <2>1, PairSeq
  <2> QED BY <2>2 DEF Unknown, Words
<1>3. c.at \in Nat
  BY DEF Commands
<1>4. Blocks = [header : Words, at : Nat, known : BOOLEAN, commands : S]
  BY DEF Blocks
<1> HIDE DEF S, none, one
<1>5. e \in Blocks /\ d \in Blocks
  BY <1>1, <1>2, <1>3, <1>4
<1>6. e.commands = none
  OBVIOUS
<1>7. [e EXCEPT !.commands = one] = d
  <2> DEFINE r == [e EXCEPT !.commands = one]
  <2>1. e.header = Unknown /\ e.at = c.at /\ e.known = FALSE
    OBVIOUS
  <2> HIDE DEF e
  <2>2. r \in Blocks /\ r.header = e.header /\ r.at = e.at /\ r.known = e.known /\ r.commands = one
    BY <1>1, <1>5, WithCommands DEF S
  <2> HIDE DEF r
  <2>3. r = [header |-> r.header, at |-> r.at, known |-> r.known, commands |-> r.commands]
    BY <1>4, <2>2
  <2>4. r = [header |-> Unknown, at |-> c.at, known |-> FALSE, commands |-> one]
    BY <2>1, <2>2, <2>3, Zenon
  <2> QED BY <2>4 DEF r
<1>8. [e EXCEPT !.commands = Append(@, c)] = [e EXCEPT !.commands = one]
  <2> HIDE DEF e
  <2> QED BY <1>1, <1>6, Zenon
<1>9. Empty(c.at) = e /\ Loose(c) = d
  BY Zenon DEF Empty, Loose, none, one
<1> HIDE DEF e, d
<1> QED BY <1>5, <1>7, <1>8, <1>9, Zenon

(* What a command does to the blocks: it joins the open one, or starts one. *)
Joins(bs, open, c) == IF open THEN Grown(bs, Len(bs), c) ELSE Append(bs, Loose(c))

(* A line under a header is a command of the last block. *)
LEMMA InnerIs ==
    ASSUME NEW s \in Readings, NEW l \in TextLines, s.open => s.blocks # <<>>
    PROVE  /\ Inner(s, l, l.indent) \in Readings
           /\ Inner(s, l, l.indent).open
           /\ \E c \in Commands : c.at = l.at /\ Inner(s, l, l.indent).blocks = Joins(s.blocks, s.open, c)
<1> DEFINE level == l.indent
           bs == IF s.open THEN s.blocks ELSE Append(s.blocks, Block(<<"unknown", "context">>, l.at, FALSE))
           outer == Those(s.views, {v \in ToSet(s.views) : v.level < level})
           again == Those(s.previous, {p \in ToSet(s.previous) : level > p.level /\ ~ Contains(outer, p)})
           views == outer \o again
           this == [level |-> level, view |-> l.words]
           path == [i \in DOMAIN views |-> views[i].view]
           c == Command(l, path)
           vs == IF Nested(bs[Len(bs)].header, l.words) THEN Append(views, this) ELSE views
<1>1. Inner(s, l, l.indent) = [blocks |-> Grown(bs, Len(bs), c), open |-> TRUE, previous |-> <<this>>, views |-> vs]
  BY Zenon DEF Inner, Grown
<1>2. s.blocks \in Seq(Blocks) /\ s.open \in BOOLEAN /\ s.views \in Seq(Entries) /\ s.previous \in Seq(Entries)
  BY ReadingFields
<1>3. l.words \in Words /\ l.indent \in Int /\ l.at \in Nat
  BY DEF TextLines
<1>4. outer \in Seq(Entries) /\ again \in Seq(Entries)
  BY <1>2, ThoseIs
<1>5. views \in Seq(Entries)
  <2> HIDE DEF outer, again
  <2> QED BY <1>4
<1>6. this \in Entries
  BY <1>3 DEF Entries
<1> HIDE DEF outer, again
<1>7. path \in Seq(Words)
  <2> HIDE DEF views
  <2>1. \A i \in DOMAIN views : views[i] \in Entries
    BY <1>5
  <2>2. \A i \in DOMAIN views : views[i].view \in Words
    BY <2>1 DEF Entries
  <2>3. DOMAIN views = 1 .. Len(views) /\ Len(views) \in Nat
    BY <1>5
  <2> QED BY <2>2, <2>3
<1>8. c \in Commands /\ c.at = l.at
  <2> HIDE DEF path, views
  <2> DEFINE S == Seq(Words)
  <2>1. Commands = [words : Words, at : Nat, views : S] /\ path \in S
    BY <1>7 DEF Commands
  <2> HIDE DEF S
  <2> QED BY <1>3, <2>1 DEF Command
<1> HIDE DEF c, path, views, this
<1>9. vs \in Seq(Entries) /\ <<this>> \in Seq(Entries)
  <2>1. Append(views, this) \in Seq(Entries) /\ <<this>> \in Seq(Entries)
    BY <1>5, <1>6
  <2> QED BY <1>5, <2>1, Zenon
<1> HIDE DEF vs
<1>10. CASE s.open
  <2> DEFINE n == Len(s.blocks)  cs == Grown(s.blocks, n, c)
  <2>1. bs = s.blocks /\ n \in 1 .. n
    BY <1>2, <1>10
  <2>2. cs \in Seq(Blocks)
    BY <1>2, <1>8, <2>1, GrownBlocks
  <2>3. Inner(s, l, l.indent) = [blocks |-> cs, open |-> TRUE, previous |-> <<this>>, views |-> vs]
    BY <1>1, <2>1, Zenon
  <2>4. cs = Joins(s.blocks, s.open, c)
    BY <1>10, Zenon DEF Joins
  <2> HIDE DEF cs, bs
  <2>5. [blocks |-> cs, open |-> TRUE, views |-> vs, previous |-> <<this>>] \in Readings
    BY <1>9, <2>2, ReadingMade
  <2>6. Inner(s, l, l.indent).blocks = cs /\ Inner(s, l, l.indent).open
    BY <2>3
  <2> QED BY <1>8, <2>3, <2>4, <2>5, <2>6
<1>11. CASE ~ s.open
  <2> DEFINE e == Empty(c.at)  cs == Append(s.blocks, Loose(c))
  <2>1. bs = Append(s.blocks, e)
    BY <1>8, <1>11, Zenon DEF Empty, Block, Unknown
  <2>2. e \in Blocks /\ Loose(c) \in Blocks /\ [e EXCEPT !.commands = Append(@, c)] = Loose(c)
    BY <1>8, LooseIs
  <2> HIDE DEF e, bs
  <2>3. Len(bs) = Len(s.blocks) + 1 /\ bs[Len(bs)] = e /\ Put(bs, Len(bs), Loose(c)) = cs
    <3> DEFINE d == Loose(c)
    <3> HIDE DEF d
    <3>1. s.blocks \in Seq(Blocks) /\ e \in Blocks /\ d \in Blocks /\ bs = Append(s.blocks, e)
      BY <1>2, <2>1, <2>2 DEF d
    <3>2. Put(bs, Len(bs), d) = Append(s.blocks, d)
      BY <3>1, AppendChanged
    <3>3. Len(bs) = Len(s.blocks) + 1 /\ bs[Len(bs)] = e
      BY <3>1
    <3> QED BY <3>2, <3>3 DEF d
  <2>4. Grown(bs, Len(bs), c) = cs
    BY <2>2, <2>3, Zenon DEF Grown, Put
  <2>5. cs \in Seq(Blocks)
    BY <1>2, <2>2
  <2>6. Inner(s, l, l.indent) = [blocks |-> cs, open |-> TRUE, previous |-> <<this>>, views |-> vs]
    BY <1>1, <2>4, Zenon
  <2>7. cs = Joins(s.blocks, s.open, c)
    BY <1>11, Zenon DEF Joins
  <2> HIDE DEF cs
  <2>8. [blocks |-> cs, open |-> TRUE, views |-> vs, previous |-> <<this>>] \in Readings
    BY <1>9, <2>5, ReadingMade
  <2>9. Inner(s, l, l.indent).blocks = cs /\ Inner(s, l, l.indent).open
    BY <2>6
  <2> QED BY <1>8, <2>6, <2>7, <2>8, <2>9
<1> QED BY <1>2, <1>10, <1>11

(* A line that ends views. *)
LEMMA StepEnds ==
    ASSUME NEW ls, NEW v, NEW s, NEW k \in Nat, ReadInv(ls, v, s, k), ~ Configures(ls, k + 1),
           NEW t, t \in Readings, t.blocks = s.blocks, t.open => s.open
    PROVE  ReadInv(ls, v, t, k + 1)
<1>1. Indexed(ls, v, t.blocks, k + 1)
  BY IndexedSkip, Zenon DEF ReadInv
<1>2. Within(ls, v, t, k + 1)
  <2> SUFFICES ASSUME t.open
               PROVE  /\ s.blocks # <<>>
                      /\ s.blocks[Len(s.blocks)].known /\ v = <<>> =>
                           \A i \in 1 .. k + 1 : s.blocks[Len(s.blocks)].at < i => ~ TopLine(ls, i)
    BY Zenon DEF Within
  <2> DEFINE M == s.blocks[Len(s.blocks)]
  <2>1. s.blocks # <<>> /\ (M.known /\ v = <<>> => \A i \in 1 .. k : M.at < i => ~ TopLine(ls, i))
    BY Zenon DEF ReadInv, Within
  <2>2. ~ TopLine(ls, k + 1)
    BY DEF TopLine
  <2> HIDE DEF M
  <2>3. ASSUME M.known, v = <<>>, NEW i \in 1 .. k + 1, M.at < i PROVE ~ TopLine(ls, i)
    <3>1. CASE i = k + 1
      BY <2>2, <3>1
    <3>2. CASE i # k + 1
      <4>1. i \in 1 .. k
        BY <3>2
      <4> QED BY <2>1, <2>3, <4>1
    <3> QED BY <3>1, <3>2
  <2> QED BY <2>1, <2>3 DEF M
<1> QED BY <1>1, <1>2, Zenon DEF ReadInv

(* A header. *)
LEMMA StepHeader ==
    ASSUME NEW ls, NEW v, Text(ls, v), NEW s, NEW k \in Nat, k + 1 <= Len(ls), ReadInv(ls, v, s, k),
           TopLine(ls, k + 1)
    PROVE  ReadInv(ls, v, Header(s, ls[k + 1]), k + 1)
<1> DEFINE l == ls[k + 1]  b == Block(l.words, l.at, TRUE)  t == Header(s, l)
<1>1. k + 1 \in 1 .. Len(ls) /\ ls \in Seq(TextLines)
  BY DEF Text
<1>2. l \in TextLines /\ l.at = k + 1 /\ v = <<>>
  BY <1>1 DEF Text
<1>3. l.words \in Words /\ l.at \in Nat
  <2> HIDE DEF l
  <2> QED BY <1>2 DEF TextLines
<1>4. b \in Blocks /\ b.at = k + 1 /\ b.known = TRUE /\ b.commands = <<>>
  <2> DEFINE S == Seq(Commands)  none == <<>>
  <2>1. Blocks = [header : Words, at : Nat, known : BOOLEAN, commands : S] /\ none \in S
    BY DEF Blocks
  <2>2. b = [header |-> l.words, at |-> l.at, known |-> TRUE, commands |-> none]
    BY Zenon DEF Block
  <2> HIDE DEF S, none, b, l
  <2>3. b \in Blocks /\ b.at = l.at /\ b.known = TRUE /\ b.commands = none
    BY <1>3, <2>1, <2>2
  <2> QED BY <1>2, <2>3 DEF none
<1>5. t = [blocks |-> Append(s.blocks, b), open |-> TRUE, views |-> <<>>, previous |-> <<>>]
  BY Zenon DEF Header
<1> HIDE DEF b, t
<1>6. CmdLines(b) = {}
  <2>1. ToSet(b.commands) = {}
    BY <1>4 DEF ToSet
  <2> QED BY <2>1 DEF CmdLines
<1>7. Held(b, v) = {k + 1}
  <2>1. LinesOf(b) = {b.at} \cup CmdLines(b)
    BY Zenon DEF LinesOf, CmdLines
  <2> QED BY <1>2, <1>4, <1>6, <2>1 DEF Held
<1>8. BlockOk(ls, v, b, k + 1)
  <2>1. k + 1 \in 1 .. k + 1
    OBVIOUS
  <2> QED BY <1>4, <1>6, <2>1 DEF BlockOk
<1>9. Configures(ls, k + 1)
  BY DEF TopLine
<1> DEFINE r == Append(s.blocks, b)
<1>10. Indexed(ls, v, r, k + 1)
  BY <1>2, <1>4, <1>7, <1>8, <1>9, IndexedAppend, Zenon DEF ReadInv
<1>11. r \in Seq(Blocks) /\ r # <<>> /\ r[Len(r)] = b
  <2>1. s.blocks \in Seq(Blocks)
    BY Zenon DEF ReadInv, Indexed
  <2> QED BY <1>4, <2>1
<1> HIDE DEF r
<1>12. t \in Readings
  <2>1. <<>> \in Seq(Entries)
    OBVIOUS
  <2> QED BY <1>5, <1>11, <2>1, ReadingMade DEF r
<1>13. t.blocks = r
  BY <1>5 DEF r
<1>14. \A i \in 1 .. k + 1 : ~ (k + 1 < i)
  OBVIOUS
<1>15. Within(ls, v, t, k + 1)
  BY <1>4, <1>11, <1>13, <1>14, Zenon DEF Within
<1>16. ReadInv(ls, v, t, k + 1)
  BY <1>10, <1>12, <1>13, <1>15, Zenon DEF ReadInv
<1> QED BY <1>16 DEF t

(* A command. *)
LEMMA StepInner ==
    ASSUME NEW ls, NEW v, Text(ls, v), NEW s, NEW k \in Nat, k + 1 <= Len(ls), ReadInv(ls, v, s, k),
           Configures(ls, k + 1), ~ TopLine(ls, k + 1)
    PROVE  ReadInv(ls, v, Inner(s, ls[k + 1], ls[k + 1].indent), k + 1)
<1> DEFINE l == ls[k + 1]  t == Inner(s, l, l.indent)
<1>1. k + 1 \in 1 .. Len(ls) /\ ls \in Seq(TextLines)
  BY DEF Text
<1>2. l \in TextLines /\ l.at = k + 1
  BY <1>1 DEF Text
<1>3. s \in Readings /\ Indexed(ls, v, s.blocks, k) /\ Within(ls, v, s, k)
  BY DEF ReadInv
<1>4. s.open => s.blocks # <<>>
  BY <1>3 DEF Within
<1>5. t \in Readings /\ \E c \in Commands : c.at = l.at /\ t.blocks = Joins(s.blocks, s.open, c)
  <2> HIDE DEF l
  <2> QED BY <1>2, <1>3, <1>4, InnerIs
<1>6. PICK c \in Commands : c.at = k + 1 /\ t.blocks = Joins(s.blocks, s.open, c)
  BY <1>2, <1>5, Zenon
<1> HIDE DEF t, l
<1> DEFINE bs == s.blocks  n == Len(bs)  M == bs[n]  r == t.blocks
<1>7. bs \in Seq(Blocks) /\ n \in Nat
  BY <1>3 DEF Indexed
<1>8. ASSUME s.open PROVE ReadInv(ls, v, t, k + 1)
  <2>1. r = Grown(bs, n, c)
    BY <1>6, <1>8, Zenon DEF Joins
  <2>2. n # 0 /\ n \in 1 .. n
    BY <1>4, <1>7, <1>8
  <2>3. M.known /\ v = <<>> => \A i \in 1 .. k : M.at < i => ~ TopLine(ls, i)
    BY <1>3, <1>8, Zenon DEF Within
  <2>4. Indexed(ls, v, r, k + 1)
    BY <1>3, <1>6, <2>1, <2>2, <2>3, IndexedGrow, Zenon
  <2>5. r # <<>> /\ Len(r) = n /\ r[n].at = M.at /\ r[n].known = M.known
    <3> DEFINE cs == Append(M.commands, c)  d == [M EXCEPT !.commands = cs]
    <3>1. M \in Blocks
      BY <1>7, <2>2
    <3>2. M.commands \in Seq(Commands)
      BY <3>1 DEF Blocks
    <3>3. cs \in Seq(Commands)
      <4> HIDE DEF M
      <4> QED BY <3>2
    <3>4. d \in Blocks /\ d.at = M.at /\ d.known = M.known
      <4> HIDE DEF M, cs
      <4> QED BY <3>1, <3>3, WithCommands
    <3>5. r = [bs EXCEPT ![n] = d]
      BY <2>1, Zenon DEF Grown
    <3> HIDE DEF d, r
    <3>6. r \in Seq(Blocks) /\ Len(r) = n /\ r[n] = d
      BY <1>7, <2>2, <3>4, <3>5
    <3> QED BY <2>2, <3>4, <3>6
  <2>6. Within(ls, v, t, k + 1)
    <3>1. ASSUME M.known, v = <<>>, NEW i \in 1 .. k + 1, M.at < i PROVE ~ TopLine(ls, i)
      <4> HIDE DEF M
      <4>1. CASE i = k + 1
        BY <4>1
      <4>2. CASE i # k + 1
        <5>1. i \in 1 .. k
          BY <4>2
        <5> QED BY <2>3, <3>1, <5>1
      <4> QED BY <4>1, <4>2
    <3> HIDE DEF M
    <3> QED BY <2>5, <3>1, Zenon DEF Within
  <2> QED BY <1>5, <2>4, <2>6, Zenon DEF ReadInv
<1>9. ASSUME ~ s.open PROVE ReadInv(ls, v, t, k + 1)
  <2> DEFINE b == Loose(c)
  <2>1. r = Append(bs, b)
    BY <1>6, <1>9, Zenon DEF Joins
  <2>2. b \in Blocks
    BY LooseIs
  <2>3. b.header = Unknown /\ b.at = k + 1 /\ b.known = FALSE /\ b.commands = <<c>>
    BY <1>6 DEF Loose
  <2> HIDE DEF b
  <2>4. CmdLines(b) = {k + 1}
    <3>1. ToSet(b.commands) = {c}
      BY <2>3 DEF ToSet
    <3> QED BY <1>6, <3>1 DEF CmdLines
  <2>5. Held(b, v) = {k + 1}
    <3>1. LinesOf(b) = {b.at} \cup CmdLines(b)
      BY Zenon DEF LinesOf, CmdLines
    <3> QED BY <2>3, <2>4, <3>1 DEF Held
  <2>6. BlockOk(ls, v, b, k + 1)
    <3>1. k + 1 \in 1 .. k + 1
      OBVIOUS
    <3> QED BY <2>3, <2>4, <3>1 DEF BlockOk
  <2>7. Indexed(ls, v, r, k + 1)
    BY <1>3, <2>1, <2>2, <2>3, <2>5, <2>6, IndexedAppend, Zenon
  <2>8. r # <<>> /\ r[Len(r)] = b
    <3> HIDE DEF bs, r
    <3> QED BY <1>7, <2>1, <2>2
  <2>9. Within(ls, v, t, k + 1)
    BY <2>3, <2>8, Zenon DEF Within
  <2> QED BY <1>5, <2>7, <2>9, Zenon DEF ReadInv
<1>10. ReadInv(ls, v, t, k + 1)
  BY <1>8, <1>9
<1> QED BY <1>10 DEF t, l

(* Any line keeps the invariant of the reading. *)
LEMMA StepKeeps ==
    ASSUME NEW ls, NEW v, Text(ls, v), NEW s, NEW k \in Nat, k + 1 <= Len(ls), ReadInv(ls, v, s, k)
    PROVE  ReadInv(ls, v, Read(s, ls[k + 1]), k + 1)
<1> DEFINE l == ls[k + 1]
<1>1. k + 1 \in 1 .. Len(ls) /\ ls \in Seq(TextLines)
  BY DEF Text
<1>2. l \in TextLines
  BY <1>1
<1>3. l.prompt = NoWord
  BY <1>2 DEF TextLines
<1>4. CASE ~ Configures(ls, k + 1)
  <2>1. Read(s, l) \in {Closed(s), Quit(s), Separator(s, l.indent)}
    BY <1>3, <1>4, ReadCases, Zenon DEF Configures
  <2>2. s \in Readings
    BY DEF ReadInv
  <2> DEFINE t == Read(s, l)
  <2>3. t \in Readings /\ t.blocks = s.blocks /\ (t.open => s.open)
    <3> DEFINE i == l.indent
    <3>1. Ends(s, i, t)
      BY <2>1, Zenon DEF Ends
    <3> HIDE DEF t, i
    <3> QED BY <2>2, <3>1, ReadEnds
  <2> QED BY <1>4, <2>3, StepEnds, Zenon
<1>5. CASE Configures(ls, k + 1)
  <2>1. Read(s, l) = IF l.indent = 0 THEN Header(s, l) ELSE Inner(s, l, l.indent)
    BY <1>3, <1>5, ReadCases, Zenon DEF Configures
  <2>2. CASE l.indent = 0
    <3>1. TopLine(ls, k + 1)
      BY <1>5, <2>2, Zenon DEF TopLine
    <3>2. ReadInv(ls, v, Header(s, l), k + 1)
      BY <3>1, StepHeader
    <3> QED BY <2>1, <2>2, <3>2, Zenon
  <2>3. CASE l.indent # 0
    <3>1. ~ TopLine(ls, k + 1)
      BY <2>3, Zenon DEF TopLine
    <3>2. ReadInv(ls, v, Inner(s, l, l.indent), k + 1)
      BY <1>5, <3>1, StepInner
    <3> QED BY <2>1, <2>3, <3>2, Zenon
  <2> QED BY <2>2, <2>3
<1> QED BY <1>4, <1>5

(* The reading before the first line. *)
NothingRead(v) == [blocks |-> IF v = <<>> THEN <<>> ELSE <<Block(v, 1, TRUE)>>,
                   open |-> v # <<>>, views |-> <<>>, previous |-> <<>>]

(* Before the first line there is no block. *)
LEMMA ReadStarts ==
    ASSUME NEW ls, NEW v, Text(ls, v)
    PROVE  ReadInv(ls, v, NothingRead(v), 0)
<1> DEFINE b == Block(v, 1, TRUE)
           bs == IF v = <<>> THEN <<>> ELSE <<b>>
           s == NothingRead(v)
<1>1. s = [blocks |-> bs, open |-> v # <<>>, views |-> <<>>, previous |-> <<>>]
  BY Zenon DEF NothingRead
<1>2. v \in Words
  BY DEF Text
<1>3. b \in Blocks /\ b.at = 1 /\ b.known = TRUE /\ b.header = v /\ b.commands = <<>>
  <2> DEFINE S == Seq(Commands)  none == <<>>
  <2>1. Blocks = [header : Words, at : Nat, known : BOOLEAN, commands : S] /\ none \in S
    BY DEF Blocks
  <2>2. b = [header |-> v, at |-> 1, known |-> TRUE, commands |-> none]
    BY Zenon DEF Block
  <2> HIDE DEF S, none, b
  <2>3. b \in Blocks /\ b.at = 1 /\ b.known = TRUE /\ b.header = v /\ b.commands = none
    BY <1>2, <2>1, <2>2
  <2> QED BY <2>3 DEF none
<1> HIDE DEF b, s
<1>4. CmdLines(b) = {}
  <2>1. ToSet(b.commands) = {}
    BY <1>3 DEF ToSet
  <2> QED BY <2>1 DEF CmdLines
<1>5. ASSUME v = <<>> PROVE Indexed(ls, v, bs, 0) /\ bs \in Seq(Blocks)
  <2>1. bs \in Seq(Blocks) /\ Len(bs) = 0
    BY <1>5
  <2>2. bs = <<>>
    BY <1>5
  <2> HIDE DEF bs
  <2>3. \A m \in 1 .. Len(bs) : FALSE
    BY <2>1
  <2>4. \A m \in 1 .. 0 : FALSE
    OBVIOUS
  <2>5. Indexed(ls, v, bs, 0)
    BY <1>5, <2>1, <2>3, <2>4, Zenon DEF Indexed, BlocksOk, OneView, Parted, Covered
  <2> QED BY <2>1, <2>5
<1>6. ASSUME v # <<>> PROVE Indexed(ls, v, bs, 0) /\ bs \in Seq(Blocks) /\ bs # <<>>
  <2>1. bs = <<b>>
    BY <1>6
  <2> HIDE DEF bs
  <2>2. bs \in Seq(Blocks) /\ Len(bs) = 1 /\ bs[1] = b /\ bs # <<>>
    BY <1>3, <2>1
  <2>3. \A m \in 1 .. Len(bs) : m = 1
    BY <2>2
  <2>4. BlockOk(ls, v, b, 0)
    BY <1>3, <1>4, <1>6 DEF BlockOk
  <2>5. \A m \in 1 .. 0 : FALSE
    OBVIOUS
  <2>6. BlocksOk(ls, v, bs, 0)
    BY <2>2, <2>3, <2>4, Zenon DEF BlocksOk
  <2>7. OneView(v, bs)
    BY <1>3, <2>2, <2>3, Zenon DEF OneView
  <2>8. Parted(v, bs)
    <3>1. \A m, n \in 1 .. Len(bs) : m = n
      BY <2>3
    <3> QED BY <3>1, Zenon DEF Parted
  <2>9. Covered(ls, v, bs, 0)
    BY <2>5, Zenon DEF Covered
  <2> QED BY <2>2, <2>6, <2>7, <2>8, <2>9, Zenon DEF Indexed
<1> HIDE DEF bs
<1>7. s \in Readings
  <2>1. <<>> \in Seq(Entries)
    OBVIOUS
  <2>2. (v # <<>>) \in BOOLEAN
    OBVIOUS
  <2> QED BY <1>1, <1>5, <1>6, <2>1, <2>2, ReadingMade
<1>8. s.blocks = bs /\ s.open = (v # <<>>)
  BY <1>1
<1>9. Within(ls, v, s, 0)
  BY <1>6, <1>8, Zenon DEF Within
<1>10. ReadInv(ls, v, s, 0)
  BY <1>5, <1>6, <1>7, <1>8, <1>9, Zenon DEF ReadInv
<1> QED BY <1>10 DEF s

(* A reading of n lines of ls under the view v. *)
ReadRun(ls, v, n, f) ==
    /\ f[0] = NothingRead(v)
    /\ \A k \in 1 .. n : f[k] = Read(f[k - 1], ls[k])
    /\ IndexBlocks(ls, v) = f[n].blocks
    /\ \A k \in 0 .. n : ReadInv(ls, v, f[k], k)

(* Whatever the text, there is such a reading. *)
LEMMA ReadsRun ==
    ASSUME NEW ls, NEW v, Text(ls, v)
    PROVE  \E f : ReadRun(ls, v, Len(ls), f)
<1> DEFINE n == Len(ls)
<1>1. n \in Nat /\ DOMAIN ls = 1 .. n
  BY DEF Text
<1>2. PICK g : /\ g[0] = NothingRead(v)
               /\ \A k \in 1 .. n : g[k] = Read(g[k - 1], ls[k])
               /\ ReadFolded(NothingRead(v), ls) = g[n]
  <2> HIDE DEF n
  <2> QED BY <1>1, ReadFold
<1> DEFINE S == {k \in Nat : k <= n => ReadInv(ls, v, g[k], k)}
<1>3. 0 \in S
  BY <1>2, ReadStarts
<1>4. ASSUME NEW k \in S \cap Nat PROVE k + 1 \in S
  <2> SUFFICES ASSUME k + 1 <= n PROVE ReadInv(ls, v, g[k + 1], k + 1)
    OBVIOUS
  <2>1. k \in Nat /\ k <= n /\ k + 1 \in 1 .. n /\ (k + 1) - 1 = k
    BY <1>1
  <2>2. ReadInv(ls, v, g[k], k)
    BY <1>4, <2>1
  <2>3. g[k + 1] = Read(g[k], ls[k + 1])
    BY <1>2, <2>1
  <2>4. ReadInv(ls, v, Read(g[k], ls[k + 1]), k + 1)
    BY <2>1, <2>2, StepKeeps
  <2> QED BY <2>3, <2>4, Zenon
<1>5. \A k \in 0 .. n : ReadInv(ls, v, g[k], k)
  <2>1. Nat \subseteq S
    <3> HIDE DEF S
    <3> QED BY <1>3, <1>4, Induction
  <2>2. \A k \in 0 .. n : k \in Nat /\ k <= n
    BY <1>1
  <2> HIDE DEF n
  <2> QED BY <2>1, <2>2
<1>6. IndexBlocks(ls, v) = g[n].blocks
  BY <1>2, Zenon DEF IndexBlocks, ReadFolded, NothingRead
<1>7. ReadRun(ls, v, n, g)
  BY <1>2, <1>5, <1>6, Zenon DEF ReadRun
<1> QED BY <1>7, Zenon

(* The view index: each configuring line of a text has one block, and no    *)
(* header stands between a block's header and one of its commands.          *)
THEOREM IndexPartitions ==
    ASSUME NEW ls, NEW v, Text(ls, v)
    PROVE  Indexed(ls, v, IndexBlocks(ls, v), Len(ls))
<1>1. PICK f : ReadRun(ls, v, Len(ls), f)
  BY ReadsRun
<1>2. Len(ls) \in 0 .. Len(ls)
  BY DEF Text
<1> QED BY <1>1, <1>2, Zenon DEF ReadRun, ReadInv

----------------------------------------------------------------------------
(* The reduction *)

(* What a merge holds: the views so far, and the lines dropped. *)
Merges == [merged : Seq(Blocks), ignored : SUBSET Nat]

(* No line is in two blocks. *)
Apart(bs) == \A i, j \in 1 .. Len(bs) : i # j => LinesOf(bs[i]) \cap LinesOf(bs[j]) = {}
(* A header is no command of its own view; a block without one starts at its *)
(* first command.                                                           *)
Shape(b) ==
    IF b.known THEN b.at \notin CmdLines(b) ELSE b.header = Unknown /\ b.at \in CmdLines(b)
(* Every block is so. *)
Shaped(bs) == \A i \in 1 .. Len(bs) : Shape(bs[i])
(* The blocks of an index, and the lines of the first m of them. *)
Raw(bs) == bs \in Seq(Blocks) /\ Apart(bs) /\ Shaped(bs)
(* The lines of the first m blocks. *)
Taken(bs, m) == UNION {LinesOf(bs[k]) : k \in 1 .. m}

(* No line of a merged view has been dropped. *)
Spared(ms, ig) == \A i \in 1 .. Len(ms) : LinesOf(ms[i]) \cap ig = {}
(* Nothing but lines of the first m blocks. *)
Drawn(bs, m, ms, ig) ==
    ig \subseteq Taken(bs, m) /\ \A i \in 1 .. Len(ms) : LinesOf(ms[i]) \subseteq Taken(bs, m)
(* Their lines are dropped or in a merged view, or their header is dropped. *)
Kept(bs, m, ms, ig) ==
    \A k \in 1 .. m : \A j \in LinesOf(bs[k]) :
       j \in ig \/ (\E i \in 1 .. Len(ms) : j \in LinesOf(ms[i])) \/ (bs[k].known /\ bs[k].at \in ig)
(* A merged view's lines come from blocks whose headers it stands for. *)
Sourced(bs, m, ms, ig) ==
    \A i \in 1 .. Len(ms), k \in 1 .. m :
       LinesOf(ms[i]) \cap LinesOf(bs[k]) # {} =>
          (bs[k].at = ms[i].at \/ bs[k].at \in ig) /\ bs[k].known = ms[i].known

(* After the first m blocks of bs. *)
MergeInv(bs, m, s) ==
    /\ s \in Merges
    /\ Apart(s.merged) /\ Shaped(s.merged) /\ Spared(s.merged, s.ignored)
    /\ Drawn(bs, m, s.merged, s.ignored) /\ Kept(bs, m, s.merged, s.ignored)
    /\ Sourced(bs, m, s.merged, s.ignored)

(* Views are dropped: whole, or but for the lines under their headers. *)
Drops(s, t, kept, gone, whole) ==
    /\ kept \cup gone = ToSet(s.merged) /\ kept \cap gone = {}
    /\ t = [merged |-> Those(s.merged, kept),
            ignored |-> s.ignored \cup UNION {IF whole THEN LinesOf(b) ELSE {b.at} : b \in gone}]

(* The fields of a merge. *)
LEMMA MergeFields ==
    ASSUME NEW s \in Merges
    PROVE  s.merged \in Seq(Blocks) /\ s.ignored \in SUBSET Nat
<1> DEFINE B == Seq(Blocks)
<1>1. Merges = [merged : B, ignored : SUBSET Nat]
  BY DEF Merges
<1> HIDE DEF B
<1>2. s.merged \in B /\ s.ignored \in SUBSET Nat
  BY <1>1
<1> QED BY <1>2 DEF B

(* A merge of two such fields. *)
LEMMA MergeMade ==
    ASSUME NEW ms \in Seq(Blocks), NEW ig \in SUBSET Nat
    PROVE  [merged |-> ms, ignored |-> ig] \in Merges
<1> DEFINE B == Seq(Blocks)
<1>1. Merges = [merged : B, ignored : SUBSET Nat] /\ ms \in B
  BY DEF Merges
<1> HIDE DEF B
<1> QED BY <1>1

(* The lines of a block are numbers. *)
LEMMA LinesNat ==
    ASSUME NEW b \in Blocks
    PROVE  LinesOf(b) \subseteq Nat /\ LinesOf(b) = {b.at} \cup CmdLines(b)
<1>1. b.at \in Nat /\ b.commands \in Seq(Commands)
  BY DEF Blocks
<1>2. ToSet(b.commands) \subseteq Commands
  <2> DEFINE s == b.commands
  <2> HIDE DEF s
  <2>1. s \in Seq(Commands)
    BY <1>1 DEF s
  <2>2. ToSet(s) \subseteq Commands
    BY <2>1 DEF ToSet
  <2> QED BY <2>2 DEF s
<1>3. \A c \in Commands : c.at \in Nat
  BY DEF Commands
<1>4. LinesOf(b) = {b.at} \cup CmdLines(b)
  BY Zenon DEF LinesOf, CmdLines
<1> QED BY <1>1, <1>2, <1>3, <1>4 DEF CmdLines

(* Dropping views keeps the invariant; a view dropped but for the lines     *)
(* under its header is one that has a header.                               *)
LEMMA DropKeeps ==
    ASSUME NEW bs, NEW m \in Nat, NEW s, MergeInv(bs, m, s), NEW t, NEW kept, NEW gone, NEW whole \in BOOLEAN,
           Drops(s, t, kept, gone, whole), ~ whole => \A b \in gone : b.known
    PROVE  MergeInv(bs, m, t)
<1> DEFINE ms == s.merged  ig == s.ignored
           ns == Those(ms, kept)
           lost == UNION {IF whole THEN LinesOf(b) ELSE {b.at} : b \in gone}
           jg == ig \cup lost
<1>1. s \in Merges /\ ms \in Seq(Blocks) /\ ig \in SUBSET Nat
  BY MergeFields DEF MergeInv
<1>2. /\ Apart(ms) /\ Shaped(ms) /\ Spared(ms, ig)
      /\ Drawn(bs, m, ms, ig) /\ Kept(bs, m, ms, ig) /\ Sourced(bs, m, ms, ig)
  BY Zenon DEF MergeInv
<1>3. ns \in Seq(Blocks) /\ \E f : Picks(f, ns, ms, Len(ms), kept)
  BY <1>1, ThoseIs
<1>4. PICK f : Picks(f, ns, ms, Len(ms), kept)
  BY <1>3
<1>5. kept \cup gone = ToSet(ms) /\ kept \cap gone = {} /\ t = [merged |-> ns, ignored |-> jg]
  BY Zenon DEF Drops
<1> HIDE DEF ms, ig, ns
<1> DEFINE n == Len(ms)  p == Len(ns)
<1>6. n \in Nat /\ p \in Nat /\ DOMAIN ms = 1 .. n
  BY <1>1, <1>3
<1>7. /\ f \in [1 .. p -> 1 .. n]
      /\ \A i \in 1 .. p : f[i] \in 1 .. n /\ ns[i] = ms[f[i]] /\ ms[f[i]] \in kept
      /\ \A k \in 1 .. n : ms[k] \in kept => \E i \in 1 .. p : f[i] = k
  BY <1>4 DEF Picks
<1>8. ASSUME NEW i \in 1 .. p, NEW j \in 1 .. p, i # j PROVE f[i] # f[j]
  <2>1. i < j \/ j < i
    BY <1>6, <1>8
  <2>2. f[i] < f[j] \/ f[j] < f[i]
    BY <1>4, <2>1 DEF Picks
  <2> QED BY <1>7, <2>2
<1>9. ASSUME NEW b \in gone PROVE \E k \in 1 .. n : b = ms[k]
  BY <1>5, <1>6 DEF ToSet
<1>10. \A k \in 1 .. n : ms[k] \in kept \/ ms[k] \in gone
  BY <1>5, <1>6 DEF ToSet
<1>11. \A k \in 1 .. n : ms[k] \in Blocks
  BY <1>1
<1>12. \A k \in 1 .. n : LinesOf(ms[k]) \subseteq Nat /\ LinesOf(ms[k]) = {ms[k].at} \cup CmdLines(ms[k])
  BY <1>11, LinesNat
<1> HIDE DEF n, p
<1>13. ASSUME NEW j \in lost PROVE \E k \in 1 .. n : ms[k] \in gone /\ j \in LinesOf(ms[k])
  <2>1. PICK b \in gone : j \in IF whole THEN LinesOf(b) ELSE {b.at}
    OBVIOUS
  <2>2. PICK k \in 1 .. n : b = ms[k]
    BY <1>9
  <2>3. LinesOf(b) = {b.at} \cup CmdLines(b)
    BY <1>12, <2>2
  <2> QED BY <2>1, <2>2, <2>3
<1>15. \A k \in 1 .. n : ms[k] \in gone => ms[k].at \in lost /\ (whole => LinesOf(ms[k]) \subseteq lost)
  <2> SUFFICES ASSUME NEW k \in 1 .. n, ms[k] \in gone
               PROVE  ms[k].at \in lost /\ (whole => LinesOf(ms[k]) \subseteq lost)
    OBVIOUS
  <2>1. ms[k].at \in LinesOf(ms[k])
    BY <1>12
  <2>2. (IF whole THEN LinesOf(ms[k]) ELSE {ms[k].at}) \subseteq lost
    OBVIOUS
  <2> QED BY <2>1, <2>2
<1> HIDE DEF lost
<1>16. jg \in SUBSET Nat
  BY <1>1, <1>12, <1>13
<1>17. t \in Merges
  <2> HIDE DEF jg
  <2> QED BY <1>3, <1>5, <1>16, MergeMade
<1>18. Apart(ns)
  <2> SUFFICES ASSUME NEW i \in 1 .. p, NEW j \in 1 .. p, i # j
               PROVE  LinesOf(ns[i]) \cap LinesOf(ns[j]) = {}
    BY Zenon DEF Apart, p
  <2>1. f[i] # f[j] /\ f[i] \in 1 .. n /\ f[j] \in 1 .. n /\ ns[i] = ms[f[i]] /\ ns[j] = ms[f[j]]
    BY <1>7, <1>8
  <2> QED BY <1>2, <2>1, Zenon DEF Apart, n
<1>19. Shaped(ns)
  BY <1>2, <1>7, Zenon DEF Shaped, n, p
<1>20. Spared(ns, jg)
  <2> SUFFICES ASSUME NEW i \in 1 .. p, NEW j \in LinesOf(ns[i]), j \in jg PROVE FALSE
    BY DEF Spared, p
  <2>1. f[i] \in 1 .. n /\ j \in LinesOf(ms[f[i]]) /\ ms[f[i]] \in kept
    BY <1>7
  <2>2. j \notin ig
    BY <1>2, <2>1 DEF Spared, n
  <2>3. PICK k \in 1 .. n : ms[k] \in gone /\ j \in LinesOf(ms[k])
    BY <1>13, <2>2
  <2>4. k # f[i]
    BY <1>5, <2>1, <2>3
  <2> QED BY <1>2, <2>1, <2>3, <2>4 DEF Apart, n
<1>21. Drawn(bs, m, ns, jg)
  <2>1. ig \subseteq Taken(bs, m) /\ \A i \in 1 .. n : LinesOf(ms[i]) \subseteq Taken(bs, m)
    BY <1>2 DEF Drawn, n
  <2>2. jg \subseteq Taken(bs, m)
    BY <1>13, <2>1
  <2>3. \A i \in 1 .. p : LinesOf(ns[i]) \subseteq Taken(bs, m)
    BY <1>7, <2>1
  <2> QED BY <2>2, <2>3 DEF Drawn, p
<1>22. Kept(bs, m, ns, jg)
  <2> SUFFICES ASSUME NEW k \in 1 .. m, NEW j \in LinesOf(bs[k])
               PROVE  j \in jg \/ (\E i \in 1 .. p : j \in LinesOf(ns[i])) \/ (bs[k].known /\ bs[k].at \in jg)
    BY Zenon DEF Kept, p
  <2>1. j \in ig \/ (\E i \in 1 .. n : j \in LinesOf(ms[i])) \/ (bs[k].known /\ bs[k].at \in ig)
    BY <1>2, Zenon DEF Kept, n
  <2>2. CASE j \in ig \/ (bs[k].known /\ bs[k].at \in ig)
    BY <2>2
  <2>3. ASSUME NEW i \in 1 .. n, j \in LinesOf(ms[i])
        PROVE  j \in jg \/ (\E q \in 1 .. p : j \in LinesOf(ns[q])) \/ (bs[k].known /\ bs[k].at \in jg)
    <3>1. CASE ms[i] \in kept
      <4>1. PICK q \in 1 .. p : f[q] = i
        BY <1>7, <3>1
      <4> QED BY <1>7, <2>3, <4>1
    <3>2. CASE ms[i] \in gone /\ whole
      BY <1>15, <2>3, <3>2
    <3>3. CASE ms[i] \in gone /\ ~ whole
      <4>1. LinesOf(ms[i]) \cap LinesOf(bs[k]) # {}
        BY <2>3
      <4>2. (bs[k].at = ms[i].at \/ bs[k].at \in ig) /\ bs[k].known = ms[i].known
        BY <1>2, <4>1, Zenon DEF Sourced, n
      <4>3. ms[i].known /\ ms[i].at \in lost
        BY <1>15, <3>3
      <4> QED BY <4>2, <4>3
    <3> QED BY <1>10, <3>1, <3>2, <3>3
  <2> QED BY <2>1, <2>2, <2>3
<1>23. Sourced(bs, m, ns, jg)
  <2> SUFFICES ASSUME NEW i \in 1 .. p, NEW k \in 1 .. m, LinesOf(ns[i]) \cap LinesOf(bs[k]) # {}
               PROVE  (bs[k].at = ns[i].at \/ bs[k].at \in jg) /\ bs[k].known = ns[i].known
    BY Zenon DEF Sourced, p
  <2>1. f[i] \in 1 .. n /\ ns[i] = ms[f[i]]
    BY <1>7
  <2>2. (bs[k].at = ms[f[i]].at \/ bs[k].at \in ig) /\ bs[k].known = ms[f[i]].known
    BY <1>2, <2>1, Zenon DEF Sourced, n
  <2> QED BY <2>1, <2>2
<1>24. t.merged = ns /\ t.ignored = jg
  BY <1>5
<1> HIDE DEF jg
<1> QED BY <1>17, <1>18, <1>19, <1>20, <1>21, <1>22, <1>23, <1>24, Zenon DEF MergeInv

(* A block that was not read holds none of the lines of those that were. *)
LEMMA FreshLines ==
    ASSUME NEW bs, Raw(bs), NEW m \in Nat, m + 1 <= Len(bs)
    PROVE  /\ bs[m + 1] \in Blocks /\ Shape(bs[m + 1])
           /\ LinesOf(bs[m + 1]) \cap Taken(bs, m) = {}
           /\ Taken(bs, m + 1) = Taken(bs, m) \cup LinesOf(bs[m + 1])
           /\ bs[m + 1].at \in LinesOf(bs[m + 1])
           /\ \A k \in 1 .. m : LinesOf(bs[k]) \cap LinesOf(bs[m + 1]) = {}
<1>1. bs \in Seq(Blocks) /\ m + 1 \in 1 .. Len(bs)
  BY DEF Raw
<1>2. bs[m + 1] \in Blocks /\ Shape(bs[m + 1])
  BY <1>1 DEF Raw, Shaped
<1>3. \A k \in 1 .. m : k \in 1 .. Len(bs) /\ k # m + 1 /\ k \in 1 .. m + 1
  BY <1>1
<1>4. \A k \in 1 .. m : LinesOf(bs[k]) \cap LinesOf(bs[m + 1]) = {}
  BY <1>1, <1>3, Zenon DEF Raw, Apart
<1>5. LinesOf(bs[m + 1]) \cap Taken(bs, m) = {}
  BY <1>4 DEF Taken
<1>6. \A k \in 1 .. m + 1 : k \in 1 .. m \/ k = m + 1
  OBVIOUS
<1>7. m + 1 \in 1 .. m + 1
  OBVIOUS
<1>8. Taken(bs, m + 1) = Taken(bs, m) \cup LinesOf(bs[m + 1])
  BY <1>3, <1>6, <1>7 DEF Taken
<1>9. bs[m + 1].at \in LinesOf(bs[m + 1])
  BY DEF LinesOf
<1> QED BY <1>2, <1>4, <1>5, <1>8, <1>9

(* The header of an undo goes with what it undid. *)
LEMMA UndoKeeps ==
    ASSUME NEW bs, Raw(bs), NEW m \in Nat, m + 1 <= Len(bs), NEW s, MergeInv(bs, m, s), bs[m + 1].known,
           NEW t, t = [s EXCEPT !.ignored = @ \cup {bs[m + 1].at}]
    PROVE  MergeInv(bs, m + 1, t)
<1> DEFINE ms == s.merged  ig == s.ignored  b == bs[m + 1]  jg == ig \cup {b.at}  n == Len(ms)
<1>1. s \in Merges /\ ms \in Seq(Blocks) /\ ig \in SUBSET Nat
  BY MergeFields DEF MergeInv
<1>2. /\ Apart(ms) /\ Shaped(ms) /\ Spared(ms, ig)
      /\ Drawn(bs, m, ms, ig) /\ Kept(bs, m, ms, ig) /\ Sourced(bs, m, ms, ig)
  BY Zenon DEF MergeInv
<1>3. /\ b \in Blocks /\ LinesOf(b) \cap Taken(bs, m) = {} /\ b.at \in LinesOf(b)
      /\ Taken(bs, m + 1) = Taken(bs, m) \cup LinesOf(b)
      /\ \A k \in 1 .. m : LinesOf(bs[k]) \cap LinesOf(b) = {}
  BY FreshLines
<1>4. b.at \in Nat
  BY <1>3 DEF Blocks
<1>5. t = [merged |-> ms, ignored |-> jg]
  BY <1>1 DEF Merges
<1>6. \A k \in 1 .. m + 1 : k \in 1 .. m \/ k = m + 1
  OBVIOUS
<1>7. b.known
  OBVIOUS
<1> HIDE DEF ms, ig, b
<1>8. \A i \in 1 .. n : LinesOf(ms[i]) \subseteq Taken(bs, m)
  BY <1>2 DEF Drawn
<1> HIDE DEF n
<1>9. Spared(ms, jg)
  <2> SUFFICES ASSUME NEW i \in 1 .. n PROVE LinesOf(ms[i]) \cap jg = {}
    BY Zenon DEF Spared, n
  <2>1. LinesOf(ms[i]) \cap ig = {}
    BY <1>2 DEF Spared, n
  <2> QED BY <1>3, <1>8, <2>1
<1>10. Drawn(bs, m + 1, ms, jg)
  <2>1. jg \subseteq Taken(bs, m + 1)
    BY <1>2, <1>3 DEF Drawn
  <2>2. \A i \in 1 .. n : LinesOf(ms[i]) \subseteq Taken(bs, m + 1)
    BY <1>3, <1>8
  <2> QED BY <2>1, <2>2, Zenon DEF Drawn, n
<1>11. Kept(bs, m + 1, ms, jg)
  <2> SUFFICES ASSUME NEW k \in 1 .. m + 1, NEW j \in LinesOf(bs[k])
               PROVE  j \in jg \/ (\E i \in 1 .. n : j \in LinesOf(ms[i])) \/ (bs[k].known /\ bs[k].at \in jg)
    BY Zenon DEF Kept, n
  <2>1. CASE k \in 1 .. m
    <3>1. j \in ig \/ (\E i \in 1 .. n : j \in LinesOf(ms[i])) \/ (bs[k].known /\ bs[k].at \in ig)
      BY <1>2, <2>1, Zenon DEF Kept, n
    <3> QED BY <3>1
  <2>2. CASE k = m + 1
    <3>1. bs[k].known /\ bs[k].at \in jg
      BY <1>7, <2>2 DEF b
    <3> QED BY <3>1
  <2> QED BY <1>6, <2>1, <2>2
<1>12. Sourced(bs, m + 1, ms, jg)
  <2> SUFFICES ASSUME NEW i \in 1 .. n, NEW k \in 1 .. m + 1, LinesOf(ms[i]) \cap LinesOf(bs[k]) # {}
               PROVE  (bs[k].at = ms[i].at \/ bs[k].at \in jg) /\ bs[k].known = ms[i].known
    BY Zenon DEF Sourced, n
  <2>1. k \in 1 .. m
    <3>1. CASE k = m + 1
      <4>1. LinesOf(ms[i]) \cap LinesOf(b) = {}
        BY <1>3, <1>8
      <4> QED BY <3>1, <4>1 DEF b
    <3> QED BY <1>6, <3>1
  <2>2. (bs[k].at = ms[i].at \/ bs[k].at \in ig) /\ bs[k].known = ms[i].known
    BY <1>2, <2>1, Zenon DEF Sourced, n
  <2> QED BY <2>2
<1>13. jg \in SUBSET Nat
  BY <1>1, <1>4
<1> HIDE DEF jg
<1>14. t.merged = ms /\ t.ignored = jg
  BY <1>5
<1>15. t \in Merges
  BY <1>1, <1>5, <1>13, MergeMade DEF ms
<1> QED BY <1>2, <1>9, <1>10, <1>11, <1>12, <1>14, <1>15, Zenon DEF MergeInv

(* A view of its own. *)
LEMMA AppendKeeps ==
    ASSUME NEW bs, Raw(bs), NEW m \in Nat, m + 1 <= Len(bs), NEW s, MergeInv(bs, m, s),
           NEW t, t = [s EXCEPT !.merged = Append(@, bs[m + 1])]
    PROVE  MergeInv(bs, m + 1, t)
<1> DEFINE ms == s.merged  ig == s.ignored  b == bs[m + 1]  ns == Append(ms, b)  n == Len(ms)
<1>1. s \in Merges /\ ms \in Seq(Blocks) /\ ig \in SUBSET Nat
  BY MergeFields DEF MergeInv
<1>2. /\ Apart(ms) /\ Shaped(ms) /\ Spared(ms, ig)
      /\ Drawn(bs, m, ms, ig) /\ Kept(bs, m, ms, ig) /\ Sourced(bs, m, ms, ig)
  BY Zenon DEF MergeInv
<1>3. /\ b \in Blocks /\ LinesOf(b) \cap Taken(bs, m) = {} /\ b.at \in LinesOf(b) /\ Shape(b)
      /\ Taken(bs, m + 1) = Taken(bs, m) \cup LinesOf(b)
      /\ \A k \in 1 .. m : LinesOf(bs[k]) \cap LinesOf(b) = {}
  BY FreshLines
<1>4. t = [merged |-> ns, ignored |-> ig]
  BY <1>1 DEF Merges
<1>5. \A k \in 1 .. m + 1 : k \in 1 .. m \/ k = m + 1
  OBVIOUS
<1> HIDE DEF ms, ig, b
<1>6. ns \in Seq(Blocks) /\ Len(ns) = n + 1 /\ ns[n + 1] = b /\ \A i \in 1 .. n : ns[i] = ms[i]
  BY <1>1, <1>3
<1>7. /\ \A i \in 1 .. n + 1 : i \in 1 .. n \/ i = n + 1
      /\ \A i \in 1 .. n : i \in 1 .. n + 1 /\ i # n + 1
      /\ n + 1 \in 1 .. n + 1
  BY <1>1
<1>8. \A i \in 1 .. n : LinesOf(ms[i]) \subseteq Taken(bs, m)
  BY <1>2 DEF Drawn
<1> HIDE DEF n, ns
<1>9. \A i \in 1 .. n : LinesOf(ns[i]) = LinesOf(ms[i]) /\ LinesOf(ms[i]) \cap LinesOf(b) = {}
  BY <1>3, <1>6, <1>8
<1>10. Apart(ns)
  <2> SUFFICES ASSUME NEW i \in 1 .. n + 1, NEW j \in 1 .. n + 1, i # j
               PROVE  LinesOf(ns[i]) \cap LinesOf(ns[j]) = {}
    BY <1>6, Zenon DEF Apart
  <2>1. CASE i \in 1 .. n /\ j \in 1 .. n
    BY <1>2, <1>6, <2>1, Zenon DEF Apart, n
  <2>2. CASE i = n + 1 /\ j \in 1 .. n
    BY <1>6, <1>9, <2>2
  <2>3. CASE i \in 1 .. n /\ j = n + 1
    BY <1>6, <1>9, <2>3
  <2> QED BY <1>7, <2>1, <2>2, <2>3
<1>11. Shaped(ns)
  <2>1. \A i \in 1 .. n : Shape(ns[i])
    BY <1>2, <1>6, Zenon DEF Shaped, n
  <2> QED BY <1>3, <1>6, <1>7, <2>1, Zenon DEF Shaped
<1>12. Spared(ns, ig)
  <2>1. \A i \in 1 .. n : LinesOf(ns[i]) \cap ig = {}
    BY <1>2, <1>6, Zenon DEF Spared, n
  <2>2. LinesOf(ns[n + 1]) \cap ig = {}
    BY <1>2, <1>3, <1>6 DEF Drawn
  <2> QED BY <1>6, <1>7, <2>1, <2>2, Zenon DEF Spared
<1>13. Drawn(bs, m + 1, ns, ig)
  <2>1. ig \subseteq Taken(bs, m + 1)
    BY <1>2, <1>3 DEF Drawn
  <2>2. \A i \in 1 .. n : LinesOf(ns[i]) \subseteq Taken(bs, m + 1)
    BY <1>3, <1>8, <1>9
  <2>3. LinesOf(ns[n + 1]) \subseteq Taken(bs, m + 1)
    BY <1>3, <1>6
  <2> QED BY <1>6, <1>7, <2>1, <2>2, <2>3, Zenon DEF Drawn
<1>14. Kept(bs, m + 1, ns, ig)
  <2> SUFFICES ASSUME NEW k \in 1 .. m + 1, NEW j \in LinesOf(bs[k])
               PROVE  j \in ig \/ (\E i \in 1 .. n + 1 : j \in LinesOf(ns[i])) \/ (bs[k].known /\ bs[k].at \in ig)
    BY <1>6, Zenon DEF Kept
  <2>1. CASE k \in 1 .. m
    <3>1. j \in ig \/ (\E i \in 1 .. n : j \in LinesOf(ms[i])) \/ (bs[k].known /\ bs[k].at \in ig)
      BY <1>2, <2>1, Zenon DEF Kept, n
    <3> QED BY <1>7, <1>9, <3>1, Zenon
  <2>2. CASE k = m + 1
    <3>1. j \in LinesOf(ns[n + 1])
      BY <1>6, <2>2 DEF b
    <3> QED BY <1>7, <3>1, Zenon
  <2> QED BY <1>5, <2>1, <2>2
<1>15. Sourced(bs, m + 1, ns, ig)
  <2> SUFFICES ASSUME NEW i \in 1 .. n + 1, NEW k \in 1 .. m + 1, LinesOf(ns[i]) \cap LinesOf(bs[k]) # {}
               PROVE  (bs[k].at = ns[i].at \/ bs[k].at \in ig) /\ bs[k].known = ns[i].known
    BY <1>6, Zenon DEF Sourced
  <2>1. CASE i \in 1 .. n /\ k \in 1 .. m
    <3>1. LinesOf(ms[i]) \cap LinesOf(bs[k]) # {} /\ ns[i] = ms[i]
      BY <1>6, <2>1
    <3>2. (bs[k].at = ms[i].at \/ bs[k].at \in ig) /\ bs[k].known = ms[i].known
      BY <1>2, <2>1, <3>1, Zenon DEF Sourced, n
    <3> QED BY <3>1, <3>2
  <2>2. CASE i \in 1 .. n /\ k = m + 1
    BY <1>9, <2>2 DEF b
  <2>3. CASE i = n + 1 /\ k \in 1 .. m
    BY <1>3, <1>6, <2>3
  <2>4. CASE i = n + 1 /\ k = m + 1
    BY <1>6, <2>4 DEF b
  <2> QED BY <1>5, <1>7, <2>1, <2>2, <2>3, <2>4
<1>16. t.merged = ns /\ t.ignored = ig
  BY <1>4
<1>17. t \in Merges
  BY <1>1, <1>4, <1>6, MergeMade
<1> QED BY <1>10, <1>11, <1>12, <1>13, <1>14, <1>15, <1>16, <1>17, Zenon DEF MergeInv

(* The i-th of the merged views re-entered by b. *)
Joint(ms, i, b) ==
    [ms EXCEPT ![i].header = MergedHeader(@, b.header), ![i].commands = @ \o b.commands]

(* It keeps its place, and takes the commands of b. *)
Rejoined(ms, i, b, r) ==
    /\ r \in Seq(Blocks) /\ Len(r) = Len(ms)
    /\ \A k \in 1 .. Len(ms) : k # i => r[k] = ms[k]
    /\ r[i].at = ms[i].at /\ r[i].known = ms[i].known
    /\ CmdLines(r[i]) = CmdLines(ms[i]) \cup CmdLines(b)

(* What re-entering a view makes of the merged views. *)
LEMMA JointIs ==
    ASSUME NEW ms \in Seq(Blocks), NEW i, i \in 1 .. Len(ms), NEW b \in Blocks
    PROVE  Rejoined(ms, i, b, Joint(ms, i, b))
<1> DEFINE r == Joint(ms, i, b)
<1> HIDE DEF r
<1> DEFINE M == ms[i]
           h == MergedHeader(M.header, b.header)
           cs == M.commands \o b.commands
           d == [M EXCEPT !.header = h]
           e == [d EXCEPT !.commands = cs]
<1>1. M \in Blocks
  OBVIOUS
<1>2. M.commands \in Seq(Commands) /\ b.commands \in Seq(Commands) /\ M.header \in Words /\ b.header \in Words
  BY <1>1 DEF Blocks
<1>3. h \in Words
  BY <1>2, Zenon DEF MergedHeader
<1>4. cs \in Seq(Commands) /\ ToSet(cs) = ToSet(M.commands) \cup ToSet(b.commands)
  <2> DEFINE s == M.commands  u == b.commands
  <2>1. s \in Seq(Commands) /\ u \in Seq(Commands)
    BY <1>2
  <2> HIDE DEF s, u
  <2>2. s \o u \in Seq(Commands) /\ Len(s \o u) = Len(s) + Len(u) /\ Len(s) \in Nat /\ Len(u) \in Nat
    BY <2>1
  <2>3. \A k \in 1 .. Len(s) + Len(u) : (s \o u)[k] = IF k <= Len(s) THEN s[k] ELSE u[k - Len(s)]
    BY <2>1
  <2>4. DOMAIN (s \o u) = 1 .. Len(s) + Len(u) /\ DOMAIN s = 1 .. Len(s) /\ DOMAIN u = 1 .. Len(u)
    BY <2>1, <2>2
  <2>5. ASSUME NEW k \in 1 .. Len(s) + Len(u) PROVE (s \o u)[k] \in ToSet(s) \cup ToSet(u)
    <3>1. CASE k <= Len(s)
      <4>1. k \in 1 .. Len(s) /\ (s \o u)[k] = s[k]
        BY <2>2, <2>3, <3>1
      <4> QED BY <2>4, <4>1 DEF ToSet
    <3>2. CASE ~ (k <= Len(s))
      <4>1. k - Len(s) \in 1 .. Len(u) /\ (s \o u)[k] = u[k - Len(s)]
        BY <2>2, <2>3, <3>2
      <4> QED BY <2>4, <4>1 DEF ToSet
    <3> QED BY <3>1, <3>2
  <2>6. ASSUME NEW k \in 1 .. Len(s) PROVE s[k] \in ToSet(s \o u)
    <3>1. k \in 1 .. Len(s) + Len(u) /\ (s \o u)[k] = s[k]
      BY <2>2, <2>3
    <3> QED BY <2>4, <3>1 DEF ToSet
  <2>7. ASSUME NEW k \in 1 .. Len(u) PROVE u[k] \in ToSet(s \o u)
    <3>1. k + Len(s) \in 1 .. Len(s) + Len(u) /\ ~ (k + Len(s) <= Len(s)) /\ (k + Len(s)) - Len(s) = k
      BY <2>2
    <3>2. (s \o u)[k + Len(s)] = u[k]
      BY <2>3, <3>1
    <3> QED BY <2>4, <3>1, <3>2 DEF ToSet
  <2>8. ToSet(s \o u) = ToSet(s) \cup ToSet(u)
    <3>1. ToSet(s \o u) \subseteq ToSet(s) \cup ToSet(u)
      <4> DEFINE S == ToSet(s)  U == ToSet(u)
      <4> HIDE DEF S, U
      <4> QED BY <2>4, <2>5 DEF ToSet, S, U
    <3>2. ToSet(s) \subseteq ToSet(s \o u)
      <4> DEFINE S == ToSet(s \o u)
      <4>1. \A k \in 1 .. Len(s) : s[k] \in S
        BY <2>6
      <4> HIDE DEF S
      <4>2. ToSet(s) \subseteq S
        BY <2>4, <4>1 DEF ToSet
      <4> QED BY <4>2 DEF S
    <3>3. ToSet(u) \subseteq ToSet(s \o u)
      <4> DEFINE S == ToSet(s \o u)
      <4>1. \A k \in 1 .. Len(u) : u[k] \in S
        BY <2>7
      <4> HIDE DEF S
      <4>2. ToSet(u) \subseteq S
        BY <2>4, <4>1 DEF ToSet
      <4> QED BY <4>2 DEF S
    <3> QED BY <3>1, <3>2, <3>3
  <2> QED BY <2>2, <2>8 DEF s, u
<1>5. d \in Blocks /\ d.at = M.at /\ d.known = M.known /\ d.commands = M.commands
  <2> DEFINE S == Seq(Commands)
  <2>1. Blocks = [header : Words, at : Nat, known : BOOLEAN, commands : S]
    BY DEF Blocks
  <2> HIDE DEF S, M, h
  <2> QED BY <1>1, <1>3, <2>1
<1>6. e \in Blocks /\ e.at = M.at /\ e.known = M.known /\ e.commands = cs
  <2> HIDE DEF d, cs, M
  <2> QED BY <1>4, <1>5, WithCommands
<1> DEFINE u == [ms EXCEPT ![i] = d]
<1>7. u \in Seq(Blocks) /\ Len(u) = Len(ms) /\ u[i] = d /\ \A k \in 1 .. Len(ms) : k # i => u[k] = ms[k]
  <2> HIDE DEF d
  <2> QED BY <1>5
<1>8. Joint(ms, i, b) = [u EXCEPT ![i] = [u[i] EXCEPT !.commands = @ \o b.commands]]
  BY Zenon DEF Joint
<1> HIDE DEF u, d
<1>9. [u[i] EXCEPT !.commands = @ \o b.commands] = e
  BY <1>5, <1>7, Zenon
<1> HIDE DEF e
<1>10. r = [u EXCEPT ![i] = e]
  BY <1>8, <1>9, Zenon DEF r
<1>11. r \in Seq(Blocks) /\ Len(r) = Len(ms) /\ r[i] = e /\ \A k \in 1 .. Len(ms) : k # i => r[k] = ms[k]
  BY <1>6, <1>7, <1>10
<1> HIDE DEF M, cs
<1>12. CmdLines(r[i]) = CmdLines(M) \cup CmdLines(b)
  <2>1. ToSet(r[i].commands) = ToSet(M.commands) \cup ToSet(b.commands)
    BY <1>4, <1>6, <1>11
  <2> QED BY <2>1 DEF CmdLines
<1>13. Rejoined(ms, i, b, r)
  BY <1>6, <1>11, <1>12 DEF M, Rejoined
<1> QED BY <1>13 DEF r

(* A view re-entered. *)
LEMMA JoinKeeps ==
    ASSUME NEW bs, Raw(bs), NEW m \in Nat, m + 1 <= Len(bs), NEW s, MergeInv(bs, m, s),
           NEW i \in 1 .. Len(s.merged), s.merged[i].known, bs[m + 1].known,
           NEW t, t = [merged |-> Joint(s.merged, i, bs[m + 1]), ignored |-> s.ignored \cup {bs[m + 1].at}]
    PROVE  MergeInv(bs, m + 1, t)
<1> DEFINE ms == s.merged  ig == s.ignored  b == bs[m + 1]  ns == Joint(ms, i, b)  n == Len(ms)
           jg == ig \cup {b.at}
<1>1. s \in Merges /\ ms \in Seq(Blocks) /\ ig \in SUBSET Nat
  BY MergeFields DEF MergeInv
<1>2. /\ Apart(ms) /\ Shaped(ms) /\ Spared(ms, ig)
      /\ Drawn(bs, m, ms, ig) /\ Kept(bs, m, ms, ig) /\ Sourced(bs, m, ms, ig)
  BY Zenon DEF MergeInv
<1>3. /\ b \in Blocks /\ LinesOf(b) \cap Taken(bs, m) = {} /\ b.at \in LinesOf(b) /\ Shape(b)
      /\ Taken(bs, m + 1) = Taken(bs, m) \cup LinesOf(b)
      /\ \A k \in 1 .. m : LinesOf(bs[k]) \cap LinesOf(b) = {}
  BY FreshLines
<1>4. b.at \in Nat /\ b.known /\ ms[i].known /\ i \in 1 .. n
  BY <1>3 DEF Blocks
<1>5. t = [merged |-> ns, ignored |-> jg]
  BY Zenon
<1>6. \A k \in 1 .. m + 1 : k \in 1 .. m \/ k = m + 1
  OBVIOUS
<1>7. \A k \in 1 .. n : ms[k] \in Blocks
  BY <1>1
<1> HIDE DEF ms, ig, b
<1>8. /\ ns \in Seq(Blocks) /\ Len(ns) = n
      /\ \A k \in 1 .. n : k # i => ns[k] = ms[k]
      /\ ns[i].at = ms[i].at /\ ns[i].known = ms[i].known
      /\ CmdLines(ns[i]) = CmdLines(ms[i]) \cup CmdLines(b)
  <2>1. i \in 1 .. Len(ms)
    BY <1>4
  <2>2. Rejoined(ms, i, b, Joint(ms, i, b))
    BY <1>1, <1>3, <2>1, JointIs
  <2> QED BY <2>2, Zenon DEF Rejoined
<1> HIDE DEF n, ns
<1>9. \A k \in 1 .. n : LinesOf(ms[k]) \subseteq Taken(bs, m)
  BY <1>2 DEF Drawn, n
<1>10. \A k \in 1 .. n : LinesOf(ms[k]) \cap LinesOf(b) = {}
  BY <1>3, <1>9
<1>11. LinesOf(ns[i]) = LinesOf(ms[i]) \cup CmdLines(b) /\ LinesOf(b) = {b.at} \cup CmdLines(b)
  <2>1. \A c \in Blocks : LinesOf(c) = {c.at} \cup CmdLines(c)
    BY LinesNat
  <2>2. ns[i] \in Blocks /\ ms[i] \in Blocks
    BY <1>4, <1>7, <1>8
  <2> QED BY <1>3, <1>8, <2>1, <2>2
<1>12. b.at \notin CmdLines(b)
  BY <1>3, <1>4 DEF Shape
<1>13. \A k \in 1 .. n : \A j \in LinesOf(ns[k]) :
          j \in LinesOf(ms[k]) \/ (k = i /\ j \in CmdLines(b) /\ j \in LinesOf(b) /\ j # b.at)
  BY <1>8, <1>11, <1>12
<1>14. \A k \in 1 .. n : ns[k].at = ms[k].at /\ ns[k].known = ms[k].known
  BY <1>8
<1>15. Apart(ns)
  <2> SUFFICES ASSUME NEW k \in 1 .. n, NEW p \in 1 .. n, k # p, NEW j \in LinesOf(ns[k]), j \in LinesOf(ns[p])
               PROVE  FALSE
    BY <1>8 DEF Apart
  <2>1. LinesOf(ms[k]) \cap LinesOf(ms[p]) = {}
    BY <1>2, Zenon DEF Apart, n
  <2> QED BY <1>10, <1>13, <2>1
<1>16. Shaped(ns)
  <2> SUFFICES ASSUME NEW k \in 1 .. n PROVE Shape(ns[k])
    BY <1>8, Zenon DEF Shaped
  <2>1. Shape(ms[k])
    BY <1>2, Zenon DEF Shaped, n
  <2>2. CASE k = i
    <3>1. ms[i].at \notin CmdLines(ms[i])
      BY <1>4, <2>1, <2>2 DEF Shape
    <3>2. ms[i].at \in LinesOf(ms[i])
      BY DEF LinesOf
    <3>3. ms[i].at \notin CmdLines(b)
      BY <1>4, <1>10, <1>11, <3>2
    <3> QED BY <1>4, <1>8, <2>2, <3>1, <3>3 DEF Shape
  <2>3. CASE k # i
    BY <1>8, <2>1, <2>3, Zenon
  <2> QED BY <2>2, <2>3
<1>17. Spared(ns, jg)
  <2> SUFFICES ASSUME NEW k \in 1 .. n, NEW j \in LinesOf(ns[k]), j \in jg PROVE FALSE
    BY <1>8 DEF Spared
  <2>1. LinesOf(ms[k]) \cap ig = {}
    BY <1>2, Zenon DEF Spared, n
  <2>2. LinesOf(b) \cap ig = {}
    BY <1>2, <1>3 DEF Drawn
  <2> QED BY <1>3, <1>10, <1>13, <2>1, <2>2
<1>18. Drawn(bs, m + 1, ns, jg)
  <2>1. jg \subseteq Taken(bs, m + 1)
    BY <1>2, <1>3 DEF Drawn
  <2>2. \A k \in 1 .. n : LinesOf(ns[k]) \subseteq Taken(bs, m + 1)
    BY <1>3, <1>9, <1>13
  <2> QED BY <1>8, <2>1, <2>2, Zenon DEF Drawn
<1>19. Kept(bs, m + 1, ns, jg)
  <2> SUFFICES ASSUME NEW k \in 1 .. m + 1, NEW j \in LinesOf(bs[k])
               PROVE  j \in jg \/ (\E q \in 1 .. n : j \in LinesOf(ns[q])) \/ (bs[k].known /\ bs[k].at \in jg)
    BY <1>8, Zenon DEF Kept
  <2>1. CASE k \in 1 .. m
    <3>1. j \in ig \/ (\E q \in 1 .. n : j \in LinesOf(ms[q])) \/ (bs[k].known /\ bs[k].at \in ig)
      BY <1>2, <2>1, Zenon DEF Kept, n
    <3>2. \A q \in 1 .. n : LinesOf(ms[q]) \subseteq LinesOf(ns[q])
      BY <1>8, <1>11
    <3> QED BY <3>1, <3>2
  <2>2. CASE k = m + 1
    <3>1. bs[k].known /\ bs[k].at \in jg
      BY <1>4, <2>2 DEF b
    <3> QED BY <3>1
  <2> QED BY <1>6, <2>1, <2>2
<1>20. Sourced(bs, m + 1, ns, jg)
  <2> SUFFICES ASSUME NEW q \in 1 .. n, NEW k \in 1 .. m + 1, LinesOf(ns[q]) \cap LinesOf(bs[k]) # {}
               PROVE  (bs[k].at = ns[q].at \/ bs[k].at \in jg) /\ bs[k].known = ns[q].known
    BY <1>8, Zenon DEF Sourced
  <2>1. PICK j \in LinesOf(ns[q]) : j \in LinesOf(bs[k])
    OBVIOUS
  <2>2. CASE k \in 1 .. m
    <3>1. LinesOf(bs[k]) \cap LinesOf(b) = {}
      BY <1>3, <2>2
    <3>2. j \in LinesOf(ms[q])
      BY <1>13, <2>1, <3>1
    <3>3. LinesOf(ms[q]) \cap LinesOf(bs[k]) # {}
      BY <2>1, <3>2
    <3>4. (bs[k].at = ms[q].at \/ bs[k].at \in ig) /\ bs[k].known = ms[q].known
      BY <1>2, <2>2, <3>3, Zenon DEF Sourced, n
    <3> QED BY <1>14, <3>4
  <2>3. CASE k = m + 1
    <3>1. bs[k] = b
      BY <2>3 DEF b
    <3>2. q = i
      BY <1>10, <1>13, <2>1, <3>1
    <3>3. b.known = ms[i].known
      <4>1. b.known \in BOOLEAN /\ ms[i].known \in BOOLEAN
        BY <1>3, <1>4, <1>7 DEF Blocks
      <4> QED BY <1>4, <4>1
    <3> QED BY <1>8, <3>1, <3>2, <3>3
  <2> QED BY <1>6, <2>2, <2>3
<1>21. jg \in SUBSET Nat
  BY <1>1, <1>4
<1> HIDE DEF jg
<1>22. t.merged = ns /\ t.ignored = jg
  BY <1>5
<1>23. t \in Merges
  BY <1>5, <1>8, <1>21, MergeMade
<1> QED BY <1>15, <1>16, <1>17, <1>18, <1>19, <1>20, <1>22, <1>23, Zenon DEF MergeInv

----------------------------------------------------------------------------
(* A block without a header *)

(* A plugin keys its name neither as a view nor as a switch. *)
Unkeyed == BlockKey(Unknown) = NoKey /\ SwitchKey(Unknown) = NoKey

(* Its name is two words of its own. *)
LEMMA UnknownIs ==
    Unknown \in Words /\ Len(Unknown) = 2 /\ ~ Undone(Unknown) /\ Base(Unknown) = Unknown
<1> DEFINE u == <<"undo">>
<1>1. Unknown \in Words /\ Len(Unknown) = 2 /\ Unknown[1] = "unknown"
  BY DEF Unknown, Words, Word
<1>2. Len(u) = 1 /\ u[1] = "undo"
  OBVIOUS
<1>3. SubSeq(Unknown, 1, 1)[1] = Unknown[1]
  BY <1>1, SubSeqProperties DEF Words
<1>4. SubSeq(u, 1, 1)[1] = u[1]
  <2>1. u \in Seq({"undo"})
    OBVIOUS
  <2> HIDE DEF u
  <2> QED BY <1>2, <2>1, SubSeqProperties
<1>5. "undo" # "unknown"
  OBVIOUS
<1> HIDE DEF u
<1>6. ~ Undone(Unknown)
  <2> SUFFICES ASSUME Undone(Unknown) PROVE FALSE
    OBVIOUS
  <2>1. IsPrefix(u, Unknown)
    BY Zenon DEF Undone, Begins, u
  <2>2. SubSeq(u, 1, 1) = SubSeq(Unknown, 1, 1)
    BY <1>2, <2>1 DEF IsPrefix
  <2> QED BY <1>1, <1>2, <1>3, <1>4, <1>5, <2>2
<1> QED BY <1>1, <1>6, Zenon DEF Base

(* It is no view to re-enter. *)
LEMMA UnknownView ==
    ASSUME Unkeyed, NEW bs
    PROVE  ViewKey(Unknown, AclAliases(bs)) = NoKey
<1>1. \A c \in AclClaims(bs) : c[1] # NoKey
  <2> SUFFICES ASSUME NEW c \in AclClaims(bs) PROVE c[1] # NoKey
    OBVIOUS
  <2>1. PICK b \in ToSet(bs) : /\ AclKey(Tail(b.header)) # NoKey
           /\ c = <<AclKey(Tail(b.header)), <<"acl", AclIdentity(Tail(b.header), "ipv4")[1], "number", WordAfter(b.header, "number")>>>>
    BY Zenon DEF AclClaims
  <2> QED BY <2>1
<1>2. \A c \in AclAliases(bs) : c[1] # NoKey
  BY <1>1, Zenon DEF AclAliases
<1>3. {c \in AclAliases(bs) : c[1] = BlockKey(Unknown)} = {}
  BY <1>2, Zenon DEF Unkeyed
<1> QED BY <1>3, Zenon DEF ViewKey, Unkeyed

(* It is no route. *)
LEMMA UnknownRoute ==
    RouteSelector(Unknown).scope = NoKey
<1>1. ~ (Len(Unknown) >= 4)
  BY UnknownIs
<1>2. RouteSelector(Unknown) = [scope |-> NoKey, tail |-> <<>>]
  BY <1>1, Zenon DEF RouteSelector
<1> QED BY <1>2

(* A merged view without a header has the name of one. *)
LEMMA NamelessView ==
    ASSUME NEW bs, NEW m, NEW s, MergeInv(bs, m, s), NEW o \in ToSet(s.merged), o.header # Unknown
    PROVE  o.known
<1>1. s.merged \in Seq(Blocks) /\ Shaped(s.merged)
  BY MergeFields DEF MergeInv
<1>2. PICK k \in 1 .. Len(s.merged) : o = s.merged[k]
  <2> DEFINE ms == s.merged
  <2>1. ms \in Seq(Blocks) /\ o \in ToSet(ms)
    BY <1>1
  <2> HIDE DEF ms
  <2>2. \E k \in 1 .. Len(ms) : o = ms[k]
    BY <2>1 DEF ToSet
  <2> QED BY <2>2 DEF ms
<1>3. Shape(o)
  BY <1>1, <1>2, Zenon DEF Shaped
<1> QED BY <1>3, Zenon DEF Shape

(* The merged views without those that a header removes. *)
WithoutRoutes(s, ws) == Without(s, LAMBDA old : RouteSelected(old.header, ws), FALSE)
(* Without the definitions it deletes. *)
WithoutDefinitions(s, ws, aliases) == Without(s, LAMBDA old : Deletes(ws, old.header, aliases), TRUE)
(* Without the earlier settings of its switch. *)
WithoutSwitch(s, key) == Without(s, LAMBDA old : SwitchKey(Base(old.header)) = key, FALSE)

(* The routes an undo names go by their headers. *)
LEMMA RoutesGo ==
    ASSUME NEW bs, NEW m \in Nat, NEW s, MergeInv(bs, m, s), NEW ws, RemovesRoutes(ws)
    PROVE  MergeInv(bs, m, WithoutRoutes(s, ws))
<1> DEFINE t == WithoutRoutes(s, ws)
           kept == {o \in ToSet(s.merged) : ~ RouteSelected(o.header, ws)}
           gone == {o \in ToSet(s.merged) : RouteSelected(o.header, ws)}
<1>1. t = [merged |-> Those(s.merged, kept),
           ignored |-> s.ignored \cup UNION {IF FALSE THEN LinesOf(b) ELSE {b.at} : b \in gone}]
  BY Zenon DEF Without, WithoutRoutes
<1>2. kept \cup gone = ToSet(s.merged) /\ kept \cap gone = {}
  OBVIOUS
<1>3. ASSUME NEW o \in gone PROVE o.known
  <2>1. RouteSelector(ws).scope # NoKey /\ RouteSelector(o.header).scope = RouteSelector(ws).scope
    BY Zenon DEF RemovesRoutes, RouteSelected
  <2>2. o.header # Unknown
    BY <2>1, UnknownRoute
  <2> QED BY <2>2, NamelessView
<1> HIDE DEF t, kept, gone
<1>4. Drops(s, t, kept, gone, FALSE)
  BY <1>1, <1>2, Zenon DEF Drops
<1>5. MergeInv(bs, m, t)
  BY <1>3, <1>4, DropKeeps
<1> QED BY <1>5 DEF t

(* The definitions an undo names go with their lines. *)
LEMMA DefinitionsGo ==
    ASSUME NEW bs, NEW m \in Nat, NEW s, MergeInv(bs, m, s), NEW ws, NEW aliases
    PROVE  MergeInv(bs, m, WithoutDefinitions(s, ws, aliases))
<1> DEFINE t == WithoutDefinitions(s, ws, aliases)
           kept == {o \in ToSet(s.merged) : ~ Deletes(ws, o.header, aliases)}
           gone == {o \in ToSet(s.merged) : Deletes(ws, o.header, aliases)}
<1>1. t = [merged |-> Those(s.merged, kept),
           ignored |-> s.ignored \cup UNION {IF TRUE THEN LinesOf(b) ELSE {b.at} : b \in gone}]
  BY Zenon DEF Without, WithoutDefinitions
<1>2. kept \cup gone = ToSet(s.merged) /\ kept \cap gone = {}
  OBVIOUS
<1> HIDE DEF t, kept, gone
<1>3. Drops(s, t, kept, gone, TRUE)
  BY <1>1, <1>2, Zenon DEF Drops
<1>4. MergeInv(bs, m, t)
  BY <1>3, DropKeeps
<1> QED BY <1>4 DEF t

(* The switch a header sets again goes by its header. *)
LEMMA SwitchGoes ==
    ASSUME Unkeyed, NEW bs, NEW m \in Nat, NEW s, MergeInv(bs, m, s), NEW key, key # NoKey
    PROVE  MergeInv(bs, m, WithoutSwitch(s, key))
<1> DEFINE t == WithoutSwitch(s, key)
           kept == {o \in ToSet(s.merged) : ~ (SwitchKey(Base(o.header)) = key)}
           gone == {o \in ToSet(s.merged) : SwitchKey(Base(o.header)) = key}
<1>1. t = [merged |-> Those(s.merged, kept),
           ignored |-> s.ignored \cup UNION {IF FALSE THEN LinesOf(b) ELSE {b.at} : b \in gone}]
  BY Zenon DEF Without, WithoutSwitch
<1>2. kept \cup gone = ToSet(s.merged) /\ kept \cap gone = {}
  OBVIOUS
<1>3. ASSUME NEW o \in gone PROVE o.known
  <2>1. SwitchKey(Base(o.header)) # NoKey /\ Base(Unknown) = Unknown /\ SwitchKey(Unknown) = NoKey
    BY UnknownIs DEF Unkeyed
  <2>2. o.header # Unknown
    BY <2>1, Zenon
  <2> QED BY <2>2, NamelessView
<1> HIDE DEF t, kept, gone
<1>4. Drops(s, t, kept, gone, FALSE)
  BY <1>1, <1>2, Zenon DEF Drops
<1>5. MergeInv(bs, m, t)
  BY <1>3, <1>4, DropKeeps
<1> QED BY <1>5 DEF t

(* A block is merged with a view of its key, or is a view of its own. *)
LEMMA EnterKeeps ==
    ASSUME Unkeyed, NEW bs, Raw(bs), NEW m \in Nat, m + 1 <= Len(bs), NEW s, MergeInv(bs, m, s)
    PROVE  MergeInv(bs, m + 1, Entered(s, bs[m + 1], AclAliases(bs)))
<1> DEFINE b == bs[m + 1]
           aliases == AclAliases(bs)
           same == {i \in DOMAIN s.merged : ViewKey(b.header, aliases) # NoKey
                      /\ ViewKey(s.merged[i].header, aliases) = ViewKey(b.header, aliases)}
           i == CHOOSE i \in same : TRUE
           t == Entered(s, b, aliases)
<1>1. t = IF same = {} THEN [s EXCEPT !.merged = Append(@, b)]
          ELSE [merged |-> Joint(s.merged, i, b), ignored |-> s.ignored \cup {b.at}]
  BY Zenon DEF Entered, Joint
<1>2. ViewKey(Unknown, aliases) = NoKey
  BY UnknownView
<1>3. s.merged \in Seq(Blocks) /\ b \in Blocks /\ Shape(b)
  BY MergeFields, FreshLines DEF MergeInv
<1>4. DOMAIN s.merged = 1 .. Len(s.merged)
  <2> DEFINE ms == s.merged
  <2>1. ms \in Seq(Blocks)
    BY <1>3
  <2> HIDE DEF ms
  <2>2. DOMAIN ms = 1 .. Len(ms)
    BY <2>1
  <2> QED BY <2>2 DEF ms
<1>5. CASE same = {}
  <2>1. t = [s EXCEPT !.merged = Append(@, bs[m + 1])]
    BY <1>1, <1>5
  <2> HIDE DEF t
  <2>2. MergeInv(bs, m + 1, t)
    BY <2>1, AppendKeeps
  <2> QED BY <2>2 DEF t
<1>6. CASE same # {}
  <2>1. t = [merged |-> Joint(s.merged, i, bs[m + 1]), ignored |-> s.ignored \cup {bs[m + 1].at}]
    BY <1>1, <1>6
  <2>2. i \in same
    BY <1>6, Zenon
  <2> HIDE DEF i
  <2>3. i \in 1 .. Len(s.merged)
    BY <1>4, <2>2
  <2>4. ViewKey(b.header, aliases) # NoKey /\ ViewKey(s.merged[i].header, aliases) = ViewKey(b.header, aliases)
    BY <2>2, Zenon
  <2>5. b.header # Unknown /\ s.merged[i].header # Unknown
    BY <1>2, <2>4, Zenon
  <2>6. b.known
    BY <1>3, <2>5, Zenon DEF Shape
  <2>7. s.merged[i].known
    <3>1. Shape(s.merged[i])
      BY <2>3, Zenon DEF MergeInv, Shaped
    <3> QED BY <2>5, <3>1, Zenon DEF Shape
  <2> HIDE DEF t
  <2>8. MergeInv(bs, m + 1, t)
    BY <2>1, <2>3, <2>6, <2>7, JoinKeeps
  <2> QED BY <2>8 DEF t
<1> QED BY <1>5, <1>6

(* A block taken in. *)
LEMMA AbsorbKeeps ==
    ASSUME Unkeyed, NEW bs, Raw(bs), NEW m \in Nat, m + 1 <= Len(bs), NEW s, MergeInv(bs, m, s)
    PROVE  MergeInv(bs, m + 1, Absorbed(s, bs[m + 1], AclAliases(bs)))
<1> DEFINE b == bs[m + 1]
           aliases == AclAliases(bs)
           gone == Tail(b.header)
           key == SwitchKey(Base(b.header))
           r == WithoutRoutes(s, gone)
           d == WithoutDefinitions(s, gone, aliases)
           w == WithoutSwitch(s, key)
           e == IF key = NoKey THEN s ELSE w
           t == Absorbed(s, b, aliases)
<1>1. t = IF Undone(b.header) /\ RemovesRoutes(gone) THEN [r EXCEPT !.ignored = @ \cup {b.at}]
          ELSE IF Undone(b.header) /\ Deletable(gone) THEN [d EXCEPT !.ignored = @ \cup {b.at}]
          ELSE Entered(e, b, aliases)
  BY Zenon DEF Absorbed, WithoutRoutes, WithoutDefinitions, WithoutSwitch
<1>2. Shape(b)
  BY FreshLines
<1>3. Undone(b.header) => b.known
  BY <1>2, UnknownIs, Zenon DEF Shape
<1>4. MergeInv(bs, m, d)
  BY DefinitionsGo
<1>5. RemovesRoutes(gone) => MergeInv(bs, m, r)
  BY RoutesGo
<1>6. MergeInv(bs, m, e)
  <2> HIDE DEF key
  <2>1. key # NoKey => MergeInv(bs, m, w)
    BY SwitchGoes
  <2> QED BY <2>1, Zenon
<1> HIDE DEF r, d, w, e, gone, t
<1>7. ASSUME NEW x, MergeInv(bs, m, x), b.known PROVE MergeInv(bs, m + 1, [x EXCEPT !.ignored = @ \cup {b.at}])
  BY <1>7, UndoKeeps
<1>8. MergeInv(bs, m + 1, Entered(e, b, aliases))
  BY <1>6, EnterKeeps
<1> HIDE DEF b, aliases
<1>9. MergeInv(bs, m + 1, t)
  <2>1. CASE Undone(b.header) /\ RemovesRoutes(gone)
    <3>1. MergeInv(bs, m + 1, [r EXCEPT !.ignored = @ \cup {b.at}])
      BY <1>3, <1>5, <1>7, <2>1, Zenon
    <3> QED BY <1>1, <2>1, <3>1, Zenon
  <2>2. CASE ~ (Undone(b.header) /\ RemovesRoutes(gone)) /\ Undone(b.header) /\ Deletable(gone)
    <3>1. MergeInv(bs, m + 1, [d EXCEPT !.ignored = @ \cup {b.at}])
      BY <1>3, <1>4, <1>7, <2>2, Zenon
    <3> QED BY <1>1, <2>2, <3>1, Zenon
  <2>3. CASE ~ (Undone(b.header) /\ RemovesRoutes(gone)) /\ ~ (Undone(b.header) /\ Deletable(gone))
    BY <1>1, <1>8, <2>3, Zenon
  <2> QED BY <2>1, <2>2, <2>3, Zenon
<1> QED BY <1>9 DEF t, b, aliases

(* The blocks of a full text are as the reduction takes them in. *)
LEMMA RawIndex ==
    ASSUME NEW ls, NEW bs, NEW n, Indexed(ls, <<>>, bs, n)
    PROVE  Raw(bs)
<1>1. bs \in Seq(Blocks) /\ BlocksOk(ls, <<>>, bs, n) /\ Parted(<<>>, bs)
  BY Zenon DEF Indexed
<1>2. Apart(bs)
  BY <1>1, Zenon DEF Apart, Parted, Held
<1>3. Shaped(bs)
  <2> SUFFICES ASSUME NEW i \in 1 .. Len(bs) PROVE Shape(bs[i])
    BY Zenon DEF Shaped
  <2>1. BlockOk(ls, <<>>, bs[i], n)
    BY <1>1, Zenon DEF BlocksOk
  <2>2. CASE bs[i].known
    <3>1. TopLine(ls, bs[i].at)
      BY <2>1, <2>2, Zenon DEF BlockOk
    <3>2. bs[i].at \notin CmdLines(bs[i])
      BY <2>1, <3>1 DEF BlockOk
    <3> QED BY <2>2, <3>2, Zenon DEF Shape
  <2>3. CASE ~ bs[i].known
    BY <2>1, <2>3, Zenon DEF BlockOk, Shape
  <2> QED BY <2>2, <2>3
<1> QED BY <1>1, <1>2, <1>3, Zenon DEF Raw

(* Nothing is dropped before the first block. *)
LEMMA MergeStarts ==
    ASSUME NEW bs
    PROVE  MergeInv(bs, 0, [merged |-> <<>>, ignored |-> {}])
<1> DEFINE ms == <<>>  ig == {}
           s == [merged |-> ms, ignored |-> ig]
<1>1. ms \in Seq(Blocks) /\ Len(ms) = 0 /\ ig \in SUBSET Nat
  OBVIOUS
<1>2. \A i \in 1 .. 0 : FALSE
  OBVIOUS
<1> HIDE DEF ms
<1>3. s \in Merges /\ s.merged = ms /\ s.ignored = ig
  BY <1>1, MergeMade
<1>4. Apart(ms) /\ Shaped(ms) /\ Spared(ms, ig)
  BY <1>1, <1>2 DEF Apart, Shaped, Spared
<1>5. Drawn(bs, 0, ms, ig) /\ Kept(bs, 0, ms, ig) /\ Sourced(bs, 0, ms, ig)
  BY <1>1, <1>2 DEF Drawn, Kept, Sourced
<1> HIDE DEF s, ig
<1>6. MergeInv(bs, 0, s)
  BY <1>3, <1>4, <1>5, Zenon DEF MergeInv
<1> QED BY <1>6 DEF s, ms, ig

(* What the blocks of a text are merged into. *)
LEMMA MergeHolds ==
    ASSUME Unkeyed, NEW bs, Raw(bs)
    PROVE  MergeInv(bs, Len(bs), Merged(bs))
<1> DEFINE n == Len(bs)
           base == [merged |-> <<>>, ignored |-> {}]
<1>1. n \in Nat /\ DOMAIN bs = 1 .. n
  BY DEF Raw
<1>2. PICK g : /\ g[0] = base
               /\ \A k \in 1 .. n : g[k] = Absorbed(g[k - 1], bs[k], AclAliases(bs))
               /\ AbsorbFolded(AclAliases(bs), base, bs) = g[n]
  <2> HIDE DEF n, base
  <2> QED BY <1>1, AbsorbFold
<1>3. Merged(bs) = g[n]
  BY <1>2, Zenon DEF Merged, AbsorbFolded
<1>4. MergeInv(bs, 0, g[0])
  BY <1>2, MergeStarts
<1> DEFINE S == {k \in Nat : k <= n => MergeInv(bs, k, g[k])}
<1>5. ASSUME NEW k \in S \cap Nat PROVE k + 1 \in S
  <2> SUFFICES ASSUME k + 1 <= n PROVE MergeInv(bs, k + 1, g[k + 1])
    OBVIOUS
  <2>1. k <= n /\ k + 1 \in 1 .. n /\ (k + 1) - 1 = k /\ k \in Nat
    BY <1>1
  <2>2. MergeInv(bs, k, g[k])
    BY <2>1
  <2> DEFINE s == g[k]
  <2>3. g[k + 1] = Absorbed(s, bs[k + 1], AclAliases(bs))
    BY <1>2, <2>1, Zenon
  <2> HIDE DEF s
  <2>4. MergeInv(bs, k, s) /\ k \in Nat /\ k + 1 <= Len(bs)
    BY <2>1, <2>2 DEF s
  <2>5. MergeInv(bs, k + 1, Absorbed(s, bs[k + 1], AclAliases(bs)))
    BY <2>4, AbsorbKeeps
  <2> QED BY <2>3, <2>5, Zenon
<1>6. 0 \in S
  BY <1>4
<1>7. n \in S
  <2> HIDE DEF S
  <2>1. Nat \subseteq S
    BY <1>5, <1>6, Induction
  <2> QED BY <1>1, <2>1
<1>8. MergeInv(bs, n, g[n])
  BY <1>1, <1>7
<1> QED BY <1>3, <1>8

(* The first blocks of a text, none of them merged. *)
Alone(bs, m) == [merged |-> SubSeq(bs, 1, m), ignored |-> {}]

(* No switch is set before the first view. *)
LEMMA SwitchNone ==
    ASSUME NEW bs, NEW key
    PROVE  WithoutSwitch([merged |-> <<>>, ignored |-> {}], key) = [merged |-> <<>>, ignored |-> {}]
<1> DEFINE none == <<>>
           s == [merged |-> none, ignored |-> {}]
           kept == {o \in ToSet(s.merged) : ~ (SwitchKey(Base(o.header)) = key)}
           gone == {o \in ToSet(s.merged) : SwitchKey(Base(o.header)) = key}
<1>1. WithoutSwitch(s, key) = [merged |-> Those(s.merged, kept),
         ignored |-> s.ignored \cup UNION {IF FALSE THEN LinesOf(b) ELSE {b.at} : b \in gone}]
  BY Zenon DEF Without, WithoutSwitch
<1>2. none \in Seq({}) /\ Len(none) = 0 /\ ToSet(none) = {}
  BY DEF ToSet
<1>3. s.merged = none /\ s.ignored = {}
  OBVIOUS
<1>4. gone = {}
  BY <1>2, <1>3
<1> HIDE DEF none, kept, gone
<1>5. Those(none, kept) \in Seq({}) /\ \E f : Picks(f, Those(none, kept), none, 0, kept)
  BY <1>2, ThoseIs
<1> DEFINE r == Those(none, kept)
<1>6. r = <<>>
  <2>1. PICK f : f \in [1 .. Len(r) -> 1 .. 0]
    BY <1>5 DEF Picks
  <2>2. r \in Seq({})
    BY <1>5
  <2> HIDE DEF r
  <2>3. Len(r) = 0
    <3>1. ASSUME Len(r) # 0 PROVE FALSE
      <4>1. 1 \in 1 .. Len(r)
        BY <2>2, <3>1
      <4>2. f[1] \in 1 .. 0
        BY <2>1, <4>1
      <4> QED BY <4>2
    <3> QED BY <3>1
  <2> QED BY <2>2, <2>3
<1>7. WithoutSwitch(s, key) = [merged |-> r, ignored |-> {}]
  BY <1>1, <1>3, <1>4
<1> HIDE DEF r
<1> QED BY <1>6, <1>7 DEF none

(* The merged views replaced. *)
LEMMA MergedReplaced ==
    ASSUME NEW ms, NEW ig, NEW q
    PROVE  [[merged |-> ms, ignored |-> ig] EXCEPT !.merged = q] = [merged |-> q, ignored |-> ig]
OBVIOUS

(* In a snippet of a view, every block is a view of its own. *)
LEMMA SnippetAlone ==
    ASSUME Unkeyed, NEW ls, NEW v, v # <<>>, ~ Undone(v), NEW bs, NEW n, Indexed(ls, v, bs, n),
           NEW m \in Nat, m + 1 <= Len(bs)
    PROVE  Absorbed(Alone(bs, m), bs[m + 1], AclAliases(bs)) = Alone(bs, m + 1)
<1> DEFINE b == bs[m + 1]
           aliases == AclAliases(bs)
           gone == Tail(b.header)
           key == SwitchKey(Base(b.header))
           s == Alone(bs, m)
           e == IF key = NoKey THEN s ELSE WithoutSwitch(s, key)
           same == {i \in DOMAIN s.merged : ViewKey(b.header, aliases) # NoKey
                      /\ ViewKey(s.merged[i].header, aliases) = ViewKey(b.header, aliases)}
<1>1. bs \in Seq(Blocks) /\ m + 1 \in 1 .. Len(bs)
  BY DEF Indexed
<1>2. BlockOk(ls, v, b, n)
  BY <1>1, Zenon DEF Indexed, BlocksOk
<1>3. m = 0 \/ b.header = Unknown
  <2>1. b.known => m + 1 = 1
    BY <1>1, Zenon DEF Indexed, OneView
  <2>2. ~ b.known => b.header = Unknown
    BY <1>2, Zenon DEF BlockOk
  <2> QED BY <2>1, <2>2
<1>4. m = 0 => b.header = v
  BY DEF Indexed, OneView
<1>5. ~ Undone(b.header)
  BY <1>3, <1>4, UnknownIs
<1>6. Absorbed(s, b, aliases) = Entered(e, b, aliases)
  BY <1>5, Zenon DEF Absorbed, WithoutSwitch
<1>7. s.merged = SubSeq(bs, 1, m) /\ s.ignored = {} /\ s = [merged |-> SubSeq(bs, 1, m), ignored |-> {}]
  BY DEF Alone
<1>8. e = s
  <2>1. CASE m = 0
    <3>1. SubSeq(bs, 1, m) = <<>>
      BY <1>1, <2>1
    <3>2. s = [merged |-> <<>>, ignored |-> {}]
      BY <1>7, <3>1
    <3> HIDE DEF s, key
    <3> QED BY <3>2, SwitchNone
  <2>2. CASE b.header = Unknown
    <3>1. key = NoKey
      BY <2>2, UnknownIs DEF Unkeyed
    <3> QED BY <3>1, Zenon
  <2> QED BY <1>3, <2>1, <2>2
<1>9. same = {}
  <2>1. CASE m = 0
    <3> DEFINE r == SubSeq(bs, 1, m)
    <3>1. r \in Seq(Blocks) /\ Len(r) = 0
      BY <1>1, <2>1
    <3> HIDE DEF r
    <3>2. DOMAIN r = {}
      BY <3>1
    <3>3. DOMAIN s.merged = {}
      BY <1>7, <3>2 DEF r
    <3> QED BY <3>3
  <2>2. CASE b.header = Unknown
    <3>1. ViewKey(b.header, aliases) = NoKey
      BY <2>2, UnknownView
    <3> QED BY <3>1
  <2> QED BY <1>3, <2>1, <2>2
<1>10. Entered(s, b, aliases) = [s EXCEPT !.merged = Append(@, b)]
  BY <1>9, Zenon DEF Entered
<1>11. Append(SubSeq(bs, 1, m), b) = SubSeq(bs, 1, m + 1)
  <2> DEFINE r == SubSeq(bs, 1, m)
             t == SubSeq(bs, 1, m + 1)
             u == Append(r, b)
  <2>1. r \in Seq(Blocks) /\ Len(r) = m /\ \A k \in 1 .. m : r[k] = bs[k]
    BY <1>1
  <2>2. t \in Seq(Blocks) /\ Len(t) = m + 1 /\ \A k \in 1 .. m + 1 : t[k] = bs[k]
    BY <1>1
  <2>3. b \in Blocks
    BY <1>1
  <2> HIDE DEF r, t, b
  <2>4. u \in Seq(Blocks) /\ Len(u) = m + 1 /\ u[m + 1] = b /\ \A k \in 1 .. m : u[k] = r[k]
    BY <2>1, <2>3
  <2> HIDE DEF u
  <2>5. ASSUME NEW k \in 1 .. m + 1 PROVE u[k] = t[k]
    <3>1. CASE k = m + 1
      BY <2>2, <2>4, <3>1 DEF b
    <3>2. CASE k # m + 1
      <4>1. k \in 1 .. m
        BY <3>2
      <4> QED BY <2>1, <2>2, <2>4, <4>1
    <3> QED BY <3>1, <3>2
  <2>6. u = t
    BY <2>2, <2>4, <2>5
  <2> QED BY <2>6 DEF u, r, t
<1>12. Absorbed(s, b, aliases) = [s EXCEPT !.merged = Append(@, b)]
  BY <1>6, <1>8, <1>10
<1>13. [s EXCEPT !.merged = Append(@, b)] = [merged |-> Append(SubSeq(bs, 1, m), b), ignored |-> {}]
  <2> DEFINE r == SubSeq(bs, 1, m)
  <2> HIDE DEF r, b, s
  <2>1. s = [merged |-> r, ignored |-> {}]
    BY <1>7 DEF r, s
  <2>2. s.merged = r
    BY <2>1
  <2> DEFINE q == Append(r, b)
  <2>3. [s EXCEPT !.merged = Append(@, b)] = [s EXCEPT !.merged = q]
    BY <2>2, Zenon
  <2> HIDE DEF q
  <2>4. [s EXCEPT !.merged = q] = [merged |-> q, ignored |-> {}]
    BY <2>1, MergedReplaced, Zenon
  <2>5. [s EXCEPT !.merged = Append(@, b)] = [merged |-> q, ignored |-> {}]
    BY <2>3, <2>4, Zenon
  <2> QED BY <2>5 DEF q, r
<1>14. Alone(bs, m + 1) = [merged |-> SubSeq(bs, 1, m + 1), ignored |-> {}]
  BY DEF Alone
<1> QED BY <1>11, <1>12, <1>13, <1>14, Zenon

(* Nothing is dropped of a snippet of a view, whatever blocks it has. *)
LEMMA SnippetMerged ==
    ASSUME Unkeyed, NEW ls, NEW v, v # <<>>, ~ Undone(v), NEW bs, NEW n, Indexed(ls, v, bs, n)
    PROVE  Merged(bs) = [merged |-> bs, ignored |-> {}]
<1> DEFINE p == Len(bs)
           base == [merged |-> <<>>, ignored |-> {}]
<1>1. p \in Nat /\ DOMAIN bs = 1 .. p /\ bs \in Seq(Blocks)
  BY DEF Indexed
<1>2. PICK g : /\ g[0] = base
               /\ \A k \in 1 .. p : g[k] = Absorbed(g[k - 1], bs[k], AclAliases(bs))
               /\ AbsorbFolded(AclAliases(bs), base, bs) = g[p]
  <2> HIDE DEF p, base
  <2> QED BY <1>1, AbsorbFold
<1>3. Merged(bs) = g[p]
  BY <1>2, Zenon DEF Merged, AbsorbFolded
<1> DEFINE S == {k \in Nat : k <= p => g[k] = Alone(bs, k)}
<1>4. ASSUME NEW k \in S \cap Nat PROVE k + 1 \in S
  <2> SUFFICES ASSUME k + 1 <= p PROVE g[k + 1] = Alone(bs, k + 1)
    OBVIOUS
  <2>1. k <= p /\ k + 1 \in 1 .. p /\ (k + 1) - 1 = k /\ k \in Nat
    BY <1>1
  <2>2. g[k] = Alone(bs, k)
    BY <2>1
  <2>3. g[k + 1] = Absorbed(g[k], bs[k + 1], AclAliases(bs))
    BY <1>2, <2>1, Zenon
  <2>4. Absorbed(Alone(bs, k), bs[k + 1], AclAliases(bs)) = Alone(bs, k + 1)
    BY <2>1, SnippetAlone
  <2> QED BY <2>2, <2>3, <2>4, Zenon
<1>5. 0 \in S
  <2>1. SubSeq(bs, 1, 0) = <<>>
    BY <1>1
  <2>2. g[0] = Alone(bs, 0)
    BY <1>2, <2>1 DEF Alone
  <2> QED BY <2>2
<1>6. p \in S
  <2> HIDE DEF S
  <2>1. Nat \subseteq S
    BY <1>4, <1>5, Induction
  <2> QED BY <1>1, <2>1
<1>7. g[p] = Alone(bs, p)
  BY <1>1, <1>6
<1>8. SubSeq(bs, 1, p) = bs
  BY <1>1
<1> QED BY <1>3, <1>7, <1>8 DEF Alone

----------------------------------------------------------------------------
(* The commands in force *)

(* A command in force is one of the view's. *)
LEMMA ObeyedFrom ==
    ASSUME NEW T, NEW h, NEW active \in Seq(T), NEW c \in T
    PROVE  Obeyed(h, active, c) \in Seq(T)
<1> DEFINE K == {d \in ToSet(active) : ~RemoveMatch(h, d, c)}
           L == {d \in ToSet(active) : /\ ~(IsInterface(h) /\ BindsVpn(c.words) /\ BoundToVpn(d.words))
                                       /\ ~SameClause(h, d, c)}
<1>1. Obeyed(h, active, c) \in {Append(active, c), Those(active, K), Append(Those(active, L), c)}
  BY Zenon DEF Obeyed
<1> HIDE DEF K, L
<1>2. Those(active, K) \in Seq(T) /\ Those(active, L) \in Seq(T)
  BY ThoseIs
<1>3. Append(active, c) \in Seq(T) /\ Append(Those(active, L), c) \in Seq(T)
  BY <1>2
<1> QED BY <1>1, <1>2, <1>3

(* A view reduced keeps its header, and its commands are among those it had. *)
LEMMA InForceIs ==
    ASSUME NEW b \in Blocks
    PROVE  /\ InForce(b) \in Blocks
           /\ InForce(b).at = b.at /\ InForce(b).known = b.known
           /\ CmdLines(InForce(b)) \subseteq CmdLines(b)
<1> DEFINE h == b.header
           cs == b.commands
           n == Len(cs)
           T == ToSet(cs)
           none == <<>>
<1>1. cs \in Seq(Commands)
  BY DEF Blocks
<1> HIDE DEF cs
<1>2. n \in Nat /\ DOMAIN cs = 1 .. n /\ \A k \in 1 .. n : cs[k] \in Commands
  BY <1>1
<1>3. T \subseteq Commands /\ \A k \in 1 .. n : cs[k] \in T
  BY <1>2 DEF ToSet
<1> HIDE DEF n, T
<1>4. none \in Seq(T)
  OBVIOUS
<1> HIDE DEF none, h
<1>5. PICK g : /\ g[0] = none
               /\ \A k \in 1 .. n : g[k] = Obeyed(h, g[k - 1], cs[k])
               /\ ObeyFolded(h, none, cs) = g[n]
  BY <1>2, ObeyFold
<1> DEFINE S == {k \in Nat : k <= n => g[k] \in Seq(T)}
<1>6. ASSUME NEW k \in S \cap Nat PROVE k + 1 \in S
  <2> SUFFICES ASSUME k + 1 <= n PROVE g[k + 1] \in Seq(T)
    OBVIOUS
  <2>1. k <= n /\ k + 1 \in 1 .. n /\ (k + 1) - 1 = k
    BY <1>2
  <2>2. g[k] \in Seq(T) /\ cs[k + 1] \in T
    BY <1>3, <2>1
  <2>3. g[k + 1] = Obeyed(h, g[k], cs[k + 1])
    BY <1>5, <2>1, Zenon
  <2> QED BY <2>2, <2>3, ObeyedFrom
<1>7. 0 \in S
  BY <1>4, <1>5
<1>8. n \in S
  <2> HIDE DEF S
  <2>1. Nat \subseteq S
    BY <1>6, <1>7, Induction
  <2> QED BY <1>2, <2>1
<1> DEFINE r == ObeyFolded(h, none, cs)
<1>9. r \in Seq(T)
  BY <1>2, <1>5, <1>8
<1> HIDE DEF r, S
<1>10. r \in Seq(Commands) /\ ToSet(r) \subseteq T
  <2>1. r \in Seq(Commands)
    BY <1>3, <1>9
  <2>2. DOMAIN r = 1 .. Len(r) /\ \A k \in 1 .. Len(r) : r[k] \in T
    BY <1>9
  <2> QED BY <2>1, <2>2 DEF ToSet
<1>11. InForce(b) = [b EXCEPT !.commands = r]
  BY Zenon DEF InForce, ObeyFolded, r, h, none, cs
<1> DEFINE e == [b EXCEPT !.commands = r]
<1> HIDE DEF e
<1>12. e \in Blocks /\ e.at = b.at /\ e.known = b.known /\ e.commands = r
  BY <1>10, WithCommands DEF e
<1>13. CmdLines(e) \subseteq CmdLines(b)
  <2>1. ToSet(e.commands) \subseteq ToSet(b.commands)
    BY <1>10, <1>12 DEF T, cs
  <2> QED BY <2>1 DEF CmdLines
<1> QED BY <1>11, <1>12, <1>13 DEF e

(* The lines whose commands are in force; a snippet's view has no line.     *)
LiveLines(bs, v) ==
    UNION {CmdLines(b) \cup (IF b.known /\ v = <<>> THEN {b.at} ELSE {}) : b \in ToSet(bs)}

(* The lines in force, and the lines dropped, view by view. *)
LEMMA LiveIs ==
    ASSUME NEW bs, Merged(bs).merged \in Seq(Blocks), NEW v, NEW ms, ms = Merged(bs).merged
    PROVE  \A j : j \in LiveLines(Effective(bs), v) <=>
              \E q \in 1 .. Len(ms) : j \in CmdLines(InForce(ms[q])) \/ (ms[q].known /\ v = <<>> /\ j = ms[q].at)
<1> DEFINE n == Len(ms)
           E == Effective(bs)
<1>1. ms \in Seq(Blocks) /\ DOMAIN ms = 1 .. n
  OBVIOUS
<1>2. E = [i \in DOMAIN ms |-> InForce(ms[i])]
  BY Zenon DEF Effective
<1>3. DOMAIN E = 1 .. n /\ \A q \in 1 .. n : E[q] = InForce(ms[q])
  BY <1>1, <1>2
<1> HIDE DEF E, n
<1>4. \A q \in 1 .. n : InForce(ms[q]).at = ms[q].at /\ InForce(ms[q]).known = ms[q].known
  <2> SUFFICES ASSUME NEW q \in 1 .. n PROVE InForce(ms[q]).at = ms[q].at /\ InForce(ms[q]).known = ms[q].known
    OBVIOUS
  <2>1. ms[q] \in Blocks
    BY <1>1 DEF n
  <2> QED BY <2>1, InForceIs
<1>5. \A b : b \in ToSet(E) <=> \E q \in 1 .. n : b = InForce(ms[q])
  BY <1>3 DEF ToSet
<1>6. \A j : j \in LiveLines(E, v) <=> \E b \in ToSet(E) : j \in CmdLines(b) \/ (b.known /\ v = <<>> /\ j = b.at)
  BY DEF LiveLines
<1> QED BY <1>4, <1>5, <1>6 DEF E, n

(* The lines the reduction drops. *)
LEMMA GoneIs ==
    ASSUME NEW bs, Merged(bs).merged \in Seq(Blocks), NEW ms, ms = Merged(bs).merged
    PROVE  \A j : j \in Superseded(bs) <=>
              \/ j \in Merged(bs).ignored
              \/ \E q \in 1 .. Len(ms) : j \in CmdLines(ms[q]) /\ j \notin CmdLines(InForce(ms[q]))
<1> DEFINE ig == Merged(bs).ignored
           lost == UNION {CmdLines(b) \ CmdLines(InForce(b)) : b \in ToSet(ms)}
<1>1. Superseded(bs) = ig \cup lost
  BY Zenon DEF Superseded, CmdLines
<1>2. DOMAIN ms = 1 .. Len(ms)
  OBVIOUS
<1>3. \A b : b \in ToSet(ms) <=> \E q \in 1 .. Len(ms) : b = ms[q]
  BY <1>2 DEF ToSet
<1>4. \A j : j \in lost <=> \E b \in ToSet(ms) : j \in CmdLines(b) /\ j \notin CmdLines(InForce(b))
  OBVIOUS
<1> HIDE DEF lost, ig
<1> QED BY <1>1, <1>3, <1>4 DEF ig

(* A line stands under a dropped header. *)
Under(ls, gone, i) ==
    \E h \in gone : /\ h \in 1 .. Len(ls) /\ TopLine(ls, h) /\ h < i
                    /\ \A t \in 1 .. i : h < t => ~ TopLine(ls, t)
(* Each configuring line is in force or dropped, or its header is dropped. *)
OnceEach(ls, v, live, gone) ==
    /\ live \cap gone = {}
    /\ \A i \in live \cup gone : i \in 1 .. Len(ls) /\ Configures(ls, i)
    /\ \A i \in 1 .. Len(ls) : Configures(ls, i) => i \in live \/ i \in gone \/ (v = <<>> /\ Under(ls, gone, i))

(* The lines of a full text. *)
LEMMA FullOnce ==
    ASSUME Unkeyed, NEW ls, NEW bs, Indexed(ls, <<>>, bs, Len(ls)), Len(ls) \in Nat
    PROVE  OnceEach(ls, <<>>, LiveLines(Effective(bs), <<>>), Superseded(bs))
<1> DEFINE N == Len(ls)
           m == Len(bs)
           ms == Merged(bs).merged
           ig == Merged(bs).ignored
           v == <<>>
           live == LiveLines(Effective(bs), v)
           gone == Superseded(bs)
           n == Len(ms)
<1>1. Raw(bs) /\ bs \in Seq(Blocks)
  BY RawIndex DEF Indexed
<1>2. MergeInv(bs, m, Merged(bs))
  BY <1>1, MergeHolds
<1>3. Merged(bs) \in Merges /\ ms \in Seq(Blocks)
  BY <1>2, MergeFields DEF MergeInv
<1>4. /\ Apart(ms) /\ Shaped(ms) /\ Spared(ms, ig)
      /\ Drawn(bs, m, ms, ig) /\ Kept(bs, m, ms, ig)
  BY <1>2, Zenon DEF MergeInv
<1>5. \A j : j \in live <=>
         \E q \in 1 .. n : j \in CmdLines(InForce(ms[q])) \/ (ms[q].known /\ v = <<>> /\ j = ms[q].at)
  BY <1>3, LiveIs
<1>6. \A j : j \in gone <=>
         \/ j \in ig
         \/ \E q \in 1 .. n : j \in CmdLines(ms[q]) /\ j \notin CmdLines(InForce(ms[q]))
  BY <1>3, GoneIs
<1>7. \A q \in 1 .. n : CmdLines(InForce(ms[q])) \subseteq CmdLines(ms[q]) /\ LinesOf(ms[q]) = {ms[q].at} \cup CmdLines(ms[q])
  <2> SUFFICES ASSUME NEW q \in 1 .. n
               PROVE  CmdLines(InForce(ms[q])) \subseteq CmdLines(ms[q]) /\ LinesOf(ms[q]) = {ms[q].at} \cup CmdLines(ms[q])
    OBVIOUS
  <2>1. ms[q] \in Blocks
    BY <1>3
  <2> QED BY <2>1, InForceIs, LinesNat
<1>8. \A k \in 1 .. m : BlockOk(ls, v, bs[k], N)
  BY Zenon DEF Indexed, BlocksOk
<1>9. ASSUME NEW k \in 1 .. m, NEW j \in LinesOf(bs[k]) PROVE j \in 1 .. N /\ Configures(ls, j)
  <2>1. j \in Held(bs[k], v)
    BY DEF Held
  <2>2. BlockOk(ls, v, bs[k], N)
    BY <1>8
  <2> HIDE DEF N
  <2>3. N \in Nat
    BY DEF N
  <2> HIDE DEF v
  <2> QED BY <2>1, <2>2, <2>3, HeldRead
<1>10. \A k \in 1 .. m : LinesOf(bs[k]) = {bs[k].at} \cup CmdLines(bs[k])
  <2> SUFFICES ASSUME NEW k \in 1 .. m PROVE LinesOf(bs[k]) = {bs[k].at} \cup CmdLines(bs[k])
    OBVIOUS
  <2>1. bs[k] \in Blocks
    BY <1>1
  <2> QED BY <2>1, LinesNat
<1>0. v = <<>>
  OBVIOUS
<1> HIDE DEF live, gone, ms, ig, n, m, N, v
<1>11. live \cap gone = {}
  <2> SUFFICES ASSUME NEW j, j \in live, j \in gone PROVE FALSE
    OBVIOUS
  <2>1. PICK q \in 1 .. n : j \in CmdLines(InForce(ms[q])) \/ (ms[q].known /\ j = ms[q].at)
    BY <1>5
  <2>2. j \in LinesOf(ms[q])
    BY <1>7, <2>1
  <2>3. CASE j \in ig
    BY <1>4, <2>2, <2>3 DEF Spared, n
  <2>4. ASSUME NEW p \in 1 .. n, j \in CmdLines(ms[p]), j \notin CmdLines(InForce(ms[p])) PROVE FALSE
    <3>1. j \in LinesOf(ms[p])
      BY <1>7, <2>4
    <3>2. p = q
      BY <1>4, <2>2, <3>1 DEF Apart, n
    <3>3. ms[p].known /\ j = ms[p].at
      BY <2>1, <2>4, <3>2
    <3>4. Shape(ms[p])
      BY <1>4, Zenon DEF Shaped, n
    <3> QED BY <2>4, <3>3, <3>4 DEF Shape
  <2> QED BY <1>6, <2>3, <2>4
<1>12. \A i \in live \cup gone : i \in 1 .. N /\ Configures(ls, i)
  <2> SUFFICES ASSUME NEW i, i \in live \/ i \in gone PROVE i \in 1 .. N /\ Configures(ls, i)
    OBVIOUS
  <2>1. i \in ig \/ \E q \in 1 .. n : i \in LinesOf(ms[q])
    BY <1>5, <1>6, <1>7
  <2>2. i \in Taken(bs, m)
    BY <1>4, <2>1 DEF Drawn, n
  <2>3. PICK k \in 1 .. m : i \in LinesOf(bs[k])
    BY <2>2 DEF Taken
  <2> QED BY <1>9, <2>3
<1>13. ASSUME NEW i \in 1 .. N, Configures(ls, i) PROVE i \in live \/ i \in gone \/ Under(ls, gone, i)
  <2>1. PICK k \in 1 .. m : i \in LinesOf(bs[k])
    BY <1>13, Zenon DEF Indexed, Covered, Held, N, m
  <2>2. i \in ig \/ (\E q \in 1 .. n : i \in LinesOf(ms[q])) \/ (bs[k].known /\ bs[k].at \in ig)
    BY <1>4, <2>1, Zenon DEF Kept, n
  <2>3. CASE i \in ig
    BY <1>6, <2>3
  <2>4. ASSUME NEW q \in 1 .. n, i \in LinesOf(ms[q]) PROVE i \in live \/ i \in gone
    <3>1. Shape(ms[q])
      BY <1>4, Zenon DEF Shaped, n
    <3>2. i \in CmdLines(ms[q]) \/ (ms[q].known /\ i = ms[q].at)
      BY <1>7, <2>4, <3>1 DEF Shape
    <3> QED BY <1>0, <1>5, <1>6, <3>2
  <2>5. ASSUME bs[k].known, bs[k].at \in ig PROVE i \in gone \/ Under(ls, gone, i)
    <3>1. bs[k].at \in gone
      BY <1>6, <2>5
    <3>2. CASE i = bs[k].at
      BY <3>1, <3>2
    <3>3. CASE i # bs[k].at
      <4>1. i \in CmdLines(bs[k])
        BY <1>10, <2>1, <3>3
      <4>2. BlockOk(ls, v, bs[k], N)
        BY <1>8
      <4>3. /\ bs[k].at \in 1 .. N /\ TopLine(ls, bs[k].at)
            /\ bs[k].at < i /\ \A t \in 1 .. i : bs[k].at < t => ~ TopLine(ls, t)
        BY <1>0, <2>5, <4>1, <4>2, Zenon DEF BlockOk
      <4>4. Under(ls, gone, i)
        BY <3>1, <4>3, Zenon DEF Under, N
      <4> QED BY <4>4
    <3> QED BY <3>2, <3>3
  <2> QED BY <2>2, <2>3, <2>4, <2>5
<1>14. OnceEach(ls, v, live, gone)
  BY <1>0, <1>11, <1>12, <1>13, Zenon DEF OnceEach, N
<1> QED BY <1>14 DEF v, live, gone

(* The lines of a snippet of a view. *)
LEMMA SnippetOnce ==
    ASSUME Unkeyed, NEW ls, NEW v, v # <<>>, ~ Undone(v), NEW bs, Indexed(ls, v, bs, Len(ls)), Len(ls) \in Nat
    PROVE  OnceEach(ls, v, LiveLines(Effective(bs), v), Superseded(bs))
<1> DEFINE N == Len(ls)
           n == Len(bs)
           live == LiveLines(Effective(bs), v)
           gone == Superseded(bs)
<1>1. Merged(bs) = [merged |-> bs, ignored |-> {}]
  BY SnippetMerged
<1>2. Merged(bs).merged = bs /\ Merged(bs).ignored = {} /\ bs \in Seq(Blocks)
  BY <1>1 DEF Indexed
<1>3. \A j : j \in live <=> \E q \in 1 .. n : j \in CmdLines(InForce(bs[q]))
  <2>1. \A j : j \in live <=>
           \E q \in 1 .. n : j \in CmdLines(InForce(bs[q])) \/ (bs[q].known /\ v = <<>> /\ j = bs[q].at)
    BY <1>2, LiveIs
  <2> HIDE DEF live, n
  <2> QED BY <2>1
<1>4. \A j : j \in gone <=> \E q \in 1 .. n : j \in CmdLines(bs[q]) /\ j \notin CmdLines(InForce(bs[q]))
  <2>1. \A j : j \in gone <=>
         \/ j \in Merged(bs).ignored
         \/ \E q \in 1 .. n : j \in CmdLines(bs[q]) /\ j \notin CmdLines(InForce(bs[q]))
    BY <1>2, GoneIs
  <2> HIDE DEF gone, n
  <2> QED BY <1>2, <2>1
<1>5. \A q \in 1 .. n : CmdLines(InForce(bs[q])) \subseteq CmdLines(bs[q])
  <2> SUFFICES ASSUME NEW q \in 1 .. n PROVE CmdLines(InForce(bs[q])) \subseteq CmdLines(bs[q])
    OBVIOUS
  <2>1. bs[q] \in Blocks
    BY <1>2
  <2> QED BY <2>1, InForceIs
<1>6. \A q, p \in 1 .. n : q # p => CmdLines(bs[q]) \cap CmdLines(bs[p]) = {}
  BY Zenon DEF Indexed, Parted, Held
<1>7. ASSUME NEW q \in 1 .. n, NEW j \in CmdLines(bs[q]) PROVE j \in 1 .. N /\ Configures(ls, j)
  <2>1. BlockOk(ls, v, bs[q], N)
    BY Zenon DEF Indexed, BlocksOk
  <2> QED BY <2>1 DEF BlockOk
<1>8. ASSUME NEW i \in 1 .. N, Configures(ls, i) PROVE \E q \in 1 .. n : i \in CmdLines(bs[q])
  BY <1>8, Zenon DEF Indexed, Covered, Held
<1> HIDE DEF live, gone, n
<1>9. live \cap gone = {}
  <2> SUFFICES ASSUME NEW j, j \in live, j \in gone PROVE FALSE
    OBVIOUS
  <2>1. PICK q \in 1 .. n : j \in CmdLines(InForce(bs[q]))
    BY <1>3
  <2>2. PICK p \in 1 .. n : j \in CmdLines(bs[p]) /\ j \notin CmdLines(InForce(bs[p]))
    BY <1>4
  <2> QED BY <1>5, <1>6, <2>1, <2>2
<1>10. \A i \in live \cup gone : i \in 1 .. N /\ Configures(ls, i)
  BY <1>3, <1>4, <1>5, <1>7
<1>11. ASSUME NEW i \in 1 .. N, Configures(ls, i) PROVE i \in live \/ i \in gone
  BY <1>3, <1>4, <1>8, <1>11
<1>12. OnceEach(ls, v, live, gone)
  BY <1>9, <1>10, <1>11, Zenon DEF OnceEach
<1> QED BY <1>12 DEF live, gone

(* Whatever the text, the reduction accounts for each configuring line once: *)
(* its commands are in force, or it is superseded, or it stands under the    *)
(* superseded header of its view.                                            *)
THEOREM LinesOnce ==
    ASSUME Unkeyed, NEW ls, NEW v, Text(ls, v)
    PROVE  OnceEach(ls, v, LiveLines(Effective(IndexBlocks(ls, v)), v), Superseded(IndexBlocks(ls, v)))
<1> DEFINE bs == IndexBlocks(ls, v)
<1>1. Indexed(ls, v, bs, Len(ls))
  BY IndexPartitions
<1>2. Len(ls) \in Nat /\ (v # <<>> => ~ Undone(v))
  BY DEF Text
<1> HIDE DEF bs
<1>3. OnceEach(ls, v, LiveLines(Effective(bs), v), Superseded(bs))
  <2>1. CASE v = <<>>
    BY <1>1, <1>2, <2>1, FullOnce
  <2>2. CASE v # <<>>
    BY <1>1, <1>2, <2>2, SnippetOnce
  <2> QED BY <2>1, <2>2
<1> QED BY <1>3 DEF bs

----------------------------------------------------------------------------
(* One line more *)

(* The commands of a view are obeyed under either header alike. *)
Alike(h, k) == \A active, c : Obeyed(h, active, c) = Obeyed(k, active, c)

(* A view reduced, as a fold. *)
LEMMA InForceFold ==
    ASSUME NEW b \in Blocks
    PROVE  InForce(b).commands = ObeyFolded(b.header, <<>>, b.commands)
<1> DEFINE r == ObeyFolded(b.header, <<>>, b.commands)
<1>1. InForce(b) = [b EXCEPT !.commands = r]
  BY Zenon DEF InForce, ObeyFolded
<1> HIDE DEF r
<1>2. "commands" \in DOMAIN b
  BY DEF Blocks
<1> QED BY <1>1, <1>2 DEF r

(* The commands of e are those of b, and more of the line a. *)
Extends(b, e, a) ==
    /\ Len(b.commands) <= Len(e.commands)
    /\ \A k \in 1 .. Len(b.commands) : e.commands[k] = b.commands[k]
    /\ \A k \in Len(b.commands) + 1 .. Len(e.commands) : e.commands[k].at = a

(* More commands bring none back into force. *)
LEMMA InForceMore ==
    ASSUME NEW b \in Blocks, NEW e \in Blocks, Alike(b.header, e.header), NEW a, Extends(b, e, a)
    PROVE  CmdLines(InForce(e)) \subseteq CmdLines(InForce(b)) \cup {a}
<1> DEFINE h == b.header
           i == e.header
           cs == b.commands
           ds == e.commands
           n == Len(cs)
           m == Len(ds)
           none == <<>>
<1>1. cs \in Seq(Commands) /\ ds \in Seq(Commands)
  BY DEF Blocks
<1>0. /\ n <= m /\ \A k \in 1 .. n : ds[k] = cs[k]
      /\ \A k \in n + 1 .. m : ds[k].at = a
  BY DEF Extends
<1>h. \A active, c : Obeyed(h, active, c) = Obeyed(i, active, c)
  BY DEF Alike
<1>2. InForce(b).commands = ObeyFolded(h, none, cs) /\ InForce(e).commands = ObeyFolded(i, none, ds)
  BY InForceFold
<1>3. InForce(b).commands \in Seq(Commands)
  <2>1. InForce(b) \in Blocks
    BY InForceIs
  <2> QED BY <2>1 DEF Blocks
<1> HIDE DEF h, i, cs, ds, none
<1>4. n \in Nat /\ m \in Nat /\ DOMAIN cs = 1 .. n /\ DOMAIN ds = 1 .. m /\ \A k \in 1 .. m : ds[k] \in Commands
  BY <1>1
<1> HIDE DEF n, m
<1>5. PICK f : /\ f[0] = none
               /\ \A k \in 1 .. n : f[k] = Obeyed(h, f[k - 1], cs[k])
               /\ ObeyFolded(h, none, cs) = f[n]
  BY <1>4, ObeyFold
<1>6. PICK g : /\ g[0] = none
               /\ \A k \in 1 .. m : g[k] = Obeyed(i, g[k - 1], ds[k])
               /\ ObeyFolded(i, none, ds) = g[m]
  BY <1>4, ObeyFold
<1> DEFINE S == {k \in Nat : k <= n => g[k] = f[k]}
<1>7. ASSUME NEW k \in S \cap Nat PROVE k + 1 \in S
  <2> SUFFICES ASSUME k + 1 <= n PROVE g[k + 1] = f[k + 1]
    OBVIOUS
  <2>1. k <= n /\ k + 1 \in 1 .. n /\ k + 1 \in 1 .. m /\ (k + 1) - 1 = k
    BY <1>0, <1>4
  <2>2. g[k] = f[k] /\ ds[k + 1] = cs[k + 1]
    BY <1>0, <2>1
  <2>3. g[k + 1] = Obeyed(i, g[k], ds[k + 1]) /\ f[k + 1] = Obeyed(h, f[k], cs[k + 1])
    BY <1>5, <1>6, <2>1, Zenon
  <2> QED BY <1>h, <2>2, <2>3, Zenon
<1>8. 0 \in S
  BY <1>5, <1>6
<1>9. g[n] = f[n]
  <2> HIDE DEF S
  <2>1. Nat \subseteq S
    BY <1>7, <1>8, Induction
  <2>2. n \in S
    BY <1>4, <2>1
  <2> QED BY <1>4, <2>2 DEF S
<1> HIDE DEF S
<1> DEFINE F == InForce(b).commands
           T == ToSet(F) \cup {c \in Commands : c.at = a}
<1>10. F \in Seq(T) /\ g[n] = F
  <2>1. g[n] = F
    BY <1>2, <1>5, <1>9
  <2>2. \A k \in 1 .. Len(F) : F[k] \in ToSet(F)
    BY <1>3 DEF ToSet
  <2> HIDE DEF F
  <2>3. F \in Seq(T)
    BY <1>3, <2>2 DEF F
  <2> QED BY <2>1, <2>3
<1>11. \A k \in n + 1 .. m : ds[k] \in T
  BY <1>0, <1>4
<1> HIDE DEF T, F
<1> DEFINE R == {k \in Nat : k <= m - n => g[n + k] \in Seq(T)}
<1>12. ASSUME NEW k \in R \cap Nat PROVE k + 1 \in R
  <2> SUFFICES ASSUME k + 1 <= m - n PROVE g[n + (k + 1)] \in Seq(T)
    OBVIOUS
  <2> DEFINE q == n + (k + 1)
  <2>1. k <= m - n /\ q \in 1 .. m /\ q \in n + 1 .. m /\ q - 1 = n + k
    BY <1>4
  <2>2. g[n + k] \in Seq(T) /\ ds[q] \in T
    BY <1>11, <2>1
  <2> HIDE DEF q
  <2>3. g[q] = Obeyed(i, g[n + k], ds[q])
    BY <1>6, <2>1, Zenon
  <2>4. g[q] \in Seq(T)
    BY <2>2, <2>3, ObeyedFrom
  <2> QED BY <2>4 DEF q
<1>13. 0 \in R
  BY <1>4, <1>10
<1>14. g[m] \in Seq(T)
  <2> HIDE DEF R
  <2>1. Nat \subseteq R
    BY <1>12, <1>13, Induction
  <2>2. m - n \in R /\ m - n \in Nat /\ n + (m - n) = m
    BY <1>0, <1>4, <2>1
  <2>3. g[n + (m - n)] \in Seq(T)
    BY <2>2 DEF R
  <2> QED BY <2>2, <2>3
<1> DEFINE G == InForce(e).commands
<1>15. G \in Seq(T)
  BY <1>2, <1>6, <1>14
<1> HIDE DEF G
<1>16. \A c \in ToSet(G) : c \in T
  BY <1>15 DEF ToSet
<1>17. \A c \in T : c \in ToSet(F) \/ c.at = a
  BY DEF T
<1>18. CmdLines(InForce(e)) = {c.at : c \in ToSet(G)} /\ CmdLines(InForce(b)) = {c.at : c \in ToSet(F)}
  BY Zenon DEF CmdLines, F, G
<1> QED BY <1>16, <1>17, <1>18

(* The view e holds nothing in force that b does not, but for the line a. *)
Follows(b, e, a) ==
    e.at = b.at /\ e.known = b.known /\ CmdLines(InForce(e)) \subseteq CmdLines(InForce(b)) \cup {a}
(* Each view follows an earlier one, or is of that line alone. *)
Traced(ms, ns, a) ==
    \A q \in 1 .. Len(ns) : \/ \E p \in 1 .. Len(ms) : Follows(ms[p], ns[q], a)
                            \/ ns[q].at = a /\ CmdLines(InForce(ns[q])) \subseteq {a}

(* Then no other line comes into force. *)
LEMMA TracedLive ==
    ASSUME NEW bs, NEW cs, Merged(bs).merged \in Seq(Blocks), Merged(cs).merged \in Seq(Blocks), NEW a,
           Traced(Merged(bs).merged, Merged(cs).merged, a), NEW v
    PROVE  LiveLines(Effective(cs), v) \subseteq LiveLines(Effective(bs), v) \cup {a}
<1> DEFINE ms == Merged(bs).merged
           ns == Merged(cs).merged
<1>1. \A j : j \in LiveLines(Effective(bs), v) <=>
        \E q \in 1 .. Len(ms) : j \in CmdLines(InForce(ms[q])) \/ (ms[q].known /\ v = <<>> /\ j = ms[q].at)
  BY LiveIs
<1>2. \A j : j \in LiveLines(Effective(cs), v) <=>
        \E q \in 1 .. Len(ns) : j \in CmdLines(InForce(ns[q])) \/ (ns[q].known /\ v = <<>> /\ j = ns[q].at)
  BY LiveIs
<1>3. Traced(ms, ns, a)
  OBVIOUS
<1> DEFINE L == LiveLines(Effective(bs), v)
           M == LiveLines(Effective(cs), v)
<1> HIDE DEF ms, ns, L, M
<1>4. ASSUME NEW j \in M PROVE j \in L \cup {a}
  <2>1. PICK q \in 1 .. Len(ns) : j \in CmdLines(InForce(ns[q])) \/ (ns[q].known /\ v = <<>> /\ j = ns[q].at)
    BY <1>2 DEF M
  <2>2. ASSUME NEW p \in 1 .. Len(ms), Follows(ms[p], ns[q], a) PROVE j \in L \cup {a}
    <3>1. j = a \/ j \in CmdLines(InForce(ms[p])) \/ (ms[p].known /\ v = <<>> /\ j = ms[p].at)
      BY <2>1, <2>2 DEF Follows
    <3> QED BY <1>1, <3>1 DEF L
  <2>3. ASSUME ns[q].at = a, CmdLines(InForce(ns[q])) \subseteq {a} PROVE j = a
    BY <2>1, <2>3
  <2> QED BY <1>3, <2>2, <2>3 DEF Traced
<1> QED BY <1>4 DEF L, M

(* What is left of the merged views when a header is met. *)
Cleared(s, h, aliases) ==
    IF Undone(h) /\ RemovesRoutes(Tail(h)) THEN WithoutRoutes(s, Tail(h))
    ELSE IF Undone(h) /\ Deletable(Tail(h)) THEN WithoutDefinitions(s, Tail(h), aliases)
    ELSE IF SwitchKey(Base(h)) = NoKey THEN s ELSE WithoutSwitch(s, SwitchKey(Base(h)))
(* The header is an undo that removes views. *)
Removes(h) == Undone(h) /\ (RemovesRoutes(Tail(h)) \/ Deletable(Tail(h)))

(* A block taken in: views go, then it is no more, or it is entered. *)
LEMMA AbsorbedIs ==
    ASSUME NEW s, NEW b, NEW aliases, NEW t, t = Cleared(s, b.header, aliases)
    PROVE  Absorbed(s, b, aliases) =
             IF Removes(b.header) THEN [t EXCEPT !.ignored = @ \cup {b.at}] ELSE Entered(t, b, aliases)
<1> DEFINE h == b.header
           gone == Tail(h)
           r == WithoutRoutes(s, gone)
           d == WithoutDefinitions(s, gone, aliases)
           e == IF SwitchKey(Base(h)) = NoKey THEN s ELSE WithoutSwitch(s, SwitchKey(Base(h)))
           x == Absorbed(s, b, aliases)
           Routes == Undone(h) /\ RemovesRoutes(gone)
           Views == Undone(h) /\ Deletable(gone)
<1>1. x = IF Routes THEN [r EXCEPT !.ignored = @ \cup {b.at}]
          ELSE IF Views THEN [d EXCEPT !.ignored = @ \cup {b.at}]
          ELSE Entered(e, b, aliases)
  BY Zenon DEF Absorbed, WithoutRoutes, WithoutDefinitions, WithoutSwitch
<1>2. t = IF Routes THEN r ELSE IF Views THEN d ELSE e
  BY Zenon DEF Cleared
<1>3. Removes(h) <=> Routes \/ Views
  BY Zenon DEF Removes
<1> HIDE DEF r, d, e, x, Routes, Views
<1>4. x = IF Removes(h) THEN [t EXCEPT !.ignored = @ \cup {b.at}] ELSE Entered(t, b, aliases)
  <2>1. CASE Routes
    BY <1>1, <1>2, <1>3, <2>1, Zenon
  <2>2. CASE ~ Routes /\ Views
    BY <1>1, <1>2, <1>3, <2>2, Zenon
  <2>3. CASE ~ Routes /\ ~ Views
    BY <1>1, <1>2, <1>3, <2>3, Zenon
  <2> QED BY <2>1, <2>2, <2>3, Zenon
<1> QED BY <1>4 DEF x, h

(* No view comes in, by dropping some. *)
Thinned(s, t) == t \in Merges /\ ToSet(t.merged) \subseteq ToSet(s.merged)
(* As Without drops them. *)
LEMMA ThinnedBy ==
    ASSUME NEW s \in Merges, NEW t, NEW kept, NEW gone, NEW whole, Drops(s, t, kept, gone, whole)
    PROVE  Thinned(s, t)
<1> DEFINE ms == s.merged
           more == UNION {IF whole THEN LinesOf(b) ELSE {b.at} : b \in gone}
<1>0. gone \subseteq ToSet(ms)
  BY DEF Drops
<1>1. ms \in Seq(Blocks) /\ s.ignored \in SUBSET Nat
  BY MergeFields
<1>2. Those(ms, kept) \in Seq(Blocks) /\ ToSet(Those(ms, kept)) \subseteq ToSet(ms)
  BY <1>1, ThoseSet
<1>3. more \subseteq Nat
  <2> SUFFICES ASSUME NEW b \in gone PROVE LinesOf(b) \subseteq Nat /\ b.at \in Nat
    BY Zenon
  <2>1. b \in Blocks
    <3>1. DOMAIN ms = 1 .. Len(ms)
      BY <1>1
    <3>2. \A x \in ToSet(ms) : x \in Blocks
      BY <1>1, <3>1 DEF ToSet
    <3> QED BY <1>0, <3>2
  <2> QED BY <2>1, LinesNat
<1> HIDE DEF more, ms
<1>4. s.ignored \cup more \in SUBSET Nat
  BY <1>1, <1>3
<1> DEFINE ks == Those(ms, kept)
           ig == s.ignored \cup more
<1>5. t = [merged |-> ks, ignored |-> ig]
  BY Zenon DEF ms, more, Drops
<1> HIDE DEF ks, ig
<1>6. t \in Merges /\ t.merged = ks
  <2>1. [merged |-> ks, ignored |-> ig] \in Merges
    BY <1>2, <1>4, MergeMade DEF ks, ig
  <2>2. [merged |-> ks, ignored |-> ig].merged = ks
    OBVIOUS
  <2> QED BY <1>5, <2>1, <2>2, Zenon
<1> QED BY <1>2, <1>6 DEF Thinned, ks, ms

(* A header clears views, and brings none. *)
LEMMA ClearedIs ==
    ASSUME NEW s \in Merges, NEW h, NEW aliases
    PROVE  Thinned(s, Cleared(s, h, aliases))
<1>1. ASSUME NEW ws PROVE Thinned(s, WithoutRoutes(s, ws))
  <2> DEFINE t == WithoutRoutes(s, ws)
             kept == {o \in ToSet(s.merged) : ~ RouteSelected(o.header, ws)}
             gone == {o \in ToSet(s.merged) : RouteSelected(o.header, ws)}
  <2>1. t = [merged |-> Those(s.merged, kept),
             ignored |-> s.ignored \cup UNION {IF FALSE THEN LinesOf(b) ELSE {b.at} : b \in gone}]
    BY Zenon DEF Without, WithoutRoutes
  <2>2. kept \cup gone = ToSet(s.merged) /\ kept \cap gone = {}
    OBVIOUS
  <2> HIDE DEF t, kept, gone
  <2>3. Drops(s, t, kept, gone, FALSE)
    BY <2>1, <2>2, Zenon DEF Drops
  <2>4. Thinned(s, t)
    BY <2>3, ThinnedBy, Zenon
  <2> QED BY <2>4 DEF t
<1>2. ASSUME NEW ws PROVE Thinned(s, WithoutDefinitions(s, ws, aliases))
  <2> DEFINE t == WithoutDefinitions(s, ws, aliases)
             kept == {o \in ToSet(s.merged) : ~ Deletes(ws, o.header, aliases)}
             gone == {o \in ToSet(s.merged) : Deletes(ws, o.header, aliases)}
  <2>1. t = [merged |-> Those(s.merged, kept),
             ignored |-> s.ignored \cup UNION {IF TRUE THEN LinesOf(b) ELSE {b.at} : b \in gone}]
    BY Zenon DEF Without, WithoutDefinitions
  <2>2. kept \cup gone = ToSet(s.merged) /\ kept \cap gone = {}
    OBVIOUS
  <2> HIDE DEF t, kept, gone
  <2>3. Drops(s, t, kept, gone, TRUE)
    BY <2>1, <2>2, Zenon DEF Drops
  <2>4. Thinned(s, t)
    BY <2>3, ThinnedBy, Zenon
  <2> QED BY <2>4 DEF t
<1>3. ASSUME NEW key PROVE Thinned(s, WithoutSwitch(s, key))
  <2> DEFINE t == WithoutSwitch(s, key)
             kept == {o \in ToSet(s.merged) : ~ (SwitchKey(Base(o.header)) = key)}
             gone == {o \in ToSet(s.merged) : SwitchKey(Base(o.header)) = key}
  <2>1. t = [merged |-> Those(s.merged, kept),
             ignored |-> s.ignored \cup UNION {IF FALSE THEN LinesOf(b) ELSE {b.at} : b \in gone}]
    BY Zenon DEF Without, WithoutSwitch
  <2>2. kept \cup gone = ToSet(s.merged) /\ kept \cap gone = {}
    OBVIOUS
  <2> HIDE DEF t, kept, gone
  <2>3. Drops(s, t, kept, gone, FALSE)
    BY <2>1, <2>2, Zenon DEF Drops
  <2>4. Thinned(s, t)
    BY <2>3, ThinnedBy, Zenon
  <2> QED BY <2>4 DEF t
<1>4. Thinned(s, s)
  BY DEF Thinned
<1> QED BY <1>1, <1>2, <1>3, <1>4, Zenon DEF Cleared

(* The merged views that have the key of a header. *)
SameView(ms, h, aliases) ==
    {i \in DOMAIN ms : ViewKey(h, aliases) # NoKey /\ ViewKey(ms[i].header, aliases) = ViewKey(h, aliases)}
(* The one that is re-entered. *)
Reentered(ms, h, aliases) == CHOOSE i \in SameView(ms, h, aliases) : TRUE

(* Entering a block makes t of s. *)
Enters(s, b, aliases, t) ==
    LET ms == s.merged
        i == Reentered(ms, b.header, aliases)
    IN IF SameView(ms, b.header, aliases) = {}
       THEN t = [merged |-> Append(ms, b), ignored |-> s.ignored]
       ELSE /\ t = [merged |-> Joint(ms, i, b), ignored |-> s.ignored \cup {b.at}]
            /\ i \in 1 .. Len(ms)
            /\ ViewKey(b.header, aliases) # NoKey
            /\ ViewKey(ms[i].header, aliases) = ViewKey(b.header, aliases)

(* A block is appended, or joins a view of its key; which, its header says. *)
LEMMA EnteredIs ==
    ASSUME NEW s \in Merges, NEW b, NEW aliases
    PROVE  Enters(s, b, aliases, Entered(s, b, aliases))
<1> DEFINE ms == s.merged
           same == SameView(ms, b.header, aliases)
           i == Reentered(ms, b.header, aliases)
           t == Entered(s, b, aliases)
<1>1. same = {j \in DOMAIN s.merged : ViewKey(b.header, aliases) # NoKey
                 /\ ViewKey(s.merged[j].header, aliases) = ViewKey(b.header, aliases)}
  BY Zenon DEF SameView
<1>2. i = CHOOSE j \in same : TRUE
  BY Zenon DEF Reentered
<1>3. Entered(s, b, aliases) = IF same = {} THEN [s EXCEPT !.merged = Append(@, b)]
                               ELSE [merged |-> Joint(s.merged, i, b), ignored |-> s.ignored \cup {b.at}]
  BY <1>1, <1>2, Zenon DEF Entered, Joint
<1>4. s = [merged |-> ms, ignored |-> s.ignored]
  BY DEF Merges
<1>5. [s EXCEPT !.merged = Append(@, b)] = [merged |-> Append(ms, b), ignored |-> s.ignored]
  BY <1>4
<1>6. ASSUME same # {}
      PROVE  i \in 1 .. Len(ms) /\ ViewKey(b.header, aliases) # NoKey
             /\ ViewKey(ms[i].header, aliases) = ViewKey(b.header, aliases)
  <2>1. i \in same
    BY <1>2, <1>6, Zenon
  <2>2. DOMAIN ms = 1 .. Len(ms)
    <3>1. ms \in Seq(Blocks)
      BY MergeFields
    <3> QED BY <3>1
  <2>3. i \in DOMAIN ms /\ ViewKey(b.header, aliases) # NoKey /\ ViewKey(ms[i].header, aliases) = ViewKey(b.header, aliases)
    BY <1>1, <2>1, Zenon
  <2> QED BY <2>2, <2>3
<1> HIDE DEF ms, same, i, t
<1>7. IF same = {} THEN t = [merged |-> Append(ms, b), ignored |-> s.ignored]
      ELSE /\ t = [merged |-> Joint(ms, i, b), ignored |-> s.ignored \cup {b.at}]
           /\ i \in 1 .. Len(ms) /\ ViewKey(b.header, aliases) # NoKey
           /\ ViewKey(ms[i].header, aliases) = ViewKey(b.header, aliases)
  <2>1. CASE same = {}
    BY <1>3, <1>5, <2>1, Zenon DEF t, ms
  <2>2. CASE same # {}
    BY <1>3, <1>6, <2>2, Zenon DEF t, ms
  <2> QED BY <2>1, <2>2
<1> QED BY <1>7, Zenon DEF Enters, ms, same, i, t

(* The view keeps its place and its commands, those of b after them. *)
JoinedAs(ms, i, b, r) ==
    /\ r \in Seq(Blocks) /\ Len(r) = Len(ms) /\ \A k \in 1 .. Len(ms) : k # i => r[k] = ms[k]
    /\ r[i] \in Blocks /\ r[i].at = ms[i].at /\ r[i].known = ms[i].known
    /\ r[i].header = MergedHeader(ms[i].header, b.header)
    /\ r[i].commands = ms[i].commands \o b.commands

(* So does a view re-entered. *)
LEMMA JointCommands ==
    ASSUME NEW ms \in Seq(Blocks), NEW i, i \in 1 .. Len(ms), NEW b \in Blocks
    PROVE  JoinedAs(ms, i, b, Joint(ms, i, b))
<1> DEFINE r == Joint(ms, i, b)
<1>1. Rejoined(ms, i, b, r)
  BY JointIs
<1>2. /\ r \in Seq(Blocks) /\ Len(r) = Len(ms) /\ \A k \in 1 .. Len(ms) : k # i => r[k] = ms[k]
      /\ r[i].at = ms[i].at /\ r[i].known = ms[i].known
  BY <1>1, Zenon DEF Rejoined
<1> DEFINE M == ms[i]
           h == MergedHeader(M.header, b.header)
           cs == M.commands \o b.commands
           d == [M EXCEPT !.header = h]
           e == [d EXCEPT !.commands = cs]
<1>3. M \in Blocks /\ i \in DOMAIN ms
  OBVIOUS
<1>4. r = [[ms EXCEPT ![i].header = MergedHeader(@, b.header)] EXCEPT ![i].commands = @ \o b.commands]
  BY Zenon DEF Joint
<1>5. "header" \in DOMAIN M /\ "commands" \in DOMAIN M /\ "header" # "commands"
  BY <1>3 DEF Blocks
<1> DEFINE ns == [ms EXCEPT ![i] = d]
<1>6. ns = [ms EXCEPT ![i].header = MergedHeader(@, b.header)]
  BY <1>3
<1>7. ns[i] = d /\ i \in DOMAIN ns /\ d.commands = M.commands
  BY <1>3, <1>5
<1>8. r[i] = [ns[i] EXCEPT !.commands = ns[i].commands \o b.commands]
  <2>1. r = [ns EXCEPT ![i].commands = @ \o b.commands]
    BY <1>4, <1>6
  <2> HIDE DEF ns
  <2> QED BY <1>7, <2>1
<1>9. r[i] = e
  <2> HIDE DEF ns, d
  <2> QED BY <1>7, <1>8
<1> HIDE DEF M, h, cs
<1>10. e.header = h /\ e.commands = cs
  BY <1>5
<1>11. r[i] \in Blocks
  BY <1>2
<1>12. r[i].header = h /\ r[i].commands = cs
  BY <1>9, <1>10
<1> HIDE DEF r
<1> QED BY <1>2, <1>11, <1>12, Zenon DEF JoinedAs, h, cs, M, r

(* No view is that of the default process. *)
NoDefault(ms) == \A i \in 1 .. Len(ms) : ms[i].header # <<"ospf">>
(* A merge, with no view of the default process. *)
Sound(s) == s \in Merges /\ NoDefault(s.merged)

(* A view follows itself. *)
LEMMA FollowsSelf ==
    ASSUME NEW b, NEW a
    PROVE  Follows(b, b, a)
BY DEF Follows

(* Views that were there are traced. *)
LEMMA TracedPart ==
    ASSUME NEW ms \in Seq(Blocks), NEW ns \in Seq(Blocks), ToSet(ns) \subseteq ToSet(ms), NEW a
    PROVE  /\ Traced(ms, ns, a)
           /\ \A q \in 1 .. Len(ns) : \E p \in 1 .. Len(ms) : ns[q] = ms[p]
<1>1. ASSUME NEW q \in 1 .. Len(ns) PROVE \E p \in 1 .. Len(ms) : ns[q] = ms[p]
  <2>1. DOMAIN ns = 1 .. Len(ns) /\ DOMAIN ms = 1 .. Len(ms)
    OBVIOUS
  <2>2. ns[q] \in ToSet(ms)
    BY <2>1 DEF ToSet
  <2> QED BY <2>1, <2>2 DEF ToSet
<1>2. ASSUME NEW q \in 1 .. Len(ns) PROVE \E p \in 1 .. Len(ms) : Follows(ms[p], ns[q], a)
  BY <1>1, FollowsSelf, Zenon
<1> QED BY <1>1, <1>2, Zenon DEF Traced

(* Other lines may be dropped of a merge. *)
LEMMA Ignoring ==
    ASSUME NEW t \in Merges, NEW a \in Nat, NEW r, r = [t EXCEPT !.ignored = @ \cup {a}]
    PROVE  r \in Merges /\ r.merged = t.merged
<1>1. t.merged \in Seq(Blocks) /\ t.ignored \in SUBSET Nat
  BY MergeFields
<1> DEFINE ms == t.merged
           ig == t.ignored \cup {a}
<1>2. t = [merged |-> ms, ignored |-> t.ignored]
  BY DEF Merges
<1>3. r = [merged |-> ms, ignored |-> ig]
  BY <1>2
<1>4. ig \in SUBSET Nat
  BY <1>1
<1> HIDE DEF ms, ig
<1>5. [merged |-> ms, ignored |-> ig] \in Merges
  BY <1>1, <1>4, MergeMade DEF ms
<1> QED BY <1>3, <1>5 DEF ms

(* Dropping views keeps a merge sound. *)
LEMMA ThinnedSound ==
    ASSUME NEW s, Sound(s), NEW t, Thinned(s, t)
    PROVE  Sound(t)
<1>1. t \in Merges /\ t.merged \in Seq(Blocks) /\ s.merged \in Seq(Blocks) /\ ToSet(t.merged) \subseteq ToSet(s.merged)
  BY MergeFields DEF Thinned, Sound
<1> DEFINE ms == s.merged
           ns == t.merged
<1>2. \A q \in 1 .. Len(ns) : \E p \in 1 .. Len(ms) : ns[q] = ms[p]
  <2>1. ms \in Seq(Blocks) /\ ns \in Seq(Blocks) /\ ToSet(ns) \subseteq ToSet(ms)
    BY <1>1
  <2> HIDE DEF ms, ns
  <2> QED BY <2>1, TracedPart
<1>3. NoDefault(ns)
  BY <1>2, Zenon DEF NoDefault, Sound
<1> QED BY <1>1, <1>3 DEF Sound

(* A header stands for a re-entered view as it is. *)
LEMMA HeaderOr ==
    ASSUME NEW old, NEW new
    PROVE  MergedHeader(old, new) \in {old, new}
BY DEF MergedHeader

(* A block entered keeps a merge sound. *)
LEMMA EnterSound ==
    ASSUME NEW s, Sound(s), NEW b \in Blocks, b.header # <<"ospf">>, NEW aliases
    PROVE  Sound(Entered(s, b, aliases))
<1> DEFINE ms == s.merged
           h == b.header
           same == SameView(ms, h, aliases)
           i == Reentered(ms, h, aliases)
           t == Entered(s, b, aliases)
           ig == s.ignored
           jg == ig \cup {b.at}
<1>1. s \in Merges /\ ms \in Seq(Blocks) /\ ig \in SUBSET Nat /\ NoDefault(ms)
  BY MergeFields DEF Sound
<1>e. Enters(s, b, aliases, t)
  BY <1>1, EnteredIs
<1>2. /\ same = {} => t = [merged |-> Append(ms, b), ignored |-> ig]
      /\ same # {} => t = [merged |-> Joint(ms, i, b), ignored |-> jg] /\ i \in 1 .. Len(ms)
  BY <1>e, Zenon DEF Enters
<1>0. b.at \in Nat
  BY DEF Blocks
<1>3. jg \in SUBSET Nat
  BY <1>0, <1>1
<1> HIDE DEF ms, same, i, t, ig, jg
<1>4. ASSUME NEW r \in Seq(Blocks), NEW g \in SUBSET Nat, t = [merged |-> r, ignored |-> g], NoDefault(r)
      PROVE  Sound(t)
  <2>1. t \in Merges
    BY <1>4, MergeMade
  <2>2. t.merged = r
    BY <1>4
  <2> QED BY <1>4, <2>1, <2>2 DEF Sound
<1>5. ASSUME same = {} PROVE Sound(t)
  <2> DEFINE r == Append(ms, b)
  <2>1. r \in Seq(Blocks) /\ Len(r) = Len(ms) + 1 /\ Len(ms) \in Nat
        /\ \A q \in 1 .. Len(ms) + 1 : r[q] = IF q <= Len(ms) THEN ms[q] ELSE b
    BY <1>1
  <2> HIDE DEF r
  <2>2. \A q \in 1 .. Len(ms) + 1 : q \in 1 .. Len(ms) \/ ~ (q <= Len(ms))
    BY <2>1
  <2>3. NoDefault(r)
    BY <1>1, <2>1, <2>2 DEF NoDefault
  <2> QED BY <1>1, <1>2, <1>4, <1>5, <2>1, <2>3 DEF r
<1>6. ASSUME same # {} PROVE Sound(t)
  <2> DEFINE r == Joint(ms, i, b)
  <2>1. i \in 1 .. Len(ms)
    BY <1>2, <1>6
  <2>2. r \in Seq(Blocks) /\ Len(r) = Len(ms) /\ (\A k \in 1 .. Len(ms) : k # i => r[k] = ms[k])
        /\ r[i].header = MergedHeader(ms[i].header, b.header)
    <3>1. JoinedAs(ms, i, b, r)
      BY <1>1, <2>1, JointCommands
    <3> HIDE DEF r
    <3> QED BY <3>1, Zenon DEF JoinedAs
  <2> HIDE DEF r
  <2>3. MergedHeader(ms[i].header, b.header) \in {ms[i].header, b.header}
    BY HeaderOr
  <2>4. NoDefault(r)
    BY <1>1, <2>1, <2>2, <2>3 DEF NoDefault
  <2> QED BY <1>2, <1>3, <1>4, <1>6, <2>2, <2>4 DEF r
<1>7. Sound(t)
  BY <1>5, <1>6
<1> QED BY <1>7 DEF t

(* A block taken in keeps a merge sound. *)
LEMMA AbsorbSound ==
    ASSUME NEW s, Sound(s), NEW b \in Blocks, b.header # <<"ospf">>, NEW aliases
    PROVE  Sound(Absorbed(s, b, aliases))
<1> DEFINE t == Cleared(s, b.header, aliases)
           r == [t EXCEPT !.ignored = @ \cup {b.at}]
           x == Absorbed(s, b, aliases)
<1>1. x = IF Removes(b.header) THEN r ELSE Entered(t, b, aliases)
  BY AbsorbedIs
<1>2. Sound(t)
  <2>1. s \in Merges
    BY DEF Sound
  <2>2. Thinned(s, t)
    BY <2>1, ClearedIs
  <2> HIDE DEF t
  <2> QED BY <2>2, ThinnedSound
<1>3. b.at \in Nat
  BY DEF Blocks
<1> HIDE DEF t, x
<1>4. Sound(r)
  <2>1. t \in Merges
    BY <1>2 DEF Sound
  <2>2. r \in Merges /\ r.merged = t.merged
    BY <1>3, <2>1, Ignoring
  <2> HIDE DEF r
  <2> QED BY <1>2, <2>2 DEF Sound
<1>5. Sound(Entered(t, b, aliases))
  BY <1>2, EnterSound
<1> HIDE DEF r
<1>6. Sound(x)
  BY <1>1, <1>4, <1>5, Zenon
<1> QED BY <1>6 DEF x

(* Commands that come after others. *)
LEMMA ExtendsBy ==
    ASSUME NEW b, NEW e, NEW cs \in Seq(Commands), e.commands = b.commands \o cs, b.commands \in Seq(Commands),
           NEW a, \A k \in 1 .. Len(cs) : cs[k].at = a
    PROVE  Extends(b, e, a)
<1> DEFINE s == b.commands
           n == Len(s)
           m == Len(cs)
           r == e.commands
<1>1. n \in Nat /\ m \in Nat /\ s \in Seq(Commands) /\ r = s \o cs
  OBVIOUS
<1> HIDE DEF s, r
<1>2. Len(r) = n + m /\ \A k \in 1 .. n + m : r[k] = IF k <= n THEN s[k] ELSE cs[k - n]
  BY <1>1, ConcatProperties
<1> HIDE DEF n, m
<1>3. \A k \in 1 .. n : k \in 1 .. n + m /\ k <= n
  BY <1>1
<1>4. \A k \in n + 1 .. n + m : k \in 1 .. n + m /\ ~ (k <= n) /\ k - n \in 1 .. m
  BY <1>1
<1>5. \A k \in 1 .. n : r[k] = s[k]
  BY <1>2, <1>3
<1>6. \A k \in n + 1 .. n + m : r[k].at = a
  BY <1>2, <1>4 DEF m
<1>7. n <= n + m
  BY <1>1
<1> QED BY <1>2, <1>5, <1>6, <1>7, Zenon DEF Extends, n, s, r

(* A header is like itself. *)
LEMMA AlikeSelf ==
    ASSUME NEW h
    PROVE  Alike(h, h)
BY DEF Alike

(* The blocks b and e differ by one command, the last of e. *)
OneCommand(b, e, c) == e = [b EXCEPT !.commands = Append(@, c)]

(* One command more is an extension. *)
LEMMA GrownFollows ==
    ASSUME NEW b \in Blocks, NEW c \in Commands, NEW e, OneCommand(b, e, c)
    PROVE  e \in Blocks /\ e.header = b.header /\ e.at = b.at /\ Follows(b, e, c.at)
           /\ e.commands = b.commands \o <<c>>
<1> DEFINE s == b.commands
           cs == <<c>>
           r == Append(s, c)
<1>1. s \in Seq(Commands) /\ cs \in Seq(Commands) /\ Len(cs) = 1 /\ cs[1] = c
  BY DEF Blocks
<1>2. r \in Seq(Commands)
  BY <1>1
<1>0. r = s \o cs
  BY <1>1
<1>3. e = [b EXCEPT !.commands = r]
  BY DEF Blocks, OneCommand
<1> HIDE DEF r, cs
<1>4. e \in Blocks /\ e.header = b.header /\ e.at = b.at /\ e.known = b.known /\ e.commands = r
  BY <1>2, <1>3, WithCommands
<1>5. \A k \in 1 .. Len(cs) : cs[k].at = c.at
  BY <1>1
<1>6. Extends(b, e, c.at)
  BY <1>0, <1>1, <1>4, <1>5, ExtendsBy DEF s
<1>7. Alike(b.header, e.header)
  BY <1>4, AlikeSelf
<1>8. CmdLines(InForce(e)) \subseteq CmdLines(InForce(b)) \cup {c.at}
  BY <1>4, <1>6, <1>7, InForceMore
<1> QED BY <1>0, <1>4, <1>8 DEF Follows, s, cs

(* Headers of one key, but for the default process, are obeyed alike. *)
HeadersAlike ==
    \A bs : \A h, k \in Words :
       /\ ViewKey(k, AclAliases(bs)) # NoKey /\ ViewKey(h, AclAliases(bs)) = ViewKey(k, AclAliases(bs))
       /\ h # <<"ospf">> /\ k # <<"ospf">>
       => Alike(h, k)

(* A new block that is entered brings back no other line. *)
LEMMA EnterTraced ==
    ASSUME HeadersAlike, NEW s, Sound(s), NEW b \in Blocks, b.header # <<"ospf">>, NEW bs,
           \A k \in 1 .. Len(b.commands) : b.commands[k].at = b.at
    PROVE  Traced(s.merged, Entered(s, b, AclAliases(bs)).merged, b.at)
<1> DEFINE ms == s.merged
           h == b.header
           aliases == AclAliases(bs)
           same == SameView(ms, h, aliases)
           i == Reentered(ms, h, aliases)
           t == Entered(s, b, aliases)
           ns == t.merged
<1>1. s \in Merges /\ ms \in Seq(Blocks) /\ NoDefault(ms)
  BY MergeFields DEF Sound
<1>2. Enters(s, b, aliases, t)
  BY <1>1, EnteredIs
<1> HIDE DEF t
<1>3. /\ same = {} => ns = Append(ms, b)
      /\ same # {} => /\ ns = Joint(ms, i, b) /\ i \in 1 .. Len(ms)
                      /\ ViewKey(h, aliases) # NoKey /\ ViewKey(ms[i].header, aliases) = ViewKey(h, aliases)
  <2>1. /\ same = {} => t = [merged |-> Append(ms, b), ignored |-> s.ignored]
        /\ same # {} => /\ t = [merged |-> Joint(ms, i, b), ignored |-> s.ignored \cup {b.at}] /\ i \in 1 .. Len(ms)
                        /\ ViewKey(h, aliases) # NoKey /\ ViewKey(ms[i].header, aliases) = ViewKey(h, aliases)
    BY <1>2, Zenon DEF Enters
  <2> HIDE DEF ms, same, i, h, aliases
  <2> QED BY <2>1
<1>4. b.commands \in Seq(Commands) /\ h \in Words
  BY DEF Blocks
<1> HIDE DEF ms, same, i, ns, aliases
<1>5. ASSUME same = {} PROVE Traced(ms, ns, b.at)
  <2>1. Len(ns) = Len(ms) + 1 /\ Len(ms) \in Nat
        /\ \A q \in 1 .. Len(ms) + 1 : ns[q] = IF q <= Len(ms) THEN ms[q] ELSE b
    BY <1>1, <1>3, <1>5
  <2>2. CmdLines(InForce(b)) \subseteq {b.at}
    <3>1. DOMAIN b.commands = 1 .. Len(b.commands)
      BY <1>4
    <3>2. CmdLines(b) \subseteq {b.at}
      BY <3>1 DEF CmdLines, ToSet
    <3>3. CmdLines(InForce(b)) \subseteq CmdLines(b)
      BY InForceIs
    <3> QED BY <3>2, <3>3
  <2>3. ASSUME NEW q \in 1 .. Len(ns)
        PROVE  \/ \E p \in 1 .. Len(ms) : Follows(ms[p], ns[q], b.at)
               \/ ns[q].at = b.at /\ CmdLines(InForce(ns[q])) \subseteq {b.at}
    <3>1. CASE q <= Len(ms)
      <4>1. q \in 1 .. Len(ms) /\ ns[q] = ms[q]
        BY <2>1, <3>1
      <4>2. Follows(ms[q], ns[q], b.at)
        BY <4>1, FollowsSelf
      <4> QED BY <4>1, <4>2
    <3>2. CASE ~ (q <= Len(ms))
      <4>1. ns[q] = b
        BY <2>1, <3>2
      <4> QED BY <2>2, <4>1
    <3> QED BY <3>1, <3>2
  <2> QED BY <2>3, Zenon DEF Traced
<1>6. ASSUME same # {} PROVE Traced(ms, ns, b.at)
  <2>1. i \in 1 .. Len(ms) /\ ns = Joint(ms, i, b)
    BY <1>3, <1>6
  <2>2. JoinedAs(ms, i, b, ns)
    BY <1>1, <2>1, JointCommands
  <2>3. /\ Len(ns) = Len(ms) /\ \A k \in 1 .. Len(ms) : k # i => ns[k] = ms[k]
        /\ ns[i] \in Blocks /\ ns[i].at = ms[i].at /\ ns[i].known = ms[i].known
        /\ ns[i].header = MergedHeader(ms[i].header, h)
        /\ ns[i].commands = ms[i].commands \o b.commands
    BY <2>2, Zenon DEF JoinedAs
  <2> DEFINE old == ms[i]
             new == ns[i]
  <2>4. old \in Blocks /\ old.header # <<"ospf">>
    BY <1>1, <2>1 DEF NoDefault
  <2>5. old.header \in Words /\ old.commands \in Seq(Commands)
    BY <2>4 DEF Blocks
  <2>6. Alike(old.header, h)
    <3>1. ViewKey(h, AclAliases(bs)) # NoKey /\ ViewKey(old.header, AclAliases(bs)) = ViewKey(h, AclAliases(bs))
      BY <1>3, <1>6 DEF aliases
    <3> QED BY <1>4, <2>4, <2>5, <3>1, Zenon DEF HeadersAlike
  <2>7. new.header \in {old.header, h}
    BY <2>3, HeaderOr, Zenon
  <2>8. Alike(old.header, new.header)
    BY <2>6, <2>7, AlikeSelf
  <2> DEFINE cs == b.commands
             a == b.at
  <2>9. new.commands = old.commands \o cs /\ cs \in Seq(Commands) /\ \A k \in 1 .. Len(cs) : cs[k].at = a
    BY <1>4, <2>3
  <2> HIDE DEF old, new, cs, a, h
  <2>10. Extends(old, new, a)
    BY <2>5, <2>9, ExtendsBy
  <2>11. CmdLines(InForce(new)) \subseteq CmdLines(InForce(old)) \cup {a}
    <3>1. new \in Blocks
      BY <2>3 DEF new
    <3> QED BY <2>4, <2>8, <2>10, <3>1, InForceMore
  <2>12. Follows(old, new, a)
    BY <2>3, <2>11, Zenon DEF Follows, old, new
  <2>13. ASSUME NEW q \in 1 .. Len(ns) PROVE \E p \in 1 .. Len(ms) : Follows(ms[p], ns[q], a)
    <3>1. q \in 1 .. Len(ms)
      BY <2>3
    <3>2. CASE q = i
      BY <2>12, <3>1, <3>2, Zenon DEF old, new
    <3>3. CASE q # i
      <4>1. ns[q] = ms[q]
        BY <2>3, <3>1, <3>3
      <4>2. Follows(ms[q], ns[q], a)
        BY <4>1, FollowsSelf
      <4> QED BY <3>1, <4>2
    <3> QED BY <3>2, <3>3
  <2> QED BY <2>13, Zenon DEF Traced, a
<1> QED BY <1>5, <1>6, Zenon DEF ns, ms, t, aliases

(* What is traced, traced again. *)
LEMMA TracedOn ==
    ASSUME NEW ms, NEW ks, NEW ns, NEW a, Traced(ks, ns, a),
           \A q \in 1 .. Len(ks) : \E p \in 1 .. Len(ms) : ks[q] = ms[p]
    PROVE  Traced(ms, ns, a)
<1>1. ASSUME NEW q \in 1 .. Len(ns), NEW p \in 1 .. Len(ks), Follows(ks[p], ns[q], a)
      PROVE  \E r \in 1 .. Len(ms) : Follows(ms[r], ns[q], a)
  <2>1. PICK r \in 1 .. Len(ms) : ks[p] = ms[r]
    OBVIOUS
  <2>2. Follows(ms[r], ns[q], a)
    BY <1>1, <2>1, Zenon
  <2> QED BY <2>2
<1> QED BY <1>1, Zenon DEF Traced

(* A new block taken in brings back no other line. *)
LEMMA AbsorbTraced ==
    ASSUME HeadersAlike, NEW s, Sound(s), NEW b \in Blocks, b.header # <<"ospf">>, NEW bs,
           \A k \in 1 .. Len(b.commands) : b.commands[k].at = b.at
    PROVE  Traced(s.merged, Absorbed(s, b, AclAliases(bs)).merged, b.at)
<1> DEFINE aliases == AclAliases(bs)
           t == Cleared(s, b.header, aliases)
           r == [t EXCEPT !.ignored = @ \cup {b.at}]
           e == Entered(t, b, aliases)
           x == Absorbed(s, b, aliases)
<1>1. x = IF Removes(b.header) THEN r ELSE e
  BY AbsorbedIs
<1>2. Thinned(s, t)
  <2>1. s \in Merges
    BY DEF Sound
  <2> QED BY <2>1, ClearedIs
<1>3. b.at \in Nat
  BY DEF Blocks
<1> HIDE DEF t
<1>4. Sound(t)
  BY <1>2, ThinnedSound
<1>5. Traced(t.merged, e.merged, b.at)
  BY <1>4, EnterTraced
<1> DEFINE ms == s.merged
           ks == t.merged
           a == b.at
<1>6. Traced(ms, ks, a) /\ \A q \in 1 .. Len(ks) : \E p \in 1 .. Len(ms) : ks[q] = ms[p]
  <2>1. s \in Merges /\ t \in Merges /\ ToSet(ks) \subseteq ToSet(ms)
    BY <1>2 DEF Sound, Thinned
  <2>2. ms \in Seq(Blocks) /\ ks \in Seq(Blocks)
    BY <2>1, MergeFields
  <2> HIDE DEF ms, ks, a
  <2> QED BY <2>1, <2>2, TracedPart
<1>7. r.merged = ks
  <2>1. t \in Merges
    BY <1>4 DEF Sound
  <2> QED BY <1>3, <2>1, Ignoring
<1> HIDE DEF x, r, e, ms, ks, a
<1>8. Traced(ms, e.merged, a)
  <2>1. Traced(ks, e.merged, a)
    BY <1>5 DEF ks, a
  <2> QED BY <1>6, <2>1, TracedOn
<1>9. Traced(ms, x.merged, a)
  <2>1. CASE Removes(b.header)
    BY <1>1, <1>6, <1>7, <2>1, Zenon
  <2>2. CASE ~ Removes(b.header)
    BY <1>1, <1>8, <2>2, Zenon
  <2> QED BY <2>1, <2>2
<1> QED BY <1>9 DEF x, ms, a

(* Three sequences in a row. *)
LEMMA InARow ==
    ASSUME NEW X, NEW x \in Seq(X), NEW y \in Seq(X), NEW z \in Seq(X)
    PROVE  x \o (y \o z) = (x \o y) \o z
OBVIOUS

(* One command more of a block that is entered brings back no other line. *)
LEMMA EnterGrown ==
    ASSUME NEW s \in Merges, NEW b \in Blocks, NEW c \in Commands, NEW e, OneCommand(b, e, c), NEW aliases
    PROVE  Traced(Entered(s, b, aliases).merged, Entered(s, e, aliases).merged, c.at)
<1> DEFINE ms == s.merged
           h == b.header
           same == SameView(ms, h, aliases)
           i == Reentered(ms, h, aliases)
           t == Entered(s, b, aliases)
           u == Entered(s, e, aliases)
           ks == t.merged
           ns == u.merged
           a == c.at
           cs == <<c>>
<1>1. ms \in Seq(Blocks)
  BY MergeFields
<1>2. e \in Blocks /\ e.header = h /\ e.at = b.at /\ Follows(b, e, a) /\ e.commands = b.commands \o cs
  BY GrownFollows
<1>3. Enters(s, b, aliases, t) /\ Enters(s, e, aliases, u)
  BY EnteredIs
<1> HIDE DEF t, u
<1>4. /\ same = {} => ks = Append(ms, b) /\ ns = Append(ms, e)
      /\ same # {} => ks = Joint(ms, i, b) /\ ns = Joint(ms, i, e) /\ i \in 1 .. Len(ms)
  <2>1. /\ same = {} => t = [merged |-> Append(ms, b), ignored |-> s.ignored]
        /\ same # {} => t = [merged |-> Joint(ms, i, b), ignored |-> s.ignored \cup {b.at}] /\ i \in 1 .. Len(ms)
    BY <1>3, Zenon DEF Enters
  <2>2. /\ same = {} => u = [merged |-> Append(ms, e), ignored |-> s.ignored]
        /\ same # {} => u = [merged |-> Joint(ms, i, e), ignored |-> s.ignored \cup {e.at}] /\ i \in 1 .. Len(ms)
    BY <1>2, <1>3, Zenon DEF Enters
  <2> HIDE DEF ms, same, i, h
  <2> QED BY <2>1, <2>2
<1>5. b.commands \in Seq(Commands) /\ cs \in Seq(Commands) /\ Len(cs) = 1 /\ cs[1].at = a
  BY DEF Blocks
<1> HIDE DEF ms, same, i, ks, ns, cs, a, h
<1>6. ASSUME same = {} PROVE Traced(ks, ns, a)
  <2>1. ks = Append(ms, b) /\ ns = Append(ms, e) /\ Len(ms) \in Nat
    BY <1>1, <1>4, <1>6
  <2>2. /\ Len(ks) = Len(ms) + 1 /\ Len(ns) = Len(ms) + 1
        /\ \A q \in 1 .. Len(ms) + 1 : /\ ks[q] = IF q <= Len(ms) THEN ms[q] ELSE b
                                       /\ ns[q] = IF q <= Len(ms) THEN ms[q] ELSE e
    BY <1>1, <1>2, <2>1
  <2>3. ASSUME NEW q \in 1 .. Len(ns) PROVE \E p \in 1 .. Len(ks) : Follows(ks[p], ns[q], a)
    <3>1. q \in 1 .. Len(ks)
      BY <2>2
    <3>2. CASE q <= Len(ms)
      <4>1. ns[q] = ks[q]
        BY <2>2, <3>2
      <4>2. Follows(ks[q], ns[q], a)
        BY <4>1, FollowsSelf
      <4> QED BY <3>1, <4>2
    <3>3. CASE ~ (q <= Len(ms))
      <4>1. ns[q] = e /\ ks[q] = b
        BY <2>2, <3>3
      <4> QED BY <1>2, <3>1, <4>1, Zenon
    <3> QED BY <3>2, <3>3
  <2> QED BY <2>3, Zenon DEF Traced
<1>7. ASSUME same # {} PROVE Traced(ks, ns, a)
  <2>1. i \in 1 .. Len(ms) /\ ks = Joint(ms, i, b) /\ ns = Joint(ms, i, e)
    BY <1>4, <1>7
  <2>2. JoinedAs(ms, i, b, ks) /\ JoinedAs(ms, i, e, ns)
    BY <1>1, <1>2, <2>1, JointCommands
  <2>3. /\ Len(ks) = Len(ms) /\ \A k \in 1 .. Len(ms) : k # i => ks[k] = ms[k]
        /\ ks[i] \in Blocks /\ ks[i].at = ms[i].at /\ ks[i].known = ms[i].known
        /\ ks[i].header = MergedHeader(ms[i].header, h)
        /\ ks[i].commands = ms[i].commands \o b.commands
    BY <2>2, Zenon DEF JoinedAs, h
  <2>4. /\ Len(ns) = Len(ms) /\ \A k \in 1 .. Len(ms) : k # i => ns[k] = ms[k]
        /\ ns[i] \in Blocks /\ ns[i].at = ms[i].at /\ ns[i].known = ms[i].known
        /\ ns[i].header = MergedHeader(ms[i].header, h)
        /\ ns[i].commands = ms[i].commands \o (b.commands \o cs)
    BY <1>2, <2>2, Zenon DEF JoinedAs
  <2> DEFINE old == ks[i]
             new == ns[i]
             x == ms[i].commands
             y == b.commands
  <2>5. x \in Seq(Commands)
    <3>1. ms[i] \in Blocks
      BY <1>1, <2>1
    <3> QED BY <3>1 DEF Blocks
  <2>6. y \in Seq(Commands) /\ old.commands = x \o y /\ new.commands = x \o (y \o cs)
        /\ old \in Blocks /\ new \in Blocks /\ old.header = new.header
    BY <1>5, <2>3, <2>4
  <2> HIDE DEF old, new, x, y
  <2>7. x \o (y \o cs) = (x \o y) \o cs
    <3>1. cs \in Seq(Commands) /\ x \in Seq(Commands) /\ y \in Seq(Commands)
      BY <1>5, <2>5, <2>6
    <3>2. (x \o y) \o cs = x \o (y \o cs)
      BY <3>1, InARow
    <3> QED BY <3>2
  <2>8. old.commands \in Seq(Commands) /\ new.commands = old.commands \o cs
    BY <2>6, <2>7 DEF Blocks
  <2>9. \A k \in 1 .. Len(cs) : cs[k].at = a
    BY <1>5
  <2>10. Extends(old, new, a)
    BY <1>5, <2>8, <2>9, ExtendsBy
  <2>11. Alike(old.header, new.header)
    BY <2>6, AlikeSelf
  <2>12. CmdLines(InForce(new)) \subseteq CmdLines(InForce(old)) \cup {a}
    BY <2>6, <2>10, <2>11, InForceMore
  <2>13. Follows(old, new, a)
    BY <2>3, <2>4, <2>12, Zenon DEF Follows, old, new
  <2>14. ASSUME NEW q \in 1 .. Len(ns) PROVE \E p \in 1 .. Len(ks) : Follows(ks[p], ns[q], a)
    <3>1. q \in 1 .. Len(ms) /\ q \in 1 .. Len(ks)
      BY <2>3, <2>4
    <3>2. CASE q = i
      BY <2>13, <3>1, <3>2, Zenon DEF old, new
    <3>3. CASE q # i
      <4>1. ns[q] = ks[q]
        BY <2>3, <2>4, <3>1, <3>3
      <4>2. Follows(ks[q], ns[q], a)
        BY <4>1, FollowsSelf
      <4> QED BY <3>1, <4>2
    <3> QED BY <3>2, <3>3
  <2> QED BY <2>14, Zenon DEF Traced
<1> QED BY <1>6, <1>7, Zenon DEF ks, ns, t, u, a

(* One command more of a block taken in brings back no other line. *)
LEMMA AbsorbGrown ==
    ASSUME NEW s \in Merges, NEW b \in Blocks, NEW c \in Commands, NEW e, OneCommand(b, e, c), NEW aliases
    PROVE  Traced(Absorbed(s, b, aliases).merged, Absorbed(s, e, aliases).merged, c.at)
<1> DEFINE h == b.header
           t == Cleared(s, h, aliases)
           r == [t EXCEPT !.ignored = @ \cup {b.at}]
           x == Absorbed(s, b, aliases)
           y == Absorbed(s, e, aliases)
<1>1. e.header = h /\ e.at = b.at
  BY GrownFollows
<1>2. x = IF Removes(h) THEN r ELSE Entered(t, b, aliases)
  BY AbsorbedIs
<1>3. y = IF Removes(h) THEN r ELSE Entered(t, e, aliases)
  <2> DEFINE u == Cleared(s, e.header, aliases)
  <2>1. y = IF Removes(e.header) THEN [u EXCEPT !.ignored = @ \cup {e.at}] ELSE Entered(u, e, aliases)
    BY AbsorbedIs
  <2>2. u = t
    BY <1>1
  <2> HIDE DEF u, t, y, h
  <2> QED BY <1>1, <2>1, <2>2, Zenon
<1>4. t \in Merges
  <2>1. Thinned(s, t)
    BY ClearedIs
  <2> QED BY <2>1 DEF Thinned
<1>5. r.merged \in Seq(Blocks)
  <2>1. b.at \in Nat
    BY DEF Blocks
  <2> HIDE DEF t
  <2>2. r \in Merges
    BY <1>4, <2>1, Ignoring
  <2> QED BY <2>2, MergeFields
<1> DEFINE ks == r.merged
           a == c.at
<1>6. Traced(ks, ks, a)
  <2>1. ks \in Seq(Blocks) /\ ToSet(ks) \subseteq ToSet(ks)
    BY <1>5
  <2> HIDE DEF ks, a
  <2> QED BY <2>1, TracedPart
<1> HIDE DEF t
<1>7. Traced(Entered(t, b, aliases).merged, Entered(t, e, aliases).merged, a)
  BY <1>4, EnterGrown
<1> HIDE DEF x, y, r, h, a
<1>8. Traced(x.merged, y.merged, a)
  <2>1. CASE Removes(h)
    BY <1>2, <1>3, <1>6, <2>1, Zenon
  <2>2. CASE ~ Removes(h)
    BY <1>2, <1>3, <1>7, <2>2, Zenon
  <2> QED BY <2>1, <2>2
<1> QED BY <1>8 DEF x, y, a

(* Before the first block. *)
NoViews == [merged |-> <<>>, ignored |-> {}]
(* What the blocks xs are merged into, s being what the first m of them are. *)
Partway(aliases, xs, m, s) ==
    /\ Len(xs) = m => AbsorbFolded(aliases, NoViews, xs) = s
    /\ Len(xs) = m + 1 => AbsorbFolded(aliases, NoViews, xs) = Absorbed(s, xs[m + 1], aliases)

(* A sequence of blocks is merged block by block. *)
Run(aliases, xs, n, f) ==
    /\ f[0] = NoViews
    /\ \A k \in 1 .. n : f[k] = Absorbed(f[k - 1], xs[k], aliases)
    /\ AbsorbFolded(aliases, NoViews, xs) = f[n]

(* There is such a run for every sequence of blocks. *)
LEMMA MergeRun ==
    ASSUME NEW aliases, NEW xs, NEW n \in Nat, DOMAIN xs = 1 .. n
    PROVE  \E f : Run(aliases, xs, n, f)
<1> DEFINE base == NoViews
<1> HIDE DEF base
<1>1. \E g : /\ g[0] = base
             /\ \A k \in 1 .. n : g[k] = Absorbed(g[k - 1], xs[k], aliases)
             /\ AbsorbFolded(aliases, base, xs) = g[n]
  BY AbsorbFold
<1> QED BY <1>1, Zenon DEF Run, base

(* Two sequences of blocks that start alike are merged alike so far. *)
LEMMA MergePrefix ==
    ASSUME NEW aliases, NEW xs \in Seq(Blocks), NEW ys \in Seq(Blocks), NEW m \in Nat,
           m <= Len(xs), m <= Len(ys), \A k \in 1 .. m : ys[k] = xs[k] /\ xs[k].header # <<"ospf">>
    PROVE  \E s : Sound(s) /\ Partway(aliases, xs, m, s) /\ Partway(aliases, ys, m, s)
<1> DEFINE p == Len(xs)
           q == Len(ys)
           base == NoViews
<1>1. p \in Nat /\ q \in Nat /\ m <= p /\ m <= q /\ DOMAIN xs = 1 .. p /\ DOMAIN ys = 1 .. q
  OBVIOUS
<1>2. \A k \in 1 .. m : k \in 1 .. p /\ k \in 1 .. q /\ xs[k] \in Blocks
  BY <1>1
<1>3. Sound(base)
  <2>1. <<>> \in Seq(Blocks) /\ {} \in SUBSET Nat /\ Len(<<>>) = 0
    OBVIOUS
  <2>2. base \in Merges
    BY <2>1, MergeMade DEF NoViews
  <2>3. base.merged = <<>>
    BY DEF NoViews
  <2>4. NoDefault(<<>>)
    BY <2>1 DEF NoDefault
  <2> QED BY <2>2, <2>3, <2>4 DEF Sound
<1> HIDE DEF p, q, base
<1>4. PICK f : Run(aliases, xs, p, f)
  BY <1>1, MergeRun
<1>5. PICK g : Run(aliases, ys, q, g)
  BY <1>1, MergeRun
<1> DEFINE S == {k \in Nat : k <= m => g[k] = f[k] /\ Sound(f[k])}
<1>6. ASSUME NEW k \in S \cap Nat PROVE k + 1 \in S
  <2> SUFFICES ASSUME k + 1 <= m PROVE g[k + 1] = f[k + 1] /\ Sound(f[k + 1])
    OBVIOUS
  <2>1. k <= m /\ k + 1 \in 1 .. m /\ (k + 1) - 1 = k
    BY <1>1
  <2>2. g[k] = f[k] /\ Sound(f[k])
    BY <2>1
  <2>3. k + 1 \in 1 .. p /\ k + 1 \in 1 .. q /\ xs[k + 1] \in Blocks /\ xs[k + 1].header # <<"ospf">> /\ ys[k + 1] = xs[k + 1]
    BY <1>2, <2>1
  <2>4. f[k + 1] = Absorbed(f[k], xs[k + 1], aliases) /\ g[k + 1] = Absorbed(g[k], ys[k + 1], aliases)
    BY <1>4, <1>5, <2>1, <2>3, Zenon DEF Run
  <2>5. Sound(f[k + 1])
    BY <2>2, <2>3, <2>4, AbsorbSound
  <2> QED BY <2>2, <2>3, <2>4, <2>5, Zenon
<1>7. 0 \in S
  BY <1>3, <1>4, <1>5 DEF Run, base
<1>8. g[m] = f[m] /\ Sound(f[m])
  <2> HIDE DEF S
  <2>1. Nat \subseteq S
    BY <1>6, <1>7, Induction
  <2>2. m \in S
    BY <2>1
  <2> QED BY <1>1, <2>2 DEF S
<1>9. Partway(aliases, xs, m, f[m])
  <2>1. p = m + 1 => f[p] = Absorbed(f[m], xs[m + 1], aliases)
    <3> SUFFICES ASSUME p = m + 1 PROVE f[p] = Absorbed(f[m], xs[m + 1], aliases)
      OBVIOUS
    <3>1. m + 1 \in 1 .. p /\ (m + 1) - 1 = m
      BY <1>1
    <3> QED BY <1>4, <3>1, Zenon DEF Run
  <2> QED BY <1>4, <2>1, Zenon DEF Partway, Run, p
<1>10. Partway(aliases, ys, m, f[m])
  <2>1. q = m + 1 => g[q] = Absorbed(f[m], ys[m + 1], aliases)
    <3> SUFFICES ASSUME q = m + 1 PROVE g[q] = Absorbed(f[m], ys[m + 1], aliases)
      OBVIOUS
    <3>1. m + 1 \in 1 .. q /\ (m + 1) - 1 = m
      BY <1>1
    <3> QED BY <1>5, <1>8, <3>1, Zenon DEF Run
  <2> QED BY <1>5, <1>8, <2>1, Zenon DEF Partway, Run, q
<1> QED BY <1>8, <1>9, <1>10, Zenon

(* A header that gives an ACL a name and a number. *)
Renaming(h) == Begins(h, <<"acl">>) /\ Has(h, "number")
(* The headers the aliases of the text are read off. *)
AclHeaders(bs) ==
    {b.header : b \in {b \in ToSet(bs) :
        /\ Begins(b.header, <<"acl">>) /\ Has(b.header, "number")
        /\ AclKey(Tail(b.header)) # NoKey
        /\ AclIdentity(Tail(b.header), "ipv4")[2] = "name"
        /\ Numeral(WordAfter(b.header, "number"))}}

(* Other blocks do not change what names stand for which lists. *)
LEMMA AliasesSame ==
    ASSUME NEW bs \in Seq(Blocks), NEW cs \in Seq(Blocks),
           \A k \in 1 .. Len(bs) : Renaming(bs[k].header) => \E j \in 1 .. Len(cs) : cs[j].header = bs[k].header,
           \A k \in 1 .. Len(cs) : Renaming(cs[k].header) => \E j \in 1 .. Len(bs) : bs[j].header = cs[k].header
    PROVE  AclAliases(cs) = AclAliases(bs)
<1> DEFINE P(h) == /\ AclKey(Tail(h)) # NoKey
                   /\ AclIdentity(Tail(h), "ipv4")[2] = "name"
                   /\ Numeral(WordAfter(h, "number"))
<1>1. ASSUME NEW ds \in Seq(Blocks), NEW h
      PROVE  h \in AclHeaders(ds) <=> Renaming(h) /\ P(h) /\ \E k \in 1 .. Len(ds) : ds[k].header = h
  <2>1. DOMAIN ds = 1 .. Len(ds)
    OBVIOUS
  <2>2. h \in AclHeaders(ds) <=> \E b \in ToSet(ds) : Renaming(b.header) /\ P(b.header) /\ h = b.header
    BY Zenon DEF AclHeaders, Renaming
  <2> HIDE DEF P
  <2>3. \A b : b \in ToSet(ds) <=> \E k \in 1 .. Len(ds) : b = ds[k]
    BY <2>1 DEF ToSet
  <2>4. ASSUME h \in AclHeaders(ds) PROVE Renaming(h) /\ P(h) /\ \E k \in 1 .. Len(ds) : ds[k].header = h
    <3>1. PICK b : b \in ToSet(ds) /\ Renaming(b.header) /\ P(b.header) /\ h = b.header
      BY <2>2, <2>4, Zenon
    <3>2. PICK k \in 1 .. Len(ds) : b = ds[k]
      BY <2>3, <3>1, Zenon
    <3> QED BY <3>1, <3>2, Zenon
  <2>5. ASSUME Renaming(h), P(h), NEW k \in 1 .. Len(ds), ds[k].header = h PROVE h \in AclHeaders(ds)
    <3>1. ds[k] \in ToSet(ds)
      BY <2>3, Zenon
    <3> QED BY <2>2, <2>5, <3>1, Zenon
  <2> QED BY <2>4, <2>5, Zenon
<1> HIDE DEF P
<1>2. ASSUME NEW h PROVE h \in AclHeaders(cs) <=> h \in AclHeaders(bs)
  <2>1. h \in AclHeaders(cs) <=> Renaming(h) /\ P(h) /\ \E k \in 1 .. Len(cs) : cs[k].header = h
    BY <1>1
  <2>2. h \in AclHeaders(bs) <=> Renaming(h) /\ P(h) /\ \E k \in 1 .. Len(bs) : bs[k].header = h
    BY <1>1
  <2>3. ASSUME Renaming(h), NEW k \in 1 .. Len(cs), cs[k].header = h PROVE \E j \in 1 .. Len(bs) : bs[j].header = h
    BY <2>3, Zenon
  <2>4. ASSUME Renaming(h), NEW k \in 1 .. Len(bs), bs[k].header = h PROVE \E j \in 1 .. Len(cs) : cs[j].header = h
    BY <2>4, Zenon
  <2> QED BY <2>1, <2>2, <2>3, <2>4, Zenon
<1>3. AclHeaders(cs) = AclHeaders(bs)
  BY <1>2, Zenon
<1>4. ASSUME NEW ds
      PROVE  AclClaims(ds) = {<<AclKey(Tail(h)), <<"acl", AclIdentity(Tail(h), "ipv4")[1], "number", WordAfter(h, "number")>>>> :
                                h \in AclHeaders(ds)}
  BY Zenon DEF AclClaims, AclHeaders
<1>5. AclClaims(cs) = AclClaims(bs)
  BY <1>3, <1>4, Zenon
<1> QED BY <1>5, Zenon DEF AclAliases

(* The merged views of two texts, for the line a between them. *)
MergedTraced(bs, cs, a) ==
    /\ Merged(bs).merged \in Seq(Blocks) /\ Merged(cs).merged \in Seq(Blocks)
    /\ Traced(Merged(bs).merged, Merged(cs).merged, a)

(* One block more brings back no other line. *)
LEMMA MergedAppend ==
    ASSUME HeadersAlike, NEW bs \in Seq(Blocks), NoDefault(bs), NEW b \in Blocks, b.header # <<"ospf">>, ~ Renaming(b.header),
           \A k \in 1 .. Len(b.commands) : b.commands[k].at = b.at
    PROVE  MergedTraced(bs, Append(bs, b), b.at)
<1> DEFINE cs == Append(bs, b)
           m == Len(bs)
           aliases == AclAliases(bs)
<1>1. /\ cs \in Seq(Blocks) /\ Len(cs) = m + 1 /\ m \in Nat /\ m <= m + 1 /\ cs[m + 1] = b
      /\ \A k \in 1 .. m : cs[k] = bs[k]
  OBVIOUS
<1> HIDE DEF cs
<1>2. AclAliases(cs) = aliases
  <2>1. \A k \in 1 .. m + 1 : k \in 1 .. m \/ k = m + 1
    BY <1>1
  <2>2. \A k \in 1 .. m : k \in 1 .. m + 1
    BY <1>1
  <2>3. \A k \in 1 .. Len(bs) : Renaming(bs[k].header) => \E j \in 1 .. Len(cs) : cs[j].header = bs[k].header
    BY <1>1, <2>2, Zenon
  <2>4. \A k \in 1 .. Len(cs) : Renaming(cs[k].header) => \E j \in 1 .. Len(bs) : bs[j].header = cs[k].header
    BY <1>1, <2>1, Zenon
  <2> QED BY <1>1, <2>3, <2>4, AliasesSame
<1>3. \A k \in 1 .. m : cs[k] = bs[k] /\ bs[k].header # <<"ospf">>
  BY <1>1 DEF NoDefault
<1>4. m <= Len(bs) /\ m <= Len(cs)
  BY <1>1
<1> HIDE DEF m
<1>5. PICK s : Sound(s) /\ Partway(aliases, bs, m, s) /\ Partway(aliases, cs, m, s)
  BY <1>1, <1>3, <1>4, MergePrefix
<1>6. Merged(bs) = AbsorbFolded(aliases, NoViews, bs)
  BY Zenon DEF Merged, AbsorbFolded, NoViews
<1>7. Merged(cs) = AbsorbFolded(aliases, NoViews, cs)
  <2>1. Merged(cs) = AbsorbFolded(AclAliases(cs), NoViews, cs)
    BY Zenon DEF Merged, AbsorbFolded, NoViews
  <2> HIDE DEF aliases
  <2> QED BY <1>2, <2>1, Zenon
<1>8. Merged(bs) = s
  BY <1>5, <1>6, Zenon DEF Partway, m
<1>9. Merged(cs) = Absorbed(s, b, aliases)
  BY <1>1, <1>5, <1>7, Zenon DEF Partway
<1>10. Traced(s.merged, Absorbed(s, b, aliases).merged, b.at)
  BY <1>5, AbsorbTraced
<1>11. Sound(Absorbed(s, b, aliases))
  BY <1>5, AbsorbSound
<1>12. s.merged \in Seq(Blocks) /\ Absorbed(s, b, aliases).merged \in Seq(Blocks)
  BY <1>5, <1>11, MergeFields DEF Sound
<1> HIDE DEF aliases
<1>13. MergedTraced(bs, cs, b.at)
  BY <1>8, <1>9, <1>10, <1>12, Zenon DEF MergedTraced
<1> QED BY <1>13 DEF cs

(* One command more brings back no other line. *)
LEMMA MergedGrown ==
    ASSUME NEW bs \in Seq(Blocks), NoDefault(bs), bs # <<>>, NEW c \in Commands
    PROVE  MergedTraced(bs, Grown(bs, Len(bs), c), c.at)
<1> DEFINE n == Len(bs)
           cs == Grown(bs, n, c)
           m == n - 1
           aliases == AclAliases(bs)
           b == bs[n]
           e == [b EXCEPT !.commands = Append(@, c)]
<1>1. n \in Nat /\ m \in Nat /\ m + 1 = n /\ n \in 1 .. n /\ m <= n /\ DOMAIN bs = 1 .. n /\ b \in Blocks
  OBVIOUS
<1>2. cs \in Seq(Blocks)
  BY <1>1, GrownBlocks
<1>3. cs = [bs EXCEPT ![n] = e]
  BY <1>1 DEF Grown
<1>4. Len(cs) = n /\ cs[n] = e /\ \A k \in 1 .. n : k # n => cs[k] = bs[k]
  <2> HIDE DEF e, n
  <2>1. DOMAIN cs = 1 .. n /\ cs[n] = e /\ \A k \in 1 .. n : k # n => cs[k] = bs[k]
    BY <1>1, <1>3
  <2> HIDE DEF cs
  <2> QED BY <1>1, <1>2, <2>1
<1>5. OneCommand(b, e, c)
  BY Zenon DEF OneCommand
<1> HIDE DEF cs, e
<1>6. e.header = b.header /\ e \in Blocks
  BY <1>1, <1>5, GrownFollows
<1>7. AclAliases(cs) = aliases
  <2>1. \A k \in 1 .. n : cs[k].header = bs[k].header
    BY <1>4, <1>6
  <2>2. \A k \in 1 .. Len(bs) : Renaming(bs[k].header) => \E j \in 1 .. Len(cs) : cs[j].header = bs[k].header
    BY <1>4, <2>1, Zenon
  <2>3. \A k \in 1 .. Len(cs) : Renaming(cs[k].header) => \E j \in 1 .. Len(bs) : bs[j].header = cs[k].header
    BY <1>4, <2>1, Zenon
  <2> QED BY <1>2, <2>2, <2>3, AliasesSame
<1>8. \A k \in 1 .. m : cs[k] = bs[k] /\ bs[k].header # <<"ospf">>
  <2>1. \A k \in 1 .. m : k \in 1 .. n /\ k # n
    <3>1. n \in Nat /\ m \in Nat /\ m + 1 = n
      BY <1>1
    <3> HIDE DEF m, n
    <3> QED BY <3>1
  <2> QED BY <1>4, <2>1 DEF NoDefault
<1>0. b.header # <<"ospf">>
  BY <1>1 DEF NoDefault
<1>9. m <= Len(bs) /\ m <= Len(cs)
  BY <1>1, <1>4
<1>n. Len(bs) = n
  OBVIOUS
<1> HIDE DEF m, b, n
<1>10. PICK s : Sound(s) /\ Partway(aliases, bs, m, s) /\ Partway(aliases, cs, m, s)
  BY <1>1, <1>2, <1>8, <1>9, MergePrefix
<1>11. Merged(bs) = AbsorbFolded(aliases, NoViews, bs)
  BY Zenon DEF Merged, AbsorbFolded, NoViews
<1>12. Merged(cs) = AbsorbFolded(aliases, NoViews, cs)
  <2>1. Merged(cs) = AbsorbFolded(AclAliases(cs), NoViews, cs)
    BY Zenon DEF Merged, AbsorbFolded, NoViews
  <2> HIDE DEF aliases
  <2> QED BY <1>7, <2>1, Zenon
<1>13. Merged(bs) = Absorbed(s, b, aliases)
  BY <1>1, <1>n, <1>10, <1>11, Zenon DEF Partway, b
<1>14. Merged(cs) = Absorbed(s, e, aliases)
  BY <1>1, <1>4, <1>10, <1>12, Zenon DEF Partway
<1>15. Traced(Absorbed(s, b, aliases).merged, Absorbed(s, e, aliases).merged, c.at)
  <2>1. s \in Merges
    BY <1>10 DEF Sound
  <2> QED BY <1>1, <1>5, <2>1, AbsorbGrown
<1>16. Sound(Absorbed(s, b, aliases)) /\ Sound(Absorbed(s, e, aliases))
  BY <1>0, <1>1, <1>6, <1>10, AbsorbSound
<1>17. Absorbed(s, b, aliases).merged \in Seq(Blocks) /\ Absorbed(s, e, aliases).merged \in Seq(Blocks)
  BY <1>16, MergeFields DEF Sound
<1> HIDE DEF aliases
<1>18. MergedTraced(bs, cs, c.at)
  BY <1>13, <1>14, <1>15, <1>17, Zenon DEF MergedTraced
<1> QED BY <1>18 DEF cs, n

(* The blocks cs are bs after the line l was read. *)
OneMore(bs, cs, l) ==
    \/ cs = bs
    \/ bs # <<>> /\ \E c \in Commands : c.at = l.at /\ cs = Grown(bs, Len(bs), c)
    \/ \E b \in Blocks : /\ b.at = l.at /\ b.header \in {l.words, Unknown}
                         /\ \A k \in 1 .. Len(b.commands) : b.commands[k].at = b.at
                         /\ cs = Append(bs, b)

(* A line is a block more, a command more, or neither. *)
LEMMA ReadGrows ==
    ASSUME NEW s \in Readings, NEW l \in TextLines, s.open => s.blocks # <<>>
    PROVE  OneMore(s.blocks, Read(s, l).blocks, l)
<1> DEFINE bs == s.blocks
           r == Read(s, l)
           i == l.indent
<1>1. l.prompt = NoWord /\ l.words \in Words /\ l.at \in Nat
  BY DEF TextLines
<1>2. CASE l.words \in Structural
  <2>1. Ends(s, i, r)
    BY <1>1, <1>2, ReadCases, Zenon DEF Ends
  <2> HIDE DEF r, i
  <2>2. r.blocks = bs
    BY <2>1, ReadEnds
  <2> QED BY <2>2, Zenon DEF OneMore, r
<1>3. CASE l.words \notin Structural /\ i = 0
  <2> DEFINE b == Block(l.words, l.at, TRUE)
  <2>1. r = Header(s, l)
    BY <1>1, <1>3, ReadCases, Zenon
  <2>2. b \in Blocks /\ b.at = l.at /\ b.header = l.words /\ b.commands = <<>>
    <3> DEFINE S == Seq(Commands)  none == <<>>
    <3>1. Blocks = [header : Words, at : Nat, known : BOOLEAN, commands : S] /\ none \in S
      BY DEF Blocks
    <3>2. b = [header |-> l.words, at |-> l.at, known |-> TRUE, commands |-> none]
      BY Zenon DEF Block
    <3> HIDE DEF S, none, b
    <3>3. b \in Blocks /\ b.at = l.at /\ b.header = l.words /\ b.commands = none
      BY <1>1, <3>1, <3>2
    <3> QED BY <3>3 DEF none
  <2>3. r.blocks = Append(bs, b)
    <3>1. Header(s, l) = [blocks |-> Append(bs, b), open |-> TRUE, views |-> <<>>, previous |-> <<>>]
      BY Zenon DEF Header
    <3> HIDE DEF b, bs
    <3> QED BY <2>1, <3>1
  <2> HIDE DEF b, r, bs
  <2>4. \A k \in 1 .. Len(b.commands) : FALSE
    BY <2>2
  <2>5. b.header \in {l.words, Unknown}
    BY <2>2
  <2>6. OneMore(bs, r.blocks, l)
    BY <2>2, <2>3, <2>4, <2>5, Zenon DEF OneMore
  <2> QED BY <2>6 DEF r, bs
<1>4. CASE l.words \notin Structural /\ i # 0
  <2>1. r = Inner(s, l, i)
    BY <1>1, <1>4, ReadCases, Zenon
  <2>2. PICK c \in Commands : c.at = l.at /\ Inner(s, l, i).blocks = Joins(bs, s.open, c)
    BY InnerIs
  <2>3. Loose(c) \in Blocks
    BY LooseIs
  <2> DEFINE b == Loose(c)
  <2>4. b.header = Unknown /\ b.at = c.at /\ b.commands = <<c>>
    BY DEF Loose
  <2>5. \A k \in 1 .. Len(b.commands) : b.commands[k].at = b.at
    <3> HIDE DEF b
    <3> QED BY <2>4
  <2>6. b.header \in {l.words, Unknown}
    BY <2>4
  <2> HIDE DEF b, r, bs, i
  <2>7. CASE s.open
    <3>1. bs # <<>> /\ r.blocks = Grown(bs, Len(bs), c)
      BY <2>1, <2>2, <2>7, Zenon DEF Joins, bs
    <3>2. OneMore(bs, r.blocks, l)
      BY <2>2, <3>1, Zenon DEF OneMore
    <3> QED BY <3>2 DEF r, bs
  <2>8. CASE ~ s.open
    <3>1. r.blocks = Append(bs, b)
      BY <2>1, <2>2, <2>8, Zenon DEF Joins, b
    <3>2. b \in Blocks /\ b.at = l.at
      BY <2>2, <2>3, <2>4 DEF b
    <3>3. OneMore(bs, r.blocks, l)
      BY <2>5, <2>6, <3>1, <3>2, Zenon DEF OneMore
    <3> QED BY <3>3 DEF r, bs
  <2> QED BY <2>7, <2>8
<1> QED BY <1>2, <1>3, <1>4

(* Growing the last block changes no other. *)
LEMMA GrownIs ==
    ASSUME NEW bs \in Seq(Blocks), bs # <<>>, NEW c \in Commands, NEW n, n = Len(bs)
    PROVE  /\ Grown(bs, n, c) \in Seq(Blocks) /\ Len(Grown(bs, n, c)) = n /\ n \in 1 .. n
           /\ \A k \in 1 .. n : k # n => Grown(bs, n, c)[k] = bs[k]
           /\ OneCommand(bs[n], Grown(bs, n, c)[n], c)
<1> DEFINE cs == Grown(bs, n, c)
           b == bs[n]
           e == [b EXCEPT !.commands = Append(@, c)]
<1>1. n \in Nat /\ n \in 1 .. n /\ DOMAIN bs = 1 .. n
  OBVIOUS
<1>2. cs \in Seq(Blocks)
  BY <1>1, GrownBlocks
<1>3. cs = [bs EXCEPT ![n] = e]
  BY <1>1 DEF Grown
<1>4. Len(cs) = n /\ cs[n] = e /\ \A k \in 1 .. n : k # n => cs[k] = bs[k]
  <2> HIDE DEF e
  <2>1. DOMAIN cs = 1 .. n /\ cs[n] = e /\ \A k \in 1 .. n : k # n => cs[k] = bs[k]
    BY <1>1, <1>3
  <2> HIDE DEF cs
  <2> QED BY <1>1, <1>2, <2>1
<1>5. OneCommand(b, e, c)
  BY Zenon DEF OneCommand
<1> HIDE DEF cs, e
<1>6. OneCommand(b, cs[n], c)
  BY <1>4, <1>5, Zenon
<1> QED BY <1>1, <1>2, <1>4, <1>6 DEF cs, b

(* A line more opens no default process, unless it is its header. *)
LEMMA OneMoreSound ==
    ASSUME NEW bs \in Seq(Blocks), NoDefault(bs), NEW cs, NEW l, OneMore(bs, cs, l), l.words # <<"ospf">>
    PROVE  NoDefault(cs)
<1>1. CASE cs = bs
  BY <1>1, Zenon
<1>2. CASE bs # <<>> /\ \E c \in Commands : c.at = l.at /\ cs = Grown(bs, Len(bs), c)
  <2>1. PICK c \in Commands : cs = Grown(bs, Len(bs), c)
    BY <1>2
  <2> DEFINE n == Len(bs)
  <2>2. /\ cs \in Seq(Blocks) /\ Len(cs) = n /\ n \in 1 .. n /\ OneCommand(bs[n], cs[n], c)
        /\ \A k \in 1 .. n : k # n => cs[k] = bs[k]
    BY <1>2, <2>1, GrownIs
  <2>3. bs[n] \in Blocks
    BY <2>2
  <2> DEFINE b == bs[n]
             e == cs[n]
  <2>4. e.header = b.header
    <3> HIDE DEF b, e
    <3> QED BY <2>2, <2>3, GrownFollows DEF b, e
  <2> HIDE DEF n
  <2>5. \A k \in 1 .. n : cs[k].header = bs[k].header
    BY <2>2, <2>4, Zenon
  <2> QED BY <2>2, <2>5, Zenon DEF NoDefault, n
<1>3. CASE \E b \in Blocks : /\ b.at = l.at /\ b.header \in {l.words, Unknown}
                             /\ \A k \in 1 .. Len(b.commands) : b.commands[k].at = b.at
                             /\ cs = Append(bs, b)
  <2>1. PICK b \in Blocks : b.header \in {l.words, Unknown} /\ cs = Append(bs, b)
    BY <1>3
  <2>2. b.header # <<"ospf">>
    <3>1. Unknown # <<"ospf">>
      BY DEF Unknown
    <3> QED BY <2>1, <3>1
  <2> DEFINE n == Len(bs)
  <2>3. n \in Nat /\ Len(cs) = n + 1 /\ cs[n + 1] = b /\ \A k \in 1 .. n : cs[k] = bs[k]
    BY <2>1
  <2> HIDE DEF n
  <2>4. \A k \in 1 .. n + 1 : k \in 1 .. n \/ k = n + 1
    BY <2>3
  <2>5. \A k \in 1 .. n + 1 : cs[k].header # <<"ospf">>
    BY <2>2, <2>3, <2>4, Zenon DEF NoDefault, n
  <2> QED BY <2>3, <2>5, Zenon DEF NoDefault
<1> QED BY <1>1, <1>2, <1>3, Zenon DEF OneMore

(* The text ms is ls and one line more. *)
Longer(ls, ms) == Len(ms) = Len(ls) + 1 /\ \A k \in 1 .. Len(ls) : ms[k] = ls[k]

(* What stands before a line is read as it was without it. *)
LEMMA IndexMore ==
    ASSUME NEW v, NEW ls, Text(ls, v), NEW ms, Text(ms, v), Longer(ls, ms)
    PROVE  OneMore(IndexBlocks(ls, v), IndexBlocks(ms, v), ms[Len(ms)])
<1> DEFINE n == Len(ls)
           m == Len(ms)
<1>1. n \in Nat /\ m \in Nat /\ m = n + 1 /\ \A k \in 1 .. n : ms[k] = ls[k]
  BY DEF Text, Longer
<1>2. PICK f : ReadRun(ls, v, n, f)
  BY ReadsRun
<1>3. PICK g : ReadRun(ms, v, m, g)
  BY ReadsRun
<1>l. ms[m] \in TextLines
  BY <1>1 DEF Text
<1> HIDE DEF n, m
<1> DEFINE S == {k \in Nat : k <= n => g[k] = f[k]}
<1>4. 0 \in S
  <2>1. g[0] = f[0]
    BY <1>2, <1>3, Zenon DEF ReadRun
  <2> QED BY <2>1
<1>5. ASSUME NEW k \in S \cap Nat PROVE k + 1 \in S
  <2> SUFFICES ASSUME k + 1 <= n PROVE g[k + 1] = f[k + 1]
    OBVIOUS
  <2>1. k <= n /\ k + 1 \in 1 .. n /\ k + 1 \in 1 .. m /\ (k + 1) - 1 = k
    BY <1>1
  <2>2. g[k] = f[k] /\ ms[k + 1] = ls[k + 1]
    BY <1>1, <2>1
  <2>3. f[k + 1] = Read(f[k], ls[k + 1]) /\ g[k + 1] = Read(g[k], ms[k + 1])
    BY <1>2, <1>3, <2>1, Zenon DEF ReadRun
  <2> QED BY <2>2, <2>3, Zenon
<1>6. g[n] = f[n]
  <2> HIDE DEF S
  <2>1. Nat \subseteq S
    BY <1>4, <1>5, Induction
  <2>2. n \in S
    BY <1>1, <2>1
  <2> QED BY <1>1, <2>2 DEF S
<1>7. m \in 1 .. m /\ m - 1 = n /\ n \in 0 .. n
  BY <1>1
<1> DEFINE s == f[n]
           l == ms[m]
<1>8. g[m] = Read(s, l)
  BY <1>3, <1>6, <1>7, Zenon DEF ReadRun
<1>9. IndexBlocks(ms, v) = Read(s, l).blocks /\ IndexBlocks(ls, v) = s.blocks
  BY <1>2, <1>3, <1>8, Zenon DEF ReadRun
<1>10. s \in Readings /\ (s.open => s.blocks # <<>>)
  BY <1>2, <1>7, Zenon DEF ReadRun, ReadInv, Within
<1>11. l \in TextLines
  BY <1>l
<1> HIDE DEF s, l
<1>12. OneMore(s.blocks, Read(s, l).blocks, l)
  BY <1>10, <1>11, ReadGrows
<1> QED BY <1>9, <1>12, Zenon DEF l, m

(* A text without the header of the default process has no such view. *)
LEMMA IndexSound ==
    ASSUME NEW ls, NEW v, Text(ls, v), v = <<>>, \A k \in 1 .. Len(ls) : ls[k].words # <<"ospf">>
    PROVE  NoDefault(IndexBlocks(ls, v))
<1> DEFINE n == Len(ls)
<1>1. n \in Nat /\ \A k \in 1 .. n : ls[k] \in TextLines
  BY DEF Text
<1>2. PICK f : ReadRun(ls, v, n, f)
  BY ReadsRun
<1> DEFINE S == {k \in Nat : k <= n => NoDefault(f[k].blocks)}
<1>3. 0 \in S
  <2>1. NothingRead(v).blocks = <<>>
    BY DEF NothingRead
  <2>2. f[0].blocks = <<>>
    BY <1>2, <2>1, Zenon DEF ReadRun
  <2>3. \A k \in 1 .. Len(<<>>) : FALSE
    OBVIOUS
  <2>4. NoDefault(f[0].blocks)
    BY <2>2, <2>3, Zenon DEF NoDefault
  <2> QED BY <2>4
<1>4. ASSUME NEW k \in S \cap Nat PROVE k + 1 \in S
  <2> SUFFICES ASSUME k + 1 <= n PROVE NoDefault(f[k + 1].blocks)
    OBVIOUS
  <2>1. k \in 0 .. n /\ k <= n /\ k + 1 \in 1 .. n /\ (k + 1) - 1 = k
    BY <1>1
  <2> DEFINE s == f[k]
             l == ls[k + 1]
  <2>2. NoDefault(s.blocks) /\ l \in TextLines /\ l.words # <<"ospf">>
    BY <1>1, <2>1
  <2>3. f[k + 1] = Read(s, l)
    BY <1>2, <2>1, Zenon DEF ReadRun
  <2>4. s \in Readings /\ (s.open => s.blocks # <<>>)
    BY <1>2, <2>1, Zenon DEF ReadRun, ReadInv, Within
  <2> HIDE DEF s, l
  <2>5. OneMore(s.blocks, Read(s, l).blocks, l)
    BY <2>2, <2>4, ReadGrows
  <2>6. s.blocks \in Seq(Blocks)
    BY <2>4, ReadingFields
  <2>7. NoDefault(Read(s, l).blocks)
    BY <2>2, <2>5, <2>6, OneMoreSound
  <2> QED BY <2>3, <2>7, Zenon
<1>5. NoDefault(f[n].blocks)
  <2>1. n \in S
    <3> HIDE DEF S
    <3> QED BY <1>1, <1>3, <1>4, Induction
  <2> QED BY <1>1, <2>1
<1> QED BY <1>2, <1>5, Zenon DEF ReadRun

(* The blocks of one line more are traced to those before it. *)
LEMMA OneMoreTraced ==
    ASSUME NEW bs \in Seq(Blocks), NEW cs \in Seq(Blocks), NEW l, OneMore(bs, cs, l), NEW a, a = l.at
    PROVE  Traced(bs, cs, a)
<1>1. CASE cs = bs
  <2>1. ToSet(cs) \subseteq ToSet(bs)
    BY <1>1, Zenon
  <2> QED BY <2>1, TracedPart
<1>2. CASE bs # <<>> /\ \E c \in Commands : c.at = l.at /\ cs = Grown(bs, Len(bs), c)
  <2>1. PICK c \in Commands : c.at = a /\ cs = Grown(bs, Len(bs), c)
    BY <1>2
  <2> DEFINE n == Len(bs)
  <2>2. /\ cs \in Seq(Blocks) /\ Len(cs) = n /\ n \in 1 .. n /\ OneCommand(bs[n], cs[n], c)
        /\ \A k \in 1 .. n : k # n => cs[k] = bs[k]
    BY <1>2, <2>1, GrownIs
  <2> DEFINE b == bs[n]
             e == cs[n]
  <2>3. b \in Blocks /\ OneCommand(b, e, c)
    BY <2>2
  <2>4. Follows(b, e, a)
    <3> HIDE DEF b, e
    <3>1. Follows(b, e, c.at)
      BY <2>3, GrownFollows
    <3> QED BY <2>1, <3>1, Zenon
  <2> HIDE DEF n
  <2>5. ASSUME NEW q \in 1 .. n PROVE \E p \in 1 .. n : Follows(bs[p], cs[q], a)
    <3>1. CASE q = n
      BY <2>4, <3>1, Zenon
    <3>2. CASE q # n
      <4>1. cs[q] = bs[q]
        BY <2>2, <3>2
      <4>2. Follows(bs[q], cs[q], a)
        BY <4>1, FollowsSelf, Zenon
      <4> QED BY <4>2
    <3> QED BY <3>1, <3>2
  <2> QED BY <2>2, <2>5, Zenon DEF Traced, n
<1>3. CASE \E b \in Blocks : /\ b.at = l.at /\ b.header \in {l.words, Unknown}
                             /\ \A k \in 1 .. Len(b.commands) : b.commands[k].at = b.at
                             /\ cs = Append(bs, b)
  <2>1. PICK b \in Blocks : /\ b.at = a /\ cs = Append(bs, b)
                            /\ \A k \in 1 .. Len(b.commands) : b.commands[k].at = b.at
    BY <1>3
  <2> DEFINE n == Len(bs)
  <2>2. n \in Nat /\ Len(cs) = n + 1 /\ cs[n + 1] = b /\ \A k \in 1 .. n : cs[k] = bs[k]
    BY <2>1
  <2>3. CmdLines(InForce(b)) \subseteq {a}
    <3>1. CmdLines(b) \subseteq {a}
      <4>1. b.commands \in Seq(Commands)
        BY DEF Blocks
      <4>2. DOMAIN b.commands = 1 .. Len(b.commands)
        BY <4>1
      <4>3. \A c \in ToSet(b.commands) : c.at = a
        BY <2>1, <4>2 DEF ToSet
      <4> QED BY <4>3 DEF CmdLines
    <3>2. CmdLines(InForce(b)) \subseteq CmdLines(b)
      BY InForceIs
    <3> QED BY <3>1, <3>2
  <2> HIDE DEF n
  <2>4. \A q \in 1 .. n + 1 : q \in 1 .. n \/ q = n + 1
    BY <2>2
  <2>5. ASSUME NEW q \in 1 .. n PROVE Follows(bs[q], cs[q], a)
    BY <2>2, FollowsSelf, Zenon
  <2>6. cs[n + 1].at = a /\ CmdLines(InForce(cs[n + 1])) \subseteq {a}
    BY <2>1, <2>2, <2>3, Zenon
  <2> QED BY <2>2, <2>4, <2>5, <2>6, Zenon DEF Traced, n
<1> QED BY <1>1, <1>2, <1>3, Zenon DEF OneMore

(* A sequence as long as q or longer starts with q if it has q's elements. *)
LEMMA StartsWith ==
    ASSUME NEW S, NEW h \in Seq(S), NEW T, NEW q \in Seq(T), NEW n \in Nat, Len(q) = n, n > 0, n <= Len(h)
    PROVE  SubSeq(q, 1, n) = SubSeq(h, 1, n) <=> \A k \in 1 .. n : q[k] = h[k]
<1> DEFINE a == SubSeq(q, 1, n)
           b == SubSeq(h, 1, n)
<1>1. a \in Seq(T) /\ Len(a) = n /\ \A k \in 1 .. n : a[k] = q[k]
  OBVIOUS
<1>2. b \in Seq(S) /\ Len(b) = n /\ \A k \in 1 .. n : b[k] = h[k]
  OBVIOUS
<1> HIDE DEF a, b
<1>3. DOMAIN a = 1 .. n /\ DOMAIN b = 1 .. n /\ a = [k \in 1 .. n |-> a[k]] /\ b = [k \in 1 .. n |-> b[k]]
  BY <1>1, <1>2
<1>4. ASSUME \A k \in 1 .. n : q[k] = h[k] PROVE a = b
  <2>1. [k \in 1 .. n |-> a[k]] = [k \in 1 .. n |-> b[k]]
    BY <1>1, <1>2, <1>4
  <2> QED BY <1>3, <2>1, Zenon
<1>5. ASSUME a = b PROVE \A k \in 1 .. n : q[k] = h[k]
  BY <1>1, <1>2, <1>5
<1> QED BY <1>4, <1>5 DEF a, b

(* When a header begins with a word. *)
LEMMA BeginsWord ==
    ASSUME NEW h \in Words, NEW x
    PROVE  Begins(h, <<x>>) <=> Len(h) >= 2 /\ h[1] = x
<1> DEFINE p == <<x>>
<1>1. p \in Seq({x}) /\ Len(p) = 1 /\ p[1] = x
  OBVIOUS
<1>2. h \in Seq(Word) /\ Len(h) \in Nat
  BY DEF Words
<1> HIDE DEF p
<1>3. ASSUME Len(h) >= 2 PROVE SubSeq(p, 1, 1) = SubSeq(h, 1, 1) <=> \A k \in 1 .. 1 : p[k] = h[k]
  <2> DEFINE n == 1
  <2>1. n \in Nat /\ n > 0 /\ n <= Len(h) /\ Len(p) = n
    BY <1>1, <1>2, <1>3
  <2> HIDE DEF n
  <2>2. SubSeq(p, 1, n) = SubSeq(h, 1, n) <=> \A k \in 1 .. n : p[k] = h[k]
    BY <1>1, <1>2, <2>1, StartsWith
  <2> QED BY <2>2 DEF n
<1>4. (\A k \in 1 .. 1 : p[k] = h[k]) <=> h[1] = x
  BY <1>1
<1>5. Begins(h, p) <=> Len(h) >= 2 /\ SubSeq(p, 1, 1) = SubSeq(h, 1, 1)
  BY <1>1, <1>2 DEF Begins, IsPrefix
<1> QED BY <1>3, <1>4, <1>5 DEF p

(* When it begins with two. *)
LEMMA BeginsTwo ==
    ASSUME NEW h \in Words, NEW x, NEW y
    PROVE  Begins(h, <<x, y>>) <=> Len(h) >= 3 /\ h[1] = x /\ h[2] = y
<1> DEFINE p == <<x, y>>
<1>1. p \in Seq({x, y}) /\ Len(p) = 2 /\ p[1] = x /\ p[2] = y
  OBVIOUS
<1>2. h \in Seq(Word) /\ Len(h) \in Nat
  BY DEF Words
<1> HIDE DEF p
<1>3. ASSUME Len(h) >= 3 PROVE SubSeq(p, 1, 2) = SubSeq(h, 1, 2) <=> \A k \in 1 .. 2 : p[k] = h[k]
  <2> DEFINE n == 2
  <2>1. n \in Nat /\ n > 0 /\ n <= Len(h) /\ Len(p) = n
    BY <1>1, <1>2, <1>3
  <2> HIDE DEF n
  <2>2. SubSeq(p, 1, n) = SubSeq(h, 1, n) <=> \A k \in 1 .. n : p[k] = h[k]
    BY <1>1, <1>2, <2>1, StartsWith
  <2> QED BY <2>2 DEF n
<1>4. (\A k \in 1 .. 2 : p[k] = h[k]) <=> h[1] = x /\ h[2] = y
  <2>1. \A k \in 1 .. 2 : k = 1 \/ k = 2
    OBVIOUS
  <2>2. 1 \in 1 .. 2 /\ 2 \in 1 .. 2
    OBVIOUS
  <2> QED BY <1>1, <2>1, <2>2, Zenon
<1>5. Begins(h, p) <=> Len(h) >= 3 /\ SubSeq(p, 1, 2) = SubSeq(h, 1, 2)
  BY <1>1, <1>2 DEF Begins, IsPrefix
<1> QED BY <1>3, <1>4, <1>5 DEF p

(* A block without a header renames no list. *)
LEMMA UnknownNames == ~ Renaming(Unknown)
<1>1. Unknown \in Words /\ Unknown[1] # "acl"
  BY UnknownIs DEF Unknown
<1>2. ~ Begins(Unknown, <<"acl">>)
  BY <1>1, BeginsWord
<1> QED BY <1>2 DEF Renaming

(* Whatever the text, a line more brings no other line back into force, if  *)
(* no view is the default process and the line renames no list.             *)
THEOREM NoneRevived ==
    ASSUME Unkeyed, HeadersAlike, NEW v, NEW ls, Text(ls, v), NEW ms, Text(ms, v), Longer(ls, ms),
           v = <<>> => /\ \A k \in 1 .. Len(ms) : ms[k].words # <<"ospf">>
                       /\ ~ Renaming(ms[Len(ms)].words)
    PROVE  LiveLines(Effective(IndexBlocks(ms, v)), v)
             \subseteq LiveLines(Effective(IndexBlocks(ls, v)), v) \cup {Len(ms)}
<1> DEFINE bs == IndexBlocks(ls, v)
           cs == IndexBlocks(ms, v)
           n == Len(ls)
           m == Len(ms)
           l == ms[m]
<1>1. n \in Nat /\ m \in Nat /\ m = n + 1 /\ \A k \in 1 .. n : ms[k] = ls[k]
  BY DEF Text, Longer
<1>2. m \in 1 .. m /\ \A k \in 1 .. n : k \in 1 .. m
  <2> HIDE DEF n, m
  <2> QED BY <1>1
<1>3. l.at = m
  BY <1>2, Zenon DEF Text
<1>4. Indexed(ls, v, bs, n) /\ Indexed(ms, v, cs, m)
  BY IndexPartitions
<1>5. bs \in Seq(Blocks) /\ cs \in Seq(Blocks)
  BY <1>4, Zenon DEF Indexed
<1>6. OneMore(bs, cs, l)
  BY IndexMore
<1>n. v = <<>> => NoDefault(bs)
  <2> SUFFICES ASSUME v = <<>> PROVE NoDefault(bs)
    OBVIOUS
  <2>1. \A k \in 1 .. m : ms[k].words # <<"ospf">>
    BY Zenon
  <2>2. \A k \in 1 .. n : ls[k].words # <<"ospf">>
    BY <1>1, <1>2, <2>1, Zenon
  <2> QED BY <2>2, IndexSound
<1>w. v = <<>> => l.words # <<"ospf">> /\ ~ Renaming(l.words)
  BY <1>2, Zenon
<1>v. v # <<>> => ~ Undone(v)
  BY Zenon DEF Text
<1> HIDE DEF bs, cs, l, n, m
<1>7. CASE cs = bs
  <2>1. LiveLines(Effective(cs), v) = LiveLines(Effective(bs), v)
    BY <1>7, Zenon
  <2> QED BY <2>1 DEF bs, cs
<1>8. ASSUME MergedTraced(bs, cs, m) PROVE LiveLines(Effective(cs), v) \subseteq LiveLines(Effective(bs), v) \cup {m}
  BY <1>8, TracedLive DEF MergedTraced
<1>9. CASE v # <<>>
  <2>1. Merged(bs) = [merged |-> bs, ignored |-> {}] /\ Merged(cs) = [merged |-> cs, ignored |-> {}]
    BY <1>4, <1>9, <1>v, SnippetMerged
  <2>2. Merged(bs).merged = bs /\ Merged(cs).merged = cs
    BY <2>1
  <2>3. Traced(bs, cs, m)
    BY <1>3, <1>5, <1>6, OneMoreTraced
  <2>4. MergedTraced(bs, cs, m)
    BY <1>5, <2>2, <2>3, Zenon DEF MergedTraced
  <2> QED BY <1>8, <2>4 DEF bs, cs, m
<1>10. CASE v = <<>> /\ bs # <<>> /\ \E c \in Commands : c.at = l.at /\ cs = Grown(bs, Len(bs), c)
  <2>1. PICK c \in Commands : c.at = m /\ cs = Grown(bs, Len(bs), c)
    BY <1>3, <1>10
  <2>2. NoDefault(bs) /\ bs # <<>>
    BY <1>10, <1>n
  <2>3. MergedTraced(bs, Grown(bs, Len(bs), c), c.at)
    BY <1>5, <2>2, MergedGrown
  <2>4. MergedTraced(bs, cs, m)
    BY <2>1, <2>3, Zenon
  <2> QED BY <1>8, <2>4 DEF bs, cs, m
<1>11. CASE v = <<>> /\ \E b \in Blocks : /\ b.at = l.at /\ b.header \in {l.words, Unknown}
                                          /\ \A k \in 1 .. Len(b.commands) : b.commands[k].at = b.at
                                          /\ cs = Append(bs, b)
  <2>1. PICK b \in Blocks : /\ b.at = m /\ b.header \in {l.words, Unknown} /\ cs = Append(bs, b)
                            /\ \A k \in 1 .. Len(b.commands) : b.commands[k].at = b.at
    BY <1>3, <1>11
  <2>2. NoDefault(bs)
    BY <1>11, <1>n
  <2>3. b.header # <<"ospf">> /\ ~ Renaming(b.header)
    <3>1. Unknown # <<"ospf">>
      BY DEF Unknown
    <3>2. b.header = l.words \/ b.header = Unknown
      BY <2>1
    <3>3. CASE b.header = l.words
      BY <1>11, <1>w, <3>3, Zenon
    <3>4. CASE b.header = Unknown
      BY <3>1, <3>4, UnknownNames, Zenon
    <3> QED BY <3>2, <3>3, <3>4
  <2>4. MergedTraced(bs, Append(bs, b), b.at)
    BY <1>5, <2>1, <2>2, <2>3, MergedAppend
  <2>5. MergedTraced(bs, cs, m)
    BY <2>1, <2>4, Zenon
  <2> QED BY <1>8, <2>5 DEF bs, cs, m
<1> QED BY <1>6, <1>7, <1>9, <1>10, <1>11, Zenon DEF OneMore

(* What Obeyed reads off a header is the same for both. *)
SameTables(h, k) ==
    /\ IsInterface(h) <=> IsInterface(k)
    /\ Begins(h, <<"bgp">>) <=> Begins(k, <<"bgp">>)
    /\ \A ws, views : ClauseKey(h, ws, views) = ClauseKey(k, ws, views)
    /\ \A ws : UndoSupported(h, ws) <=> UndoSupported(k, ws)

(* Then the commands under them are obeyed alike. *)
LEMMA TablesAlike ==
    ASSUME NEW h, NEW k, SameTables(h, k)
    PROVE  Alike(h, k)
<1> SUFFICES ASSUME NEW active, NEW c PROVE Obeyed(h, active, c) = Obeyed(k, active, c)
  BY DEF Alike
<1>1. KeptUndo(h, c) <=> KeptUndo(k, c)
  BY Zenon DEF KeptUndo, SameTables
<1>2. \A d : SameClause(h, d, c) <=> SameClause(k, d, c)
  BY Zenon DEF SameClause, SameTables
<1>3. \A d : IsPeerRemoval(h, d, c) <=> IsPeerRemoval(k, d, c)
  BY Zenon DEF IsPeerRemoval, SameTables
<1> DEFINE gone == Tail(c.words)
<1>4. ASSUME NEW d PROVE RemoveMatch(h, d, c) <=> RemoveMatch(k, d, c)
  <2> DEFINE X(g) == gone[1] = "network" /\ Begins(g, <<"bgp">>)
             N(g) == LET key == ClauseKey(g, gone, c.views) IN key # NoKey /\ ClauseKey(g, d.words, d.views) = key
             M == IF AnyApplied(gone) THEN SameDirection(d.words, gone)
                  ELSE IF /\ Len(gone) >= 3 /\ Upto(gone, 2) \in {<<"ip", "address">>, <<"ipv6", "address">>}
                          /\ Is(d.words, Upto(gone, 2))
                          /\ InterfaceOf(d.words) # NoKey /\ InterfaceOf(gone) # NoKey
                  THEN InterfaceOf(d.words) = InterfaceOf(gone) /\ From(d.words, 5) = From(gone, 5)
                  ELSE Is(d.words, gone)
             Y == d.views # c.views /\ Is(d.views, Append(c.views, gone))
             Z == d.views = c.views
  <2>1. \A g : RemoveMatch(g, d, c) <=> IsPeerRemoval(g, d, c) \/ Y \/ (Z /\ IF X(g) THEN N(g) ELSE M)
    BY Zenon DEF RemoveMatch
  <2>2. (X(h) <=> X(k)) /\ (N(h) <=> N(k))
    BY Zenon DEF SameTables
  <2> HIDE DEF X, N, M, Y, Z
  <2> QED BY <1>3, <2>1, <2>2
<1> DEFINE kept(g) == {d \in ToSet(active) : ~ RemoveMatch(g, d, c)}
           left(g) == {d \in ToSet(active) : /\ ~ (IsInterface(g) /\ BindsVpn(c.words) /\ BoundToVpn(d.words))
                                             /\ ~ SameClause(g, d, c)}
           U(g) == Undone(c.words) /\ UndoSupported(g, Tail(c.words))
<1>5. \A g : Obeyed(g, active, c) = IF KeptUndo(g, c) THEN Append(active, c)
                                     ELSE IF U(g) THEN Those(active, kept(g))
                                     ELSE Append(Those(active, left(g)), c)
  BY Zenon DEF Obeyed
<1>6. kept(h) = kept(k)
  BY <1>4, Zenon
<1>7. left(h) = left(k)
  <2>1. IsInterface(h) <=> IsInterface(k)
    BY Zenon DEF SameTables
  <2> QED BY <1>2, <2>1, Zenon
<1>8. U(h) <=> U(k)
  BY Zenon DEF SameTables
<1> HIDE DEF kept, left, U
<1>9. Obeyed(h, active, c) = IF KeptUndo(h, c) THEN Append(active, c)
                              ELSE IF U(h) THEN Those(active, kept(h)) ELSE Append(Those(active, left(h)), c)
  BY <1>5
<1>10. Obeyed(k, active, c) = IF KeptUndo(k, c) THEN Append(active, c)
                               ELSE IF U(k) THEN Those(active, kept(k)) ELSE Append(Those(active, left(k)), c)
  BY <1>5
<1>11. CASE KeptUndo(h, c)
  BY <1>1, <1>9, <1>10, <1>11, Zenon
<1>12. CASE ~ KeptUndo(h, c) /\ U(h)
  BY <1>1, <1>6, <1>8, <1>9, <1>10, <1>12, Zenon
<1>13. CASE ~ KeptUndo(h, c) /\ ~ U(h)
  BY <1>1, <1>7, <1>8, <1>9, <1>10, <1>13, Zenon
<1> QED BY <1>11, <1>12, <1>13, Zenon

(* The key of a list says that it is one. *)
LEMMA AclKeyIs ==
    ASSUME NEW ws, NEW key, key = AclKey(ws), key # NoKey
    PROVE  key[1] = "acl"
<1> DEFINE id == AclIdentity(ws, "ipv4")
<1>1. id # NoKey /\ key = <<"acl">> \o id
  BY Zenon DEF AclKey
<1>2. \E p, q, r : id = <<p, q, r>>
  BY <1>1, Zenon DEF AclIdentity
<1> HIDE DEF id
<1>3. PICK p, q, r : id = <<p, q, r>>
  BY <1>2
<1> DEFINE S == {"acl", p, q, r}
<1>4. id \in Seq(S) /\ <<"acl">> \in Seq(S) /\ Len(<<"acl">>) = 1
  BY <1>3
<1> HIDE DEF S
<1>5. (<<"acl">> \o id)[1] = <<"acl">>[1]
  BY <1>4, ConcatProperties
<1> QED BY <1>1, <1>5

(* The key of a view is that of its header, but for the name of a list. *)
LEMMA KeyIs ==
    ASSUME NEW bs, NEW h, NEW key, key = ViewKey(h, AclAliases(bs))
    PROVE  \/ key = BlockKey(h)
           \/ BlockKey(h) # NoKey /\ BlockKey(h)[1] = "acl" /\ key[1] = "acl"
<1>1. ASSUME NEW c \in AclClaims(bs) PROVE c[1] # NoKey /\ c[1][1] = "acl" /\ c[2][1] = "acl"
  <2>1. PICK ws, x, y, z : AclKey(ws) # NoKey /\ c = <<AclKey(ws), <<"acl", x, y, z>>>>
    BY Zenon DEF AclClaims
  <2> DEFINE list == AclKey(ws)
  <2>4. list[1] = "acl"
    BY <2>1, AclKeyIs
  <2>5. c[1] = list /\ c[2][1] = "acl"
    BY <2>1
  <2>6. list # NoKey
    BY <2>1
  <2> HIDE DEF list
  <2> QED BY <2>4, <2>5, <2>6
<1> DEFINE known == {c \in AclAliases(bs) : c[1] = BlockKey(h)}
           c == CHOOSE c \in known : TRUE
<1>2. key = IF known = {} THEN BlockKey(h) ELSE c[2]
  BY Zenon DEF ViewKey
<1>3. ASSUME known # {} PROVE c \in AclClaims(bs) /\ c[1] = BlockKey(h)
  <2>1. c \in known
    BY <1>3, Zenon
  <2>2. AclAliases(bs) \subseteq AclClaims(bs)
    BY Zenon DEF AclAliases
  <2> QED BY <2>1, <2>2, Zenon
<1> HIDE DEF known, c
<1>4. CASE known = {}
  BY <1>2, <1>4, Zenon
<1>5. CASE known # {}
  <2>1. BlockKey(h) # NoKey /\ BlockKey(h)[1] = "acl" /\ c[2][1] = "acl"
    BY <1>1, <1>3, <1>5, Zenon
  <2>2. key = c[2]
    BY <1>2, <1>5, Zenon
  <2> QED BY <2>1, <2>2, Zenon
<1> QED BY <1>4, <1>5, Zenon

(* It is enough that headers of one key, or of two lists, read the same. *)
LEMMA HeadersAlikeBy ==
    ASSUME \A h, k \in Words :
              /\ h # <<"ospf">> /\ k # <<"ospf">> /\ BlockKey(h) # NoKey /\ BlockKey(k) # NoKey
              /\ BlockKey(h) = BlockKey(k) \/ (BlockKey(h)[1] = "acl" /\ BlockKey(k)[1] = "acl")
              => SameTables(h, k)
    PROVE  HeadersAlike
<1> SUFFICES ASSUME NEW bs, NEW h \in Words, NEW k \in Words, h # <<"ospf">>, k # <<"ospf">>,
                    ViewKey(k, AclAliases(bs)) # NoKey, ViewKey(h, AclAliases(bs)) = ViewKey(k, AclAliases(bs))
             PROVE  Alike(h, k)
  BY Zenon DEF HeadersAlike
<1> DEFINE a == ViewKey(h, AclAliases(bs))
           b == ViewKey(k, AclAliases(bs))
<1>1. a = BlockKey(h) \/ (BlockKey(h) # NoKey /\ BlockKey(h)[1] = "acl" /\ a[1] = "acl")
  BY KeyIs
<1>2. b = BlockKey(k) \/ (BlockKey(k) # NoKey /\ BlockKey(k)[1] = "acl" /\ b[1] = "acl")
  BY KeyIs
<1>3. a = b /\ b # NoKey
  OBVIOUS
<1> HIDE DEF a, b
<1>4. /\ BlockKey(h) # NoKey /\ BlockKey(k) # NoKey
      /\ BlockKey(h) = BlockKey(k) \/ (BlockKey(h)[1] = "acl" /\ BlockKey(k)[1] = "acl")
  BY <1>1, <1>2, <1>3
<1>5. SameTables(h, k)
  BY <1>4, Zenon
<1> QED BY <1>5, TablesAlike

=============================================================================
