----------------------------- MODULE Inductions -----------------------------
(***************************************************************************)
(* Induction over numbers and sequences, and what a fold over a sequence   *)
(* computes, for a claim and an operator that an INSTANCE puts in.         *)
(***************************************************************************)
EXTENDS Integers, Sequences, SequencesExt, SequenceTheorems, WellFoundedInduction, TLAPS

CONSTANTS
    Op(_, _),  \* the step of a fold: from the value so far, and an element
    Claim(_)   \* what is claimed of every sequence

LEMMA Least ==
    ASSUME NEW S, S \subseteq Nat, S # {}
    PROVE  \E n \in S : \A m \in S : n <= m
<1> DEFINE R == {pair \in Nat \X Nat : pair[1] < pair[2]}
<1>1. IsWellFoundedOn(R, Nat)
  BY NatLessThanWellFounded DEF OpToRel
<1>2. PICK x \in S : \A y \in S : <<y, x>> \notin R
  BY <1>1, WFMin, Zenon
<1>3. ASSUME NEW m \in S PROVE x <= m
  <2>1. x \in Nat /\ m \in Nat /\ <<m, x>> \notin R
    BY <1>2, <1>3
  <2>2. ~(m < x)
    BY <2>1
  <2> QED
    BY <2>1, <2>2
<1> QED
  BY <1>2, <1>3

LEMMA Steps ==
    ASSUME NEW S, 0 \in S, \A n \in Nat : n \in S => n + 1 \in S
    PROVE  Nat \subseteq S
<1> SUFFICES ASSUME Nat \ S # {} PROVE FALSE
  OBVIOUS
<1>1. PICK n \in Nat \ S : \A m \in Nat \ S : n <= m
  BY Least, Nat \ S \subseteq Nat
<1>2. n - 1 \in Nat /\ n - 1 \notin Nat \ S
  BY <1>1
<1> QED
  BY <1>1, <1>2

LEMMA LastIsApart ==
    ASSUME NEW T, NEW n \in Nat, NEW s \in Seq(T), Len(s) = n + 1
    PROVE  \E f \in Seq(T), x \in T : s = Append(f, x) /\ Len(f) = n
<1> DEFINE f == SubSeq(s, 1, n)
<1>1. f \in Seq(T) /\ Len(f) = n /\ s[n + 1] \in T
  OBVIOUS
<1>2. Append(f, s[n + 1]) \in Seq(T) /\ Len(Append(f, s[n + 1])) = n + 1
  BY <1>1
<1>3. \A i \in 1..n + 1 : Append(f, s[n + 1])[i] = s[i]
  BY <1>1
<1> HIDE DEF f
<1>4. s = Append(f, s[n + 1])
  BY <1>2, <1>3, SeqEqual
<1> QED
  BY <1>1, <1>4

THEOREM SequenceInduction ==
    ASSUME NEW T, Claim(<<>>),
           \A s \in Seq(T), x \in T : Claim(s) => Claim(Append(s, x))
    PROVE  \A s \in Seq(T) : Claim(s)
<1> DEFINE S == {n \in Nat : \A s \in Seq(T) : Len(s) = n => Claim(s)}
<1>1. 0 \in S
  <2>1. \A s \in Seq(T) : Len(s) = 0 => s = <<>>
    BY EmptySeq
  <2> QED
    BY <2>1
<1>2. ASSUME NEW n \in Nat, n \in S PROVE n + 1 \in S
  <2> SUFFICES ASSUME NEW s \in Seq(T), Len(s) = n + 1 PROVE Claim(s)
    OBVIOUS
  <2>1. PICK f \in Seq(T), x \in T : s = Append(f, x) /\ Len(f) = n
    BY LastIsApart
  <2>2. Claim(f)
    BY <1>2, <2>1
  <2> QED
    BY <2>1, <2>2
<1>3. Nat \subseteq S
  BY <1>1, <1>2, Steps
<1> QED
  BY <1>3

-----------------------------------------------------------------------------

LEMMA Greatest ==
    ASSUME NEW n \in Nat, NEW S, S \subseteq 1..n, S # {}
    PROVE  Max(S) \in S /\ \A m \in S : m <= Max(S)
<1> DEFINE T == {n - i : i \in S}
<1>1. T \subseteq Nat /\ T # {}
  <2>1. \A i \in S : i \in 1..n /\ n - i \in Nat
    OBVIOUS
  <2> QED
    BY <2>1, Zenon
<1>2. PICK t \in T : \A u \in T : t <= u
  BY <1>1, Least, Zenon
<1>3. PICK i \in S : t = n - i
  OBVIOUS
<1>4. ASSUME NEW j \in S PROVE i >= j
  <2>1. n - j \in T
    OBVIOUS
  <2>2. t <= n - j
    BY <1>2, <2>1
  <2> QED
    BY <1>3, <2>2
<1>5. \E x \in S : \A y \in S : x >= y
  BY <1>4
<1> QED
  BY <1>5 DEF Max

Fold(start, s) == FoldLeft(Op, start, s)

\* The function that a fold is read off.
Folding(start, s, g) ==
    g = [u \in SUBSET DOMAIN s |->
          IF u = {} THEN start ELSE Op(g[u \ {Max(u)}], s[Max(u)])]

LEMMA FoldIsRead ==
    ASSUME NEW start, NEW s
    PROVE  Fold(start, s) = (CHOOSE g : Folding(start, s, g))[DOMAIN s]
BY DEF Fold, FoldLeft, MapThenFoldSet, Folding

\* Such functions agree on the sets of places that two sequences share.
LEMMA FoldingsAgree ==
    ASSUME NEW T, NEW start, NEW s \in Seq(T), NEW t \in Seq(T), NEW n \in Nat, n <= Len(s), n <= Len(t),
           \A i \in 1..n : s[i] = t[i], NEW g, Folding(start, s, g), NEW h, Folding(start, t, h)
    PROVE  \A u \in SUBSET (1..n) : g[u] = h[u]
<1> DEFINE S == {k \in Nat : k <= n => \A u \in SUBSET (1..k) : g[u] = h[u]}
<1>1. /\ \A u \in SUBSET (1..Len(s)) : g[u] = IF u = {} THEN start ELSE Op(g[u \ {Max(u)}], s[Max(u)])
      /\ \A u \in SUBSET (1..Len(t)) : h[u] = IF u = {} THEN start ELSE Op(h[u \ {Max(u)}], t[Max(u)])
  <2>1. DOMAIN s = 1..Len(s) /\ DOMAIN t = 1..Len(t)
    OBVIOUS
  <2> QED
    BY <2>1 DEF Folding
<1>2. 0 \in S
  <2>1. \A u \in SUBSET (1..0) : u = {}
    OBVIOUS
  <2>2. {} \in SUBSET (1..Len(s)) /\ {} \in SUBSET (1..Len(t))
    OBVIOUS
  <2> QED
    BY <1>1, <2>1, <2>2
<1>3. ASSUME NEW k \in Nat, k \in S PROVE k + 1 \in S
  <2> SUFFICES ASSUME k + 1 <= n PROVE \A u \in SUBSET (1..k + 1) : g[u] = h[u]
    BY k + 1 \in Nat
  <2> SUFFICES ASSUME NEW u \in SUBSET (1..k + 1) PROVE g[u] = h[u]
    OBVIOUS
  <2>1. u \in SUBSET (1..Len(s)) /\ u \in SUBSET (1..Len(t))
    OBVIOUS
  <2>2. CASE u = {}
    BY <1>1, <2>1, <2>2
  <2>3. CASE u # {}
    <3>1. PICK m \in 1..k + 1 : m = Max(u) /\ m \in u /\ \A i \in u : i <= m
      BY <2>3, Greatest, k + 1 \in Nat
    <3>2. u \ {Max(u)} \in SUBSET (1..k)
      <4>1. \A i \in u \ {m} : i \in 1..k + 1 /\ i <= m /\ i # m
        BY <3>1
      <4>2. \A i \in u \ {m} : i \in 1..k
        BY <4>1
      <4> QED
        BY <3>1, <4>2
    <3>3. g[u \ {Max(u)}] = h[u \ {Max(u)}]
      BY <1>3, <3>2
    <3>4. Max(u) \in 1..n
      BY <3>1
    <3>5. s[Max(u)] = t[Max(u)]
      BY <3>4
    <3> QED
      BY <1>1, <2>1, <2>3, <3>3, <3>5
  <2> QED
    BY <2>2, <2>3
<1> HIDE DEF S
<1>4. n \in S
  BY <1>2, <1>3, Steps
<1> QED
  BY <1>4 DEF S

\* A function for a sequence makes one for the sequence with an element more.
LEMMA FoldingGrows ==
    ASSUME NEW T, NEW start, NEW s \in Seq(T), NEW x \in T, NEW g, Folding(start, s, g)
    PROVE  \E h : Folding(start, Append(s, x), h)
<1> DEFINE n == Len(s)
           h == [u \in SUBSET (1..n + 1) |-> IF n + 1 \in u THEN Op(g[u \ {n + 1}], x) ELSE g[u]]
<1>1. n \in Nat /\ DOMAIN s = 1..n /\ DOMAIN Append(s, x) = 1..n + 1
  OBVIOUS
<1>2. Append(s, x)[n + 1] = x /\ \A i \in 1..n : Append(s, x)[i] = s[i]
  OBVIOUS
<1>3. \A u \in SUBSET (1..n) : g[u] = IF u = {} THEN start ELSE Op(g[u \ {Max(u)}], s[Max(u)])
  BY <1>1 DEF Folding
<1> HIDE DEF n
<1>4. ASSUME NEW u \in SUBSET (1..n + 1)
      PROVE  h[u] = IF u = {} THEN start ELSE Op(h[u \ {Max(u)}], Append(s, x)[Max(u)])
  <2>1. CASE n + 1 \in u
    <3>1. Max(u) = n + 1
      <4>1. PICK m \in 1..n + 1 : m = Max(u) /\ \A i \in u : i <= m
        BY <1>1, <2>1, Greatest, n + 1 \in Nat
      <4> QED
        BY <1>1, <2>1, <4>1
    <3>2. u \ {n + 1} \in SUBSET (1..n + 1) /\ n + 1 \notin u \ {n + 1}
      OBVIOUS
    <3>3. h[u \ {n + 1}] = g[u \ {n + 1}]
      BY <3>2
    <3>4. h[u] = Op(g[u \ {n + 1}], x)
      BY <2>1
    <3> QED
      BY <1>2, <2>1, <3>1, <3>3, <3>4
  <2>2. CASE n + 1 \notin u
    <3>1. u \in SUBSET (1..n)
      BY <1>1, <2>2
    <3>2. h[u] = g[u]
      BY <2>2
    <3>3. CASE u = {}
      BY <1>3, <3>1, <3>2, <3>3
    <3>4. CASE u # {}
      <4>1. Max(u) \in u
        BY <1>1, <3>1, <3>4, Greatest
      <4>2. Append(s, x)[Max(u)] = s[Max(u)]
        BY <1>2, <3>1, <4>1
      <4>3. u \ {Max(u)} \in SUBSET (1..n + 1) /\ n + 1 \notin u \ {Max(u)}
        BY <2>2
      <4>4. h[u \ {Max(u)}] = g[u \ {Max(u)}]
        BY <4>3
      <4> QED
        BY <1>3, <3>1, <3>2, <3>4, <4>2, <4>4
    <3> QED
      BY <3>3, <3>4
  <2> QED
    BY <2>1, <2>2
<1>5. DOMAIN h = SUBSET DOMAIN Append(s, x)
  BY <1>1
<1>6. h = [u \in DOMAIN h |-> h[u]]
  OBVIOUS
<1> HIDE DEF h
<1>7. h = [u \in SUBSET DOMAIN Append(s, x) |->
            IF u = {} THEN start ELSE Op(h[u \ {Max(u)}], Append(s, x)[Max(u)])]
  BY <1>1, <1>4, <1>5, <1>6
<1> QED
  BY <1>7 DEF Folding

LEMMA FoldingsExist ==
    ASSUME NEW T, NEW start
    PROVE  \A t \in Seq(T) : \E g : Folding(start, t, g)
<1> DEFINE Exists(t) == \E g : Folding(start, t, g)
           S == {n \in Nat : \A t \in Seq(T) : Len(t) = n => Exists(t)}
<1>1. 0 \in S
  <2>1. Exists(<<>>)
    <3>1. SUBSET DOMAIN <<>> = {{}}
      OBVIOUS
    <3>2. Folding(start, <<>>, [u \in {{}} |-> start])
      BY <3>1 DEF Folding
    <3> QED
      BY <3>2
  <2>2. \A t \in Seq(T) : Len(t) = 0 => t = <<>>
    BY EmptySeq
  <2> QED
    BY <2>1, <2>2
<1>2. ASSUME NEW n \in Nat, n \in S PROVE n + 1 \in S
  <2> SUFFICES ASSUME NEW t \in Seq(T), Len(t) = n + 1 PROVE Exists(t)
    BY n + 1 \in Nat
  <2>1. PICK f \in Seq(T), e \in T : t = Append(f, e) /\ Len(f) = n
    BY LastIsApart
  <2>2. PICK g : Folding(start, f, g)
    BY <1>2, <2>1
  <2> QED
    BY <2>1, <2>2, FoldingGrows
<1> HIDE DEF S
<1>3. ASSUME NEW t \in Seq(T) PROVE Len(t) \in S
  BY <1>1, <1>2, Steps, Len(t) \in Nat
<1> QED
  BY <1>3 DEF S

\* What a fold over a sequence computes: nothing is folded to the start, and
\* an element more is a step more (SequencesExt, FoldLeft).
THEOREM FoldOfNothing ==
    ASSUME NEW start
    PROVE  Fold(start, <<>>) = start
<1> DEFINE h == CHOOSE g : Folding(start, <<>>, g)
<1>1. <<>> \in Seq({})
  OBVIOUS
<1>2. Folding(start, <<>>, h)
  <2>1. \E g : Folding(start, <<>>, g)
    BY <1>1, FoldingsExist
  <2> QED
    BY <2>1
<1>3. DOMAIN <<>> = {}
  OBVIOUS
<1> HIDE DEF h
<1>4. h[{}] = start
  BY <1>2, <1>3 DEF Folding
<1> QED
  BY <1>3, <1>4, FoldIsRead DEF h

THEOREM FoldOfOneMore ==
    ASSUME NEW T, NEW start, NEW s \in Seq(T), NEW x \in T
    PROVE  Fold(start, Append(s, x)) = Op(Fold(start, s), x)
<1> DEFINE t == Append(s, x)
           n == Len(s)
           g == CHOOSE f : Folding(start, s, f)
           h == CHOOSE f : Folding(start, t, f)
<1>1. n \in Nat /\ DOMAIN s = 1..n /\ DOMAIN t = 1..n + 1 /\ t[n + 1] = x
      /\ t \in Seq(T) /\ Len(t) = n + 1 /\ \A i \in 1..n : s[i] = t[i]
  OBVIOUS
<1>2. n = Len(s)
  OBVIOUS
<1> HIDE DEF t, n
<1>3. Folding(start, s, g)
  <2>1. \E f : Folding(start, s, f)
    BY FoldingsExist
  <2> QED
    BY <2>1
<1>4. Folding(start, t, h)
  <2>1. \E f : Folding(start, t, f)
    BY <1>1, FoldingsExist
  <2> QED
    BY <2>1
<1>5. Fold(start, s) = g[1..n] /\ Fold(start, t) = h[1..n + 1]
  BY <1>1, FoldIsRead
<1> HIDE DEF g, h
<1>6. g[1..n] = h[1..n]
  <2>1. n <= Len(s) /\ n <= Len(t)
    BY <1>1, <1>2
  <2>2. n \in Nat /\ t \in Seq(T) /\ \A i \in 1..n : s[i] = t[i]
    BY <1>1
  <2>3. \A u \in SUBSET (1..n) : g[u] = h[u]
    <3> HIDE DEF Folding
    <3>1. Folding(start, s, g) /\ Folding(start, t, h)
      BY <1>3, <1>4
    <3> QED
      BY <2>1, <2>2, <3>1, FoldingsAgree
  <2> QED
    BY <2>3
<1>7. h[1..n + 1] = Op(h[1..n], x)
  <2>1. PICK m \in 1..n + 1 : m = Max(1..n + 1) /\ \A i \in 1..n + 1 : i <= m
    BY <1>1, Greatest, n + 1 \in Nat, n + 1 \in 1..n + 1
  <2>2. Max(1..n + 1) = n + 1
    BY <1>1, <2>1
  <2>3. (1..n + 1) \ {n + 1} = 1..n /\ 1..n + 1 # {}
    BY <1>1
  <2>4. 1..n + 1 \in SUBSET DOMAIN t
    BY <1>1
  <2> QED
    BY <1>1, <1>4, <2>2, <2>3, <2>4 DEF Folding
<1> QED
  BY <1>5, <1>6, <1>7 DEF t

-----------------------------------------------------------------------------
\* The sequences one behind the other (SequencesExt, FlattenSeq).
Flat(seqs) == FlattenSeq(seqs)

\* The function that they are read off.
Joins(seqs, g) == g = [i \in 1..Len(seqs) |-> IF i = 1 THEN seqs[i] ELSE g[i - 1] \o seqs[i]]

LEMMA FlatIsRead ==
    ASSUME NEW seqs
    PROVE  Flat(seqs) = IF Len(seqs) = 0 THEN seqs ELSE (CHOOSE g : Joins(seqs, g))[Len(seqs)]
BY DEF Flat, FlattenSeq, Joins

\* Two such functions agree where two sequences do.
LEMMA JoinsAgree ==
    ASSUME NEW T, NEW s \in Seq(T), NEW t \in Seq(T), NEW n \in Nat, n <= Len(s), n <= Len(t),
           \A i \in 1..n : s[i] = t[i], NEW g, Joins(s, g), NEW h, Joins(t, h)
    PROVE  \A i \in 1..n : g[i] = h[i]
<1> DEFINE S == {k \in Nat : k \in 1..n => g[k] = h[k]}
<1>0. /\ \A i \in 1..Len(s) : g[i] = IF i = 1 THEN s[i] ELSE g[i - 1] \o s[i]
      /\ \A i \in 1..Len(t) : h[i] = IF i = 1 THEN t[i] ELSE h[i - 1] \o t[i]
  BY DEF Joins
<1>1. 0 \in S
  OBVIOUS
<1>2. ASSUME NEW k \in Nat, k \in S PROVE k + 1 \in S
  <2> SUFFICES ASSUME k + 1 \in 1..n PROVE g[k + 1] = h[k + 1]
    OBVIOUS
  <2>1. k + 1 \in 1..Len(s) /\ k + 1 \in 1..Len(t)
    OBVIOUS
  <2>2. /\ g[k + 1] = IF k + 1 = 1 THEN s[k + 1] ELSE g[k + 1 - 1] \o s[k + 1]
        /\ h[k + 1] = IF k + 1 = 1 THEN t[k + 1] ELSE h[k + 1 - 1] \o t[k + 1]
    BY <1>0, <2>1
  <2>3. s[k + 1] = t[k + 1] /\ k + 1 - 1 = k
    OBVIOUS
  <2>4. CASE k = 0
    BY <2>2, <2>3, <2>4
  <2>5. CASE k # 0
    <3>1. g[k] = h[k]
      BY <1>2, <2>5
    <3> QED
      BY <2>2, <2>3, <3>1
  <2> QED
    BY <2>4, <2>5
<1> HIDE DEF S
<1>3. Nat \subseteq S
  BY <1>1, <1>2, Steps
<1> QED
  BY <1>3 DEF S

\* One more element makes a function for the longer sequence.
LEMMA JoinsGrows ==
    ASSUME NEW T, NEW s \in Seq(T), NEW x \in T, NEW g, Joins(s, g)
    PROVE  \E h : Joins(Append(s, x), h) /\ h[Len(s) + 1] = IF s = <<>> THEN x ELSE g[Len(s)] \o x
<1> DEFINE n == Len(s)
           h == [i \in 1..n + 1 |-> IF i <= n THEN g[i] ELSE IF s = <<>> THEN x ELSE g[n] \o x]
<1>1. n \in Nat /\ Len(Append(s, x)) = n + 1 /\ Append(s, x)[n + 1] = x /\ (s = <<>> <=> n = 0)
  BY EmptySeq
<1>2. \A i \in 1..n : Append(s, x)[i] = s[i]
  OBVIOUS
<1>3. \A i \in 1..n : g[i] = IF i = 1 THEN s[i] ELSE g[i - 1] \o s[i]
  BY DEF Joins
<1> HIDE DEF n
<1>4. ASSUME NEW i \in 1..n + 1
      PROVE  h[i] = IF i = 1 THEN Append(s, x)[i] ELSE h[i - 1] \o Append(s, x)[i]
  <2>1. CASE i <= n
    <3>1. i \in 1..n /\ (i # 1 => i - 1 \in 1..n + 1 /\ i - 1 <= n)
      BY <1>1, <2>1
    <3> QED
      BY <1>2, <1>3, <2>1, <3>1
  <2>2. CASE i = n + 1
    <3>1. ~(i <= n) /\ (n # 0 => n \in 1..n + 1 /\ n <= n)
      BY <1>1, <2>2
    <3> QED
      BY <1>1, <2>2, <3>1
  <2> QED
    BY <1>1, <2>1, <2>2
<1>5. h = [i \in 1..n + 1 |-> h[i]]
  OBVIOUS
<1>6. h[n + 1] = IF s = <<>> THEN x ELSE g[n] \o x
  BY <1>1
<1> HIDE DEF h
<1>7. h = [i \in 1..Len(Append(s, x)) |-> IF i = 1 THEN Append(s, x)[i] ELSE h[i - 1] \o Append(s, x)[i]]
  BY <1>1, <1>4, <1>5
<1>8. Joins(Append(s, x), h)
  BY <1>7 DEF Joins
<1> QED
  BY <1>6, <1>8 DEF n

LEMMA JoinsExist == ASSUME NEW T PROVE \A t \in Seq(T) : \E g : Joins(t, g)
<1> DEFINE Exists(t) == \E g : Joins(t, g)
           S == {n \in Nat : \A t \in Seq(T) : Len(t) = n => Exists(t)}
<1>1. 0 \in S
  <2>1. \A t \in Seq(T) : Len(t) = 0 => Joins(t, <<>>)
    BY DEF Joins
  <2> QED
    BY <2>1
<1>2. ASSUME NEW n \in Nat, n \in S PROVE n + 1 \in S
  <2> SUFFICES ASSUME NEW t \in Seq(T), Len(t) = n + 1 PROVE Exists(t)
    BY n + 1 \in Nat
  <2>1. PICK f \in Seq(T), e \in T : t = Append(f, e) /\ Len(f) = n
    BY LastIsApart
  <2>2. PICK g : Joins(f, g)
    BY <1>2, <2>1
  <2> QED
    BY <2>1, <2>2, JoinsGrows
<1> HIDE DEF S
<1>3. ASSUME NEW t \in Seq(T) PROVE Len(t) \in S
  BY <1>1, <1>2, Steps, Len(t) \in Nat
<1> QED
  BY <1>3 DEF S

LEMMA FlatOfOneMore ==
    ASSUME NEW T, NEW s \in Seq(Seq(T)), NEW x \in Seq(T)
    PROVE  Flat(Append(s, x)) = Flat(s) \o x
<1> DEFINE U == Seq(T)
           g == CHOOSE f : Joins(s, f)
           h == CHOOSE f : Joins(Append(s, x), f)
           n == Len(s)
<1>1. n \in Nat /\ Append(s, x) \in Seq(U) /\ Len(Append(s, x)) = n + 1 /\ (s = <<>> <=> n = 0)
  BY EmptySeq
<1>2. Joins(s, g) /\ Joins(Append(s, x), h)
  <2>1. s \in Seq(U) /\ Append(s, x) \in Seq(U)
    OBVIOUS
  <2> HIDE DEF U
  <2>2. (\E f : Joins(s, f)) /\ (\E f : Joins(Append(s, x), f))
    BY <2>1, JoinsExist
  <2> QED
    BY <2>2
<1>3. Flat(s) = (IF n = 0 THEN s ELSE g[n]) /\ Flat(Append(s, x)) = h[n + 1]
  <2>1. Len(Append(s, x)) # 0
    BY <1>1
  <2>2. Flat(Append(s, x)) = h[Len(Append(s, x))]
    BY <2>1, FlatIsRead
  <2> HIDE DEF h
  <2> QED
    BY <1>1, <2>2, FlatIsRead
<1> HIDE DEF g, h
<1>4. PICK f : Joins(Append(s, x), f) /\ f[n + 1] = IF s = <<>> THEN x ELSE g[n] \o x
  <2>1. s \in Seq(U) /\ x \in U /\ n = Len(s)
    OBVIOUS
  <2> HIDE DEF U, n
  <2>2. \E f : Joins(Append(s, x), f) /\ f[Len(s) + 1] = IF s = <<>> THEN x ELSE g[Len(s)] \o x
    BY <1>2, <2>1, JoinsGrows
  <2> QED
    BY <2>1, <2>2
<1>5. h[n + 1] = f[n + 1]
  <2>1. Append(s, x) \in Seq(U) /\ n + 1 \in Nat /\ n + 1 <= Len(Append(s, x)) /\ n + 1 \in 1..n + 1
    BY <1>1
  <2> DEFINE p == Append(s, x)
  <2>2. p \in Seq(U) /\ n + 1 \in Nat /\ n + 1 <= Len(p) /\ Joins(p, h) /\ Joins(p, f) /\ \A i \in 1..n + 1 : p[i] = p[i]
    BY <1>2, <1>4, <2>1
  <2> HIDE DEF U, p, n
  <2>3. \A i \in 1..n + 1 : h[i] = f[i]
    BY <2>2, JoinsAgree
  <2> QED
    BY <2>1, <2>3
<1>6. CASE n = 0
  <2>1. s \o x = x
    BY <1>1, <1>6
  <2> QED
    BY <1>1, <1>3, <1>4, <1>5, <1>6, <2>1
<1>7. CASE n # 0
  BY <1>1, <1>3, <1>4, <1>5, <1>7
<1> QED
  BY <1>6, <1>7

LEMMA FlatOfNothing == Flat(<<>>) = <<>>
BY FlatIsRead

LEMMA Beside ==
    ASSUME NEW T, NEW s \in Seq(T), NEW t \in Seq(T)
    PROVE  /\ s \o t \in Seq(T) /\ Len(s \o t) = Len(s) + Len(t)
           /\ \A i \in 1..Len(s) : (s \o t)[i] = s[i]
           /\ \A i \in 1..Len(t) : (s \o t)[Len(s) + i] = t[i]
OBVIOUS

LEMMA OneMoreTaken ==
    ASSUME NEW T, NEW s \in Seq(T), NEW j \in Nat, j < Len(s)
    PROVE  /\ SubSeq(s, 1, j + 1) = Append(SubSeq(s, 1, j), s[j + 1])
           /\ SubSeq(s, 1, j) \in Seq(T) /\ Len(SubSeq(s, 1, j)) = j /\ s[j + 1] \in T
<1>1. SubSeq(s, 1, j) \in Seq(T) /\ Len(SubSeq(s, 1, j)) = j /\ s[j + 1] \in T /\ Len(SubSeq(s, 1, j + 1)) = j + 1
      /\ SubSeq(s, 1, j + 1) \in Seq(T)
  OBVIOUS
<1> DEFINE a == SubSeq(s, 1, j + 1)
           b == SubSeq(s, 1, j)
<1>2. /\ \A i \in 1..j + 1 : a[i] = s[i]
      /\ \A i \in 1..j : b[i] = s[i]
  OBVIOUS
<1>3. a \in Seq(T) /\ b \in Seq(T) /\ Len(a) = j + 1 /\ Len(b) = j
  BY <1>1
<1> HIDE DEF a, b
<1>4. Append(b, s[j + 1]) \in Seq(T) /\ Len(Append(b, s[j + 1])) = j + 1
      /\ \A i \in 1..j + 1 : Append(b, s[j + 1])[i] = s[i]
  BY <1>1, <1>2, <1>3
<1>5. a = Append(b, s[j + 1])
  BY <1>2, <1>3, <1>4, SeqEqual
<1> QED
  BY <1>1, <1>5 DEF a, b

LEMMA AllTaken == ASSUME NEW T, NEW s \in Seq(T) PROVE SubSeq(s, 1, Len(s)) = s /\ SubSeq(s, 1, 0) = <<>>
OBVIOUS

LEMMA SeqSteps ==
    ASSUME NEW T, NEW S, <<>> \in S, \A s \in Seq(T), x \in T : s \in S => Append(s, x) \in S
    PROVE  \A s \in Seq(T) : s \in S
<1> DEFINE N == {n \in Nat : \A s \in Seq(T) : Len(s) = n => s \in S}
<1>1. 0 \in N
  <2>1. \A s \in Seq(T) : Len(s) = 0 => s = <<>>
    BY EmptySeq
  <2> QED
    BY <2>1
<1>2. ASSUME NEW n \in Nat, n \in N PROVE n + 1 \in N
  <2> SUFFICES ASSUME NEW s \in Seq(T), Len(s) = n + 1 PROVE s \in S
    OBVIOUS
  <2>1. PICK f \in Seq(T), x \in T : s = Append(f, x) /\ Len(f) = n
    BY LastIsApart
  <2> QED
    BY <1>2, <2>1
<1> HIDE DEF N
<1>3. Nat \subseteq N
  BY <1>1, <1>2, Steps
<1>4. \A s \in Seq(T) : Len(s) \in Nat /\ Len(s) \in N
  BY <1>3
<1> QED
  BY <1>4 DEF N

=============================================================================
