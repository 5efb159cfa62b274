---------------------------- MODULE FoldTheorems ----------------------------
(***************************************************************************)
(* What FoldLeft computes when a sequence grows at its end.  Op stands for *)
(* the operator that is folded: a module that folds one instantiates this  *)
(* module with it.  Fold is FoldLeft of the community modules, spelled out *)
(* so that an instance brings in no more than it needs.                    *)
(***************************************************************************)
EXTENDS Integers, Sequences, Folds, WellFoundedInduction

CONSTANT Op(_, _)

Largest(S) == CHOOSE x \in S : \A y \in S : x >= y
Fold(base, s) ==
    MapThenFoldSet(LAMBDA x, y : Op(y, x), base, LAMBDA i : s[i], LAMBDA S : Largest(S), DOMAIN s)

-----------------------------------------------------------------------------
(* Every set of natural numbers that is not empty has a least element. *)
LEMMA LeastOf ==
    ASSUME NEW T \in SUBSET Nat, T # {} PROVE \E m \in T : \A k \in T : m <= k
<1> DEFINE R == OpToRel(<, Nat)
<1>1. IsWellFoundedOn(R, Nat)
    BY NatLessThanWellFounded
<1>2. \A x, y \in Nat : <<x, y>> \in R <=> x < y
    BY DEF OpToRel
<1> HIDE DEF R
<1>3. PICK m \in T : \A k \in T : ~(<<k, m>> \in R)
    BY <1>1, WFMin
<1>4. \A k \in T : ~(k < m) /\ k \in Nat /\ m \in Nat
    BY <1>2, <1>3
<1>5. QED
    BY <1>4

(* Induction over the natural numbers, for the members of a set. *)
LEMMA NatInd ==
    ASSUME NEW S, 0 \in S, \A n \in Nat : n \in S => n + 1 \in S
    PROVE  \A n \in Nat : n \in S
<1> DEFINE T == Nat \ S
<1> SUFFICES ASSUME T # {} PROVE FALSE
    OBVIOUS
<1>1. PICK m \in T : \A k \in T : m <= k
    BY LeastOf
<1>2. m # 0 /\ m - 1 \in Nat
    BY <1>1
<1>3. m - 1 \in S
    BY <1>1, <1>2
<1>4. QED
    BY <1>2, <1>3

(* The sets of positions up to n. *)
Upto(n) == SUBSET (1..n)

LEMMA UptoZero == Upto(0) = {{}}
BY 1..0 = {} DEF Upto

LEMMA UptoMore == ASSUME NEW n \in Nat, NEW m \in Nat, n <= m PROVE Upto(n) \subseteq Upto(m)
<1>1. 1..n \subseteq 1..m
    OBVIOUS
<1>2. QED
    BY <1>1 DEF Upto

(* The largest position of a set, and what is left without it. *)
LEMMA MaxOf ==
    ASSUME NEW n \in Nat, NEW t \in Upto(n), t # {}
    PROVE  Largest(t) \in t /\ Largest(t) \in 1..n /\ \A i \in t : i <= Largest(t)
<1> DEFINE T == {j \in Nat : \E i \in t : j = n - i}
<1>0. \A i \in t : i \in 1..n
    BY DEF Upto
<1>1. T \in SUBSET Nat /\ T # {}
    <2>1. PICK i \in t : TRUE
        OBVIOUS
    <2>2. n - i \in T
        BY <1>0, <2>1
    <2>3. QED
        BY <2>2
<1>2. PICK m \in T : \A k \in T : m <= k
    BY <1>1, LeastOf
<1>3. PICK x \in t : m = n - x
    OBVIOUS
<1>4. \A i \in t : n - i \in T
    BY <1>0
<1>5. \A i \in t : i <= x
    BY <1>0, <1>2, <1>3, <1>4
<1>6. \E y \in t : \A i \in t : y >= i
    BY <1>0, <1>5
<1> HIDE DEF T
<1>7. Largest(t) \in t /\ \A i \in t : Largest(t) >= i
    BY <1>6 DEF Largest
<1>8. QED
    BY <1>0, <1>7

LEMMA WithoutMax ==
    ASSUME NEW n \in Nat, NEW t \in Upto(n + 1), t # {} PROVE t \ {Largest(t)} \in Upto(n)
<1>0. n + 1 \in Nat
    OBVIOUS
<1>1. Largest(t) \in 1..n + 1 /\ \A i \in t : i <= Largest(t) /\ i \in 1..n + 1
    BY <1>0, MaxOf DEF Upto
<1>2. ASSUME NEW i \in t, i # Largest(t) PROVE i \in 1..n
    BY <1>1, <1>2
<1>3. QED
    BY <1>2 DEF Upto
-----------------------------------------------------------------------------
(* The recursion of MapThenFoldSet, over the positions 1..n of s. *)
Step(g, base, s, t) == IF t = {} THEN base ELSE Op(g[t \ {Largest(t)}], s[Largest(t)])
Unfolds(g, base, s, n) == g = [t \in Upto(n) |-> Step(g, base, s, t)]

LEMMA UnfoldsAt ==
    ASSUME NEW base, NEW s, NEW n, NEW g, Unfolds(g, base, s, n), NEW t \in Upto(n)
    PROVE  g[t] = Step(g, base, s, t)
BY DEF Unfolds

(* A step looks at no more than the positions before it. *)
LEMMA StepAgrees ==
    ASSUME NEW base, NEW s, NEW r, NEW g, NEW h, NEW n \in Nat, NEW t \in Upto(n + 1),
           \A i \in 1..n + 1 : s[i] = r[i], \A u \in Upto(n) : g[u] = h[u]
    PROVE  Step(g, base, s, t) = Step(h, base, r, t)
<1>1. CASE t = {}
    BY <1>1 DEF Step
<1>2. CASE t # {}
    <2>1. t \ {Largest(t)} \in Upto(n) /\ Largest(t) \in 1..n + 1
        BY <1>2, WithoutMax, MaxOf, n + 1 \in Nat
    <2>2. g[t \ {Largest(t)}] = h[t \ {Largest(t)}] /\ s[Largest(t)] = r[Largest(t)]
        BY <2>1
    <2>3. QED
        BY <1>2, <2>2 DEF Step
<1>3. QED
    BY <1>1, <1>2

(* It has a solution. *)
LEMMA UnfoldsExists ==
    ASSUME NEW base, NEW s PROVE \A n \in Nat : \E g : Unfolds(g, base, s, n)
<1> DEFINE S == {n \in Nat : \E g : Unfolds(g, base, s, n)}
<1>1. 0 \in S
    <2> DEFINE g == [t \in Upto(0) |-> base]
    <2>1. \A t \in Upto(0) : Step(g, base, s, t) = base
        BY UptoZero DEF Step
    <2>2. Unfolds(g, base, s, 0)
        BY <2>1 DEF Unfolds
    <2>3. QED
        BY <2>2
<1>2. ASSUME NEW n \in Nat, n \in S PROVE n + 1 \in S
    <2>1. PICK g : Unfolds(g, base, s, n)
        BY <1>2
    <2> DEFINE h == [t \in Upto(n + 1) |-> Step(g, base, s, t)]
    <2>2. \A u \in Upto(n) : h[u] = g[u]
        BY <2>1, UnfoldsAt, UptoMore, n + 1 \in Nat, n <= n + 1
    <2>3. \A t \in Upto(n + 1) : Step(g, base, s, t) = Step(h, base, s, t)
        <3> HIDE DEF h
        <3>1. \A u \in Upto(n) : g[u] = h[u]
            BY <2>2
        <3>2. QED
            BY <3>1, StepAgrees
    <2>4. Unfolds(h, base, s, n + 1)
        BY <2>3 DEF Unfolds
    <2>5. QED
        BY <2>4
<1> HIDE DEF S
<1>3. \A n \in Nat : n \in S
    BY <1>1, <1>2, NatInd
<1>4. QED
    BY <1>3 DEF S

(* Two solutions agree where their sequences do. *)
LEMMA UnfoldsAgree ==
    ASSUME NEW base, NEW s, NEW r, NEW n \in Nat, NEW m \in Nat, n <= m,
           \A i \in 1..n : s[i] = r[i],
           NEW g, Unfolds(g, base, s, n), NEW h, Unfolds(h, base, r, m)
    PROVE  \A t \in Upto(n) : g[t] = h[t]
<1> DEFINE S == {k \in Nat : k <= n => \A t \in Upto(k) : g[t] = h[t]}
<1>1. 0 \in S
    <2>1. {} \in Upto(n) /\ {} \in Upto(m)
        BY DEF Upto
    <2>2. g[{}] = base /\ h[{}] = base
        <3>1. g[{}] = Step(g, base, s, {}) /\ h[{}] = Step(h, base, r, {})
            BY <2>1, UnfoldsAt
        <3>2. QED
            BY <3>1 DEF Step
    <2>3. QED
        BY <2>2, UptoZero
<1>2. ASSUME NEW k \in Nat, k \in S, k + 1 <= n, NEW t \in Upto(k + 1) PROVE g[t] = h[t]
    <2>1. k <= n /\ k + 1 \in Nat /\ k + 1 <= m
        BY <1>2
    <2>2. t \in Upto(n) /\ t \in Upto(m)
        BY <1>2, <2>1, UptoMore
    <2>3. \A u \in Upto(k) : g[u] = h[u]
        BY <1>2, <2>1
    <2>4. \A i \in 1..k + 1 : s[i] = r[i]
        BY <1>2
    <2>5. Step(g, base, s, t) = Step(h, base, r, t)
        BY <1>2, <2>3, <2>4, StepAgrees
    <2>6. g[t] = Step(g, base, s, t) /\ h[t] = Step(h, base, r, t)
        BY <2>2, UnfoldsAt
    <2>7. QED
        BY <2>5, <2>6
<1>3. \A k \in Nat : k \in S => k + 1 \in S
    BY <1>2
<1> HIDE DEF S
<1>4. n \in S
    BY <1>1, <1>3, NatInd
<1>5. QED
    BY <1>4 DEF S
-----------------------------------------------------------------------------
(* FoldLeft is a solution, looked at where all positions are in. *)
LEMMA FoldIsSolution ==
    ASSUME NEW S, NEW s \in Seq(S), NEW base
    PROVE  \E g : Unfolds(g, base, s, Len(s)) /\ Fold(base, s) = g[1..Len(s)]
<1> DEFINE g == CHOOSE g : Unfolds(g, base, s, Len(s))
<1>1. Unfolds(g, base, s, Len(s))
    BY UnfoldsExists
<1>2. DOMAIN s = 1..Len(s)
    OBVIOUS
<1>3. Fold(base, s) = g[1..Len(s)]
    BY <1>2 DEF Fold, MapThenFoldSet, Unfolds, Upto, Step
<1>4. QED
    BY <1>1, <1>3

(* Nothing to fold. *)
THEOREM FoldEmpty == ASSUME NEW base PROVE Fold(base, <<>>) = base
<1>1. <<>> \in Seq({}) /\ Len(<<>>) = 0
    OBVIOUS
<1>2. PICK g : Unfolds(g, base, <<>>, 0) /\ Fold(base, <<>>) = g[1..0]
    BY <1>1, FoldIsSolution
<1>3. 1..0 = {} /\ {} \in Upto(0)
    BY UptoZero
<1>4. g[{}] = Step(g, base, <<>>, {})
    BY <1>2, <1>3, UnfoldsAt
<1>5. Step(g, base, <<>>, {}) = base
    BY DEF Step
<1>6. QED
    BY <1>2, <1>3, <1>4, <1>5

(* One element more is one step more. *)
THEOREM FoldAppend ==
    ASSUME NEW S, NEW s \in Seq(S), NEW e \in S, NEW base
    PROVE  Fold(base, Append(s, e)) = Op(Fold(base, s), e)
<1> DEFINE r == Append(s, e)
           n == Len(s)
<1>1. r \in Seq(S) /\ Len(r) = n + 1 /\ r[n + 1] = e /\ n \in Nat /\ \A i \in 1..n : s[i] = r[i]
    OBVIOUS
<1>2. PICK g : Unfolds(g, base, s, n) /\ Fold(base, s) = g[1..n]
    BY FoldIsSolution
<1>3. PICK h : Unfolds(h, base, r, n + 1) /\ Fold(base, r) = h[1..n + 1]
    BY <1>1, FoldIsSolution
<1> HIDE DEF r, n
<1>4. n + 1 \in Nat /\ n <= n + 1 /\ n + 1 \in 1..n + 1
    BY <1>1
<1>5. 1..n \in Upto(n) /\ 1..n + 1 \in Upto(n + 1)
    BY DEF Upto
<1>6. g[1..n] = h[1..n]
    <2>1. n \in Nat /\ \A i \in 1..n : s[i] = r[i]
        BY <1>1
    <2>2. \A t \in Upto(n) : g[t] = h[t]
        BY <1>2, <1>3, <1>4, <2>1, UnfoldsAgree
    <2>3. QED
        BY <1>5, <2>2
<1>7. 1..n + 1 # {}
    BY <1>4
<1>8. Largest(1..n + 1) \in 1..n + 1 /\ \A i \in 1..n + 1 : i <= Largest(1..n + 1)
    BY <1>4, <1>5, <1>7, MaxOf
<1>9. Largest(1..n + 1) = n + 1 /\ (1..n + 1) \ {n + 1} = 1..n
    BY <1>1, <1>4, <1>8
<1>10. h[1..n + 1] = Step(h, base, r, 1..n + 1)
    BY <1>3, <1>5, UnfoldsAt
<1>11. h[1..n + 1] = Op(h[1..n], r[n + 1])
    BY <1>7, <1>9, <1>10 DEF Step
<1>12. QED
    BY <1>1, <1>2, <1>3, <1>6, <1>11 DEF r
=============================================================================
