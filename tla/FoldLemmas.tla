------------------------------ MODULE FoldLemmas ------------------------------
(***************************************************************************)
(* What FoldLeft returns, for folds whose every step is known; sums over    *)
(* finite sets, and how they compare.                                       *)
(***************************************************************************)
EXTENDS Integers, SequencesExt, FiniteSetTheorems, WellFoundedInduction, TLAPS

(* A recursion over the subsets of a finite set has one solution: if two    *)
(* functions agree on a set as soon as they agree on the set without some   *)
(* element of it, they agree.                                               *)
Follows(F, G, S) ==
  \A s \in SUBSET S : s # {} => \E x \in s : F[s \ {x}] = G[s \ {x}] => F[s] = G[s]

LEMMA FoldUnique ==
  ASSUME NEW S, IsFiniteSet(S), NEW F, NEW G, F[{}] = G[{}], Follows(F, G, S)
  PROVE  \A s \in SUBSET S : F[s] = G[s]
<1>. DEFINE T == {s \in SUBSET S : F[s] # G[s]}
            R == StrictSubsetOrdering(S)
<1>1. IsWellFoundedOn(R, SUBSET S)
  BY FS_StrictSubsetOrderingWellFounded, FS_FiniteSubsetsOfFinite
<1>2. ASSUME T # {} PROVE FALSE
  <2>1. T \subseteq SUBSET S
    OBVIOUS
  <2>2. PICK s \in T : \A u \in T : ~(<<u, s>> \in R)
    <3>. HIDE DEF T, R
    <3>. QED
      BY <1>1, <1>2, <2>1, WFMin
  <2>3. s # {}
    BY <2>2
  <2>4. PICK x \in s : F[s \ {x}] = G[s \ {x}] => F[s] = G[s]
    BY <2>2, <2>3 DEF Follows
  <2>5. <<s \ {x}, s>> \in R
    BY <2>2, <2>4 DEF StrictSubsetOrdering
  <2>. QED
    BY <2>2, <2>4, <2>5
<1>. QED
  BY <1>2

(* The elements that FoldLeft takes: the last of a set of positions first.  *)
LEMMA LastPosition ==
  ASSUME NEW n \in Nat, NEW s \in SUBSET (1..n), s # {}
  PROVE  Max(s) \in s /\ \A k \in s : k <= Max(s)
<1>. DEFINE T == {n - k : k \in s}
<1>1. \A k \in s : n - k \in Nat
  OBVIOUS
<1>2. T \subseteq Nat /\ T # {}
  BY <1>1, Zenon
<1>3. PICK m \in T : \A k \in T : <<k, m>> \notin OpToRel(<, Nat)
  BY <1>2, WFMin, NatLessThanWellFounded, Zenon
<1>4. \A k \in T : ~(k < m)
  BY <1>2, <1>3 DEF OpToRel
<1>5. PICK x \in s : m = n - x
  BY <1>2
<1>6. ASSUME NEW k \in s PROVE k <= x
  <2>1. ~(n - k < n - x)
    BY <1>4, <1>5
  <2>. QED
    BY <2>1
<1>. QED
  BY <1>6, Zenon DEF Max

LEMMA Positions ==
  ASSUME NEW n \in Nat
  PROVE  IsFiniteSet(1..n) /\ \A s \in SUBSET (1..n) : s # {} => Max(s) \in s
<1>1. IsFiniteSet(1..n)
  BY FS_Interval
<1>. QED
  BY <1>1, LastPosition

(* The recursion of a fold over 1..n: V says what is known of the value     *)
(* once the positions of a set are taken, f is one step.                    *)
Recursion(n, base, f, H) ==
  [s \in SUBSET (1..n) |-> IF s = {} THEN base ELSE f[<<H[s \ {Max(s)}], Max(s)>>]]

Known(n, V, H) == \A s \in SUBSET (1..n) : H[s] \in V[s]

StepsKnown(n, V, f) ==
  \A s \in SUBSET (1..n) : s # {} => \A y \in V[s \ {Max(s)}] : f[<<y, Max(s)>>] \in V[s]

LEMMA FoldExists ==
  ASSUME NEW n \in Nat, NEW V, NEW f, NEW base, base \in V[{}], StepsKnown(n, V, f)
  PROVE  \E H : H = Recursion(n, base, f, H) /\ Known(n, V, H)
<1>. DEFINE Solved(k) == \E H : H = Recursion(k, base, f, H) /\ Known(k, V, H)
            T == {k \in 0..n : ~Solved(k)}
<1>1. Solved(0)
  <2>. DEFINE H == [s \in SUBSET (1..0) |-> base]
  <2>1. 1..0 = {}
    OBVIOUS
  <2>2. H = Recursion(0, base, f, H) /\ Known(0, V, H)
    BY <2>1 DEF Recursion, Known
  <2>. QED
    BY <2>2
<1>2. ASSUME NEW k \in 1..n, Solved(k - 1) PROVE Solved(k)
  <2>1. PICK G : G = Recursion(k - 1, base, f, G) /\ Known(k - 1, V, G)
    BY <1>2
  <2>. DEFINE H == [s \in SUBSET (1..k) |-> IF k \in s THEN f[<<G[s \ {k}], k>>] ELSE G[s]]
  <2>2. ASSUME NEW s \in SUBSET (1..k), k \in s
        PROVE  Max(s) = k /\ s \ {k} \in SUBSET (1..(k - 1)) /\ H[s \ {k}] = G[s \ {k}]
    <3>0. k \in Nat /\ k \in 1..k /\ s # {}
      BY <2>2
    <3>1. Max(s) \in s /\ k <= Max(s)
      BY <2>2, <3>0, LastPosition
    <3>2. Max(s) \in 1..k
      BY <3>1
    <3>3. Max(s) = k
      BY <3>1, <3>2
    <3>4. s \ {k} \in SUBSET (1..(k - 1)) /\ s \ {k} \in SUBSET (1..k) /\ k \notin s \ {k}
      BY <3>0
    <3>. HIDE DEF H
    <3>5. H[s \ {k}] = G[s \ {k}]
      BY <3>4 DEF H
    <3>. QED
      BY <3>3, <3>4, <3>5
  <2>3. ASSUME NEW s \in SUBSET (1..k), k \notin s
        PROVE  s \in SUBSET (1..(k - 1)) /\ H[s] = G[s]
    BY <2>3
  <2>4. ASSUME NEW s \in SUBSET (1..k)
        PROVE  H[s] = IF s = {} THEN base ELSE f[<<H[s \ {Max(s)}], Max(s)>>]
    <3>1. CASE k \in s
      <4>1. H[s] = f[<<G[s \ {k}], k>>]
        BY <3>1
      <4>. HIDE DEF H
      <4>. QED
        BY <2>2, <3>1, <4>1
    <3>2. CASE k \notin s
      <4>1. s \in SUBSET (1..(k - 1)) /\ H[s] = G[s]
        BY <2>3, <3>2
      <4>2. G[s] = IF s = {} THEN base ELSE f[<<G[s \ {Max(s)}], Max(s)>>]
        BY <2>1, <4>1 DEF Recursion
      <4>3. H[s \ {Max(s)}] = G[s \ {Max(s)}]
        BY <2>3, <3>2
      <4>. HIDE DEF H
      <4>. QED
        BY <4>1, <4>2, <4>3
    <3>. QED
      BY <3>1, <3>2
  <2>5. ASSUME NEW s \in SUBSET (1..k) PROVE H[s] \in V[s]
    <3>1. CASE k \in s
      <4>1. G[s \ {k}] \in V[s \ {k}]
        BY <2>1, <2>2, <3>1 DEF Known
      <4>2. s \in SUBSET (1..n) /\ s # {} /\ Max(s) = k
        <5>1. 1..k \subseteq 1..n
          OBVIOUS
        <5>. QED
          BY <2>2, <3>1, <5>1
      <4>. QED
        BY <3>1, <4>1, <4>2 DEF StepsKnown
    <3>2. CASE k \notin s
      BY <2>1, <2>3, <3>2 DEF Known
    <3>. QED
      BY <3>1, <3>2
  <2>6. H = [s \in SUBSET (1..k) |-> H[s]]
    OBVIOUS
  <2>. HIDE DEF H
  <2>7. H = Recursion(k, base, f, H) /\ Known(k, V, H)
    BY <2>4, <2>5, <2>6 DEF Recursion, Known
  <2>. QED
    BY <2>7
<1>. HIDE DEF Solved
<1>3. ASSUME T # {} PROVE FALSE
  <2>1. T \subseteq Nat
    OBVIOUS
  <2>2. PICK m \in T : \A k \in T : <<k, m>> \notin OpToRel(<, Nat)
    BY <1>3, <2>1, WFMin, NatLessThanWellFounded, Zenon
  <2>3. \A k \in T : ~(k < m)
    BY <2>1, <2>2 DEF OpToRel
  <2>4. m \in 0..n /\ ~Solved(m) /\ m \in 1..n /\ m - 1 \in 0..n /\ m - 1 < m
    <3>1. m \in 0..n /\ ~Solved(m)
      BY <2>2
    <3>2. m # 0
      BY <1>1, <3>1
    <3>. QED
      BY <3>1, <3>2
  <2>. QED
    BY <1>2, <2>3, <2>4
<1>4. Solved(n)
  BY <1>3
<1>. QED
  BY <1>4 DEF Solved

----------------------------------------------------------------------------
(* Sums over finite sets: what MapThenSumSet returns.                       *)

(* As MapThenSumSet is used: the sum of f over a set.                       *)
Sum(f, S) == MapThenSumSet(LAMBDA s : f[s], S)

(* Induction on a finite set: P are the subsets of which a claim holds.     *)
Grows(P, S) == \A s \in SUBSET S : \A x \in s : s \ {x} \in P => s \in P

LEMMA SetInduction ==
  ASSUME NEW S, IsFiniteSet(S), NEW P, {} \in P, Grows(P, S)
  PROVE  S \in P
<1>. DEFINE F == [s \in SUBSET S |-> s \in P]
            G == [s \in SUBSET S |-> TRUE]
<1>1. F[{}] = G[{}]
  OBVIOUS
<1>2. Follows(F, G, S)
  <2>1. ASSUME NEW s \in SUBSET S, s # {} PROVE \E x \in s : F[s \ {x}] = G[s \ {x}] => F[s] = G[s]
    <3>1. PICK x \in s : s \ {x} \in P => s \in P
      BY <2>1 DEF Grows
    <3>2. s \ {x} \in SUBSET S
      OBVIOUS
    <3>. QED
      BY <3>1, <3>2
  <2>. HIDE DEF F, G
  <2>. QED
    BY <2>1 DEF Follows
<1>3. \A s \in SUBSET S : F[s] = G[s]
  <2>. HIDE DEF F, G
  <2>. QED
    BY <1>1, <1>2, FoldUnique
<1>. QED
  BY <1>3

(* G is a sum of f over the subsets of S.                                   *)
Sums(G, f, S) ==
  /\ G[{}] = 0
  /\ \A s \in SUBSET S : G[s] \in Int
  /\ \A s \in SUBSET S : \A x \in s : G[s] = f[x] + G[s \ {x}]

LEMMA SumsExist ==
  ASSUME NEW S, IsFiniteSet(S), NEW f, \A x \in S : f[x] \in Int
  PROVE  \E G : Sums(G, f, S)
<1>. DEFINE P == {s \in SUBSET S : \E G : Sums(G, f, s)}
<1>1. {} \in P
  <2>. DEFINE G == [s \in SUBSET {} |-> 0]
  <2>1. Sums(G, f, {})
    BY DEF Sums
  <2>. QED
    BY <2>1
<1>2. ASSUME NEW s \in SUBSET S, NEW x \in s, s \ {x} \in P PROVE s \in P
  <2>1. PICK H : Sums(H, f, s \ {x})
    BY <1>2
  <2>. DEFINE G == [t \in SUBSET s |-> IF x \in t THEN f[x] + H[t \ {x}] ELSE H[t]]
  <2>2. G[{}] = 0
    BY <2>1 DEF Sums
  <2>3. f[x] \in Int
    OBVIOUS
  <2>4. \A t \in SUBSET s : G[t] \in Int
    BY <2>1, <2>3 DEF Sums
  <2>5. ASSUME NEW t \in SUBSET s, NEW y \in t PROVE G[t] = f[y] + G[t \ {y}]
    <3>0. f[y] \in Int
      OBVIOUS
    <3>1. CASE y = x
      BY <3>1
    <3>2. CASE y # x /\ x \in t
      <4>1. t \ {x} \in SUBSET (s \ {x}) /\ y \in t \ {x} /\ (t \ {x}) \ {y} = (t \ {y}) \ {x}
        BY <3>2
      <4>2. H[t \ {x}] = f[y] + H[(t \ {y}) \ {x}] /\ H[(t \ {y}) \ {x}] \in Int
        BY <2>1, <4>1 DEF Sums
      <4>3. G[t] = f[x] + H[t \ {x}] /\ G[t \ {y}] = f[x] + H[(t \ {y}) \ {x}]
        BY <3>2
      <4>. HIDE DEF G
      <4>. QED
        BY <2>3, <3>0, <4>2, <4>3
    <3>3. CASE x \notin t
      <4>1. t \in SUBSET (s \ {x}) /\ G[t] = H[t] /\ G[t \ {y}] = H[t \ {y}]
        BY <3>3
      <4>. HIDE DEF G
      <4>. QED
        BY <2>1, <4>1 DEF Sums
    <3>. QED
      BY <3>1, <3>2, <3>3
  <2>. HIDE DEF G
  <2>6. Sums(G, f, s)
    BY <2>2, <2>4, <2>5 DEF Sums
  <2>. QED
    BY <2>6
<1>. HIDE DEF P
<1>3. Grows(P, S)
  BY <1>2 DEF Grows
<1>4. S \in P
  BY <1>1, <1>3, SetInduction
<1>. QED
  BY <1>4 DEF P

LEMMA SumIs ==
  ASSUME NEW S, IsFiniteSet(S), NEW f, NEW G, Sums(G, f, S), \A x \in S : f[x] \in Int
  PROVE  Sum(f, S) = G[S]
<1>. DEFINE Rec(H) == [s \in SUBSET S |-> IF s = {} THEN 0
                         ELSE f[CHOOSE x \in s : TRUE] + H[s \ {CHOOSE x \in s : TRUE}]]
            F == CHOOSE H : H = Rec(H)
            R == [s \in SUBSET S |-> G[s]]
<1>1. Sum(f, S) = F[S]
  BY DEF Sum, MapThenSumSet, MapThenFoldSet
<1>2. R = Rec(R)
  <2>1. ASSUME NEW s \in SUBSET S
        PROVE  R[s] = IF s = {} THEN 0
                      ELSE f[CHOOSE x \in s : TRUE] + R[s \ {CHOOSE x \in s : TRUE}]
    <3>. DEFINE c == CHOOSE x \in s : TRUE
    <3>1. CASE s = {}
      BY <3>1 DEF Sums
    <3>2. CASE s # {}
      <4>1. c \in s
        BY <3>2
      <4>. HIDE DEF c
      <4>2. G[s] = f[c] + G[s \ {c}] /\ R[s] = G[s] /\ R[s \ {c}] = G[s \ {c}]
        BY <4>1 DEF Sums
      <4>3. R[s] = f[c] + R[s \ {c}]
        BY <4>2
      <4>. QED
        BY <3>2, <4>3 DEF c
    <3>. QED
      BY <3>1, <3>2
  <2>2. R = [s \in SUBSET S |-> R[s]]
    OBVIOUS
  <2>. HIDE DEF R
  <2>. QED
    BY <2>1, <2>2
<1>. HIDE DEF R, Rec
<1>3. F = Rec(F)
  BY <1>2
<1>. HIDE DEF F
<1>4. ASSUME NEW H, H = Rec(H), NEW s \in SUBSET S
      PROVE  H[s] = IF s = {} THEN 0 ELSE f[CHOOSE x \in s : TRUE] + H[s \ {CHOOSE x \in s : TRUE}]
  BY <1>4 DEF Rec
<1>5. F[{}] = R[{}]
  BY <1>2, <1>3, <1>4
<1>6. ASSUME NEW s \in SUBSET S, s # {} PROVE \E x \in s : F[s \ {x}] = R[s \ {x}] => F[s] = R[s]
  <2>. DEFINE c == CHOOSE x \in s : TRUE
  <2>1. c \in s
    BY <1>6
  <2>2. F[s] = f[c] + F[s \ {c}] /\ R[s] = f[c] + R[s \ {c}]
    BY <1>2, <1>3, <1>4, <1>6
  <2>. HIDE DEF c
  <2>. QED
    BY <2>1, <2>2
<1>7. Follows(F, R, S)
  BY <1>6 DEF Follows
<1>8. \A s \in SUBSET S : F[s] = R[s]
  BY <1>5, <1>7, FoldUnique
<1>. QED
  BY <1>1, <1>8 DEF R

(* What one element adds.                                                   *)
LEMMA SumOne ==
  ASSUME NEW S, IsFiniteSet(S), NEW f, \A x \in S : f[x] \in Int
  PROVE  /\ Sum(f, {}) = 0
         /\ Sum(f, S) \in Int
         /\ \A x \in S : Sum(f, S) = f[x] + Sum(f, S \ {x})
<1>1. PICK G : Sums(G, f, S)
  BY SumsExist
<1>2. ASSUME NEW s \in SUBSET S PROVE Sum(f, s) = G[s]
  <2>1. IsFiniteSet(s)
    BY FS_Subset
  <2>2. Sums(G, f, s)
    BY <1>1 DEF Sums
  <2>. QED
    BY <2>1, <2>2, SumIs
<1>. QED
  BY <1>1, <1>2 DEF Sums

(* Sums over the subsets of a set.                                          *)
LEMMA SumSubsets ==
  ASSUME NEW S, IsFiniteSet(S), NEW f, \A x \in S : f[x] \in Int, NEW s \in SUBSET S
  PROVE  /\ IsFiniteSet(s) /\ Sum(f, s) \in Int
         /\ \A x \in s : f[x] \in Int /\ Sum(f, s \ {x}) \in Int /\ Sum(f, s) = f[x] + Sum(f, s \ {x})
<1>1. IsFiniteSet(s) /\ \A x \in s : f[x] \in Int /\ IsFiniteSet(s \ {x})
  BY FS_Subset
<1>2. \A x \in s : Sum(f, s \ {x}) \in Int
  BY <1>1, SumOne
<1>. QED
  BY <1>1, <1>2, SumOne

(* The sum of h = f + g.                                                    *)
LEMMA SumPlus ==
  ASSUME NEW S, IsFiniteSet(S), NEW f, NEW g, NEW h,
         \A x \in S : f[x] \in Int /\ g[x] \in Int /\ h[x] = f[x] + g[x]
  PROVE  Sum(h, S) = Sum(f, S) + Sum(g, S)
<1>. DEFINE P == {s \in SUBSET S : Sum(h, s) = Sum(f, s) + Sum(g, s)}
<1>0. \A x \in S : f[x] \in Int /\ g[x] \in Int /\ h[x] \in Int
  OBVIOUS
<1>1. {} \in P
  BY <1>0, SumOne
<1>2. ASSUME NEW s \in SUBSET S, NEW x \in s, s \ {x} \in P PROVE s \in P
  <2>1. Sum(h, s \ {x}) = Sum(f, s \ {x}) + Sum(g, s \ {x})
    BY <1>2
  <2>2. Sum(f, s) = f[x] + Sum(f, s \ {x}) /\ f[x] \in Int /\ Sum(f, s \ {x}) \in Int
    BY <1>0, SumSubsets
  <2>3. Sum(g, s) = g[x] + Sum(g, s \ {x}) /\ g[x] \in Int /\ Sum(g, s \ {x}) \in Int
    BY <1>0, SumSubsets
  <2>4. Sum(h, s) = h[x] + Sum(h, s \ {x}) /\ h[x] = f[x] + g[x]
    BY <1>0, SumSubsets
  <2>. QED
    BY <2>1, <2>2, <2>3, <2>4
<1>3. S \in P
  <2>. HIDE DEF P
  <2>1. Grows(P, S)
    BY <1>2 DEF Grows
  <2>. QED
    BY <1>1, <2>1, SetInduction
<1>. QED
  BY <1>3

LEMMA SumLeq ==
  ASSUME NEW S, IsFiniteSet(S), NEW f, NEW g,
         \A x \in S : f[x] \in Int /\ g[x] \in Int /\ f[x] <= g[x]
  PROVE  Sum(f, S) <= Sum(g, S)
<1>. DEFINE P == {s \in SUBSET S : Sum(f, s) <= Sum(g, s)}
<1>0. \A x \in S : f[x] \in Int /\ g[x] \in Int
  OBVIOUS
<1>1. {} \in P
  BY <1>0, SumOne
<1>2. ASSUME NEW s \in SUBSET S, NEW x \in s, s \ {x} \in P PROVE s \in P
  <2>1. Sum(f, s \ {x}) <= Sum(g, s \ {x})
    BY <1>2
  <2>2. Sum(f, s) = f[x] + Sum(f, s \ {x}) /\ f[x] \in Int /\ Sum(f, s \ {x}) \in Int
    BY <1>0, SumSubsets
  <2>3. Sum(g, s) = g[x] + Sum(g, s \ {x}) /\ g[x] \in Int /\ Sum(g, s \ {x}) \in Int
    BY <1>0, SumSubsets
  <2>. QED
    BY <2>1, <2>2, <2>3
<1>3. S \in P
  <2>. HIDE DEF P
  <2>1. Grows(P, S)
    BY <1>2 DEF Grows
  <2>. QED
    BY <1>1, <2>1, SetInduction
<1>. QED
  BY <1>3

LEMMA SumZero ==
  ASSUME NEW S, IsFiniteSet(S), NEW f, \A x \in S : f[x] = 0
  PROVE  Sum(f, S) = 0
<1>. DEFINE P == {s \in SUBSET S : Sum(f, s) = 0}
<1>0. \A x \in S : f[x] \in Int
  OBVIOUS
<1>1. {} \in P
  BY <1>0, SumOne
<1>2. ASSUME NEW s \in SUBSET S, NEW x \in s, s \ {x} \in P PROVE s \in P
  <2>1. Sum(f, s) = f[x] + Sum(f, s \ {x})
    BY <1>0, SumSubsets
  <2>. QED
    BY <1>2, <2>1
<1>3. S \in P
  <2>. HIDE DEF P
  <2>1. Grows(P, S)
    BY <1>2 DEF Grows
  <2>. QED
    BY <1>1, <2>1, SetInduction
<1>. QED
  BY <1>3

LEMMA SumSame ==
  ASSUME NEW S, IsFiniteSet(S), NEW f, NEW g, \A x \in S : f[x] \in Int /\ f[x] = g[x]
  PROVE  Sum(f, S) = Sum(g, S)
<1>1. Sum(f, S) <= Sum(g, S) /\ Sum(g, S) <= Sum(f, S)
  BY SumLeq
<1>2. Sum(f, S) \in Int /\ Sum(g, S) \in Int
  <2>1. (\A x \in S : f[x] \in Int) /\ (\A x \in S : g[x] \in Int)
    OBVIOUS
  <2>. QED
    BY <2>1, SumOne
<1>. QED
  BY <1>1, <1>2

LEMMA SumNat ==
  ASSUME NEW S, IsFiniteSet(S), NEW f, \A x \in S : f[x] \in Nat
  PROVE  Sum(f, S) \in Nat
<1>. DEFINE z == [x \in S |-> 0]
<1>1. Sum(z, S) = 0
  BY SumZero
<1>2. Sum(z, S) <= Sum(f, S)
  BY SumLeq
<1>3. Sum(f, S) \in Int
  BY SumOne
<1>. QED
  BY <1>1, <1>2, <1>3

(* A part of the set, as a sum over the whole of it.                        *)
Within(f, T, S) == [x \in S |-> IF x \in T THEN f[x] ELSE 0]

LEMMA SumWithin ==
  ASSUME NEW S, IsFiniteSet(S), NEW T \in SUBSET S, NEW f, \A x \in T : f[x] \in Int
  PROVE  Sum(f, T) = Sum(Within(f, T, S), S)
<1>. DEFINE w == Within(f, T, S)
            P == {s \in SUBSET S : Sum(f, s \cap T) = Sum(w, s)}
<1>0. \A x \in S : w[x] = IF x \in T THEN f[x] ELSE 0
  BY DEF Within
<1>. HIDE DEF w
<1>1. \A x \in S : w[x] \in Int
  BY <1>0
<1>2. IsFiniteSet(T)
  BY FS_Subset
<1>3. {} \in P
  <2>1. {} \cap T = {}
    OBVIOUS
  <2>. QED
    BY <1>1, <1>2, <2>1, SumOne
<1>4. ASSUME NEW s \in SUBSET S, NEW x \in s, s \ {x} \in P PROVE s \in P
  <2>1. Sum(f, (s \ {x}) \cap T) = Sum(w, s \ {x})
    BY <1>4
  <2>2. Sum(w, s) = w[x] + Sum(w, s \ {x}) /\ Sum(w, s \ {x}) \in Int
    BY <1>1, SumSubsets
  <2>3. CASE x \in T
    <3>1. s \cap T \in SUBSET T /\ x \in s \cap T /\ (s \cap T) \ {x} = (s \ {x}) \cap T
      BY <2>3
    <3>2. Sum(f, s \cap T) = f[x] + Sum(f, (s \cap T) \ {x})
      <4>1. PICK u : u = s \cap T
        OBVIOUS
      <4>2. u \in SUBSET T /\ x \in u
        BY <3>1, <4>1
      <4>3. Sum(f, u) = f[x] + Sum(f, u \ {x})
        BY <1>2, <4>2, SumSubsets
      <4>. QED
        BY <4>1, <4>3, Zenon
    <3>3. w[x] = f[x]
      BY <1>0, <2>3
    <3>4. Sum(f, s \cap T) = w[x] + Sum(w, s \ {x})
      BY <2>1, <3>1, <3>2, <3>3, Zenon
    <3>. QED
      BY <2>2, <3>4, Zenon
  <2>4. CASE x \notin T
    <3>1. (s \ {x}) \cap T = s \cap T
      BY <2>4
    <3>2. w[x] = 0
      BY <1>0, <2>4
    <3>3. Sum(f, s \cap T) = Sum(w, s \ {x})
      BY <2>1, <3>1, Zenon
    <3>. QED
      BY <2>2, <3>2, <3>3
  <2>. QED
    BY <2>3, <2>4
<1>5. S \in P
  <2>. HIDE DEF P
  <2>1. Grows(P, S)
    BY <1>4 DEF Grows
  <2>. QED
    BY <1>3, <2>1, SetInduction
<1>6. S \cap T = T
  OBVIOUS
<1>. QED
  BY <1>5, <1>6 DEF w

(* The same sum, indexed by the elements of another set.                    *)
LEMMA SumReindexed ==
  ASSUME NEW D, IsFiniteSet(D), NEW S, NEW b \in Bijection(D, S),
         NEW f, \A x \in S : f[x] \in Int, NEW g, \A d \in D : g[d] = f[b[d]]
  PROVE  Sum(g, D) = Sum(f, S)
<1>. DEFINE Img(d) == {b[x] : x \in d}
            P == {d \in SUBSET D : Sum(g, d) = Sum(f, Img(d))}
<1>0. /\ \A d \in D : b[d] \in S
      /\ \A c, d \in D : b[c] = b[d] => c = d
      /\ \A x \in S : \E d \in D : b[d] = x
  BY DEF Bijection, Injection, Surjection, IsInjective
<1>1. IsFiniteSet(S)
  BY FS_Surjection DEF Bijection
<1>2. \A d \in D : g[d] \in Int
  BY <1>0
<1>3. {} \in P
  <2>1. Img({}) = {}
    OBVIOUS
  <2>2. Sum(g, {}) = 0 /\ Sum(f, {}) = 0
    BY <1>1, <1>2, SumOne
  <2>. QED
    BY <2>1, <2>2
<1>4. ASSUME NEW s \in SUBSET D, NEW x \in s, s \ {x} \in P PROVE s \in P
  <2>1. Sum(g, s \ {x}) = Sum(f, Img(s \ {x}))
    BY <1>4
  <2>2. Sum(g, s) = g[x] + Sum(g, s \ {x})
    BY <1>2, SumSubsets
  <2>3. Img(s) \in SUBSET S /\ b[x] \in Img(s)
    BY <1>0
  <2>4. Img(s \ {x}) = Img(s) \ {b[x]}
    BY <1>0
  <2>. HIDE DEF Img
  <2>5. Sum(f, Img(s)) = f[b[x]] + Sum(f, Img(s) \ {b[x]})
    BY <1>1, <2>3, SumSubsets
  <2>. QED
    BY <2>1, <2>2, <2>4, <2>5
<1>5. D \in P
  <2>. HIDE DEF P
  <2>1. Grows(P, D)
    BY <1>4 DEF Grows
  <2>. QED
    BY <1>3, <2>1, SetInduction
<1>6. Img(D) = S
  BY <1>0
<1>. QED
  BY <1>5, <1>6

LEMMA CardinalityIsSum ==
  ASSUME NEW S, IsFiniteSet(S), NEW f, \A x \in S : f[x] = 1
  PROVE  Cardinality(S) = Sum(f, S)
<1>. DEFINE P == {s \in SUBSET S : Cardinality(s) = Sum(f, s)}
<1>0. \A x \in S : f[x] \in Int
  OBVIOUS
<1>1. {} \in P
  BY <1>0, SumOne, FS_EmptySet
<1>2. ASSUME NEW s \in SUBSET S, NEW x \in s, s \ {x} \in P PROVE s \in P
  <2>1. Sum(f, s) = f[x] + Sum(f, s \ {x})
    BY <1>0, SumSubsets
  <2>2. IsFiniteSet(s)
    BY FS_Subset
  <2>3. Cardinality(s \ {x}) = Cardinality(s) - 1 /\ Cardinality(s) \in Nat
    BY <2>2, FS_RemoveElement, FS_CardinalityType
  <2>4. Cardinality(s \ {x}) = Sum(f, s \ {x})
    BY <1>2
  <2>. QED
    BY <2>1, <2>3, <2>4
<1>3. S \in P
  <2>. HIDE DEF P
  <2>1. Grows(P, S)
    BY <1>2 DEF Grows
  <2>. QED
    BY <1>1, <2>1, SetInduction
<1>. QED
  BY <1>3

(* The sum of what only one element has.                                    *)
LEMMA SumSingle ==
  ASSUME NEW S, IsFiniteSet(S), NEW x \in S, NEW f, f[x] \in Int, \A y \in S \ {x} : f[y] = 0
  PROVE  Sum(f, S) = f[x]
<1>1. \A y \in S : f[y] \in Int
  OBVIOUS
<1>2. Sum(f, S) = f[x] + Sum(f, S \ {x})
  BY <1>1, SumOne
<1>3. IsFiniteSet(S \ {x})
  BY FS_Subset
<1>4. Sum(f, S \ {x}) = 0
  BY <1>3, SumZero
<1>. QED
  BY <1>2, <1>4

(* Counting a finite set kind by kind.                                      *)
OfKind(S, kind, i) == {x \in S : kind[x] = i}

LEMMA CountByKind ==
  ASSUME NEW S, IsFiniteSet(S), NEW I, IsFiniteSet(I), NEW kind, \A x \in S : kind[x] \in I,
         NEW c, \A i \in I : c[i] = Cardinality(OfKind(S, kind, i))
  PROVE  Cardinality(S) = Sum(c, I)
<1>. DEFINE Of(s, i) == {x \in s : kind[x] = i}
            C(s) == [i \in I |-> Cardinality(Of(s, i))]
            P == {s \in SUBSET S : Cardinality(s) = Sum(C(s), I)}
<1>1. {} \in P
  <2>1. \A i \in I : C({})[i] = 0
    BY FS_EmptySet
  <2>2. Cardinality({}) = 0
    BY FS_EmptySet
  <2>. HIDE DEF C
  <2>3. Sum(C({}), I) = 0
    BY <2>1, SumZero
  <2>. QED
    BY <2>2, <2>3
<1>2. ASSUME NEW s \in SUBSET S, NEW x \in s, s \ {x} \in P PROVE s \in P
  <2>. DEFINE u == s \ {x}
              one == [i \in I |-> IF i = kind[x] THEN 1 ELSE 0]
  <2>1. IsFiniteSet(s) /\ IsFiniteSet(u) /\ kind[x] \in I
    BY FS_Subset
  <2>2. ASSUME NEW i \in I PROVE C(u)[i] \in Int /\ one[i] \in Int /\ C(s)[i] = C(u)[i] + one[i]
    <3>1. IsFiniteSet(Of(s, i)) /\ IsFiniteSet(Of(u, i)) /\ Of(u, i) = Of(s, i) \ {x}
      BY <2>1, FS_Subset
    <3>2. x \in Of(s, i) <=> i = kind[x]
      OBVIOUS
    <3>3. C(s)[i] = Cardinality(Of(s, i)) /\ C(u)[i] = Cardinality(Of(u, i))
      OBVIOUS
    <3>. HIDE DEF Of, C, u
    <3>4. Cardinality(Of(s, i)) \in Nat /\ Cardinality(Of(u, i)) \in Nat
      BY <3>1, FS_CardinalityType
    <3>5. Cardinality(Of(u, i)) = IF i = kind[x] THEN Cardinality(Of(s, i)) - 1 ELSE Cardinality(Of(s, i))
      BY <3>1, <3>2, FS_RemoveElement
    <3>. QED
      BY <3>3, <3>4, <3>5
  <2>3. Sum(one, I) = 1
    <3>1. one[kind[x]] = 1 /\ \A i \in I \ {kind[x]} : one[i] = 0
      BY <2>1
    <3>. HIDE DEF one
    <3>2. Sum(one, I) = one[kind[x]]
      BY <2>1, <3>1, SumSingle
    <3>. QED
      BY <3>1, <3>2
  <2>4. Cardinality(u) = Sum(C(u), I)
    BY <1>2
  <2>5. Cardinality(u) = Cardinality(s) - 1 /\ Cardinality(s) \in Nat
    BY <2>1, FS_RemoveElement, FS_CardinalityType
  <2>. HIDE DEF C, u, one
  <2>6. Sum(C(s), I) = Sum(C(u), I) + Sum(one, I)
    BY <2>2, SumPlus
  <2>7. Cardinality(s) = Sum(C(s), I)
    <3>1. Sum(C(u), I) = Cardinality(s) - 1
      BY <2>4, <2>5
    <3>2. Sum(C(s), I) = (Cardinality(s) - 1) + 1
      BY <2>3, <2>6, <3>1, Zenon
    <3>. QED
      BY <2>5, <3>2
  <2>. QED
    BY <2>7
<1>3. S \in P
  <2>. HIDE DEF P
  <2>1. Grows(P, S)
    BY <1>2 DEF Grows
  <2>. QED
    BY <1>1, <2>1, SetInduction
<1>4. \A i \in I : C(S)[i] = c[i] /\ C(S)[i] \in Int
  <2>1. ASSUME NEW i \in I PROVE Of(S, i) \in SUBSET S
    OBVIOUS
  <2>2. ASSUME NEW i \in I PROVE Cardinality(Of(S, i)) \in Int
    <3>. HIDE DEF Of
    <3>1. IsFiniteSet(Of(S, i))
      BY <2>1, FS_Subset
    <3>2. Cardinality(Of(S, i)) \in Nat
      BY <3>1, FS_CardinalityType
    <3>. QED
      BY <3>2
  <2>. QED
    BY <2>2 DEF OfKind
<1>. HIDE DEF C
<1>5. Sum(C(S), I) = Sum(c, I)
  BY <1>4, SumSame
<1>. QED
  BY <1>3, <1>5

(* Induction on an interval.                                                *)
LEMMA IntervalInduction ==
  ASSUME NEW n \in Nat, NEW P, 0 \in P, \A k \in 1..n : k - 1 \in P => k \in P
  PROVE  \A k \in 0..n : k \in P
<1>. DEFINE T == {k \in 0..n : k \notin P}
<1>1. ASSUME T # {} PROVE FALSE
  <2>1. T \subseteq Nat
    OBVIOUS
  <2>2. PICK m \in T : \A k \in T : <<k, m>> \notin OpToRel(<, Nat)
    BY <1>1, <2>1, WFMin, NatLessThanWellFounded, Zenon
  <2>3. \A k \in T : ~(k < m)
    BY <2>1, <2>2 DEF OpToRel
  <2>4. m \in 1..n /\ m \notin P /\ m - 1 \in 0..n /\ m - 1 < m
    OBVIOUS
  <2>. QED
    BY <2>3, <2>4
<1>. QED
  BY <1>1
=============================================================================
