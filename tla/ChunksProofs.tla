----------------------------- MODULE ChunksProofs -----------------------------
(***************************************************************************)
(* Theorems about the pool of slow jobs, for any configured kinds, limits   *)
(* and number of threads: if every kind that waits runs as many jobs as it  *)
(* may, this is so after a job was added and after one has ended.  Then at  *)
(* most one job can be started, and calc_queued_order finds it.             *)
(* And about the chunk, for any clients and the places they may go, any     *)
(* limits of the pool, any number of generator jobs and of versions of the  *)
(* index: the generator, its jobs and the pool always agree; and, if all    *)
(* versions generate the same block, placed blocks stay.                    *)
(***************************************************************************)
EXTENDS Chunks, FoldLemmas

(* Every kind is once in last_spawned_configs.                              *)
LastOK(s) ==
  /\ s \in Seq(Kind)
  /\ \A n \in Kind : \E k \in 1..Len(s) : s[k] = n /\ \A m \in 1..Len(s) : s[m] = n => m = k

(* A state of the pool whose jobs of kind n are in J[n].                    *)
IsPool(p, J) ==
  /\ p = [queue |-> p.queue, running |-> p.running, last |-> p.last]
  /\ DOMAIN p.queue = Kind /\ DOMAIN p.running = Kind
  /\ \A n \in Kind : p.queue[n] \in Seq(J[n]) /\ p.running[n] \in Seq(J[n])
  /\ LastOK(p.last)

(* The jobs of a kind that have not ended, in the order they were added.    *)
Jobs(p, n) == p.running[n] \o p.queue[n]

Settled(p, n) ==
  /\ Len(p.running[n]) <= local_limit[n]
  /\ p.queue[n] # <<>> => Len(p.running[n]) = local_limit[n]

(* One job of kind n, if any waits, may start.                              *)
OneShort(p, n) ==
  /\ Len(p.running[n]) < local_limit[n]
  /\ Len(p.queue[n]) <= 1 \/ Len(p.running[n]) + 1 = local_limit[n]

----------------------------------------------------------------------------
LEMMA KindFinite == IsFiniteSet(Kind)
<1>1. DOMAIN Configs = 1..Len(Configs) /\ Len(Configs) \in Nat
  BY SlowJobsAssumption
<1>2. IsFiniteSet(DOMAIN Configs)
  BY <1>1, FS_Interval
<1>. DEFINE f == [k \in DOMAIN Configs |-> Configs[k].name]
<1>3. f \in Surjection(DOMAIN Configs, Kind)
  BY DEF Surjection, Kind
<1>. QED
  BY <1>2, <1>3, FS_Surjection

LEMMA LimitPositive == \A n \in Kind : local_limit[n] \in Nat \ {0}
<1>1. SUFFICES ASSUME NEW n \in Kind PROVE local_limit[n] \in Nat \ {0}
  OBVIOUS
<1>. DEFINE k == CHOOSE k \in DOMAIN Configs : Configs[k].name = n
<1>2. k \in DOMAIN Configs
  BY DEF Kind
<1>. HIDE DEF k
<1>3. Configs[k].limit \in Nat
  BY <1>2, SlowJobsAssumption
<1>4. local_limit[n] = Max({Configs[k].limit, 1})
  BY DEF local_limit, k
<1>5. \A i \in Nat : Max({i, 1}) = IF i >= 1 THEN i ELSE 1
  BY DEF Max
<1>. QED
  BY <1>3, <1>4, <1>5

----------------------------------------------------------------------------
(* Kinds of which no job waits, or one runs already, are passed over.       *)
LEMMA IdleFound ==
  ASSUME NEW p, NEW J, IsPool(p, J), NEW limit \in Nat \ {0}, NEW n \in Kind,
         \A m \in Kind \ {n} : p.queue[m] = <<>> \/ p.running[m] # <<>>
  PROVE  waiting_idle(p, limit) =
           IF p.queue[n] # <<>> /\ p.running[n] = <<>> THEN <<n>> ELSE <<>>
<1>. DEFINE idle == p.queue[n] # <<>> /\ p.running[n] = <<>>
            S == DOMAIN p.last
            grab(acc, m) == IF p.queue[m] # <<>> /\ p.running[m] = <<>> /\ Len(acc) < limit
                            THEN Append(acc, m) ELSE acc
            Rec(H) == [s \in SUBSET S |->
                         IF s = {} THEN <<>> ELSE grab(H[s \ {Max(s)}], p.last[Max(s)])]
            F == CHOOSE H : H = Rec(H)
<1>1. waiting_idle(p, limit) = F[S]
  BY DEF waiting_idle, FoldLeft, MapThenFoldSet
<1>2. /\ S = 1..Len(p.last) /\ Len(p.last) \in Nat
      /\ \A k \in S : p.last[k] \in Kind
  BY DEF IsPool, LastOK
<1>3. PICK k \in S : p.last[k] = n /\ \A m \in S : p.last[m] = n => m = k
  BY <1>2 DEF IsPool, LastOK
<1>. DEFINE G == [s \in SUBSET S |-> IF idle /\ k \in s THEN <<n>> ELSE <<>>]
<1>4. ASSUME NEW s \in SUBSET S, s # {}
      PROVE  G[s] = grab(G[s \ {Max(s)}], p.last[Max(s)])
  <2>. DEFINE x == Max(s)
  <2>1. x \in s
    BY <1>2, <1>4, LastPosition
  <2>. HIDE DEF x
  <2>0. \A u \in SUBSET S : G[u] = IF idle /\ k \in u THEN <<n>> ELSE <<>>
    OBVIOUS
  <2>4. s \ {x} \in SUBSET S
    OBVIOUS
  <2>. HIDE DEF G
  <2>2. CASE p.last[x] = n
    <3>1. x = k
      BY <1>3, <2>1, <2>2
    <3>2. G[s \ {x}] = <<>>
      BY <2>0, <2>4, <3>1
    <3>3. grab(<<>>, n) = IF idle THEN <<n>> ELSE <<>>
      OBVIOUS
    <3>4. G[s] = IF idle THEN <<n>> ELSE <<>>
      BY <2>0, <2>1, <3>1
    <3>. QED
      BY <2>2, <3>2, <3>3, <3>4 DEF x
  <2>3. CASE p.last[x] # n
    <3>1. x # k /\ p.last[x] \in Kind \ {n}
      BY <1>2, <1>3, <2>1, <2>3
    <3>2. G[s \ {x}] = G[s]
      BY <2>0, <2>4, <3>1
    <3>3. \A acc : grab(acc, p.last[x]) = acc
      BY <3>1
    <3>. QED
      BY <3>2, <3>3 DEF x
  <2>. QED
    BY <2>2, <2>3
<1>5. G = Rec(G)
  BY <1>4
<1>6. F = Rec(F)
  BY <1>5
<1>. HIDE DEF F
<1>7. F[{}] = G[{}] /\ Follows(F, G, S)
  <2>1. ASSUME NEW s \in SUBSET S, s # {}, F[s \ {Max(s)}] = G[s \ {Max(s)}]
        PROVE  F[s] = G[s]
    <3>1. F[s] = grab(F[s \ {Max(s)}], p.last[Max(s)])
      BY <1>6, <2>1
    <3>. QED
      BY <1>4, <2>1, <3>1
  <2>2. \A s \in SUBSET S : s # {} => Max(s) \in s
    BY <1>2, LastPosition
  <2>3. F[{}] = G[{}]
    BY <1>6
  <2>. HIDE DEF G
  <2>. QED
    BY <2>1, <2>2, <2>3 DEF Follows
<1>8. IsFiniteSet(S)
  BY <1>2, FS_Interval
<1>9. F[S] = G[S]
  <2>. HIDE DEF G, S
  <2>. QED
    BY <1>7, <1>8, FoldUnique
<1>. QED
  BY <1>1, <1>3, <1>9

(* The sum of a function that is 1 once and else 0.                         *)
LEMMA TotalOfOne ==
  ASSUME NEW n \in Kind, NEW f, f = [m \in Kind |-> IF m = n THEN 1 ELSE 0]
  PROVE  TotalOf(f) = 1
<1>. DEFINE Some(s) == CHOOSE x \in s : TRUE
            Rec(H) == [s \in SUBSET Kind |->
                         IF s = {} THEN 0 ELSE f[Some(s)] + H[s \ {Some(s)}]]
            F == CHOOSE H : H = Rec(H)
            G == [s \in SUBSET Kind |-> IF n \in s THEN 1 ELSE 0]
<1>1. TotalOf(f) = F[Kind]
  BY DEF TotalOf, FoldFunctionOnSet, MapThenFoldSet
<1>2. ASSUME NEW s \in SUBSET Kind, s # {}
      PROVE  Some(s) \in s /\ G[s] = f[Some(s)] + G[s \ {Some(s)}]
  <2>. DEFINE x == Some(s)
  <2>1. x \in s
    BY <1>2
  <2>. HIDE DEF x
  <2>2. s \ {x} \in SUBSET Kind
    OBVIOUS
  <2>. QED
    BY <2>1, <2>2 DEF x
<1>. HIDE DEF Some
<1>3. G = Rec(G)
  <2>1. G[{}] = 0 /\ G = [s \in SUBSET Kind |-> G[s]]
    OBVIOUS
  <2>. HIDE DEF G
  <2>2. ASSUME NEW s \in SUBSET Kind
        PROVE  G[s] = IF s = {} THEN 0 ELSE f[Some(s)] + G[s \ {Some(s)}]
    BY <1>2, <2>1
  <2>. QED
    BY <2>1, <2>2, Zenon
<1>4. F = Rec(F)
  BY <1>3
<1>. HIDE DEF F
<1>5. F[{}] = G[{}] /\ Follows(F, G, Kind)
  <2>1. F[{}] = G[{}]
    BY <1>4
  <2>2. ASSUME NEW s \in SUBSET Kind, s # {}, F[s \ {Some(s)}] = G[s \ {Some(s)}]
        PROVE  F[s] = G[s]
    <3>1. F[s] = f[Some(s)] + F[s \ {Some(s)}]
      BY <1>4, <2>2
    <3>. QED
      BY <1>2, <2>2, <3>1
  <2>. HIDE DEF G
  <2>. QED
    BY <1>2, <2>1, <2>2 DEF Follows
<1>6. F[Kind] = G[Kind]
  <2>. HIDE DEF G
  <2>. QED
    BY <1>5, KindFinite, FoldUnique
<1>. QED
  BY <1>1, <1>6

(* The only kind that may start a job gets one, however many might start.   *)
LEMMA OneByRate ==
  ASSUME NEW n \in Kind, NEW limit \in Nat \ {0},
         NEW capped, capped = [m \in Kind |-> IF m = n THEN 1 ELSE 0]
  PROVE  by_rate(capped, limit) = <<n>>
<1>. DEFINE t == TotalOf(capped)
            rates == [m \in Kind |-> Min({capped[m] * limit, capped[m] * t})]
            spent == [rates EXCEPT ![n] = @ - t]
            a == [order |-> <<>>, rate |-> rates]
            b == [order |-> <<n>>, rate |-> spent]
            steps == [k \in 1..limit |-> k]
            S == DOMAIN steps
            Rec(H) == [s \in SUBSET S |-> IF s = {} THEN a ELSE Take(H[s \ {Max(s)}], t)]
            F == CHOOSE H : H = Rec(H)
            G == [s \in SUBSET S |-> IF s = {} THEN a ELSE b]
<1>1. t = 1
  BY TotalOfOne
<1>2. by_rate(capped, limit) = F[S].order
  BY DEF by_rate, FoldLeft, MapThenFoldSet
<1>. HIDE DEF t
<1>10. S = 1..limit
  OBVIOUS
<1>. HIDE DEF S
<1>3. rates = [m \in Kind |-> IF m = n THEN 1 ELSE 0] /\ spent = [m \in Kind |-> 0]
  <2>1. Min({0, 0}) = 0 /\ 1 * limit = limit /\ \A k \in Nat \ {0} : Min({k, 1}) = 1
    BY DEF Min
  <2>2. ASSUME NEW m \in Kind PROVE rates[m] = IF m = n THEN 1 ELSE 0
    <3>1. CASE m = n
      BY <1>1, <2>1, <3>1
    <3>2. CASE m # n
      BY <1>1, <2>1, <3>2
    <3>. QED
      BY <3>1, <3>2
  <2>. QED
    BY <1>1, <2>2
<1>. HIDE DEF rates, spent
<1>4. Take(a, t) = b
  <2>1. (CHOOSE m \in Kind : \A k \in Kind : a.rate[k] <= a.rate[m]) = n
    BY <1>3
  <2>2. a.order = <<>> /\ a.rate = rates /\ Append(<<>>, n) = <<n>>
    OBVIOUS
  <2>3. spent = [rates EXCEPT ![n] = rates[n] - t]
    BY DEF spent
  <2>4. ~(rates[n] <= 0)
    BY <1>3
  <2>. HIDE DEF a
  <2>. QED
    BY <2>1, <2>2, <2>3, <2>4, Zenon DEF Take
<1>5. Take(b, t) = b
  <2>. DEFINE m == CHOOSE m \in Kind : \A k \in Kind : b.rate[k] <= b.rate[m]
  <2>1. m \in Kind
    BY <1>3
  <2>2. b.rate[m] <= 0
    BY <1>3, <2>1
  <2>. QED
    BY <2>2, Zenon DEF Take
<1>. HIDE DEF a, b
<1>6. ASSUME NEW s \in SUBSET S, s # {}
      PROVE  G[s] = Take(G[s \ {Max(s)}], t)
  <2>1. s \ {Max(s)} \in SUBSET S
    OBVIOUS
  <2>2. G[s] = b /\ G[s \ {Max(s)}] \in {a, b}
    BY <1>6, <2>1
  <2>. HIDE DEF G
  <2>. QED
    BY <1>4, <1>5, <2>2
<1>7. F = Rec(F)
  <2>1. G[{}] = a
    OBVIOUS
  <2>2. G = Rec(G)
    BY <1>6, <2>1
  <2>. QED
    BY <2>2
<1>. HIDE DEF F
<1>8. F[{}] = G[{}] /\ Follows(F, G, S)
  <2>1. F[{}] = G[{}]
    BY <1>7
  <2>2. ASSUME NEW s \in SUBSET S, s # {}, F[s \ {Max(s)}] = G[s \ {Max(s)}]
        PROVE  F[s] = G[s]
    <3>1. F[s] = Take(F[s \ {Max(s)}], t)
      BY <1>7, <2>2
    <3>. QED
      BY <1>6, <2>2, <3>1
  <2>3. \A s \in SUBSET S : s # {} => Max(s) \in s
    BY <1>10, LastPosition
  <2>. HIDE DEF G
  <2>. QED
    BY <2>1, <2>2, <2>3 DEF Follows
<1>9. F[S] = b
  <2>1. IsFiniteSet(S) /\ 1 \in S
    BY <1>10, FS_Interval
  <2>2. F[S] = G[S]
    <3>. HIDE DEF G
    <3>. QED
      BY <1>8, <2>1, FoldUnique
  <2>. QED
    BY <2>1, <2>2
<1>. QED
  BY <1>2, <1>9 DEF b

----------------------------------------------------------------------------
(* Sequences                                                                *)

LEMMA SameSeq ==
  ASSUME NEW A, NEW s \in Seq(A), NEW t \in Seq(A), Len(s) = Len(t),
         \A i \in 1..Len(s) : s[i] = t[i]
  PROVE  s = t
OBVIOUS

LEMMA Joined ==
  ASSUME NEW A, NEW s \in Seq(A), NEW t \in Seq(A)
  PROVE  /\ s \o t \in Seq(A) /\ Len(s \o t) = Len(s) + Len(t)
         /\ \A i \in 1..(Len(s) + Len(t)) : (s \o t)[i] = IF i <= Len(s) THEN s[i] ELSE t[i - Len(s)]
OBVIOUS

LEMMA Appended ==
  ASSUME NEW A, NEW s \in Seq(A), NEW x \in A
  PROVE  /\ Append(s, x) \in Seq(A) /\ Len(Append(s, x)) = Len(s) + 1
         /\ \A i \in 1..(Len(s) + 1) : Append(s, x)[i] = IF i <= Len(s) THEN s[i] ELSE x
OBVIOUS

LEMMA Without ==
  ASSUME NEW A, NEW s \in Seq(A), NEW k \in 1..Len(s)
  PROVE  /\ RemoveAt(s, k) \in Seq(A) /\ Len(RemoveAt(s, k)) = Len(s) - 1
         /\ \A i \in 1..(Len(s) - 1) : RemoveAt(s, k)[i] = IF i < k THEN s[i] ELSE s[i + 1]
<1>. DEFINE u == SubSeq(s, 1, k - 1)
            v == SubSeq(s, k + 1, Len(s))
<1>1. Len(s) \in Nat /\ k \in Nat /\ k <= Len(s)
  OBVIOUS
<1>2. u \in Seq(A) /\ Len(u) = k - 1 /\ \A i \in 1..(k - 1) : u[i] = s[i]
  OBVIOUS
<1>3. v \in Seq(A) /\ Len(v) = Len(s) - k /\ \A i \in 1..(Len(s) - k) : v[i] = s[k + i]
  OBVIOUS
<1>4. RemoveAt(s, k) = u \o v
  BY DEF RemoveAt
<1>. HIDE DEF u, v
<1>5. u \o v \in Seq(A) /\ Len(u \o v) = Len(s) - 1
  <2>1. u \o v \in Seq(A) /\ Len(u \o v) = Len(u) + Len(v)
    BY <1>2, <1>3, Joined
  <2>. QED
    BY <1>1, <1>2, <1>3, <2>1
<1>6. ASSUME NEW i \in 1..(Len(s) - 1)
      PROVE  (u \o v)[i] = IF i < k THEN s[i] ELSE s[i + 1]
  <2>1. (u \o v)[i] = IF i <= Len(u) THEN u[i] ELSE v[i - Len(u)]
    BY <1>2, <1>3
  <2>. QED
    BY <1>1, <1>2, <1>3, <2>1
<1>. QED
  BY <1>4, <1>5, <1>6

LEMMA MoveHead ==
  ASSUME NEW A, NEW s \in Seq(A), NEW t \in Seq(A), t # <<>>
  PROVE  Append(s, Head(t)) \o Tail(t) = s \o t
<1>. DEFINE u == Append(s, Head(t))
            v == Tail(t)
<1>1. /\ u \in Seq(A) /\ Len(u) = Len(s) + 1
      /\ \A i \in 1..(Len(s) + 1) : u[i] = IF i <= Len(s) THEN s[i] ELSE t[1]
  BY Appended
<1>2. v \in Seq(A) /\ Len(v) = Len(t) - 1 /\ \A i \in 1..(Len(t) - 1) : v[i] = t[i + 1]
  OBVIOUS
<1>3. Len(s) \in Nat /\ Len(t) \in Nat
  OBVIOUS
<1>. HIDE DEF u, v
<1>4. /\ u \o v \in Seq(A) /\ Len(u \o v) = Len(s) + Len(t)
      /\ \A i \in 1..(Len(s) + Len(t)) : (u \o v)[i] = IF i <= Len(s) + 1 THEN u[i] ELSE v[i - (Len(s) + 1)]
  <2>1. /\ u \o v \in Seq(A) /\ Len(u \o v) = Len(u) + Len(v)
        /\ \A i \in 1..(Len(u) + Len(v)) : (u \o v)[i] = IF i <= Len(u) THEN u[i] ELSE v[i - Len(u)]
    <3>1. u \in Seq(A) /\ v \in Seq(A)
      BY <1>1, <1>2
    <3>. QED
      BY <3>1, Joined
  <2>2. Len(u) + Len(v) = Len(s) + Len(t)
    BY <1>1, <1>2, <1>3
  <2>3. Len(u) = Len(s) + 1
    BY <1>1
  <2>. QED
    BY <2>1, <2>2, <2>3
<1>5. /\ s \o t \in Seq(A) /\ Len(s \o t) = Len(s) + Len(t)
      /\ \A i \in 1..(Len(s) + Len(t)) : (s \o t)[i] = IF i <= Len(s) THEN s[i] ELSE t[i - Len(s)]
  BY Joined
<1>6. ASSUME NEW i \in 1..(Len(s) + Len(t)) PROVE (u \o v)[i] = (s \o t)[i]
  <2>1. CASE i <= Len(s)
    <3>1. (u \o v)[i] = u[i] /\ u[i] = s[i]
      BY <1>1, <1>3, <1>4, <2>1
    <3>2. (s \o t)[i] = s[i]
      BY <1>3, <1>5, <2>1
    <3>. QED
      BY <3>1, <3>2
  <2>2. CASE i = Len(s) + 1
    <3>1. (u \o v)[i] = t[1]
      BY <1>1, <1>3, <1>4, <2>2
    <3>2. (s \o t)[i] = t[1]
      BY <1>3, <1>5, <2>2
    <3>. QED
      BY <3>1, <3>2
  <2>3. CASE i > Len(s) + 1
    <3>1. i - (Len(s) + 1) \in 1..(Len(t) - 1)
      BY <1>3, <2>3
    <3>2. (u \o v)[i] = v[i - (Len(s) + 1)]
      BY <1>3, <1>4, <2>3
    <3>3. v[i - (Len(s) + 1)] = t[(i - (Len(s) + 1)) + 1]
      BY <1>2, <3>1
    <3>4. (s \o t)[i] = t[i - Len(s)]
      BY <1>3, <1>5, <2>3
    <3>. QED
      BY <1>3, <3>2, <3>3, <3>4
  <2>4. i <= Len(s) \/ i = Len(s) + 1 \/ i > Len(s) + 1
    BY <1>3
  <2>. QED
    BY <2>1, <2>2, <2>3, <2>4
<1>. QED
  BY <1>4, <1>5, <1>6, SameSeq DEF u, v

LEMMA AddLast ==
  ASSUME NEW A, NEW s \in Seq(A), NEW t \in Seq(A), NEW x \in A
  PROVE  s \o Append(t, x) = Append(s \o t, x)
<1>. DEFINE u == Append(t, x)
            w == s \o t
<1>1. /\ u \in Seq(A) /\ Len(u) = Len(t) + 1
      /\ \A i \in 1..(Len(t) + 1) : u[i] = IF i <= Len(t) THEN t[i] ELSE x
  BY Appended
<1>2. /\ w \in Seq(A) /\ Len(w) = Len(s) + Len(t)
      /\ \A i \in 1..(Len(s) + Len(t)) : w[i] = IF i <= Len(s) THEN s[i] ELSE t[i - Len(s)]
  BY Joined
<1>3. Len(s) \in Nat /\ Len(t) \in Nat
  OBVIOUS
<1>. HIDE DEF u, w
<1>4. /\ s \o u \in Seq(A) /\ Len(s \o u) = Len(s) + Len(u)
      /\ \A i \in 1..(Len(s) + Len(u)) : (s \o u)[i] = IF i <= Len(s) THEN s[i] ELSE u[i - Len(s)]
  BY <1>1, Joined
<1>5. /\ Append(w, x) \in Seq(A) /\ Len(Append(w, x)) = Len(w) + 1
      /\ \A i \in 1..(Len(w) + 1) : Append(w, x)[i] = IF i <= Len(w) THEN w[i] ELSE x
  BY <1>2, Appended
<1>6. ASSUME NEW i \in 1..(Len(s) + (Len(t) + 1)) PROVE (s \o u)[i] = Append(w, x)[i]
  <2>1. (s \o u)[i] = IF i <= Len(s) THEN s[i] ELSE u[i - Len(s)]
    BY <1>1, <1>4
  <2>2. Append(w, x)[i] = IF i <= Len(s) + Len(t) THEN w[i] ELSE x
    BY <1>2, <1>3, <1>5
  <2>3. CASE i <= Len(s)
    <3>1. i \in 1..(Len(s) + Len(t)) /\ i <= Len(s) + Len(t)
      BY <1>3, <2>3
    <3>2. w[i] = s[i]
      BY <1>2, <2>3, <3>1
    <3>. QED
      BY <2>1, <2>2, <2>3, <3>1, <3>2
  <2>4. CASE i > Len(s) /\ i <= Len(s) + Len(t)
    <3>1. /\ i \in 1..(Len(s) + Len(t)) /\ ~(i <= Len(s))
          /\ i - Len(s) \in 1..(Len(t) + 1) /\ i - Len(s) <= Len(t)
      BY <1>3, <2>4
    <3>2. w[i] = t[i - Len(s)]
      BY <1>2, <3>1
    <3>3. u[i - Len(s)] = t[i - Len(s)]
      BY <1>1, <3>1
    <3>. QED
      BY <2>1, <2>2, <2>4, <3>1, <3>2, <3>3
  <2>5. CASE i = Len(s) + Len(t) + 1
    <3>1. /\ ~(i <= Len(s)) /\ ~(i <= Len(s) + Len(t))
          /\ i - Len(s) \in 1..(Len(t) + 1) /\ ~(i - Len(s) <= Len(t))
      BY <1>3, <2>5
    <3>2. u[i - Len(s)] = x
      BY <1>1, <3>1
    <3>. QED
      BY <2>1, <2>2, <3>1, <3>2
  <2>6. i <= Len(s) \/ (i > Len(s) /\ i <= Len(s) + Len(t)) \/ i = Len(s) + Len(t) + 1
    BY <1>3
  <2>. QED
    BY <2>3, <2>4, <2>5, <2>6
<1>7. Len(s \o u) = Len(Append(w, x)) /\ Len(s \o u) = Len(s) + (Len(t) + 1)
  BY <1>1, <1>2, <1>3, <1>4, <1>5
<1>. QED
  BY <1>4, <1>5, <1>6, <1>7, SameSeq DEF u, w

LEMMA RemoveFromFirst ==
  ASSUME NEW A, NEW s \in Seq(A), NEW t \in Seq(A), NEW k \in 1..Len(s)
  PROVE  RemoveAt(s, k) \o t = RemoveAt(s \o t, k)
<1>. DEFINE u == RemoveAt(s, k)
            w == s \o t
<1>1. /\ u \in Seq(A) /\ Len(u) = Len(s) - 1
      /\ \A i \in 1..(Len(s) - 1) : u[i] = IF i < k THEN s[i] ELSE s[i + 1]
  BY Without
<1>2. /\ w \in Seq(A) /\ Len(w) = Len(s) + Len(t)
      /\ \A i \in 1..(Len(s) + Len(t)) : w[i] = IF i <= Len(s) THEN s[i] ELSE t[i - Len(s)]
  BY Joined
<1>3. Len(s) \in Nat /\ Len(t) \in Nat /\ k \in Nat /\ 1 <= k /\ k <= Len(s)
  OBVIOUS
<1>. HIDE DEF u, w
<1>4. /\ u \o t \in Seq(A) /\ Len(u \o t) = Len(u) + Len(t)
      /\ \A i \in 1..(Len(u) + Len(t)) : (u \o t)[i] = IF i <= Len(u) THEN u[i] ELSE t[i - Len(u)]
  BY <1>1, Joined
<1>5. /\ RemoveAt(w, k) \in Seq(A) /\ Len(RemoveAt(w, k)) = Len(w) - 1
      /\ \A i \in 1..(Len(w) - 1) : RemoveAt(w, k)[i] = IF i < k THEN w[i] ELSE w[i + 1]
  <2>1. k \in 1..Len(w)
    BY <1>2, <1>3
  <2>. QED
    BY <1>2, <2>1, Without
<1>6. ASSUME NEW i \in 1..(Len(s) + Len(t) - 1) PROVE (u \o t)[i] = RemoveAt(w, k)[i]
  <2>1. RemoveAt(w, k)[i] = IF i < k THEN s[i] ELSE IF i + 1 <= Len(s) THEN s[i + 1] ELSE t[i + 1 - Len(s)]
    BY <1>2, <1>3, <1>5
  <2>2. (u \o t)[i] = IF i <= Len(s) - 1 THEN u[i] ELSE t[i - (Len(s) - 1)]
    BY <1>1, <1>3, <1>4
  <2>. QED
    BY <1>1, <1>3, <2>1, <2>2
<1>7. Len(u \o t) = Len(RemoveAt(w, k)) /\ Len(u \o t) = Len(s) + Len(t) - 1
  BY <1>1, <1>2, <1>3, <1>4, <1>5
<1>. QED
  BY <1>4, <1>5, <1>6, <1>7, SameSeq DEF u, w

----------------------------------------------------------------------------
(* Starting one job                                                         *)

LEMMA LastStarted ==
  ASSUME NEW s \in Seq(Kind), NEW n \in Kind, NEW k \in 1..Len(s),
         s[k] = n, \A m \in 1..Len(s) : s[m] = n => m = k
  PROVE  LET r == Append(RemoveFirst(s, n), n)
         IN  /\ r \in Seq(Kind) /\ Len(r) = Len(s) /\ r[Len(s)] = n
             /\ \A i \in 1..(Len(s) - 1) : r[i] = IF i < k THEN s[i] ELSE s[i + 1]
<1>1. Min({i \in 1..Len(s) : s[i] = n}) = k
  <2>1. {i \in 1..Len(s) : s[i] = n} = {k}
    OBVIOUS
  <2>. QED
    BY <2>1 DEF Min
<1>. DEFINE u == SubSeq(s, 1, k - 1)
            v == SubSeq(s, k + 1, Len(s))
<1>2. RemoveFirst(s, n) = u \o v
  BY <1>1 DEF RemoveFirst, RemoveAt, SelectInSeq
<1>3. u \in Seq(Kind) /\ Len(u) = k - 1 /\ \A i \in 1..(k - 1) : u[i] = s[i]
  OBVIOUS
<1>4. v \in Seq(Kind) /\ Len(v) = Len(s) - k /\ \A i \in 1..(Len(s) - k) : v[i] = s[k + i]
  OBVIOUS
<1>. HIDE DEF u, v
<1>5. u \o v \in Seq(Kind) /\ Len(u \o v) = Len(s) - 1
  BY <1>3, <1>4
<1>6. ASSUME NEW i \in 1..(Len(s) - 1)
      PROVE  (u \o v)[i] = IF i < k THEN s[i] ELSE s[i + 1]
  <2>1. (u \o v)[i] = IF i <= Len(u) THEN u[i] ELSE v[i - Len(u)]
    BY <1>3, <1>4
  <2>. QED
    BY <1>3, <1>4, <2>1
<1>. HIDE DEF u, v
<1>7. \A w \in Seq(Kind) : /\ Append(w, n) \in Seq(Kind)
                           /\ Len(Append(w, n)) = Len(w) + 1
                           /\ Append(w, n)[Len(w) + 1] = n
                           /\ \A i \in 1..Len(w) : Append(w, n)[i] = w[i]
  OBVIOUS
<1>. DEFINE w == RemoveFirst(s, n)
<1>8. /\ w \in Seq(Kind) /\ Len(w) = Len(s) - 1
      /\ \A i \in 1..(Len(s) - 1) : w[i] = IF i < k THEN s[i] ELSE s[i + 1]
  BY <1>2, <1>5, <1>6
<1>. HIDE DEF w
<1>9. /\ Append(w, n) \in Seq(Kind) /\ Len(Append(w, n)) = Len(s)
      /\ Append(w, n)[Len(s)] = n /\ \A i \in 1..(Len(s) - 1) : Append(w, n)[i] = w[i]
  <2>1. (Len(s) - 1) + 1 = Len(s)
    OBVIOUS
  <2>. QED
    BY <1>7, <1>8, <2>1
<1>. QED
  BY <1>8, <1>9 DEF w

LEMMA StartOK ==
  ASSUME NEW J, NEW p, IsPool(p, J), NEW n \in Kind, p.queue[n] # <<>>, NEW q, q = start(p, n)
  PROVE  /\ IsPool(q, J)
         /\ \A m \in Kind \ {n} : q.queue[m] = p.queue[m] /\ q.running[m] = p.running[m]
         /\ Len(q.running[n]) = Len(p.running[n]) + 1
         /\ Len(q.queue[n]) = Len(p.queue[n]) - 1
         /\ \A m \in Kind : Jobs(q, m) = Jobs(p, m)
<1>1. /\ q = [queue |-> q.queue, running |-> q.running, last |-> q.last]
      /\ q.queue = [p.queue EXCEPT ![n] = Tail(p.queue[n])]
      /\ q.running = [p.running EXCEPT ![n] = Append(p.running[n], Head(p.queue[n]))]
      /\ q.last = Append(RemoveFirst(p.last, n), n)
  BY DEF start
<1>2. /\ Tail(p.queue[n]) \in Seq(J[n]) /\ Len(Tail(p.queue[n])) = Len(p.queue[n]) - 1
      /\ Append(p.running[n], Head(p.queue[n])) \in Seq(J[n])
      /\ Len(Append(p.running[n], Head(p.queue[n]))) = Len(p.running[n]) + 1
  <2>1. \A a, b \in Seq(J[n]) : a # <<>> =>
          /\ Tail(a) \in Seq(J[n]) /\ Len(Tail(a)) = Len(a) - 1
          /\ Append(b, Head(a)) \in Seq(J[n]) /\ Len(Append(b, Head(a))) = Len(b) + 1
    OBVIOUS
  <2>. QED
    BY <2>1 DEF IsPool
<1>. DEFINE s == p.last
            r == Append(RemoveFirst(s, n), n)
<1>3. s \in Seq(Kind) /\ Len(s) \in Nat
  BY DEF IsPool, LastOK
<1>4. PICK k \in 1..Len(s) : s[k] = n /\ \A m \in 1..Len(s) : s[m] = n => m = k
  BY DEF IsPool, LastOK
<1>5. /\ r \in Seq(Kind) /\ Len(r) = Len(s) /\ r[Len(s)] = n
      /\ \A i \in 1..(Len(s) - 1) : r[i] = IF i < k THEN s[i] ELSE s[i + 1]
  BY <1>3, <1>4, LastStarted
<1>6. ASSUME NEW m \in Kind
      PROVE  \E i \in 1..Len(r) : r[i] = m /\ \A j \in 1..Len(r) : r[j] = m => j = i
  <2>1. PICK i \in 1..Len(s) : s[i] = m /\ \A j \in 1..Len(s) : s[j] = m => j = i
    BY DEF IsPool, LastOK
  <2>. HIDE DEF r, s
  <2>2. CASE m = n
    <3>1. ASSUME NEW j \in 1..Len(s), r[j] = n PROVE j = Len(s)
      BY <1>3, <1>4, <1>5, <3>1
    <3>. QED
      BY <1>3, <1>4, <1>5, <2>2, <3>1
  <2>3. CASE m # n
    <3>. DEFINE h == IF i < k THEN i ELSE i - 1
    <3>1. i # k
      BY <1>4, <2>1, <2>3
    <3>2. h \in 1..(Len(s) - 1) /\ r[h] = m
      BY <1>3, <1>5, <2>1, <3>1
    <3>3. ASSUME NEW j \in 1..Len(s), r[j] = m PROVE j = h
      <4>1. j \in 1..(Len(s) - 1)
        BY <1>3, <1>5, <2>3, <3>3
      <4>2. CASE j < k
        <5>1. s[j] = m
          BY <1>5, <3>3, <4>1, <4>2
        <5>. QED
          BY <2>1, <4>2, <5>1
      <4>3. CASE ~(j < k)
        <5>1. s[j + 1] = m /\ j + 1 \in 1..Len(s)
          BY <1>3, <1>5, <3>3, <4>1, <4>3
        <5>2. j + 1 = i
          BY <2>1, <5>1
        <5>. QED
          BY <4>1, <4>3, <5>2
      <4>. QED
        BY <4>2, <4>3
    <3>. QED
      BY <1>3, <1>5, <3>2, <3>3
  <2>. QED
    BY <2>2, <2>3
<1>7. \A m \in Kind \ {n} : q.queue[m] = p.queue[m] /\ q.running[m] = p.running[m]
  BY <1>1 DEF IsPool
<1>8. q.queue[n] = Tail(p.queue[n]) /\ q.running[n] = Append(p.running[n], Head(p.queue[n]))
  BY <1>1 DEF IsPool
<1>. HIDE DEF r
<1>9. \A m \in Kind : q.queue[m] \in Seq(J[m]) /\ q.running[m] \in Seq(J[m])
  BY <1>2, <1>7, <1>8 DEF IsPool
<1>10. DOMAIN q.queue = Kind /\ DOMAIN q.running = Kind
  BY <1>1 DEF IsPool
<1>11. q.last = r
  BY <1>1 DEF r
<1>12. IsPool(q, J)
  <2>1. LastOK(q.last)
    <3>1. LastOK(r)
      BY <1>5, <1>6 DEF LastOK
    <3>. QED
      BY <1>11, <3>1
  <2>3. q = [queue |-> q.queue, running |-> q.running, last |-> q.last]
    BY <1>1
  <2>. QED
    BY <1>9, <1>10, <2>1, <2>3 DEF IsPool
<1>13. Jobs(q, n) = Jobs(p, n)
  <2>1. p.running[n] \in Seq(J[n]) /\ p.queue[n] \in Seq(J[n])
    BY DEF IsPool
  <2>. QED
    BY <1>8, <2>1, MoveHead DEF Jobs
<1>14. \A m \in Kind : Jobs(q, m) = Jobs(p, m)
  BY <1>7, <1>13 DEF Jobs
<1>. QED
  BY <1>2, <1>7, <1>8, <1>12, <1>14

----------------------------------------------------------------------------
(* What spawn_queued starts.                                                *)

Lens(p, n) ==
  /\ Len(p.queue[n]) \in Nat /\ Len(p.running[n]) \in Nat
  /\ p.queue[n] = <<>> <=> Len(p.queue[n]) = 0
  /\ p.running[n] = <<>> <=> Len(p.running[n]) = 0

LEMMA LensOK == ASSUME NEW J, NEW p, IsPool(p, J) PROVE \A n \in Kind : Lens(p, n)
<1>1. \A S : \A s \in Seq(S) : Len(s) \in Nat /\ (s = <<>> <=> Len(s) = 0)
  OBVIOUS
<1>. QED
  BY <1>1 DEF IsPool, Lens

LEMMA LesserOf ==
  /\ \A a, b \in Nat : a = 0 \/ b = 0 => Min({a, b}) = 0
  /\ \A a, b \in Nat \ {0} : a = 1 \/ b = 1 => Min({a, b}) = 1
BY DEF Min

(* What of a kind may start now.                                            *)
LEMMA RoomOf ==
  ASSUME NEW p, NEW m, Lens(p, m), local_limit[m] \in Nat \ {0}
  PROVE  LET room == Min({Len(p.queue[m]), local_limit[m] - Len(p.running[m])})
         IN  /\ Settled(p, m) => room = 0
             /\ OneShort(p, m) /\ p.queue[m] # <<>> => room = 1
<1>. DEFINE a == Len(p.queue[m])
            b == local_limit[m] - Len(p.running[m])
<1>1. Settled(p, m) => a \in Nat /\ b \in Nat /\ (a = 0 \/ b = 0)
  BY DEF Settled, Lens
<1>2. OneShort(p, m) /\ p.queue[m] # <<>> => a \in Nat \ {0} /\ b \in Nat \ {0} /\ (a = 1 \/ b = 1)
  <2>1. /\ Len(p.queue[m]) \in Nat /\ Len(p.running[m]) \in Nat
        /\ p.queue[m] # <<>> => Len(p.queue[m]) # 0
    BY DEF Lens
  <2>2. \A x, y \in Nat, l \in Nat \ {0} :
          x # 0 /\ y < l /\ (x <= 1 \/ y + 1 = l) =>
            x \in Nat \ {0} /\ l - y \in Nat \ {0} /\ (x = 1 \/ l - y = 1)
    OBVIOUS
  <2>. QED
    BY <2>1, <2>2 DEF OneShort
<1>. HIDE DEF a, b
<1>3. Settled(p, m) => Min({a, b}) = 0
  BY <1>1, LesserOf
<1>4. OneShort(p, m) /\ p.queue[m] # <<>> => Min({a, b}) = 1
  <2>1. \A c, d \in Nat \ {0} : c = 1 \/ d = 1 => Min({c, d}) = 1
    BY LesserOf
  <2>. QED
    BY <1>2, <2>1
<1>. QED
  BY <1>3, <1>4 DEF a, b

(* Nothing, if all kinds are settled.                                       *)
LEMMA OrderOfNone ==
  ASSUME NEW J, NEW p, IsPool(p, J), NEW limit \in Nat \ {0}, \A m \in Kind : Settled(p, m)
  PROVE  calc_queued_order(p, limit) = <<>>
<1>1. \A m \in Kind : Lens(p, m) /\ local_limit[m] \in Nat \ {0}
  BY LensOK, LimitPositive
<1>2. \A m \in Kind : p.queue[m] = <<>> \/ p.running[m] # <<>>
  BY <1>1 DEF Lens, Settled
<1>3. waiting_idle(p, limit) = <<>>
  <2>1. CASE Kind = {}
    <3>1. p.last = <<>> /\ DOMAIN p.last = {}
      BY <2>1 DEF IsPool, LastOK
    <3>. DEFINE Rec(H) == [s \in SUBSET {} |-> IF s = {} THEN <<>> ELSE
             LET acc == H[s \ {Max(s)}]
                 n == p.last[Max(s)]
             IN  IF p.queue[n] # <<>> /\ p.running[n] = <<>> /\ Len(acc) < limit
                 THEN Append(acc, n) ELSE acc]
                F == CHOOSE H : H = Rec(H)
    <3>2. waiting_idle(p, limit) = F[{}]
      BY <3>1 DEF waiting_idle, FoldLeft, MapThenFoldSet
    <3>3. [s \in SUBSET {} |-> <<>>] = Rec([s \in SUBSET {} |-> <<>>])
      BY Zenon
    <3>4. F = Rec(F)
      BY <3>3
    <3>. HIDE DEF F
    <3>. QED
      BY <3>2, <3>4
  <2>2. CASE Kind # {}
    <3>1. PICK n \in Kind : TRUE
      BY <2>2
    <3>. QED
      BY <1>2, <3>1, IdleFound
  <2>. QED
    BY <2>1, <2>2
<1>4. \A m \in Kind : Min({Len(p.queue[m]), local_limit[m] - Len(p.running[m])}) = 0
  BY <1>1, RoomOf
<1>5. ~\E k \in 1..Len(<<>>) : TRUE
  OBVIOUS
<1>. QED
  BY <1>3, <1>4, <1>5 DEF calc_queued_order, Contains

(* One job of the kind that has a place, if all others are settled.         *)
LEMMA OrderOfOne ==
  ASSUME NEW J, NEW p, IsPool(p, J), NEW limit \in Nat \ {0}, NEW n \in Kind,
         \A m \in Kind \ {n} : Settled(p, m), OneShort(p, n), p.queue[n] # <<>>
  PROVE  calc_queued_order(p, limit) = <<n>>
<1>. DEFINE first == waiting_idle(p, limit)
            left == limit - Len(first)
            room(m) == Min({Len(p.queue[m]), local_limit[m] - Len(p.running[m])})
            capped == [m \in Kind |-> room(m) - (IF Contains(first, m) THEN 1 ELSE 0)]
<1>1. \A m \in Kind : Lens(p, m) /\ local_limit[m] \in Nat \ {0}
  BY LensOK, LimitPositive
<1>2. first = IF p.running[n] = <<>> THEN <<n>> ELSE <<>>
  <2>1. \A m \in Kind \ {n} : p.queue[m] = <<>> \/ p.running[m] # <<>>
    BY <1>1 DEF Lens, Settled
  <2>. QED
    BY <2>1, IdleFound
<1>3. \A m \in Kind : room(m) = IF m = n THEN 1 ELSE 0
  <2>1. room(n) = 1
    BY <1>1, RoomOf
  <2>2. \A m \in Kind \ {n} : room(m) = 0
    BY <1>1, RoomOf
  <2>. QED
    BY <2>1, <2>2
<1>4. calc_queued_order(p, limit) =
        IF left = 0 \/ \A m \in Kind : capped[m] = 0 THEN first ELSE first \o by_rate(capped, left)
  BY DEF calc_queued_order
<1>5. CASE p.running[n] = <<>>
  <2>1. first = <<n>>
    BY <1>2, <1>5
  <2>. HIDE DEF first, room
  <2>2. \A m \in Kind : Contains(first, m) <=> m = n
    BY <2>1 DEF Contains
  <2>3. \A m \in Kind : capped[m] = 0
    BY <1>3, <2>2
  <2>. QED
    BY <1>4, <2>1, <2>3
<1>6. CASE p.running[n] # <<>>
  <2>1. first = <<>>
    BY <1>2, <1>6
  <2>. HIDE DEF first, room
  <2>2. \A m \in Kind : ~Contains(first, m)
    BY <2>1 DEF Contains
  <2>3. capped = [m \in Kind |-> IF m = n THEN 1 ELSE 0]
    BY <1>3, <2>2
  <2>4. left = limit
    BY <2>1
  <2>5. by_rate(capped, limit) = <<n>>
    <3>. HIDE DEF capped
    <3>. QED
      BY <2>3, OneByRate
  <2>6. capped[n] # 0
    BY <2>3
  <2>7. <<>> \o <<n>> = <<n>>
    OBVIOUS
  <2>. HIDE DEF capped, left
  <2>. QED
    BY <1>4, <2>1, <2>4, <2>5, <2>6, <2>7
<1>. QED
  BY <1>5, <1>6

(* Folding over nothing, and over one kind.                                 *)
LEMMA StartNone == ASSUME NEW p PROVE FoldLeft(start, p, <<>>) = p
<1>. DEFINE S == DOMAIN <<>>
            Rec(H) == [s \in SUBSET S |->
                         IF s = {} THEN p ELSE start(H[s \ {Max(s)}], <<>>[Max(s)])]
            F == CHOOSE H : H = Rec(H)
<1>1. FoldLeft(start, p, <<>>) = F[S]
  BY DEF FoldLeft, MapThenFoldSet
<1>2. S = {}
  OBVIOUS
<1>3. [s \in SUBSET S |-> p] = Rec([s \in SUBSET S |-> p])
  BY <1>2
<1>4. F = Rec(F)
  BY <1>3
<1>. HIDE DEF F
<1>. QED
  BY <1>1, <1>2, <1>4

LEMMA StartEach == ASSUME NEW p, NEW n PROVE FoldLeft(start, p, <<n>>) = start(p, n)
<1>. DEFINE S == DOMAIN <<n>>
            Rec(H) == [s \in SUBSET S |->
                         IF s = {} THEN p ELSE start(H[s \ {Max(s)}], <<n>>[Max(s)])]
            F == CHOOSE H : H = Rec(H)
            G == [s \in SUBSET S |-> IF s = {} THEN p ELSE start(p, n)]
<1>1. FoldLeft(start, p, <<n>>) = F[S]
  BY DEF FoldLeft, MapThenFoldSet
<1>2. S = {1} /\ <<n>>[1] = n
  OBVIOUS
<1>. HIDE DEF S
<1>3. SUBSET S = {{}, {1}} /\ Max({1}) = 1 /\ {1} \ {1} = {}
  BY <1>2 DEF Max
<1>4. G[{}] = p /\ G[{1}] = start(p, n)
  BY <1>3
<1>5. G = Rec(G)
  <2>1. G = [s \in SUBSET S |-> G[s]]
    OBVIOUS
  <2>. HIDE DEF G
  <2>2. ASSUME NEW s \in SUBSET S
        PROVE  G[s] = IF s = {} THEN p ELSE start(G[s \ {Max(s)}], <<n>>[Max(s)])
    <3>1. CASE s = {}
      BY <1>4, <3>1
    <3>2. CASE s = {1}
      BY <1>2, <1>3, <1>4, <3>2
    <3>. QED
      BY <1>3, <3>1, <3>2
  <2>. QED
    BY <2>1, <2>2, Zenon
<1>6. F = Rec(F)
  BY <1>5
<1>. HIDE DEF F
<1>7. F[{}] = p
  BY <1>3, <1>6
<1>8. F[{1}] = start(F[{}], n)
  <2>1. {1} \in SUBSET S
    BY <1>2
  <2>2. F[{1}] = start(F[{1} \ {Max({1})}], <<n>>[Max({1})])
    BY <1>6, <2>1
  <2>. QED
    BY <1>2, <1>3, <2>2
<1>. QED
  BY <1>1, <1>2, <1>7, <1>8

Works(p, J) == IsPool(p, J) /\ \A n \in Kind : Settled(p, n)

LEMMA QueuedStarts ==
  ASSUME NEW J, NEW p, IsPool(p, J), NEW n \in Kind,
         \A m \in Kind \ {n} : Settled(p, m), Settled(p, n) \/ OneShort(p, n)
  PROVE  Works(spawn_queued(p), J) /\ \A m \in Kind : Jobs(spawn_queued(p), m) = Jobs(p, m)
<1>1. global_limit \in Nat \ {0}
  BY SlowJobsAssumption
<1>2. CASE Settled(p, n)
  <2>1. calc_queued_order(p, global_limit) = <<>>
    BY <1>1, <1>2, OrderOfNone
  <2>. QED
    BY <1>2, <2>1, StartNone DEF spawn_queued, Works
<1>3. CASE OneShort(p, n) /\ p.queue[n] = <<>>
  <2>1. Len(p.running[n]) \in Nat /\ local_limit[n] \in Nat
    BY LensOK, LimitPositive DEF Lens
  <2>2. Settled(p, n)
    BY <1>3, <2>1 DEF Settled, OneShort
  <2>. QED
    BY <1>2, <2>2
<1>4. CASE OneShort(p, n) /\ p.queue[n] # <<>>
  <2>. DEFINE q == start(p, n)
  <2>1. spawn_queued(p) = q
    BY <1>1, <1>4, OrderOfOne, StartEach DEF spawn_queued
  <2>2. /\ IsPool(q, J)
        /\ \A m \in Kind \ {n} : q.queue[m] = p.queue[m] /\ q.running[m] = p.running[m]
        /\ Len(q.running[n]) = Len(p.running[n]) + 1
        /\ Len(q.queue[n]) = Len(p.queue[n]) - 1
        /\ \A m \in Kind : Jobs(q, m) = Jobs(p, m)
    BY <1>4, StartOK
  <2>. HIDE DEF q
  <2>3. Lens(p, n) /\ Lens(q, n) /\ local_limit[n] \in Nat \ {0}
    BY <2>2, LensOK, LimitPositive
  <2>4. Settled(q, n)
    <3>1. /\ Len(p.running[n]) \in Nat /\ Len(p.queue[n]) \in Nat
          /\ Len(q.queue[n]) = 0 => q.queue[n] = <<>>
          /\ p.queue[n] # <<>> => Len(p.queue[n]) # 0
      BY <2>3 DEF Lens
    <3>2. \A x, y \in Nat, l \in Nat \ {0} :
            x # 0 /\ y < l /\ (x <= 1 \/ y + 1 = l) => y + 1 <= l /\ (x - 1 = 0 \/ y + 1 = l)
      OBVIOUS
    <3>3. /\ Len(p.running[n]) + 1 <= local_limit[n]
          /\ Len(p.queue[n]) - 1 = 0 \/ Len(p.running[n]) + 1 = local_limit[n]
      BY <1>4, <2>3, <3>1, <3>2 DEF OneShort
    <3>. QED
      BY <2>2, <3>1, <3>3 DEF Settled
  <2>5. \A m \in Kind \ {n} : Settled(q, m)
    BY <2>2 DEF Settled
  <2>. QED
    BY <2>1, <2>2, <2>4, <2>5 DEF Works
<1>. QED
  BY <1>2, <1>3, <1>4

----------------------------------------------------------------------------
(* The operations of the pool.                                              *)

(* A pool with nothing to do.                                               *)
THEOREM NewPoolWorks ==
  ASSUME NEW J
  PROVE  Works(NewPool, J) /\ \A n \in Kind : Jobs(NewPool, n) = <<>>
<1>1. Configs \in Seq(Range(Configs)) /\ DOMAIN Configs = 1..Len(Configs) /\ Len(Configs) \in Nat
  BY SlowJobsAssumption
<1>2. NewPool.last \in Seq(Kind) /\ Len(NewPool.last) = Len(Configs)
  BY <1>1 DEF NewPool, Kind
<1>3. ASSUME NEW n \in Kind
      PROVE  \E k \in 1..Len(Configs) : NewPool.last[k] = n
               /\ \A m \in 1..Len(Configs) : NewPool.last[m] = n => m = k
  BY <1>1, SlowJobsAssumption DEF NewPool, Kind
<1>4. IsPool(NewPool, J)
  <2>1. NewPool = [queue |-> NewPool.queue, running |-> NewPool.running, last |-> NewPool.last]
    BY DEF NewPool
  <2>2. DOMAIN NewPool.queue = Kind /\ DOMAIN NewPool.running = Kind
    BY DEF NewPool
  <2>3. \A n \in Kind : NewPool.queue[n] \in Seq(J[n]) /\ NewPool.running[n] \in Seq(J[n])
    BY DEF NewPool
  <2>4. LastOK(NewPool.last)
    BY <1>2, <1>3 DEF LastOK
  <2>. QED
    BY <2>1, <2>2, <2>3, <2>4 DEF IsPool
<1>5. \A n \in Kind : Settled(NewPool, n)
  BY LimitPositive DEF Settled, NewPool
<1>6. \A n \in Kind : Jobs(NewPool, n) = <<>>
  <2>1. <<>> \o <<>> = <<>>
    OBVIOUS
  <2>. QED
    BY <2>1 DEF Jobs, NewPool
<1>. QED
  BY <1>4, <1>5, <1>6 DEF Works

(* If no kind leaves a place unused that one of its jobs waits for, so it   *)
(* is after another job was added, which then is the last of its kind.      *)
THEOREM SpawnWorks ==
  ASSUME NEW J, NEW p, Works(p, J), NEW n \in Kind, NEW j \in J[n]
  PROVE  /\ Works(spawn(p, n, j), J)
         /\ Jobs(spawn(p, n, j), n) = Append(Jobs(p, n), j)
         /\ \A m \in Kind \ {n} : Jobs(spawn(p, n, j), m) = Jobs(p, m)
<1>. DEFINE q == [p EXCEPT !.queue[n] = Append(@, j)]
<1>1. /\ q = [queue |-> q.queue, running |-> q.running, last |-> q.last]
      /\ q.queue = [p.queue EXCEPT ![n] = Append(p.queue[n], j)]
      /\ q.running = p.running /\ q.last = p.last
  <2>1. p = [queue |-> p.queue, running |-> p.running, last |-> p.last]
    BY DEF Works, IsPool
  <2>. QED
    BY <2>1
<1>. HIDE DEF q
<1>2. Append(p.queue[n], j) \in Seq(J[n]) /\ Len(Append(p.queue[n], j)) = Len(p.queue[n]) + 1
  <2>1. p.queue[n] \in Seq(J[n])
    BY DEF Works, IsPool
  <2>2. \A A : \A s \in Seq(A), x \in A :
          Append(s, x) \in Seq(A) /\ Len(Append(s, x)) = Len(s) + 1
    OBVIOUS
  <2>. QED
    BY <2>1, <2>2
<1>3. /\ \A m \in Kind \ {n} : q.queue[m] = p.queue[m]
      /\ q.queue[n] = Append(p.queue[n], j)
      /\ DOMAIN q.queue = Kind
  BY <1>1 DEF Works, IsPool
<1>4. IsPool(q, J)
  <2>1. IsPool(p, J)
    BY DEF Works
  <2>2. \A m \in Kind : q.queue[m] \in Seq(J[m]) /\ q.running[m] \in Seq(J[m])
    BY <1>1, <1>2, <1>3, <2>1 DEF IsPool
  <2>3. LastOK(q.last)
    BY <1>1, <2>1 DEF IsPool
  <2>4. q = [queue |-> q.queue, running |-> q.running, last |-> q.last]
    BY <1>1
  <2>5. DOMAIN q.queue = Kind /\ DOMAIN q.running = Kind
    BY <1>1, <1>3, <2>1 DEF IsPool
  <2>. QED
    BY <2>2, <2>3, <2>4, <2>5 DEF IsPool
<1>5. \A m \in Kind \ {n} : Settled(q, m)
  BY <1>1, <1>3 DEF Works, Settled
<1>6. Settled(q, n) \/ OneShort(q, n)
  <2>1. Lens(p, n) /\ local_limit[n] \in Nat \ {0} /\ Settled(p, n)
    BY LensOK, LimitPositive DEF Works
  <2>2. CASE Len(p.running[n]) = local_limit[n]
    BY <1>1, <2>2, <2>1 DEF Settled
  <2>3. CASE Len(p.running[n]) # local_limit[n]
    <3>1. Len(p.queue[n]) = 0 /\ Len(p.running[n]) < local_limit[n]
      BY <2>1, <2>3 DEF Settled, Lens
    <3>. QED
      BY <1>1, <1>2, <1>3, <3>1 DEF OneShort
  <2>. QED
    BY <2>2, <2>3
<1>7. /\ Jobs(q, n) = Append(Jobs(p, n), j)
      /\ \A m \in Kind \ {n} : Jobs(q, m) = Jobs(p, m)
  <2>1. p.running[n] \in Seq(J[n]) /\ p.queue[n] \in Seq(J[n])
    BY DEF Works, IsPool
  <2>2. p.running[n] \o Append(p.queue[n], j) = Append(p.running[n] \o p.queue[n], j)
    <3>1. \A a, b \in Seq(J[n]), x \in J[n] : a \o Append(b, x) = Append(a \o b, x)
      BY AddLast
    <3>. QED
      BY <2>1, <3>1
  <2>3. \A m \in Kind \ {n} : Jobs(q, m) = Jobs(p, m)
    BY <1>1, <1>3 DEF Jobs
  <2>. QED
    BY <1>1, <1>3, <2>2, <2>3 DEF Jobs
<1>8. Works(spawn_queued(q), J) /\ \A m \in Kind : Jobs(spawn_queued(q), m) = Jobs(q, m)
  BY <1>4, <1>5, <1>6, QueuedStarts
<1>9. spawn(p, n, j) = spawn_queued(q)
  BY DEF spawn, q
<1>. QED
  BY <1>7, <1>8, <1>9

(* ... and after a job has ended, which is then gone, and it alone: a job   *)
(* is not lost, and not started twice.                                      *)
THEOREM FinishWorks ==
  ASSUME NEW J, NEW p, Works(p, J), NEW n \in Kind, NEW k \in DOMAIN p.running[n]
  PROVE  /\ Works(finish(p, n, k), J)
         /\ Jobs(finish(p, n, k), n) = RemoveAt(Jobs(p, n), k)
         /\ \A m \in Kind \ {n} : Jobs(finish(p, n, k), m) = Jobs(p, m)
<1>. DEFINE q == [p EXCEPT !.running[n] = RemoveAt(@, k)]
<1>1. /\ q = [queue |-> q.queue, running |-> q.running, last |-> q.last]
      /\ q.running = [p.running EXCEPT ![n] = RemoveAt(p.running[n], k)]
      /\ q.queue = p.queue /\ q.last = p.last
  <2>1. p = [queue |-> p.queue, running |-> p.running, last |-> p.last]
    BY DEF Works, IsPool
  <2>. QED
    BY <2>1
<1>. HIDE DEF q
<1>2. /\ RemoveAt(p.running[n], k) \in Seq(J[n])
      /\ Len(RemoveAt(p.running[n], k)) = Len(p.running[n]) - 1
  <2>1. p.running[n] \in Seq(J[n])
    BY DEF Works, IsPool
  <2>2. k \in 1..Len(p.running[n])
    BY <2>1
  <2>. QED
    BY <2>1, <2>2, Without
<1>3. /\ \A m \in Kind \ {n} : q.running[m] = p.running[m]
      /\ q.running[n] = RemoveAt(p.running[n], k)
      /\ DOMAIN q.running = Kind
  BY <1>1 DEF Works, IsPool
<1>4. IsPool(q, J)
  <2>1. IsPool(p, J)
    BY DEF Works
  <2>2. \A m \in Kind : q.queue[m] \in Seq(J[m]) /\ q.running[m] \in Seq(J[m])
    BY <1>1, <1>2, <1>3, <2>1 DEF IsPool
  <2>3. LastOK(q.last)
    BY <1>1, <2>1 DEF IsPool
  <2>4. q = [queue |-> q.queue, running |-> q.running, last |-> q.last]
    BY <1>1
  <2>5. DOMAIN q.queue = Kind /\ DOMAIN q.running = Kind
    BY <1>1, <1>3, <2>1 DEF IsPool
  <2>. QED
    BY <2>2, <2>3, <2>4, <2>5 DEF IsPool
<1>5. \A m \in Kind \ {n} : Settled(q, m)
  BY <1>1, <1>3 DEF Works, Settled
<1>6. OneShort(q, n)
  <2>1. Lens(p, n) /\ local_limit[n] \in Nat \ {0} /\ Settled(p, n)
    BY LensOK, LimitPositive DEF Works
  <2>2. Len(p.running[n]) \in Nat /\ (Len(p.queue[n]) = 0 \/ Len(p.running[n]) = local_limit[n])
    BY <2>1 DEF Settled, Lens
  <2>3. Len(q.running[n]) < local_limit[n]
    BY <1>2, <1>3, <2>1, <2>2 DEF Settled
  <2>4. Len(q.queue[n]) <= 1 \/ Len(q.running[n]) + 1 = local_limit[n]
    BY <1>1, <1>2, <1>3, <2>1, <2>2
  <2>. QED
    BY <2>3, <2>4 DEF OneShort
<1>7. /\ Jobs(q, n) = RemoveAt(Jobs(p, n), k)
      /\ \A m \in Kind \ {n} : Jobs(q, m) = Jobs(p, m)
  <2>1. p.running[n] \in Seq(J[n]) /\ p.queue[n] \in Seq(J[n])
    BY DEF Works, IsPool
  <2>2. k \in 1..Len(p.running[n])
    BY <2>1
  <2>3. RemoveAt(p.running[n], k) \o p.queue[n] = RemoveAt(p.running[n] \o p.queue[n], k)
    BY <2>1, <2>2, RemoveFromFirst
  <2>4. \A m \in Kind \ {n} : Jobs(q, m) = Jobs(p, m)
    BY <1>1, <1>3 DEF Jobs
  <2>. QED
    BY <1>1, <1>3, <2>3, <2>4 DEF Jobs
<1>8. Works(spawn_queued(q), J) /\ \A m \in Kind : Jobs(spawn_queued(q), m) = Jobs(q, m)
  BY <1>4, <1>5, <1>6, QueuedStarts
<1>9. finish(p, n, k) = spawn_queued(q)
  BY DEF finish, q
<1>. QED
  BY <1>7, <1>8, <1>9

(* The jobs that run come first.                                            *)
LEMMA JobsOK ==
  ASSUME NEW J, NEW p, IsPool(p, J), NEW n \in Kind
  PROVE  /\ Jobs(p, n) \in Seq(J[n])
         /\ DOMAIN p.running[n] = 1..Len(p.running[n])
         /\ \A k \in DOMAIN p.running[n] :
              k \in 1..Len(Jobs(p, n)) /\ Jobs(p, n)[k] = p.running[n][k]
<1>1. p.running[n] \in Seq(J[n]) /\ p.queue[n] \in Seq(J[n])
  BY DEF IsPool
<1>2. \A s, t \in Seq(J[n]) : s \o t \in Seq(J[n])
  OBVIOUS
<1>3. \A s, t \in Seq(J[n]) : /\ DOMAIN s = 1..Len(s)
                              /\ \A k \in DOMAIN s : k \in 1..Len(s \o t) /\ (s \o t)[k] = s[k]
  OBVIOUS
<1>. QED
  BY <1>1, <1>2, <1>3 DEF Jobs

----------------------------------------------------------------------------
(* The chunk: the generator with its jobs.                                  *)

(* What jobs of the pool are given.                                         *)
Snapshot == [to : SUBSET Client, block : Block]
JobSets  == [n \in Kind |-> IF n = "CHUNK_GENERATOR" THEN Job ELSE Snapshot]

JobState == [to : Client \cup {None}, index : DOMAIN Generated, cancel : BOOLEAN,
             is : {"none", "spawned", "ok", "err"}]
Message  == [kind : {"chunk", "err", "block"}, block : Block \cup {None}]

(* The jobs in the pool, each there once, are those that have not answered; *)
(* the pending one has not been cancelled.                                  *)
Unanswered(g) ==
  LET s == Jobs(g.pool, "CHUNK_GENERATOR")
  IN  /\ \A a \in 1..Len(s) : g.job[s[a]].is = "spawned"
      /\ \A a, b \in 1..Len(s) : s[a] = s[b] => a = b

GenOK(g) ==
  /\ g = [pending |-> g.pending, job |-> g.job, answers |-> g.answers, pool |-> g.pool]
  /\ g.pending \in Job \cup {None}
  /\ g.job \in [Job -> JobState]
  /\ g.answers \in Seq(Job)
  /\ Works(g.pool, JobSets)
  /\ Unanswered(g)
  /\ \A a \in 1..Len(g.answers) : g.job[g.answers[a]].is \in {"ok", "err"}
  /\ g.pending # None => g.job[g.pending].is # "none" /\ ~g.job[g.pending].cancel

(* Another job can be made when one is needed.                              *)
HasRoom(g) == g.pending = None => FreeJobs(g) # {}

(* What is loaded is pending only to be generated again.                    *)
OnlyAgain(g, t) == g.pending # None /\ t # None => g.job[g.pending].to = None

----------------------------------------------------------------------------
(* What terrain persistence has: one of chunk and cached at most; and what  *)
(* it would not write is as in the file.                                    *)
InFile(st) == IF st.file = Absent THEN Nothing ELSE st.file
Kept(st)   == IF st.chunk # Absent THEN st.chunk ELSE InFile(st)

StoreOK(st) ==
  /\ st \in [chunk : Block \cup {Nothing, Absent}, modified : BOOLEAN,
             cached : Block \cup {Nothing, Absent}, file : Block \cup {Absent}]
  /\ st.chunk # Absent => st.cached = Absent
  /\ st.chunk # Absent /\ ~st.modified => st.chunk = InFile(st)
  /\ st.chunk = Absent /\ st.cached # Absent => st.cached = InFile(st)

GenInv == GenOK(Gen) /\ HasRoom(Gen) /\ OnlyAgain(Gen, terrain)

CInv ==
  /\ TypeOK
  /\ out \in [Client -> Seq(Message)]
  /\ GenInv
  /\ StoreOK(store)

(* Every version of the index generates the same block.                     *)
SameTerrain == \A v, w \in DOMAIN Generated : Generated[v] = Generated[w]

(* The store has the block that was placed, or forgot it as it is what is   *)
(* generated.                                                               *)
Remembers(st, b) ==
  IF b = None THEN Kept(st) = Nothing
  ELSE Kept(st) = b \/ (Kept(st) = Nothing /\ b = Generated[1])

Shows(t, b) == t = IF b = None THEN Generated[1] ELSE b

EInv ==
  /\ CInv /\ SameTerrain
  /\ Remembers(store, built)
  /\ block_change # None => block_change = built \/ (terrain = None /\ pc = "sync")
  /\ block_change = None /\ terrain # None => Shows(terrain, built)

----------------------------------------------------------------------------
(* The constants                                                            *)

LEMMA Constants ==
  /\ Job = 1..MaxJobs /\ 1 \in Job /\ Job \subseteq Nat
  /\ None \notin Job /\ None \notin Client /\ None \notin Block
  /\ Nothing \notin Block /\ Absent \notin Block /\ Nothing # Absent
  /\ 1 \in DOMAIN Generated /\ DOMAIN Generated = 1..Len(Generated)
  /\ \A v \in DOMAIN Generated : Generated[v] \in Block
  /\ "CHUNK_GENERATOR" \in Kind /\ "CHUNK_SERIALIZER" \in Kind
  /\ "CHUNK_GENERATOR" # "CHUNK_SERIALIZER"
<1>1. Job = 1..MaxJobs /\ 1 \in Job /\ Job \subseteq Nat
  BY ChunksAssumption DEF Job
<1>2. \A s \in Seq(Block) \ {<<>>} : /\ 1 \in DOMAIN s /\ DOMAIN s = 1..Len(s)
                                     /\ \A v \in DOMAIN s : s[v] \in Block
  OBVIOUS
<1>. QED
  BY <1>1, <1>2, ChunksAssumption DEF Nothing, Absent

LEMMA KindsOfJobs ==
  /\ JobSets["CHUNK_GENERATOR"] = Job
  /\ JobSets["CHUNK_SERIALIZER"] = Snapshot
BY Constants DEF JobSets

----------------------------------------------------------------------------
(* The generator                                                            *)

LEMMA IdleIsAJob == Idle \in JobState
BY Constants DEF Idle, JobState

(* Of the jobs that can be made, one is the first.                          *)
LEMMA FirstFree ==
  ASSUME NEW g, FreeJobs(g) # {}
  PROVE  (CHOOSE j \in FreeJobs(g) : \A k \in FreeJobs(g) : j <= k) \in FreeJobs(g)
<1>1. FreeJobs(g) \subseteq Nat
  BY Constants DEF FreeJobs
<1>. DEFINE R == {ss \in Nat \X Nat : ss[1] < ss[2]}
<1>2. IsWellFoundedOn(R, Nat)
  BY NatLessThanWellFounded, Zenon DEF OpToRel
<1>3. PICK j \in FreeJobs(g) : \A k \in FreeJobs(g) : ~(<<k, j>> \in R)
  <2>. HIDE DEF R
  <2>. QED
    BY <1>1, <1>2, WFMin
<1>4. \A m, n \in Nat : m < n => <<m, n>> \in R
  OBVIOUS
<1>. HIDE DEF R
<1>5. \A k \in FreeJobs(g) : k \in Nat /\ j \in Nat /\ ~(k < j)
  BY <1>1, <1>3, <1>4
<1>6. \A k \in FreeJobs(g) : j <= k
  <2>1. \A m, n \in Nat : ~(m < n) => n <= m
    OBVIOUS
  <2>. QED
    BY <1>5, <2>1
<1>. QED
  BY <1>3, <1>6

(* The jobs of the pool are jobs of the generator.                          *)
LEMMA JobsOfPool ==
  ASSUME NEW p, Works(p, JobSets)
  PROVE  Jobs(p, "CHUNK_GENERATOR") \in Seq(Job)
BY Constants, KindsOfJobs, JobsOK DEF Works

LEMMA GenerateOK ==
  ASSUME NEW g, GenOK(g), HasRoom(g), NEW c \in Client \cup {None}, NEW v \in DOMAIN Generated,
         NEW h, h = generate_chunk(g, c, v)
  PROVE  /\ GenOK(h) /\ h.pending # None /\ h.answers = g.answers
         /\ h = g \/ (g.pending = None /\ h.job[h.pending].to = c)
<1>1. CASE g.pending # None
  <2>1. h = g
    BY <1>1 DEF generate_chunk
  <2>. QED
    BY <1>1, <2>1
<1>2. CASE g.pending = None
  <2>. DEFINE n == "CHUNK_GENERATOR"
              s == Jobs(g.pool, n)
              q == spawn(g.pool, n, h.pending)
              made == [to |-> c, index |-> v, cancel |-> FALSE, is |-> "spawned"]
  <2>1. PICK j : j = CHOOSE i \in FreeJobs(g) : \A k \in FreeJobs(g) : i <= k
    OBVIOUS
  <2>2. j \in Job /\ g.job[j].is = "none"
    BY <1>2, <2>1, FirstFree DEF HasRoom, FreeJobs
  <2>3. h = [g EXCEPT !.pending = j, !.job[j] = made, !.pool = spawn(@, n, j)]
    BY <1>2, <2>1 DEF generate_chunk
  <2>. HIDE DEF made
  <2>4. /\ h = [pending |-> h.pending, job |-> h.job, answers |-> h.answers, pool |-> h.pool]
        /\ h.pending = j /\ h.answers = g.answers
        /\ h.job = [g.job EXCEPT ![j] = made]
        /\ h.pool = spawn(g.pool, n, j)
    BY <2>3 DEF GenOK
  <2>5. /\ h.job \in [Job -> JobState]
        /\ h.job[j] = made
        /\ \A k \in Job \ {j} : h.job[k] = g.job[k]
    <3>1. made \in JobState
      BY DEF made, JobState
    <3>. QED
      BY <2>2, <2>4, <3>1 DEF GenOK
  <2>6. made.is = "spawned" /\ made.to = c /\ ~made.cancel
    BY DEF made
  <2>7. Works(h.pool, JobSets) /\ Jobs(h.pool, n) = Append(s, j) /\ s \in Seq(Job)
    <3>1. Works(g.pool, JobSets) /\ n \in Kind /\ j \in JobSets[n]
      BY <2>2, Constants, KindsOfJobs DEF GenOK
    <3>2. Works(spawn(g.pool, n, j), JobSets) /\ Jobs(spawn(g.pool, n, j), n) = Append(s, j)
      BY <3>1, SpawnWorks
    <3>3. s \in Seq(Job)
      BY <3>1, JobsOfPool
    <3>. QED
      BY <2>4, <3>2, <3>3
  <2>. HIDE DEF s
  <2>8. /\ \A a \in 1..Len(s) : s[a] \in Job /\ g.job[s[a]].is = "spawned" /\ s[a] # j
        /\ \A a, b \in 1..Len(s) : s[a] = s[b] => a = b
    BY <2>2, <2>7 DEF GenOK, Unanswered, s
  <2>9. Unanswered(h)
    <3>1. /\ Len(Append(s, j)) = Len(s) + 1 /\ Len(s) \in Nat
          /\ \A i \in 1..(Len(s) + 1) : Append(s, j)[i] = IF i <= Len(s) THEN s[i] ELSE j
      BY <2>2, <2>7
    <3>. DEFINE t == Append(s, j)
    <3>. HIDE DEF t
    <3>2. \A a \in 1..(Len(s) + 1) : h.job[t[a]].is = "spawned"
      BY <2>2, <2>5, <2>6, <2>8, <3>1 DEF t
    <3>3. \A a, b \in 1..(Len(s) + 1) : t[a] = t[b] => a = b
      BY <2>8, <3>1 DEF t
    <3>4. Jobs(h.pool, n) = t /\ Len(t) = Len(s) + 1
      BY <2>7, <3>1 DEF t
    <3>. QED
      BY <3>2, <3>3, <3>4 DEF Unanswered
  <2>10. \A a \in 1..Len(h.answers) : h.job[h.answers[a]].is \in {"ok", "err"}
    <3>1. \A a \in 1..Len(g.answers) : g.answers[a] \in Job /\ g.answers[a] # j
      BY <2>2 DEF GenOK
    <3>. QED
      BY <2>4, <2>5, <3>1 DEF GenOK
  <2>11. h.pending \in Job /\ h.pending # None /\ h.answers \in Seq(Job)
    BY <2>2, <2>4, Constants DEF GenOK
  <2>12. h.job[h.pending].is # "none" /\ ~h.job[h.pending].cancel /\ h.job[h.pending].to = c
    BY <2>4, <2>5, <2>6
  <2>13. GenOK(h)
    BY <2>4, <2>5, <2>7, <2>9, <2>10, <2>11, <2>12 DEF GenOK
  <2>. QED
    BY <1>2, <2>4, <2>11, <2>12, <2>13
<1>. QED
  BY <1>1, <1>2

LEMMA CancelOK ==
  ASSUME NEW g, GenOK(g), NEW h, h = cancel_if_pending(g)
  PROVE  /\ GenOK(h) /\ h.pending = None /\ h.answers = g.answers
         /\ FreeJobs(h) = FreeJobs(g)
<1>1. CASE g.pending = None
  BY <1>1 DEF cancel_if_pending
<1>2. CASE g.pending # None
  <2>1. h = [g EXCEPT !.pending = None, !.job[g.pending].cancel = TRUE]
    BY <1>2 DEF cancel_if_pending
  <2>2. g.pending \in Job
    BY <1>2 DEF GenOK
  <2>3. /\ h = [pending |-> h.pending, job |-> h.job, answers |-> h.answers, pool |-> h.pool]
        /\ h.pending = None /\ h.answers = g.answers /\ h.pool = g.pool
        /\ h.job = [g.job EXCEPT ![g.pending].cancel = TRUE]
    BY <2>1 DEF GenOK
  <2>4. h.job \in [Job -> JobState] /\ \A j \in Job : h.job[j].is = g.job[j].is
    <3>. DEFINE r == [g.job[g.pending] EXCEPT !.cancel = TRUE]
    <3>1. g.job \in [Job -> JobState]
      BY DEF GenOK
    <3>2. \A t \in JobState : /\ [t EXCEPT !.cancel = TRUE] \in JobState
                              /\ [t EXCEPT !.cancel = TRUE].is = t.is
      BY DEF JobState
    <3>3. r \in JobState /\ r.is = g.job[g.pending].is
      BY <2>2, <3>1, <3>2
    <3>4. h.job = [g.job EXCEPT ![g.pending] = r]
      BY <2>3
    <3>. HIDE DEF r
    <3>. QED
      BY <2>2, <3>1, <3>3, <3>4
  <2>5. FreeJobs(h) = FreeJobs(g)
    BY <2>4 DEF FreeJobs
  <2>6. Unanswered(h)
    <3>. DEFINE s == Jobs(g.pool, "CHUNK_GENERATOR")
    <3>1. s \in Seq(Job)
      BY JobsOfPool DEF GenOK
    <3>. QED
      BY <2>3, <2>4, <3>1 DEF GenOK, Unanswered
  <2>7. \A a \in 1..Len(h.answers) : h.job[h.answers[a]].is \in {"ok", "err"}
    BY <2>3, <2>4 DEF GenOK
  <2>8. GenOK(h)
    BY <2>3, <2>4, <2>6, <2>7 DEF GenOK
  <2>. QED
    BY <2>3, <2>5, <2>8
<1>. QED
  BY <1>1, <1>2

LEMMA DrainedOK ==
  ASSUME NEW g, GenOK(g), HasRoom(g), NEW h, h = Drained(g)
  PROVE  /\ GenOK(h) /\ HasRoom(h)
         /\ Taken(g) \in Job \cup {None}
         /\ Taken(g) # None => h.pending = None
         /\ h.pending # None => h.pending = g.pending /\ h.job = g.job
<1>. DEFINE freed == [j \in Job |-> IF Contains(g.answers, j) THEN Idle ELSE g.job[j]]
<1>1. /\ h = [pending |-> h.pending, job |-> h.job, answers |-> h.answers, pool |-> h.pool]
      /\ h.pending = IF g.answers = <<>> THEN g.pending ELSE None
      /\ h.answers = <<>> /\ h.pool = g.pool
      /\ h.job = freed
  BY DEF Drained, GenOK
<1>2. \A j \in Job : Contains(g.answers, j) <=> \E a \in 1..Len(g.answers) : g.answers[a] = j
  BY DEF Contains
<1>3. h.job \in [Job -> JobState]
  BY <1>1, IdleIsAJob DEF GenOK
<1>4. \A j \in Job : h.job[j] = IF Contains(g.answers, j) THEN Idle ELSE g.job[j]
  BY <1>1
<1>. HIDE DEF freed
<1>5. Unanswered(h)
  <2>. DEFINE s == Jobs(g.pool, "CHUNK_GENERATOR")
  <2>1. s \in Seq(Job)
    BY JobsOfPool DEF GenOK
  <2>2. \A a \in 1..Len(s) : s[a] \in Job /\ g.job[s[a]].is = "spawned"
    BY <2>1 DEF GenOK, Unanswered
  <2>3. \A a \in 1..Len(s) : ~Contains(g.answers, s[a])
    BY <1>2, <2>2 DEF GenOK
  <2>. QED
    BY <1>1, <1>4, <2>2, <2>3 DEF GenOK, Unanswered
<1>6. CASE g.answers = <<>>
  <2>1. ~\E a \in 1..Len(<<>>) : TRUE
    OBVIOUS
  <2>2. \A j \in Job : h.job[j] = g.job[j]
    BY <1>2, <1>4, <1>6, <2>1
  <2>3. h.job = g.job
    BY <1>3, <2>2 DEF GenOK
  <2>4. h = g
    BY <1>1, <1>6, <2>3 DEF GenOK
  <2>. QED
    BY <1>6, <2>4 DEF Taken
<1>7. CASE g.answers # <<>>
  <2>1. h.pending = None
    BY <1>1, <1>7
  <2>2. Head(g.answers) \in Job /\ Contains(g.answers, Head(g.answers))
    <3>1. \A s \in Seq(Job) : s # <<>> => Head(s) \in Job /\ 1 \in 1..Len(s) /\ s[1] = Head(s)
      OBVIOUS
    <3>. QED
      BY <1>2, <1>7, <3>1 DEF GenOK
  <2>3. Head(g.answers) \in FreeJobs(h)
    BY <1>4, <2>2 DEF FreeJobs, Idle
  <2>4. GenOK(h)
    <3>1. h.answers \in Seq(Job) /\ \A a \in 1..Len(h.answers) : FALSE
      BY <1>1
    <3>. QED
      BY <1>1, <1>3, <1>5, <2>1, <3>1 DEF GenOK
  <2>. QED
    BY <2>1, <2>2, <2>3, <2>4 DEF Taken, HasRoom
<1>. QED
  BY <1>6, <1>7

(* A job answers; the pool may start the next.                              *)
Answered(g, k, is) ==
  LET j == g.pool.running["CHUNK_GENERATOR"][k]
  IN  [pending |-> g.pending, job |-> [g.job EXCEPT ![j].is = is],
       answers |-> Append(g.answers, j), pool |-> finish(g.pool, "CHUNK_GENERATOR", k)]

LEMMA AnswerOK ==
  ASSUME NEW g, GenOK(g), HasRoom(g), NEW k \in DOMAIN g.pool.running["CHUNK_GENERATOR"],
         NEW is \in {"ok", "err"}
  PROVE  /\ GenOK(Answered(g, k, is)) /\ HasRoom(Answered(g, k, is))
         /\ \A i \in Job : Answered(g, k, is).job[i].to = g.job[i].to
<1>. DEFINE n == "CHUNK_GENERATOR"
            j == g.pool.running[n][k]
            h == Answered(g, k, is)
            s == Jobs(g.pool, n)
            t == RemoveAt(s, k)
<1>1. /\ h = [pending |-> h.pending, job |-> h.job, answers |-> h.answers, pool |-> h.pool]
      /\ h.pending = g.pending /\ h.job = [g.job EXCEPT ![j].is = is]
      /\ h.answers = Append(g.answers, j) /\ h.pool = finish(g.pool, n, k)
  BY DEF Answered
<1>. HIDE DEF h
<1>2. s \in Seq(Job) /\ k \in 1..Len(s) /\ s[k] = j
  <2>1. IsPool(g.pool, JobSets)
    BY DEF GenOK, Works
  <2>. QED
    BY <2>1, Constants, KindsOfJobs, JobsOK
<1>3. Works(h.pool, JobSets) /\ Jobs(h.pool, n) = t
  BY <1>1, Constants, FinishWorks DEF GenOK
<1>4. /\ t \in Seq(Job) /\ Len(t) = Len(s) - 1
      /\ \A i \in 1..(Len(s) - 1) : t[i] = IF i < k THEN s[i] ELSE s[i + 1]
  BY <1>2, Without
<1>5. j \in Job /\ g.job[j].is = "spawned"
  BY <1>2 DEF GenOK, Unanswered
<1>6. /\ \A a \in 1..Len(s) : s[a] \in Job /\ g.job[s[a]].is = "spawned"
      /\ \A a, b \in 1..Len(s) : s[a] = s[b] => a = b
  BY <1>2 DEF GenOK, Unanswered
<1>. HIDE DEF s, t, j
<1>7. /\ h.job \in [Job -> JobState]
      /\ h.job[j].is = is
      /\ \A i \in Job \ {j} : h.job[i] = g.job[i]
      /\ \A i \in Job : h.job[i].to = g.job[i].to /\ h.job[i].cancel = g.job[i].cancel
  BY <1>1, <1>5 DEF GenOK, JobState
<1>8. Unanswered(h)
  <2>1. Len(s) \in Nat
    BY <1>2
  <2>2. ASSUME NEW a \in 1..(Len(s) - 1)
        PROVE  \E i \in 1..Len(s) \ {k} : t[a] = s[i] /\ i = IF a < k THEN a ELSE a + 1
    <3>1. CASE a < k
      BY <1>2, <1>4, <2>1, <3>1
    <3>2. CASE ~(a < k)
      <4>1. a + 1 \in 1..Len(s) \ {k} /\ t[a] = s[a + 1]
        BY <1>2, <1>4, <2>1, <3>2
      <4>. QED
        BY <3>2, <4>1
    <3>. QED
      BY <3>1, <3>2
  <2>3. ASSUME NEW a \in 1..(Len(s) - 1) PROVE h.job[t[a]].is = "spawned"
    <3>1. PICK i \in 1..Len(s) \ {k} : t[a] = s[i]
      BY <2>2
    <3>2. s[i] \in Job \ {j} /\ g.job[s[i]].is = "spawned"
      BY <1>2, <1>6
    <3>. QED
      BY <1>7, <3>1, <3>2
  <2>4. ASSUME NEW a \in 1..(Len(s) - 1), NEW b \in 1..(Len(s) - 1), t[a] = t[b]
        PROVE  a = b
    <3>1. PICK i \in 1..Len(s) \ {k} : t[a] = s[i] /\ i = IF a < k THEN a ELSE a + 1
      BY <2>2
    <3>2. PICK m \in 1..Len(s) \ {k} : t[b] = s[m] /\ m = IF b < k THEN b ELSE b + 1
      BY <2>2
    <3>3. i = m
      BY <1>6, <2>4, <3>1, <3>2
    <3>. QED
      BY <1>2, <2>1, <3>1, <3>2, <3>3
  <2>5. \A a \in 1..Len(t) : h.job[t[a]].is = "spawned"
    BY <1>4, <2>3
  <2>6. \A a, b \in 1..Len(t) : t[a] = t[b] => a = b
    BY <1>4, <2>4
  <2>. QED
    BY <1>3, <2>5, <2>6 DEF Unanswered
<1>9. /\ h.answers \in Seq(Job)
      /\ \A a \in 1..Len(h.answers) : h.job[h.answers[a]].is \in {"ok", "err"}
  <2>. DEFINE w == g.answers
  <2>1. /\ w \in Seq(Job)
        /\ \A a \in 1..Len(w) : w[a] \in Job \ {j} /\ g.job[w[a]].is \in {"ok", "err"}
    BY <1>5 DEF GenOK
  <2>. HIDE DEF w
  <2>2. /\ Append(w, j) \in Seq(Job) /\ Len(Append(w, j)) = Len(w) + 1 /\ Len(w) \in Nat
        /\ \A i \in 1..(Len(w) + 1) : Append(w, j)[i] = IF i <= Len(w) THEN w[i] ELSE j
    BY <1>5, <2>1
  <2>3. \A i \in 1..(Len(w) + 1) : h.job[Append(w, j)[i]].is \in {"ok", "err"}
    <3>1. \A i \in 1..Len(w) : Append(w, j)[i] = w[i]
      BY <2>2
    <3>2. Append(w, j)[Len(w) + 1] = j
      BY <2>2
    <3>3. \A i \in 1..Len(w) : h.job[w[i]] = g.job[w[i]]
      BY <1>7, <2>1
    <3>4. \A i \in 1..Len(w) : h.job[Append(w, j)[i]].is \in {"ok", "err"}
      BY <2>1, <3>1, <3>3
    <3>5. h.job[Append(w, j)[Len(w) + 1]].is \in {"ok", "err"}
      BY <1>7, <3>2
    <3>. QED
      BY <2>2, <3>4, <3>5
  <2>. QED
    BY <1>1, <2>2, <2>3 DEF w
<1>10. h.pending # None => h.job[h.pending].is # "none" /\ ~h.job[h.pending].cancel
  <2>1. g.pending # None => g.pending \in Job /\ g.job[g.pending].is # "none" /\ ~g.job[g.pending].cancel
    BY DEF GenOK
  <2>. QED
    BY <1>1, <1>7, <2>1
<1>11. HasRoom(h)
  BY <1>1, <1>5, <1>7 DEF HasRoom, FreeJobs
<1>12. GenOK(h)
  <2>1. h.pending \in Job \cup {None}
    BY <1>1 DEF GenOK
  <2>. QED
    BY <1>1, <1>3, <1>7, <1>8, <1>9, <1>10, <2>1 DEF GenOK
<1>. QED
  BY <1>7, <1>11, <1>12 DEF h

(* Jobs of another kind are nothing to the generator.                       *)
LEMMA OtherJobs ==
  ASSUME NEW g, GenOK(g), NEW q, Works(q, JobSets),
         Jobs(q, "CHUNK_GENERATOR") = Jobs(g.pool, "CHUNK_GENERATOR"), NEW h,
         h = [pending |-> g.pending, job |-> g.job, answers |-> g.answers, pool |-> q]
  PROVE  GenOK(h)
BY DEF GenOK, Unanswered

----------------------------------------------------------------------------
(* Terrain persistence                                                      *)

LEMMA LoadKeeps ==
  ASSUME NEW st, StoreOK(st), NEW r, r = load_chunk(st)
  PROVE  StoreOK(r) /\ r.chunk = Kept(st) /\ r.chunk # Absent
BY Constants DEF StoreOK, load_chunk, Kept, InFile

LEMMA SetKeeps ==
  ASSUME NEW st, StoreOK(st), NEW b \in Block, NEW r, r = set_block(st, b)
  PROVE  StoreOK(r) /\ Kept(r) = b
<1>. DEFINE l == load_chunk(st)
<1>1. StoreOK(l) /\ l.chunk # Absent
  BY LoadKeeps
<1>2. r = [l EXCEPT !.chunk = b, !.modified = @ \/ l.chunk # b]
  BY DEF set_block
<1>. HIDE DEF l
<1>. QED
  BY <1>1, <1>2, Constants DEF StoreOK, Kept, InFile

LEMMA AppliedKeeps ==
  ASSUME NEW st, StoreOK(st), NEW b \in Block, NEW a, a = Applied(st, b)
  PROVE  /\ a.block \in Block /\ StoreOK(a.store)
         /\ a.block = IF Kept(st) = Nothing THEN b ELSE Kept(st)
         /\ Kept(a.store) = IF Kept(st) = b THEN Nothing ELSE Kept(st)
<1>. DEFINE l == load_chunk(st)
<1>1. StoreOK(l) /\ l.chunk = Kept(st) /\ l.chunk # Absent
  BY LoadKeeps
<1>2. a = IF l.chunk = Nothing THEN [block |-> b, store |-> l]
          ELSE [block |-> l.chunk,
                store |-> IF l.chunk = b
                          THEN [l EXCEPT !.chunk = Nothing, !.modified = TRUE] ELSE l]
  BY DEF Applied
<1>. HIDE DEF l
<1>3. CASE l.chunk = Nothing
  BY <1>1, <1>2, <1>3, Constants DEF Kept
<1>4. CASE l.chunk # Nothing
  <2>1. l.chunk \in Block
    BY <1>1, <1>4 DEF StoreOK
  <2>2. CASE l.chunk = b
    <3>. DEFINE m == [l EXCEPT !.chunk = Nothing, !.modified = TRUE]
    <3>1. StoreOK(m) /\ Kept(m) = Nothing
      BY <1>1, Constants DEF StoreOK, Kept
    <3>2. a.block = b /\ a.store = m
      BY <1>2, <1>4, <2>2
    <3>. HIDE DEF m
    <3>. QED
      BY <1>1, <1>4, <2>2, <3>1, <3>2
  <2>3. CASE l.chunk # b
    BY <1>1, <1>2, <1>4, <2>1, <2>3, Constants DEF Kept
  <2>. QED
    BY <2>2, <2>3
<1>. QED
  BY <1>3, <1>4

LEMMA UnloadKeeps ==
  ASSUME NEW st, StoreOK(st), NEW room \in BOOLEAN, NEW r, r = unload_chunk(st, room)
  PROVE  StoreOK(r) /\ Kept(r) = Kept(st)
<1>1. CASE st.chunk = Absent
  BY <1>1 DEF unload_chunk
<1>2. CASE st.chunk # Absent
  BY <1>2, Constants DEF unload_chunk, StoreOK, Kept, InFile
<1>. QED
  BY <1>1, <1>2

LEMMA ClearKeeps ==
  ASSUME NEW st, StoreOK(st), NEW r, r = clear_chunk(st)
  PROVE  StoreOK(r) /\ Kept(r) = Nothing
BY Constants DEF StoreOK, clear_chunk, Kept

----------------------------------------------------------------------------
(* Initial states                                                           *)

LEMMA InitCInv == Init => CInv
<1>. SUFFICES ASSUME Init PROVE CInv
  OBVIOUS
<1>1. Works(NewPool, JobSets) /\ Jobs(NewPool, "CHUNK_GENERATOR") = <<>>
  BY Constants, NewPoolWorks
<1>2. GenInv
  <2>1. /\ Gen = [pending |-> Gen.pending, job |-> Gen.job, answers |-> Gen.answers, pool |-> Gen.pool]
        /\ Gen.pending = None /\ Gen.job = [j \in Job |-> Idle]
        /\ Gen.answers = <<>> /\ Gen.pool = NewPool
    BY DEF Init, Gen
  <2>2. \A i \in 1..Len(<<>>) : FALSE
    OBVIOUS
  <2>3. Gen.job \in [Job -> JobState]
    BY <2>1, IdleIsAJob
  <2>4. GenOK(Gen)
    BY <1>1, <2>1, <2>2, <2>3 DEF GenOK, Unanswered
  <2>5. 1 \in FreeJobs(Gen)
    BY <2>1, Constants DEF FreeJobs, Idle
  <2>. QED
    BY <2>1, <2>4, <2>5 DEF GenInv, HasRoom, OnlyAgain
<1>3. StoreOK(store)
  BY Constants DEF Init, StoreOK
<1>4. out \in [Client -> Seq(Message)]
  BY DEF Init
<1>5. TypeOK
  <2>1. job \in [Job -> JobState] /\ answers \in Seq(Job)
    BY IdleIsAJob DEF Init
  <2>2. edits \in 0..MaxEdits /\ reloads \in 0..MaxReloads
    BY ChunksAssumption DEF Init
  <2>3. /\ pc \in {"dispatch", "sync"}
        /\ place \in [Client -> Place]
        /\ has \in [Client -> Block \cup {None}]
        /\ asked \subseteq Client /\ requests \subseteq Client
        /\ DOMAIN out = Client
        /\ pending \in Job \cup {None}
        /\ terrain \in Block \cup {None}
        /\ bus \subseteq Client
        /\ modified \in BOOLEAN
        /\ block_change \in Block \cup {None} /\ built \in Block \cup {None}
        /\ index \in DOMAIN Generated
    BY Constants DEF Init
  <2>. QED
    BY <1>3, <2>1, <2>2, <2>3 DEF TypeOK, StoreOK, JobState
<1>. QED
  BY <1>2, <1>3, <1>4, <1>5 DEF CInv

----------------------------------------------------------------------------
(* What steps have in common                                                *)

LEMMA BecomesOK ==
  ASSUME NEW h, GenOK(h), HasRoom(h), NEW t, OnlyAgain(h, t), t = terrain', Becomes(h)
  PROVE  /\ GenInv'
         /\ pending' \in Job \cup {None} /\ job' \in [Job -> JobState] /\ answers' \in Seq(Job)
<1>1. h = [pending |-> pending', job |-> job', answers |-> answers', pool |-> pool']
  BY DEF Becomes, GenOK
<1>2. Gen' = h
  BY <1>1 DEF Gen
<1>3. GenInv'
  BY <1>2 DEF GenInv, GenOK, HasRoom, OnlyAgain, FreeJobs
<1>. QED
  BY <1>1, <1>3 DEF GenOK

LEMMA GenSame ==
  ASSUME CInv, UNCHANGED <<generator, pool>>, terrain' # None => terrain # None
  PROVE  /\ GenInv'
         /\ pending' \in Job \cup {None} /\ job' \in [Job -> JobState] /\ answers' \in Seq(Job)
<1>1. PICK h : h = Gen
  OBVIOUS
<1>2. PICK t : t = terrain'
  OBVIOUS
<1>3. GenOK(h) /\ HasRoom(h) /\ OnlyAgain(h, t)
  BY <1>1, <1>2 DEF CInv, GenInv, OnlyAgain
<1>4. Becomes(h)
  BY <1>1 DEF Becomes, Gen, generator
<1>. QED
  BY <1>2, <1>3, <1>4, BecomesOK

LEMMA Sent ==
  ASSUME out \in [Client -> Seq(Message)], NEW m \in Message, NEW to, Send(to, m)
  PROVE  out' \in [Client -> Seq(Message)]
<1>1. \A s \in Seq(Message) : Append(s, m) \in Seq(Message)
  OBVIOUS
<1>. QED
  BY <1>1 DEF Send

LEMMA MessagesOK ==
  /\ \A b \in Block : ChunkMsg(b) \in Message /\ BlockMsg(b) \in Message
  /\ ErrMsg \in Message
BY DEF ChunkMsg, BlockMsg, ErrMsg, Message

----------------------------------------------------------------------------
(* The steps                                                                *)

LEMMA TerrainCInv ==
  ASSUME CInv, NEW arrived \in SUBSET requests, NEW turn \in BOOLEAN, Terrain(arrived, turn)
  PROVE  CInv'
<1>1. PICK asks \in IF terrain = None /\ Requested(arrived) # {} THEN Requested(arrived) ELSE {None} :
  LET g == IF asks = None THEN Gen ELSE generate_chunk(Gen, asks, index)
      t == Taken(g)
      h == Drained(g)
      b == Applied(store, Generated[g.job[t].index])
      inserts == t # None /\ g.job[t].is = "ok"
      unloads == turn /\ Near = {} /\ (inserts \/ terrain # None \/ h.pending # None)
      after   == IF inserts THEN b.store ELSE store
  IN
  /\ pc = "dispatch" /\ pc' = "sync"
  /\ requests' = requests \ arrived
  /\ unloads /\ h.pending # None => FreeJobs(h) # {}
  /\ terrain' = IF unloads THEN None ELSE IF inserts THEN b.block ELSE terrain
  /\ IF unloads THEN \E room \in BOOLEAN : store' = unload_chunk(after, room) ELSE store' = after
  /\ modified' = (inserts /\ terrain # None)
  /\ bus' = bus \cup (IF inserts THEN Near ELSE {})
                 \cup (IF terrain # None THEN arrived \cap Near ELSE {})
  /\ IF t # None /\ g.job[t].is = "err" /\ g.job[t].to # None
     THEN Send({g.job[t].to}, ErrMsg) /\ Len(out[g.job[t].to]) < MaxOut ELSE UNCHANGED out
  /\ Becomes(IF unloads THEN cancel_if_pending(h) ELSE h)
  /\ UNCHANGED <<place, screens, block_change, built, edits, reloads, index>>
  BY Zenon DEF Terrain
<1>. DEFINE g == IF asks = None THEN Gen ELSE generate_chunk(Gen, asks, index)
            t == Taken(g)
            h == Drained(g)
            b == Applied(store, Generated[g.job[t].index])
            inserts == t # None /\ g.job[t].is = "ok"
            unloads == turn /\ Near = {} /\ (inserts \/ terrain # None \/ h.pending # None)
            after   == IF inserts THEN b.store ELSE store
            becomes == IF unloads THEN cancel_if_pending(h) ELSE h
<1>2. /\ unloads /\ h.pending # None => FreeJobs(h) # {}
      /\ terrain' = IF unloads THEN None ELSE IF inserts THEN b.block ELSE terrain
      /\ IF unloads THEN \E room \in BOOLEAN : store' = unload_chunk(after, room) ELSE store' = after
      /\ (Send({g.job[t].to}, ErrMsg) \/ UNCHANGED out)
      /\ Becomes(becomes)
  BY <1>1
<1>3. /\ pc' = "sync" /\ requests' = requests \ arrived
      /\ modified' = (inserts /\ terrain # None)
      /\ bus' = bus \cup (IF inserts THEN Near ELSE {})
                     \cup (IF terrain # None THEN arrived \cap Near ELSE {})
      /\ UNCHANGED <<place, screens, block_change, built, edits, reloads, index>>
  BY <1>1
<1>. HIDE DEF g, t, h, b, inserts, unloads, after, becomes
<1>4. /\ GenOK(g) /\ HasRoom(g)
      /\ terrain # None => g = Gen
  <2>1. asks \in Client \cup {None} /\ (terrain # None => asks = None)
    BY DEF CInv, TypeOK, Requested, Near
  <2>2. index \in DOMAIN Generated
    BY DEF CInv, TypeOK
  <2>3. GenOK(Gen) /\ HasRoom(Gen)
    BY DEF CInv, GenInv
  <2>4. CASE asks = None
    BY <2>3, <2>4 DEF g
  <2>5. CASE asks # None
    <3>1. g = generate_chunk(Gen, asks, index)
      BY <2>5 DEF g
    <3>2. GenOK(g) /\ g.pending # None
      BY <2>1, <2>2, <2>3, <3>1, GenerateOK
    <3>. QED
      BY <2>1, <2>5, <3>2 DEF HasRoom
  <2>. QED
    BY <2>4, <2>5
<1>5. /\ GenOK(h) /\ HasRoom(h)
      /\ t \in Job \cup {None} /\ (t # None => h.pending = None)
      /\ h.pending # None => h.pending = g.pending /\ h.job = g.job
  BY <1>4, DrainedOK DEF h, t
<1>6. inserts => b.block \in Block /\ StoreOK(b.store)
  <2>. SUFFICES ASSUME inserts PROVE b.block \in Block /\ StoreOK(b.store)
    OBVIOUS
  <2>1. t \in Job
    BY <1>5 DEF inserts
  <2>2. g.job[t].index \in DOMAIN Generated
    BY <1>4, <2>1 DEF GenOK, JobState
  <2>3. Generated[g.job[t].index] \in Block
    BY <2>2, Constants
  <2>. QED
    BY <2>3, AppliedKeeps DEF b, CInv
<1>7. StoreOK(after) /\ StoreOK(store')
  <2>1. StoreOK(after)
    BY <1>6 DEF after, CInv
  <2>2. PICK st : st = store'
    OBVIOUS
  <2>3. StoreOK(st)
    BY <1>2, <2>1, <2>2, UnloadKeeps
  <2>. QED
    BY <2>1, <2>2, <2>3
<1>8. terrain' \in Block \cup {None}
  BY <1>2, <1>6 DEF CInv, TypeOK
<1>9. GenOK(becomes) /\ HasRoom(becomes) /\ OnlyAgain(becomes, terrain')
  <2>1. CASE unloads
    <3>1. becomes = cancel_if_pending(h)
      BY <2>1 DEF becomes
    <3>2. GenOK(becomes) /\ becomes.pending = None /\ FreeJobs(becomes) = FreeJobs(h)
      BY <1>5, <3>1, CancelOK
    <3>3. FreeJobs(h) # {}
      BY <1>2, <1>5, <2>1 DEF HasRoom
    <3>. QED
      BY <3>2, <3>3 DEF HasRoom, OnlyAgain
  <2>2. CASE ~unloads
    <3>1. becomes = h
      BY <2>2 DEF becomes
    <3>2. CASE inserts
      <4>1. h.pending = None
        BY <1>5, <3>2 DEF inserts
      <4>. QED
        BY <1>5, <3>1, <4>1 DEF OnlyAgain
    <3>3. CASE ~inserts
      <4>1. terrain' = terrain
        BY <1>2, <2>2, <3>3
      <4>2. OnlyAgain(Gen, terrain)
        BY DEF CInv, GenInv
      <4>. QED
        BY <1>4, <1>5, <3>1, <4>1, <4>2 DEF OnlyAgain
    <3>. QED
      BY <3>2, <3>3
  <2>. QED
    BY <2>1, <2>2
<1>10. /\ GenInv'
       /\ pending' \in Job \cup {None} /\ job' \in [Job -> JobState] /\ answers' \in Seq(Job)
  <2>1. PICK k : k = becomes
    OBVIOUS
  <2>2. PICK u : u = terrain'
    OBVIOUS
  <2>3. GenOK(k) /\ HasRoom(k) /\ OnlyAgain(k, u) /\ Becomes(k)
    BY <1>2, <1>9, <2>1, <2>2
  <2>. QED
    BY <2>2, <2>3, BecomesOK
<1>11. out' \in [Client -> Seq(Message)]
  BY <1>2, MessagesOK, Sent DEF CInv
<1>12. StoreOK(store)'
  BY <1>7 DEF StoreOK, InFile
<1>13. TypeOK'
  <2>1. bus' \subseteq Client /\ requests' \subseteq Client /\ modified' \in BOOLEAN
    BY <1>3 DEF CInv, TypeOK, Near
  <2>. QED
    BY <1>3, <1>7, <1>8, <1>10, <1>11, <2>1 DEF CInv, TypeOK, StoreOK, JobState, screens
<1>. QED
  BY <1>10, <1>11, <1>12, <1>13 DEF CInv

(* Generation is asked for, or a slow job ends.                             *)
LEMMA RegenerateCInv == ASSUME CInv, Regenerate PROVE CInv'
<1>. DEFINE g == cancel_if_pending(Gen)
            h == IF terrain = None THEN g ELSE generate_chunk(g, None, index')
<1>1. /\ index' = IF index < Len(Generated) THEN index + 1 ELSE index
      /\ FreeJobs(g) # {}
      /\ Becomes(h)
      /\ reloads < MaxReloads /\ reloads' = reloads + 1
      /\ UNCHANGED <<pc, place, screens, requests, out, terrain, bus,
                     modified, store, block_change, built, edits>>
  BY DEF Regenerate
<1>. HIDE DEF g, h
<1>2. index' \in DOMAIN Generated
  <2>1. index \in 1..Len(Generated) /\ Len(Generated) \in Nat
    BY Constants, ChunksAssumption DEF CInv, TypeOK
  <2>. QED
    BY <1>1, <2>1, Constants
<1>3. GenOK(g) /\ g.pending = None /\ HasRoom(g)
  BY <1>1, CancelOK DEF CInv, GenInv, HasRoom, g
<1>4. GenOK(h) /\ HasRoom(h) /\ OnlyAgain(h, terrain)
  <2>1. CASE terrain = None
    BY <1>3, <2>1 DEF h, OnlyAgain
  <2>2. CASE terrain # None
    <3>1. PICK v \in DOMAIN Generated : v = index'
      BY <1>2
    <3>2. h = generate_chunk(g, None, v)
      BY <2>2, <3>1 DEF h
    <3>3. GenOK(h) /\ h.pending # None /\ (h = g \/ h.job[h.pending].to = None)
      BY <1>3, <3>2, GenerateOK
    <3>. QED
      BY <1>3, <3>3 DEF HasRoom, OnlyAgain
  <2>. QED
    BY <2>1, <2>2
<1>5. /\ GenInv'
      /\ pending' \in Job \cup {None} /\ job' \in [Job -> JobState] /\ answers' \in Seq(Job)
  <2>1. PICK k : k = h
    OBVIOUS
  <2>2. PICK u : u = terrain
    OBVIOUS
  <2>3. u = terrain' /\ GenOK(k) /\ HasRoom(k) /\ OnlyAgain(k, u) /\ Becomes(k)
    BY <1>1, <1>4, <2>1, <2>2
  <2>. QED
    BY <2>3, BecomesOK
<1>6. StoreOK(store)'
  BY <1>1 DEF CInv, StoreOK, InFile
<1>7. TypeOK'
  <2>1. reloads' \in 0..MaxReloads
    BY <1>1, ChunksAssumption DEF CInv, TypeOK
  <2>. QED
    BY <1>1, <1>2, <1>5, <2>1 DEF CInv, TypeOK, JobState, screens
<1>. QED
  BY <1>1, <1>5, <1>6, <1>7 DEF CInv

LEMMA GeneratesCInv ==
  ASSUME CInv, NEW k \in DOMAIN pool.running["CHUNK_GENERATOR"], NEW is \in {"ok", "err"},
         Generates(k, is)
  PROVE  CInv'
<1>. DEFINE j == pool.running["CHUNK_GENERATOR"][k]
            h == [pending |-> pending, job |-> [job EXCEPT ![j].is = is],
                  answers |-> Append(answers, j), pool |-> finish(pool, "CHUNK_GENERATOR", k)]
<1>1. /\ job' = h.job /\ answers' = h.answers /\ pool' = h.pool
      /\ UNCHANGED <<pc, place, screens, requests, out, pending, terrain, bus,
                     modified, editing, index>>
  BY DEF Generates
<1>2. Becomes(h)
  BY <1>1 DEF Becomes
<1>3. GenOK(h) /\ HasRoom(h) /\ \A i \in Job : h.job[i].to = job[i].to
  <2>1. /\ Gen.pool = pool /\ Gen.job = job /\ Gen.pending = pending /\ Gen.answers = answers
        /\ GenOK(Gen) /\ HasRoom(Gen)
    BY DEF CInv, GenInv, Gen
  <2>2. h = Answered(Gen, k, is)
    BY <2>1 DEF Answered
  <2>3. k \in DOMAIN Gen.pool.running["CHUNK_GENERATOR"]
    BY <2>1
  <2>. HIDE DEF h
  <2>. QED
    BY <2>1, <2>2, <2>3, AnswerOK
<1>4. OnlyAgain(h, terrain)
  <2>1. pending # None => pending \in Job
    BY DEF CInv, TypeOK
  <2>2. h.pending = pending
    OBVIOUS
  <2>3. OnlyAgain(Gen, terrain) /\ Gen.pending = pending /\ Gen.job = job
    BY DEF CInv, GenInv, Gen
  <2>. HIDE DEF h
  <2>. QED
    BY <1>3, <2>1, <2>2, <2>3 DEF OnlyAgain
<1>. HIDE DEF h
<1>5. /\ GenInv'
      /\ pending' \in Job \cup {None} /\ job' \in [Job -> JobState] /\ answers' \in Seq(Job)
  <2>1. PICK m : m = h
    OBVIOUS
  <2>2. PICK u : u = terrain
    OBVIOUS
  <2>3. u = terrain' /\ GenOK(m) /\ HasRoom(m) /\ OnlyAgain(m, u) /\ Becomes(m)
    BY <1>1, <1>2, <1>3, <1>4, <2>1, <2>2
  <2>. QED
    BY <2>3, BecomesOK
<1>6. StoreOK(store)'
  BY <1>1 DEF CInv, StoreOK, InFile, editing
<1>7. TypeOK'
  BY <1>1, <1>5 DEF CInv, TypeOK, JobState, screens, editing
<1>. QED
  BY <1>1, <1>5, <1>6, <1>7 DEF CInv

(* The pool changes by jobs that serialize.                                 *)
LEMMA SnapshotsSame ==
  ASSUME CInv, Works(pool', JobSets),
         Jobs(pool', "CHUNK_GENERATOR") = Jobs(pool, "CHUNK_GENERATOR"),
         UNCHANGED <<generator, terrain>>
  PROVE  /\ GenInv'
         /\ pending' \in Job \cup {None} /\ job' \in [Job -> JobState] /\ answers' \in Seq(Job)
<1>1. PICK q : q = pool'
  OBVIOUS
<1>2. PICK u : u = terrain
  OBVIOUS
<1>3. PICK h : h = [pending |-> pending, job |-> job, answers |-> answers, pool |-> q]
  OBVIOUS
<1>4. /\ Gen.pool = pool /\ Gen.job = job /\ Gen.pending = pending /\ Gen.answers = answers
      /\ GenOK(Gen) /\ HasRoom(Gen) /\ OnlyAgain(Gen, terrain)
  BY DEF CInv, GenInv, Gen
<1>5. GenOK(h)
  <2>1. Works(q, JobSets) /\ Jobs(q, "CHUNK_GENERATOR") = Jobs(Gen.pool, "CHUNK_GENERATOR")
    BY <1>1, <1>4
  <2>. QED
    BY <1>3, <1>4, <2>1, OtherJobs
<1>6. HasRoom(h) /\ OnlyAgain(h, u)
  BY <1>2, <1>3, <1>4 DEF HasRoom, FreeJobs, OnlyAgain
<1>7. Becomes(h) /\ u = terrain'
  BY <1>1, <1>2, <1>3 DEF Becomes, generator
<1>. QED
  BY <1>5, <1>6, <1>7, BecomesOK

LEMMA ChunkSerializeCInv == ASSUME CInv, ChunkSerialize PROVE CInv'
<1>1. /\ bus' = {}
      /\ pool' = IF terrain = None THEN pool
                 ELSE spawn(pool, "CHUNK_SERIALIZER", [to |-> bus, block |-> terrain])
      /\ UNCHANGED <<pc, place, screens, requests, out, generator, terrain,
                     modified, editing, index>>
  BY DEF ChunkSerialize
<1>2. Works(pool, JobSets)
  BY DEF CInv, GenInv, GenOK, Gen
<1>3. /\ Works(pool', JobSets)
      /\ Jobs(pool', "CHUNK_GENERATOR") = Jobs(pool, "CHUNK_GENERATOR")
  <2>1. CASE terrain = None
    BY <1>1, <1>2, <2>1
  <2>2. CASE terrain # None
    <3>1. [to |-> bus, block |-> terrain] \in JobSets["CHUNK_SERIALIZER"]
      BY <2>2, KindsOfJobs DEF CInv, TypeOK, Snapshot
    <3>. QED
      BY <1>1, <1>2, <2>2, <3>1, Constants, SpawnWorks
  <2>. QED
    BY <2>1, <2>2
<1>4. /\ GenInv'
      /\ pending' \in Job \cup {None} /\ job' \in [Job -> JobState] /\ answers' \in Seq(Job)
  BY <1>1, <1>3, SnapshotsSame
<1>5. StoreOK(store)'
  BY <1>1 DEF CInv, StoreOK, InFile, editing
<1>6. TypeOK'
  BY <1>1, <1>4 DEF CInv, TypeOK, JobState, screens, editing
<1>. QED
  BY <1>1, <1>4, <1>5, <1>6 DEF CInv

LEMMA SerializesCInv ==
  ASSUME CInv, NEW k \in DOMAIN pool.running["CHUNK_SERIALIZER"], Serializes(k)
  PROVE  CInv'
<1>. DEFINE made == pool.running["CHUNK_SERIALIZER"][k]
<1>1. /\ Send(made.to, ChunkMsg(made.block))
      /\ pool' = finish(pool, "CHUNK_SERIALIZER", k)
      /\ UNCHANGED <<pc, place, screens, requests, generator, terrain, bus, modified, editing, index>>
  BY DEF Serializes
<1>2. Works(pool, JobSets)
  BY DEF CInv, GenInv, GenOK, Gen
<1>3. made \in Snapshot
  <2>1. pool.running["CHUNK_SERIALIZER"] \in Seq(Snapshot)
    BY <1>2, Constants, KindsOfJobs DEF Works, IsPool
  <2>. QED
    BY <2>1
<1>4. /\ Works(pool', JobSets)
      /\ Jobs(pool', "CHUNK_GENERATOR") = Jobs(pool, "CHUNK_GENERATOR")
  BY <1>1, <1>2, Constants, FinishWorks
<1>5. /\ GenInv'
      /\ pending' \in Job \cup {None} /\ job' \in [Job -> JobState] /\ answers' \in Seq(Job)
  BY <1>1, <1>4, SnapshotsSame
<1>6. out' \in [Client -> Seq(Message)]
  <2>1. ChunkMsg(made.block) \in Message
    BY <1>3, MessagesOK DEF Snapshot
  <2>. HIDE DEF made
  <2>. QED
    BY <1>1, <2>1, Sent DEF CInv
<1>7. StoreOK(store)'
  BY <1>1 DEF CInv, StoreOK, InFile, editing
<1>8. TypeOK'
  BY <1>1, <1>5, <1>6 DEF CInv, TypeOK, JobState, screens, editing
<1>. QED
  BY <1>5, <1>6, <1>7, <1>8 DEF CInv

(* What leaves the generator and the pool alone.                            *)
LEMMA OthersCInv ==
  ASSUME CInv, Sync \/ (\E b \in Block : Edit(b)) \/ \E clear, room \in BOOLEAN : Reload(clear, room)
  PROVE  CInv'
<1>1. CASE Sync
  <2>1. /\ pc' = "dispatch"
        /\ terrain' = IF block_change # None /\ terrain # None THEN block_change ELSE terrain
        /\ block_change' = None
        /\ bus' = IF modified THEN bus \cup Near ELSE bus
        /\ modified' = FALSE
        /\ (block_change # None /\ Send(Client, BlockMsg(block_change))) \/ UNCHANGED out
        /\ UNCHANGED <<place, screens, requests, generator, store, built,
                       edits, reloads, index, pool>>
    BY <1>1 DEF Sync
  <2>2. /\ GenInv'
        /\ pending' \in Job \cup {None} /\ job' \in [Job -> JobState] /\ answers' \in Seq(Job)
    BY <2>1, GenSame
  <2>3. out' \in [Client -> Seq(Message)]
    <3>1. CASE block_change # None /\ Send(Client, BlockMsg(block_change))
      <4>1. BlockMsg(block_change) \in Message
        BY <3>1, MessagesOK DEF CInv, TypeOK
      <4>. QED
        BY <3>1, <4>1, Sent DEF CInv
    <3>2. CASE UNCHANGED out
      BY <3>2 DEF CInv
    <3>. QED
      BY <2>1, <3>1, <3>2
  <2>4. StoreOK(store)'
    BY <2>1 DEF CInv, StoreOK, InFile
  <2>5. TypeOK'
    <3>1. bus' \subseteq Client /\ terrain' \in Block \cup {None}
      BY <2>1 DEF CInv, TypeOK, Near
    <3>. QED
      BY <2>1, <2>2, <2>3, <3>1 DEF CInv, TypeOK, JobState, screens
  <2>. QED
    BY <2>2, <2>3, <2>4, <2>5 DEF CInv
<1>2. ASSUME NEW b \in Block, Edit(b) PROVE CInv'
  <2>1. /\ edits < MaxEdits /\ edits' = edits + 1
        /\ block_change' = b /\ store' = set_block(store, b) /\ built' = b
        /\ UNCHANGED <<pc, place, screens, requests, out, generator, terrain, bus,
                       modified, reloads, index, pool>>
    BY <1>2 DEF Edit
  <2>2. /\ GenInv'
        /\ pending' \in Job \cup {None} /\ job' \in [Job -> JobState] /\ answers' \in Seq(Job)
    BY <2>1, GenSame
  <2>3. StoreOK(store')
    BY <2>1, SetKeeps DEF CInv
  <2>4. StoreOK(store)'
    BY <2>3 DEF StoreOK, InFile
  <2>5. TypeOK'
    <3>1. edits' \in 0..MaxEdits
      BY <2>1, ChunksAssumption DEF CInv, TypeOK
    <3>. QED
      BY <2>1, <2>2, <2>3, <3>1 DEF CInv, TypeOK, JobState, StoreOK, screens
  <2>. QED
    BY <2>1, <2>2, <2>4, <2>5 DEF CInv
<1>3. ASSUME NEW clear \in BOOLEAN, NEW room \in BOOLEAN, Reload(clear, room) PROVE CInv'
  <2>1. /\ reloads < MaxReloads /\ reloads' = reloads + 1
        /\ store' = unload_chunk(IF clear THEN clear_chunk(store) ELSE store, room)
        /\ built' = (IF clear THEN None ELSE built)
        /\ terrain' = None
        /\ UNCHANGED <<pc, place, screens, requests, out, generator, bus,
                       modified, block_change, edits, index, pool>>
    BY <1>3 DEF Reload
  <2>2. /\ GenInv'
        /\ pending' \in Job \cup {None} /\ job' \in [Job -> JobState] /\ answers' \in Seq(Job)
    BY <2>1, GenSame
  <2>3. StoreOK(store')
    <3>1. StoreOK(clear_chunk(store)) /\ StoreOK(store)
      BY ClearKeeps DEF CInv
    <3>. QED
      BY <2>1, <3>1, UnloadKeeps
  <2>4. StoreOK(store)'
    BY <2>3 DEF StoreOK, InFile
  <2>5. TypeOK'
    <3>1. reloads' \in 0..MaxReloads
      BY <2>1, ChunksAssumption DEF CInv, TypeOK
    <3>. QED
      BY <2>1, <2>2, <2>3, <3>1 DEF CInv, TypeOK, JobState, StoreOK, screens
  <2>. QED
    BY <2>1, <2>2, <2>4, <2>5 DEF CInv
<1>. QED
  BY <1>1, <1>2, <1>3

LEMMA ClientCInv ==
  ASSUME CInv, NEW c \in Client, (\E p \in Place : Move(c, p)) \/ ClientTick(c) \/ Receive(c)
  PROVE  CInv'
<1>1. UNCHANGED <<pc, generator, terrain, bus, modified, editing, index, pool>>
  BY DEF Move, ClientTick, Receive
<1>2. /\ GenInv'
      /\ pending' \in Job \cup {None} /\ job' \in [Job -> JobState] /\ answers' \in Seq(Job)
  BY <1>1, GenSame
<1>3. StoreOK(store)'
  BY <1>1 DEF CInv, StoreOK, InFile, editing
<1>4. /\ place' \in [Client -> Place] /\ has' \in [Client -> Block \cup {None}]
      /\ asked' \subseteq Client /\ requests' \subseteq Client
      /\ out' \in [Client -> Seq(Message)]
  <2>1. ASSUME NEW p \in Place, Move(c, p) PROVE <1>4!:
    BY <2>1 DEF CInv, TypeOK, Move, screens
  <2>2. CASE ClientTick(c)
    BY <2>2 DEF CInv, TypeOK, ClientTick, DropFar, Request, GiveUp
  <2>3. CASE Receive(c)
    <3>. DEFINE m == Head(out[c])
    <3>1. m \in Message /\ Tail(out[c]) \in Seq(Message)
      BY <2>3 DEF CInv, Receive
    <3>2. /\ out' = [out EXCEPT ![c] = Tail(@)]
          /\ has' = IF m.kind = "chunk" \/ (m.kind = "block" /\ has[c] # None)
                    THEN [has EXCEPT ![c] = m.block] ELSE has
          /\ asked' = (IF m.kind = "block" THEN asked ELSE asked \ {c})
          /\ UNCHANGED <<place, requests>>
      BY <2>3 DEF Receive
    <3>. HIDE DEF m
    <3>3. m.block \in Block \cup {None}
      BY <3>1 DEF Message
    <3>. QED
      BY <3>1, <3>2, <3>3 DEF CInv, TypeOK
  <2>. QED
    BY <2>1, <2>2, <2>3
<1>5. TypeOK'
  BY <1>1, <1>2, <1>4 DEF CInv, TypeOK, JobState, editing
<1>. QED
  BY <1>2, <1>3, <1>4, <1>5 DEF CInv

LEMMA NextCInv == CInv /\ [Next]_vars => CInv'
<1>. SUFFICES ASSUME CInv, [Next]_vars PROVE CInv'
  OBVIOUS
<1>1. ASSUME NEW arrived \in SUBSET requests, NEW turn \in BOOLEAN, Terrain(arrived, turn)
      PROVE  CInv'
  BY <1>1, TerrainCInv
<1>2. CASE Sync \/ (\E b \in Block : Edit(b)) \/ \E clear, room \in BOOLEAN : Reload(clear, room)
  BY <1>2, OthersCInv
<1>3. CASE Regenerate
  BY <1>3, RegenerateCInv
<1>4. CASE ChunkSerialize
  BY <1>4, ChunkSerializeCInv
<1>5. ASSUME NEW k \in DOMAIN pool.running["CHUNK_GENERATOR"], Generates(k, "ok") \/ Generates(k, "err")
      PROVE  CInv'
  BY <1>5, GeneratesCInv
<1>6. ASSUME NEW k \in DOMAIN pool.running["CHUNK_SERIALIZER"], Serializes(k)
      PROVE  CInv'
  BY <1>6, SerializesCInv
<1>7. ASSUME NEW c \in Client, (\E p \in Place : Move(c, p)) \/ ClientTick(c) \/ Receive(c)
      PROVE  CInv'
  BY <1>7, ClientCInv
<1>8. CASE UNCHANGED vars
  <2>1. UNCHANGED <<generator, pool>> /\ UNCHANGED vars
    BY <1>8 DEF vars, generator
  <2>2. GenInv'
    BY <2>1, GenSame DEF vars
  <2>3. StoreOK(store)' /\ TypeOK' /\ out' = out
    BY <2>1 DEF vars, CInv, StoreOK, InFile, TypeOK, screens, generator, editing
  <2>. QED
    BY <2>2, <2>3 DEF CInv
<1>. QED
  BY <1>1, <1>2, <1>3, <1>4, <1>5, <1>6, <1>7, <1>8 DEF Next, ServerTick, JobStep

LEMMA SpecCInv == Spec => []CInv
BY InitCInv, NextCInv, PTL DEF Spec

(* The chunk, its jobs and the pool agree, for any number of clients and    *)
(* jobs, however jobs are cancelled, answered late, and reloads intervene:  *)
(* a pending chunk is never forgotten (ChunkGenerator::recv_new_chunk takes *)
(* the answer of whichever job), and no kind of job waits while one of it   *)
(* may run (SlowJobPool). And the store of placed blocks agrees with itself *)
(* (StoreOK, of TerrainPersistence): a chunk is never both loaded and in    *)
(* the cache of unloaded ones, and what is not marked to be written, or is  *)
(* in the cache, is what the file says.                                     *)
THEOREM ChunksAgree == Spec => [](ChunksConsistent /\ StoreOK(store))
<1>1. CInv => ChunksConsistent
  <2>. SUFFICES ASSUME CInv PROVE ChunksConsistent
    OBVIOUS
  <2>1. PoolWorks
    BY DEF CInv, GenInv, GenOK, Gen, Works, Settled, PoolWorks
  <2>2. PendingIsAnswered
    BY DEF CInv, GenInv, GenOK, OnlyAgain, Gen, PendingIsAnswered
  <2>. QED
    BY <2>1, <2>2 DEF CInv, ChunksConsistent
<1>2. CInv => StoreOK(store)
  BY DEF CInv
<1>. QED
  BY <1>1, <1>2, SpecCInv, PTL

----------------------------------------------------------------------------
(* Placed blocks                                                            *)

LEMMA InitEInv == SameTerrain /\ Init => EInv
<1>. SUFFICES ASSUME SameTerrain, Init PROVE EInv
  OBVIOUS
<1>1. Remembers(store, built)
  BY DEF Init, Remembers, Kept, InFile
<1>. QED
  BY <1>1, InitCInv DEF Init, EInv

(* Of what was not read, unloaded or placed, the memory stays.              *)
LEMMA MemorySame ==
  ASSUME EInv, UNCHANGED <<store, built, block_change, terrain>>,
         pc' = pc
  PROVE  /\ Remembers(store', built')
         /\ block_change' # None => block_change' = built' \/ (terrain' = None /\ pc' = "sync")
         /\ block_change' = None /\ terrain' # None => Shows(terrain', built')
BY DEF EInv

LEMMA TerrainMemory ==
  ASSUME EInv, NEW arrived \in SUBSET requests, NEW turn \in BOOLEAN,
         Terrain(arrived, turn)
  PROVE  /\ Remembers(store', built')
         /\ block_change' # None => block_change' = built'
         /\ block_change' = None /\ terrain' # None => Shows(terrain', built')
<1>1. PICK asks \in IF terrain = None /\ Requested(arrived) # {} THEN Requested(arrived) ELSE {None} :
  LET g == IF asks = None THEN Gen ELSE generate_chunk(Gen, asks, index)
      t == Taken(g)
      h == Drained(g)
      b == Applied(store, Generated[g.job[t].index])
      inserts == t # None /\ g.job[t].is = "ok"
      unloads == turn /\ Near = {} /\ (inserts \/ terrain # None \/ h.pending # None)
      after   == IF inserts THEN b.store ELSE store
  IN
  /\ pc = "dispatch"
  /\ terrain' = IF unloads THEN None ELSE IF inserts THEN b.block ELSE terrain
  /\ IF unloads THEN \E room \in BOOLEAN : store' = unload_chunk(after, room) ELSE store' = after
  /\ UNCHANGED <<block_change, built>>
  BY DEF Terrain
<1>. DEFINE g == IF asks = None THEN Gen ELSE generate_chunk(Gen, asks, index)
            t == Taken(g)
            b == Applied(store, Generated[g.job[t].index])
            inserts == t # None /\ g.job[t].is = "ok"
            after   == IF inserts THEN b.store ELSE store
<1>2. /\ terrain' = None \/ terrain' = IF inserts THEN b.block ELSE terrain
      /\ (\E room \in BOOLEAN : store' = unload_chunk(after, room)) \/ store' = after
      /\ UNCHANGED <<block_change, built>>
      /\ pc = "dispatch"
  BY <1>1
<1>. HIDE DEF g, t, b, inserts, after
<1>3. GenOK(g) /\ (t # None => t \in Job)
  <2>1. asks \in Client \cup {None} /\ index \in DOMAIN Generated
    BY DEF EInv, CInv, TypeOK, Requested, Near
  <2>2. GenOK(Gen) /\ HasRoom(Gen)
    BY DEF EInv, CInv, GenInv
  <2>3. GenOK(g) /\ HasRoom(g)
    <3>1. CASE asks = None
      BY <2>2, <3>1 DEF g
    <3>2. CASE asks # None
      <4>1. g = generate_chunk(Gen, asks, index)
        BY <3>2 DEF g
      <4>2. GenOK(g) /\ g.pending # None
        BY <2>1, <2>2, <4>1, GenerateOK
      <4>. QED
        BY <4>2 DEF HasRoom
    <3>. QED
      BY <3>1, <3>2
  <2>. QED
    BY <2>3, DrainedOK DEF t
<1>4. inserts => b = Applied(store, Generated[1])
  <2>. SUFFICES ASSUME inserts PROVE b = Applied(store, Generated[1])
    OBVIOUS
  <2>1. g.job[t].index \in DOMAIN Generated
    BY <1>3 DEF inserts, GenOK, JobState
  <2>2. Generated[g.job[t].index] = Generated[1]
    BY <2>1, Constants DEF EInv, SameTerrain
  <2>. QED
    BY <2>2 DEF b
<1>5. Generated[1] \in Block /\ StoreOK(store)
  BY Constants DEF EInv, CInv
<1>6. /\ StoreOK(after) /\ Remembers(after, built)
      /\ inserts => Shows(b.block, built)
  <2>1. CASE ~inserts
    BY <1>5, <2>1 DEF after, EInv
  <2>2. CASE inserts
    <3>1. /\ StoreOK(b.store)
          /\ b.block = IF Kept(store) = Nothing THEN Generated[1] ELSE Kept(store)
          /\ Kept(b.store) = IF Kept(store) = Generated[1] THEN Nothing ELSE Kept(store)
      BY <1>4, <1>5, <2>2, AppliedKeeps
    <3>2. Remembers(store, built) /\ built \in Block \cup {None}
      BY DEF EInv, CInv, TypeOK
    <3>3. after = b.store
      BY <2>2 DEF after
    <3>. QED
      BY <1>5, <3>1, <3>2, <3>3, Constants DEF Remembers, Shows
  <2>. QED
    BY <2>1, <2>2
<1>7. Remembers(store', built')
  <2>1. Kept(store') = Kept(after)
    <3>1. PICK st : st = store'
      OBVIOUS
    <3>2. Kept(st) = Kept(after)
      BY <1>2, <1>6, <3>1, UnloadKeeps
    <3>. QED
      BY <3>1, <3>2
  <2>. QED
    BY <1>2, <1>6, <2>1 DEF Remembers
<1>8. block_change' # None => block_change' = built'
  BY <1>2 DEF EInv
<1>9. block_change' = None /\ terrain' # None => Shows(terrain', built')
  BY <1>2, <1>6 DEF EInv
<1>. QED
  BY <1>7, <1>8, <1>9, Zenon

LEMMA NextMemory ==
  ASSUME EInv, [Next]_vars
  PROVE  /\ Remembers(store', built')
         /\ block_change' # None => block_change' = built' \/ (terrain' = None /\ pc' = "sync")
         /\ block_change' = None /\ terrain' # None => Shows(terrain', built')
<1>. DEFINE Goal == /\ Remembers(store', built')
                    /\ block_change' # None => block_change' = built' \/ (terrain' = None /\ pc' = "sync")
                    /\ block_change' = None /\ terrain' # None => Shows(terrain', built')
<1>1. ASSUME NEW arrived \in SUBSET requests, NEW turn \in BOOLEAN, Terrain(arrived, turn)
      PROVE  Goal
  BY <1>1, TerrainMemory
<1>2. CASE Sync
  <2>1. /\ terrain' = IF block_change # None /\ terrain # None THEN block_change ELSE terrain
        /\ block_change' = None /\ UNCHANGED <<store, built>>
    BY <1>2 DEF Sync
  <2>2. Remembers(store', built')
    BY <2>1 DEF EInv
  <2>3. terrain' # None => Shows(terrain', built')
    BY <2>1 DEF EInv, Shows
  <2>. QED
    BY <2>1, <2>2, <2>3
<1>3. ASSUME NEW b \in Block, Edit(b) PROVE Goal
  <2>1. block_change' = b /\ store' = set_block(store, b) /\ built' = b
    BY <1>3 DEF Edit
  <2>2. Kept(store') = b
    BY <2>1, SetKeeps DEF EInv, CInv
  <2>. QED
    BY <2>1, <2>2, Constants DEF Remembers
<1>4. ASSUME NEW clear \in BOOLEAN, NEW room \in BOOLEAN, Reload(clear, room) PROVE Goal
  <2>1. /\ store' = unload_chunk(IF clear THEN clear_chunk(store) ELSE store, room)
        /\ built' = (IF clear THEN None ELSE built)
        /\ terrain' = None /\ pc = "sync" /\ UNCHANGED <<pc, block_change>>
    BY <1>4 DEF Reload
  <2>2. Kept(store') = IF clear THEN Nothing ELSE Kept(store)
    <3>1. StoreOK(clear_chunk(store)) /\ Kept(clear_chunk(store)) = Nothing /\ StoreOK(store)
      BY ClearKeeps DEF EInv, CInv
    <3>. QED
      BY <2>1, <3>1, UnloadKeeps
  <2>3. Remembers(store', built')
    BY <2>1, <2>2 DEF Remembers, EInv
  <2>. QED
    BY <2>1, <2>3
<1>5. CASE Regenerate \/ ChunkSerialize \/ JobStep
  <2>1. UNCHANGED <<store, built, block_change, terrain, pc>>
    BY <1>5 DEF Regenerate, ChunkSerialize, JobStep, Generates, Serializes, editing
  <2>. QED
    BY <2>1, MemorySame
<1>6. ASSUME NEW c \in Client, (\E p \in Place : Move(c, p)) \/ ClientTick(c) \/ Receive(c)
      PROVE  Goal
  <2>1. UNCHANGED <<store, built, block_change, terrain, pc>>
    BY <1>6 DEF Move, ClientTick, Receive, editing
  <2>. QED
    BY <2>1, MemorySame
<1>7. CASE UNCHANGED vars
  <2>1. UNCHANGED <<store, built, block_change, terrain, pc>>
    BY <1>7 DEF vars, editing
  <2>. QED
    BY <2>1, MemorySame
<1>. QED
  BY <1>1, <1>2, <1>3, <1>4, <1>5, <1>6, <1>7 DEF Next, ServerTick

LEMMA NextEInv == EInv /\ [Next]_vars => EInv'
<1>. SUFFICES ASSUME EInv, [Next]_vars PROVE EInv'
  OBVIOUS
<1>1. CInv'
  BY NextCInv DEF EInv
<1>2. Remembers(store, built)' /\ (Shows(terrain', built') => Shows(terrain, built)')
  BY NextMemory DEF Remembers, Kept, InFile, Shows
<1>3. SameTerrain'
  BY DEF EInv, SameTerrain
<1>. QED
  BY <1>1, <1>2, <1>3, NextMemory DEF EInv

(* A block that was placed is there whenever the chunk is, however often it *)
(* is unloaded, generated again, cached, or written back, if the versions   *)
(* of the index agree on what they generate (terrain_persistence.rs forgets *)
(* a block that is as generated).                                           *)
THEOREM PlacedBlocksStay == SameTerrain /\ Spec => []EditsSurvive
<1>1. EInv => EditsSurvive
  <2>. SUFFICES ASSUME EInv, terrain # None, block_change = None
                PROVE  IF built = None THEN \E v \in 1..index : terrain = Generated[v] ELSE terrain = built
    BY DEF EditsSurvive
  <2>1. Shows(terrain, built)
    BY DEF EInv
  <2>2. 1 \in 1..index
    <3>1. index \in 1..Len(Generated) /\ Len(Generated) \in Nat
      BY Constants, ChunksAssumption DEF EInv, CInv, TypeOK
    <3>. QED
      BY <3>1
  <2>. QED
    BY <2>1, <2>2 DEF Shows
<1>. QED
  BY <1>1, InitEInv, NextEInv, PTL DEF Spec
=============================================================================
