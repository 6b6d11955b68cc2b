----------------------------- MODULE CommitProofs -----------------------------
(***************************************************************************)
(* Theorems about commit_trade, for inventories of any size, any items and *)
(* stack sizes, any offers and any order of the HashMap: what was checked   *)
(* before the exchange fits, and exactly what was offered changes hands.    *)
(***************************************************************************)
EXTENDS CommitOnce, FoldLemmas

LEMMA SumOverIs == \A f, S : SumOver(f, S) = Sum(f, S)
  BY DEF SumOver, Sum

LEMMA SlotsFinite == Slots \in Nat /\ IsFiniteSet(Slot) /\ IsFiniteSet(Item)
  BY TradeCommitAssumption, FS_Interval DEF Slot

LEMMA StackFacts ==
  ASSUME NEW v \in Inventory, NEW s \in Slot
  PROVE  /\ v[s] = [item |-> v[s].item, amount |-> v[s].amount] /\ v[s].amount \in Nat
         /\ v[s] = Empty <=> v[s].item = NoItem
         /\ v[s].item # NoItem => /\ v[s].item \in Item /\ v[s].amount > 0
                                  /\ v[s].amount <= MaxAmount[v[s].item]
  BY TradeCommitAssumption DEF Inventory, Stack, Pile, Empty

(* Of an item, per slot: how much there is and how much more may come.      *)
Held(v, i)  == [s \in Slot |-> IF v[s].item = i THEN v[s].amount ELSE 0]
Rooms(v, i) == [s \in Slot |-> RoomIn(v, i, s)]
Room(v, i)  == Sum(Rooms(v, i), Slot)
Free(v)     == Slot \ Populated(v)

LEMMA HeldFacts ==
  ASSUME NEW v \in Inventory, NEW i \in Item
  PROVE  /\ \A s \in Slot : Held(v, i)[s] \in Nat /\ RoomIn(v, i, s) \in Nat /\ Rooms(v, i)[s] = RoomIn(v, i, s)
         /\ item_count(v, i) = Sum(Held(v, i), Slot)
         /\ item_count(v, i) \in Nat /\ Room(v, i) \in Nat
<1>1. ASSUME NEW s \in Slot
      PROVE  Held(v, i)[s] \in Nat /\ RoomIn(v, i, s) \in Nat /\ Rooms(v, i)[s] = RoomIn(v, i, s)
  <2>1. v[s].amount \in Nat
    BY StackFacts
  <2>2. v[s].item = i => v[s].amount <= MaxAmount[i]
    BY StackFacts, TradeCommitAssumption
  <2>3. MaxAmount[i] \in Nat
    BY TradeCommitAssumption
  <2>. QED
    BY <2>1, <2>2, <2>3 DEF Held, RoomIn, Rooms
<1>2. item_count(v, i) = Sum(Held(v, i), Slot)
  <2>1. Within(Amounts(v), SlotsWith(v, i), Slot) = Held(v, i)
    BY DEF Within, Amounts, SlotsWith, Held
  <2>2. ASSUME NEW s \in SlotsWith(v, i) PROVE Amounts(v)[s] \in Int
    <3>1. s \in Slot
      BY DEF SlotsWith
    <3>2. v[s].amount \in Nat
      BY <3>1, StackFacts
    <3>. QED
      BY <3>1, <3>2 DEF Amounts
  <2>3. SlotsWith(v, i) \in SUBSET Slot
    BY DEF SlotsWith
  <2>4. Sum(Amounts(v), SlotsWith(v, i)) = Sum(Held(v, i), Slot)
    BY <2>1, <2>2, <2>3, SlotsFinite, SumWithin
  <2>. QED
    BY <2>4, SumOverIs DEF item_count
<1>. QED
  BY <1>1, <1>2, SlotsFinite, SumNat DEF Room

----------------------------------------------------------------------------
(* Pushing one stack.                                                       *)

Gains(v, i, a) == [s \in Slot |-> Clamp(a - RoomBefore(v, i, s), 0, RoomIn(v, i, s))]

LEMMA GainsFit ==
  ASSUME NEW v \in Inventory, NEW i \in Item, NEW a \in Nat
  PROVE  /\ \A s \in Slot : Gains(v, i, a)[s] \in 0..RoomIn(v, i, s)
         /\ Sum(Gains(v, i, a), Slot) = IF a <= Room(v, i) THEN a ELSE Room(v, i)
<1>. DEFINE g == Gains(v, i, a)
            r == Rooms(v, i)
            P == {k \in 0..Slots : Sum(g, 1..k) = IF a <= Sum(r, 1..k) THEN a ELSE Sum(r, 1..k)}
<1>1. /\ \A k \in Slot : r[k] = RoomIn(v, i, k) /\ r[k] \in Nat
      /\ Slot = 1..Slots /\ Slots \in Nat /\ IsFiniteSet(Slot)
  BY HeldFacts, SlotsFinite DEF Slot
<1>2. ASSUME NEW k \in Slot
      PROVE  /\ RoomBefore(v, i, k) = Sum(r, 1..(k - 1)) /\ Sum(r, 1..(k - 1)) \in Nat
             /\ g[k] = Clamp(a - Sum(r, 1..(k - 1)), 0, r[k])
  <2>1. RoomBefore(v, i, k) = Sum(r, 1..(k - 1))
    BY SumOverIs DEF RoomBefore, Rooms
  <2>2. 1..(k - 1) \in SUBSET Slot /\ IsFiniteSet(1..(k - 1))
    BY <1>1, FS_Interval
  <2>3. Sum(r, 1..(k - 1)) \in Nat
    <3>1. \A x \in 1..(k - 1) : r[x] \in Nat
      BY <1>1, <2>2
    <3>. HIDE DEF r
    <3>. QED
      BY <2>2, <3>1, SumNat
  <2>4. g[k] = Clamp(a - RoomBefore(v, i, k), 0, RoomIn(v, i, k)) /\ r[k] = RoomIn(v, i, k)
    BY <1>1 DEF Gains
  <2>. HIDE DEF g, r
  <2>. QED
    BY <2>1, <2>3, <2>4, Zenon
<1>3. \A k \in Slot : g[k] \in 0..r[k]
  <2>. SUFFICES ASSUME NEW k \in Slot PROVE g[k] \in 0..r[k]
    OBVIOUS
  <2>1. PICK x, y : x = a - Sum(r, 1..(k - 1)) /\ y = r[k]
    OBVIOUS
  <2>2. x \in Int /\ y \in Nat
    BY <1>1, <1>2, <2>1
  <2>3. g[k] = Clamp(x, 0, y)
    BY <1>2, <2>1
  <2>. QED
    BY <2>1, <2>2, <2>3 DEF Clamp
<1>4. 0 \in P
  <2>1. 1..0 = {} /\ IsFiniteSet(1..0)
    BY FS_Interval
  <2>2. Sum(g, {}) = 0 /\ Sum(r, {}) = 0
    <3>. HIDE DEF g, r
    <3>. QED
      BY <2>1, SumOne
  <2>. QED
    BY <1>1, <2>1, <2>2
<1>5. ASSUME NEW k \in 1..Slots, k - 1 \in P PROVE k \in P
  <2>1. /\ IsFiniteSet(1..k) /\ k \in 1..k /\ (1..k) \ {k} = 1..(k - 1) /\ 1..k \subseteq Slot /\ k \in Slot
    <3>1. k \in Int /\ k >= 1 /\ k <= Slots /\ Slots \in Nat
      BY <1>1
    <3>2. IsFiniteSet(1..k)
      BY <3>1, FS_Interval
    <3>3. k \in 1..k /\ (1..k) \ {k} = 1..(k - 1) /\ 1..k \subseteq 1..Slots
      BY <3>1
    <3>. QED
      BY <1>1, <3>2, <3>3
  <2>. HIDE DEF g, r
  <2>2. (\A x \in 1..k : g[x] \in Int) /\ (\A x \in 1..k : r[x] \in Int)
    BY <1>1, <1>3, <2>1
  <2>3. Sum(g, 1..k) = g[k] + Sum(g, 1..(k - 1))
    <3>1. Sum(g, 1..k) = g[k] + Sum(g, (1..k) \ {k})
      BY <2>1, <2>2, SumOne
    <3>. QED
      BY <2>1, <3>1
  <2>4. Sum(r, 1..k) = r[k] + Sum(r, 1..(k - 1)) /\ Sum(r, 1..(k - 1)) \in Nat /\ r[k] \in Nat
    <3>0. Sum(r, 1..k) = r[k] + Sum(r, (1..k) \ {k})
      BY <2>1, <2>2, SumOne
    <3>1. Sum(r, 1..k) = r[k] + Sum(r, 1..(k - 1))
      BY <2>1, <3>0
    <3>. QED
      BY <1>1, <1>2, <2>1, <3>1
  <2>5. Sum(g, 1..(k - 1)) = IF a <= Sum(r, 1..(k - 1)) THEN a ELSE Sum(r, 1..(k - 1))
    BY <1>5
  <2>6. g[k] = Clamp(a - Sum(r, 1..(k - 1)), 0, r[k])
    BY <1>2, <2>1
  <2>7. Sum(g, 1..k) = IF a <= Sum(r, 1..k) THEN a ELSE Sum(r, 1..k)
    BY <2>3, <2>4, <2>5, <2>6 DEF Clamp
  <2>. QED
    BY <1>1, <2>7
<1>6. Slots \in P
  <2>. HIDE DEF P
  <2>1. \A k \in 0..Slots : k \in P
    BY <1>1, <1>4, <1>5, IntervalInduction
  <2>. QED
    BY <1>1, <2>1
<1>. QED
  BY <1>1, <1>3, <1>6 DEF Room

(* The stacks of the same item, filled up.                                  *)
Filled(v, i, a) == [s \in Slot |-> IF v[s].item = i THEN [v[s] EXCEPT !.amount = @ + Gains(v, i, a)[s]] ELSE v[s]]

LEMMA FilledWorks ==
  ASSUME NEW v \in Inventory, NEW i \in Item, NEW a \in Nat
  PROVE  /\ Filled(v, i, a) \in Inventory
         /\ Populated(Filled(v, i, a)) = Populated(v)
         /\ \A j \in Item \ {i} : /\ item_count(Filled(v, i, a), j) = item_count(v, j)
                                  /\ Room(Filled(v, i, a), j) = Room(v, j)
         /\ item_count(Filled(v, i, a), i) = item_count(v, i) + Sum(Gains(v, i, a), Slot)
         /\ Room(Filled(v, i, a), i) = Room(v, i) - Sum(Gains(v, i, a), Slot)
         /\ ~is_stackable(i) => Filled(v, i, a) = v /\ Room(v, i) = 0
<1>. DEFINE g == Gains(v, i, a)
            w == Filled(v, i, a)
<1>0. \A s \in Slot : g[s] \in 0..RoomIn(v, i, s)
  BY GainsFit
<1>1. ASSUME NEW s \in Slot
      PROVE  /\ w[s] \in Stack /\ w[s].item = v[s].item
             /\ (w[s] = Empty) <=> (v[s] = Empty)
             /\ w[s].amount = IF v[s].item = i THEN v[s].amount + g[s] ELSE v[s].amount
             /\ g[s] \in Nat
             /\ v[s].item # i => g[s] = 0
             /\ ~is_stackable(i) => w[s] = v[s] /\ RoomIn(v, i, s) = 0
  <2>1. v[s] \in Stack /\ w[s] = IF v[s].item = i THEN [v[s] EXCEPT !.amount = @ + g[s]] ELSE v[s]
    BY DEF Inventory, Filled
  <2>2. /\ v[s] = [item |-> v[s].item, amount |-> v[s].amount] /\ v[s].amount \in Nat
        /\ v[s].item # NoItem => v[s].amount > 0 /\ v[s].amount <= MaxAmount[v[s].item]
    BY StackFacts
  <2>3. MaxAmount[i] \in Nat /\ MaxAmount[i] > 0 /\ i # NoItem
    BY TradeCommitAssumption
  <2>4. g[s] \in Nat /\ g[s] <= RoomIn(v, i, s) /\ RoomIn(v, i, s) \in Nat
    BY <1>0, HeldFacts
  <2>5. CASE v[s].item = i
    <3>1. w[s] = [item |-> i, amount |-> v[s].amount + g[s]]
      BY <2>1, <2>2, <2>5
    <3>2. v[s].amount > 0 /\ v[s].amount <= MaxAmount[i] /\ RoomIn(v, i, s) = MaxAmount[i] - v[s].amount
      BY <2>2, <2>3, <2>5 DEF RoomIn
    <3>3. w[s] \in Pile
      BY <2>2, <2>3, <2>4, <3>1, <3>2 DEF Pile
    <3>4. ~is_stackable(i) => RoomIn(v, i, s) = 0 /\ g[s] = 0 /\ w[s] = v[s]
      <4>1. ASSUME ~is_stackable(i) PROVE RoomIn(v, i, s) = 0 /\ g[s] = 0
        BY <2>2, <2>3, <2>4, <3>2, <4>1 DEF is_stackable
      <4>2. v[s].amount + 0 = v[s].amount
        BY <2>2
      <4>. QED
        BY <2>2, <2>5, <3>1, <4>1, <4>2
    <3>. QED
      BY <2>3, <2>4, <2>5, <3>1, <3>3, <3>4 DEF Stack, Empty
  <2>6. CASE v[s].item # i
    <3>1. RoomIn(v, i, s) = 0 /\ g[s] = 0
      BY <2>4, <2>6 DEF RoomIn
    <3>. QED
      BY <2>1, <2>6, <3>1
  <2>. QED
    BY <2>5, <2>6
<1>2. w \in Inventory
  <2>1. w = [s \in Slot |-> w[s]]
    BY DEF Filled
  <2>. QED
    BY <1>1, <2>1 DEF Inventory
<1>3. Populated(w) = Populated(v)
  BY <1>1 DEF Populated
<1>4. ASSUME NEW j \in Item \ {i} PROVE item_count(w, j) = item_count(v, j) /\ Room(w, j) = Room(v, j)
  <2>1. Held(w, j) = Held(v, j)
    BY <1>1 DEF Held
  <2>2. Rooms(w, j) = Rooms(v, j)
    <3>1. \A s \in Slot : RoomIn(w, j, s) = RoomIn(v, j, s)
      BY <1>1 DEF RoomIn
    <3>. QED
      BY <3>1 DEF Rooms
  <2>. QED
    BY <1>2, <2>1, <2>2, HeldFacts DEF Room
<1>5. item_count(w, i) = item_count(v, i) + Sum(g, Slot)
  <2>1. \A s \in Slot : Held(v, i)[s] \in Int /\ g[s] \in Int /\ Held(w, i)[s] = Held(v, i)[s] + g[s]
    <3>1. ASSUME NEW s \in Slot PROVE Held(v, i)[s] \in Int /\ g[s] \in Int /\ Held(w, i)[s] = Held(v, i)[s] + g[s]
      <4>1. v[s].amount \in Nat
        BY StackFacts
      <4>. QED
        BY <1>1, <4>1 DEF Held
    <3>. QED
      BY <3>1
  <2>2. Sum(Held(w, i), Slot) = Sum(Held(v, i), Slot) + Sum(g, Slot)
    BY <2>1, SlotsFinite, SumPlus
  <2>. QED
    BY <1>2, <2>2, HeldFacts
<1>6. Room(v, i) = Room(w, i) + Sum(g, Slot)
  <2>1. \A s \in Slot : Rooms(w, i)[s] \in Int /\ g[s] \in Int /\ Rooms(v, i)[s] = Rooms(w, i)[s] + g[s]
    <3>1. ASSUME NEW s \in Slot PROVE Rooms(w, i)[s] \in Int /\ g[s] \in Int /\ Rooms(v, i)[s] = Rooms(w, i)[s] + g[s]
      <4>1. v[s].amount \in Nat /\ MaxAmount[i] \in Nat
        BY StackFacts, TradeCommitAssumption
      <4>2. RoomIn(v, i, s) = RoomIn(w, i, s) + g[s] /\ RoomIn(w, i, s) \in Int
        BY <1>1, <4>1 DEF RoomIn
      <4>. QED
        BY <1>1, <4>2 DEF Rooms
    <3>. QED
      BY <3>1
  <2>2. Sum(Rooms(v, i), Slot) = Sum(Rooms(w, i), Slot) + Sum(g, Slot)
    BY <2>1, SlotsFinite, SumPlus
  <2>. QED
    BY <2>2 DEF Room
<1>7. ASSUME ~is_stackable(i) PROVE w = v /\ Room(v, i) = 0
  <2>1. w = [s \in Slot |-> w[s]] /\ v = [s \in Slot |-> v[s]]
    BY DEF Filled, Inventory
  <2>2. \A s \in Slot : w[s] = v[s] /\ Rooms(v, i)[s] = 0
    BY <1>1, <1>7 DEF Rooms
  <2>. HIDE DEF w
  <2>. QED
    BY <2>1, <2>2, SlotsFinite, SumZero DEF Room
<1>8. Room(v, i) \in Nat /\ Room(w, i) \in Nat /\ Sum(g, Slot) \in Int
  <2>1. \A s \in Slot : g[s] \in Int
    BY <1>1
  <2>. QED
    BY <1>2, <2>1, HeldFacts, SlotsFinite, SumOne
<1>. QED
  BY <1>2, <1>3, <1>4, <1>5, <1>6, <1>7, <1>8

(* What is left of a amount units when the stacks are full.                 *)
Rest(v, i, a) == IF a <= Room(v, i) THEN 0 ELSE a - Room(v, i)

LEMMA RestIs ==
  ASSUME NEW v \in Inventory, NEW i \in Item, NEW a \in Nat
  PROVE  /\ Rest(v, i, a) \in 0..a
         /\ a - Sum(Gains(v, i, a), Slot) = Rest(v, i, a)
         /\ ~is_stackable(i) => Filled(v, i, a) = v /\ Rest(v, i, a) = a
<1>1. Room(v, i) \in Nat
  BY HeldFacts
<1>2. Sum(Gains(v, i, a), Slot) = IF a <= Room(v, i) THEN a ELSE Room(v, i)
  BY GainsFit
<1>3. ~is_stackable(i) => Filled(v, i, a) = v /\ Room(v, i) = 0
  BY FilledWorks
<1>. QED
  BY <1>1, <1>2, <1>3 DEF Rest

Put(w, s, i, a) == [w EXCEPT ![s] = [item |-> i, amount |-> a]]

LEMMA PushIs ==
  ASSUME NEW v \in Inventory, NEW f, NEW i \in Item, NEW a \in Nat
  PROVE  push([inv |-> v, full |-> f], [item |-> i, amount |-> a]) =
           IF Rest(v, i, a) = 0 THEN [inv |-> Filled(v, i, a), full |-> f]
           ELSE IF Free(v) # {}
                THEN [inv |-> Put(Filled(v, i, a), Min(Free(v)), i, Rest(v, i, a)), full |-> f]
           ELSE [inv |-> Filled(v, i, a), full |-> TRUE]
<1>. DEFINE result == [inv |-> v, full |-> f]
            stack  == [item |-> i, amount |-> a]
            gain   == [s \in Slot |-> Clamp(a - RoomBefore(v, i, s), 0, RoomIn(v, i, s))]
            fill   == IF is_stackable(i)
                      THEN [s \in Slot |-> IF v[s].item = i THEN [v[s] EXCEPT !.amount = @ + gain[s]]
                                           ELSE v[s]]
                      ELSE v
            rest   == IF is_stackable(i) THEN a - SumOver(gain, Slot) ELSE a
<1>1. result.inv = v /\ stack.item = i /\ stack.amount = a
  OBVIOUS
<1>2. gain = Gains(v, i, a)
  BY DEF Gains
<1>3. push(result, stack) =
        IF rest = 0 THEN [result EXCEPT !.inv = fill]
        ELSE IF Slot \ Populated(v) # {}
             THEN [result EXCEPT !.inv = [fill EXCEPT ![Min(Slot \ Populated(v))] =
                                            [item |-> i, amount |-> rest]]]
        ELSE [inv |-> fill, full |-> TRUE]
  BY <1>1 DEF push
<1>. HIDE DEF gain
<1>4. fill = Filled(v, i, a)
  BY <1>2, RestIs DEF Filled
<1>5. rest = Rest(v, i, a)
  <2>1. SumOver(gain, Slot) = Sum(Gains(v, i, a), Slot)
    BY <1>2, SumOverIs
  <2>. QED
    BY <2>1, RestIs
<1>. HIDE DEF fill, rest
<1>6. \A u : [result EXCEPT !.inv = u] = [inv |-> u, full |-> f]
  OBVIOUS
<1>. HIDE DEF result
<1>. QED
  BY <1>3, <1>4, <1>5, <1>6 DEF Put, Free, result

LEMMA FirstFree == \A S \in SUBSET Nat : S # {} => Min(S) \in S
<1>. SUFFICES ASSUME NEW S \in SUBSET Nat, S # {} PROVE Min(S) \in S
  OBVIOUS
<1>1. PICK m \in S : \A k \in S : <<k, m>> \notin OpToRel(<, Nat)
  BY WFMin, NatLessThanWellFounded, Zenon
<1>2. \A k \in S : ~(k < m)
  BY <1>1 DEF OpToRel
<1>3. \A k \in S : m <= k
  BY <1>2
<1>. QED
  BY <1>3, Zenon DEF Min

(* A new stack in a free slot.                                              *)
LEMMA PutWorks ==
  ASSUME NEW w \in Inventory, NEW i \in Item, NEW r \in 1..MaxAmount[i], NEW s \in Free(w)
  PROVE  /\ Put(w, s, i, r) \in Inventory
         /\ Free(Put(w, s, i, r)) = Free(w) \ {s}
         /\ \A j \in Item \ {i} : /\ item_count(Put(w, s, i, r), j) = item_count(w, j)
                                  /\ Room(Put(w, s, i, r), j) = Room(w, j)
         /\ item_count(Put(w, s, i, r), i) = item_count(w, i) + r
         /\ Room(Put(w, s, i, r), i) = Room(w, i) + (MaxAmount[i] - r)
<1>. DEFINE u == Put(w, s, i, r)
            m == MaxAmount[i] - r
            d == [t \in Slot |-> IF t = s THEN r ELSE 0]
            e == [t \in Slot |-> IF t = s THEN m ELSE 0]
<1>0. /\ MaxAmount[i] \in Nat /\ i # NoItem /\ r \in Nat /\ r > 0 /\ r <= MaxAmount[i] /\ m \in Nat
      /\ s \in Slot /\ w[s] = Empty /\ NoItem \notin Item
  BY TradeCommitAssumption DEF Free, Populated
<1>1. u[s] = [item |-> i, amount |-> r] /\ \A t \in Slot \ {s} : u[t] = w[t]
  BY <1>0 DEF Put, Inventory
<1>2. u \in Inventory
  <2>1. [item |-> i, amount |-> r] \in Pile
    BY <1>0 DEF Pile
  <2>2. u = [t \in Slot |-> u[t]] /\ \A t \in Slot : u[t] \in Stack
    BY <1>0, <1>1, <2>1 DEF Put, Inventory, Stack
  <2>. HIDE DEF u
  <2>. QED
    BY <2>2 DEF Inventory
<1>3. Free(u) = Free(w) \ {s}
  <2>1. u[s] # Empty
    BY <1>0, <1>1 DEF Empty
  <2>. HIDE DEF u
  <2>. QED
    BY <1>0, <1>1, <2>1 DEF Free, Populated
<1>. HIDE DEF u
<1>4. \A j \in Item : /\ Held(w, j)[s] = 0
                      /\ Held(u, j)[s] = IF j = i THEN r ELSE 0
                      /\ RoomIn(w, j, s) = 0
                      /\ RoomIn(u, j, s) = IF j = i THEN m ELSE 0
  BY <1>0, <1>1 DEF Held, RoomIn, Empty
<1>5. \A j \in Item, t \in Slot \ {s} : /\ Held(u, j)[t] = Held(w, j)[t]
                                        /\ RoomIn(u, j, t) = RoomIn(w, j, t)
  BY <1>1 DEF Held, RoomIn
<1>6. ASSUME NEW j \in Item \ {i} PROVE item_count(u, j) = item_count(w, j) /\ Room(u, j) = Room(w, j)
  <2>1. \A t \in Slot : Held(u, j)[t] = Held(w, j)[t] /\ Held(w, j)[t] \in Int
    BY <1>4, <1>5, HeldFacts
  <2>2. \A t \in Slot : Rooms(u, j)[t] = Rooms(w, j)[t] /\ Rooms(w, j)[t] \in Int
    BY <1>2, <1>4, <1>5, HeldFacts
  <2>3. Sum(Held(u, j), Slot) = Sum(Held(w, j), Slot)
    BY <2>1, SlotsFinite, SumSame
  <2>4. Sum(Rooms(u, j), Slot) = Sum(Rooms(w, j), Slot)
    BY <2>2, SlotsFinite, SumSame
  <2>. QED
    BY <1>2, <2>3, <2>4, HeldFacts DEF Room
<1>7. Sum(d, Slot) = r /\ Sum(e, Slot) = m
  <2>1. d[s] = r /\ e[s] = m /\ \A t \in Slot \ {s} : d[t] = 0 /\ e[t] = 0
    BY <1>0
  <2>. HIDE DEF d, e, m
  <2>2. Sum(d, Slot) = d[s]
    BY <1>0, <2>1, SlotsFinite, SumSingle
  <2>3. Sum(e, Slot) = e[s]
    BY <1>0, <2>1, SlotsFinite, SumSingle
  <2>. QED
    BY <2>1, <2>2, <2>3
<1>8. item_count(u, i) = item_count(w, i) + r
  <2>1. ASSUME NEW t \in Slot
        PROVE  Held(w, i)[t] \in Int /\ d[t] \in Int /\ Held(u, i)[t] = Held(w, i)[t] + d[t]
    BY <1>0, <1>4, <1>5, HeldFacts
  <2>. HIDE DEF d
  <2>2. Sum(Held(u, i), Slot) = Sum(Held(w, i), Slot) + Sum(d, Slot)
    BY <2>1, SlotsFinite, SumPlus
  <2>. QED
    BY <1>2, <1>7, <2>2, HeldFacts
<1>9. Room(u, i) = Room(w, i) + m
  <2>1. ASSUME NEW t \in Slot
        PROVE  Rooms(w, i)[t] \in Int /\ e[t] \in Int /\ Rooms(u, i)[t] = Rooms(w, i)[t] + e[t]
    <3>1. Rooms(w, i)[t] = RoomIn(w, i, t) /\ RoomIn(w, i, t) \in Int /\ Rooms(u, i)[t] = RoomIn(u, i, t)
      BY <1>2, HeldFacts
    <3>. QED
      BY <1>0, <1>4, <1>5, <3>1
  <2>. HIDE DEF e
  <2>2. Sum(Rooms(u, i), Slot) = Sum(Rooms(w, i), Slot) + Sum(e, Slot)
    BY <2>1, SlotsFinite, SumPlus
  <2>. QED
    BY <1>7, <2>2 DEF Room
<1>. QED
  BY <1>2, <1>3, <1>6, <1>8, <1>9 DEF u

Outcome(res, f) ==
  /\ res = [inv |-> res.inv, full |-> res.full]
  /\ res.inv \in Inventory
  /\ res.full = f \/ res.full = TRUE

LEMMA PushWorks ==
  ASSUME NEW v \in Inventory, NEW f, NEW i \in Item, NEW a \in 0..MaxAmount[i],
         NEW res, res = push([inv |-> v, full |-> f], [item |-> i, amount |-> a])
  PROVE  /\ Outcome(res, f)
         /\ \A j \in Item \ {i} : item_count(res.inv, j) = item_count(v, j) /\ Room(res.inv, j) = Room(v, j)
         /\ a <= Room(v, i) => /\ res.full = f
                               /\ Free(res.inv) = Free(v)
                               /\ item_count(res.inv, i) = item_count(v, i) + a
                               /\ Room(res.inv, i) = Room(v, i) - a
         /\ a > Room(v, i) /\ Free(v) # {} =>
              /\ res.full = f
              /\ \E s \in Free(v) : Free(res.inv) = Free(v) \ {s}
              /\ item_count(res.inv, i) = item_count(v, i) + a
              /\ Room(res.inv, i) = MaxAmount[i] - (a - Room(v, i))
<1>. DEFINE w == Filled(v, i, a)
            r == Rest(v, i, a)
            s == Min(Free(v))
<1>0. MaxAmount[i] \in Nat /\ a \in Nat /\ a <= MaxAmount[i] /\ Room(v, i) \in Nat /\ item_count(v, i) \in Nat
  BY TradeCommitAssumption, HeldFacts
<1>1. /\ w \in Inventory /\ Free(w) = Free(v)
      /\ \A j \in Item \ {i} : item_count(w, j) = item_count(v, j) /\ Room(w, j) = Room(v, j)
      /\ item_count(w, i) = item_count(v, i) + Sum(Gains(v, i, a), Slot)
      /\ Room(w, i) = Room(v, i) - Sum(Gains(v, i, a), Slot)
  BY <1>0, FilledWorks DEF Free
<1>2. Sum(Gains(v, i, a), Slot) = (IF a <= Room(v, i) THEN a ELSE Room(v, i)) /\ r \in 0..a
  BY <1>0, GainsFit, RestIs
<1>3. res = IF r = 0 THEN [inv |-> w, full |-> f]
            ELSE IF Free(v) # {} THEN [inv |-> Put(w, s, i, r), full |-> f]
            ELSE [inv |-> w, full |-> TRUE]
  BY <1>0, PushIs
<1>. HIDE DEF w
<1>4. CASE a <= Room(v, i)
  <2>1. r = 0
    BY <1>4 DEF Rest
  <2>2. res = [inv |-> w, full |-> f] /\ Outcome(res, f)
    BY <1>1, <1>3, <2>1 DEF Outcome
  <2>. QED
    BY <1>0, <1>1, <1>2, <1>4, <2>2
<1>5. CASE a > Room(v, i) /\ Free(v) # {}
  <2>1. r = a - Room(v, i) /\ r \in 1..MaxAmount[i]
    BY <1>0, <1>5 DEF Rest
  <2>2. s \in Free(w)
    <3>1. Free(v) \subseteq Nat
      BY TradeCommitAssumption DEF Free, Slot
    <3>. QED
      BY <1>1, <1>5, <3>1, FirstFree
  <2>3. res = [inv |-> Put(w, s, i, r), full |-> f]
    BY <1>3, <1>5, <2>1
  <2>. HIDE DEF r, s
  <2>4. /\ Put(w, s, i, r) \in Inventory
        /\ Free(Put(w, s, i, r)) = Free(w) \ {s}
        /\ \A j \in Item \ {i} : /\ item_count(Put(w, s, i, r), j) = item_count(w, j)
                                 /\ Room(Put(w, s, i, r), j) = Room(w, j)
        /\ item_count(Put(w, s, i, r), i) = item_count(w, i) + r
        /\ Room(Put(w, s, i, r), i) = Room(w, i) + (MaxAmount[i] - r)
    BY <1>1, <2>1, <2>2, PutWorks
  <2>5. Sum(Gains(v, i, a), Slot) = Room(v, i) /\ ~(a <= Room(v, i))
    BY <1>0, <1>2, <1>5
  <2>6. item_count(res.inv, i) = item_count(v, i) + a /\ Room(res.inv, i) = MaxAmount[i] - (a - Room(v, i))
    BY <1>0, <1>1, <2>1, <2>3, <2>4, <2>5
  <2>7. \A j \in Item \ {i} : item_count(res.inv, j) = item_count(v, j) /\ Room(res.inv, j) = Room(v, j)
    BY <1>1, <2>3, <2>4
  <2>8. Outcome(res, f) /\ res.full = f
    BY <2>3, <2>4 DEF Outcome
  <2>9. \E t \in Free(v) : Free(res.inv) = Free(v) \ {t}
    BY <1>1, <2>2, <2>3, <2>4
  <2>. QED
    BY <2>5, <2>6, <2>7, <2>8, <2>9
<1>6. CASE a > Room(v, i) /\ Free(v) = {}
  <2>1. r # 0
    BY <1>0, <1>6 DEF Rest
  <2>2. res = [inv |-> w, full |-> TRUE]
    BY <1>3, <1>6, <2>1
  <2>3. Outcome(res, f) /\ res.inv = w
    BY <1>1, <2>2 DEF Outcome
  <2>4. ~(a <= Room(v, i))
    BY <1>0, <1>6
  <2>5. \A j \in Item \ {i} : item_count(res.inv, j) = item_count(v, j) /\ Room(res.inv, j) = Room(v, j)
    BY <1>1, <2>3
  <2>. HIDE DEF r, s
  <2>. QED
    BY <1>6, <2>3, <2>4, <2>5
<1>. QED
  BY <1>0, <1>4, <1>5, <1>6

----------------------------------------------------------------------------
(* Pushing many stacks.  need is how much of each item is still to come; it *)
(* fits when the free slots, shared out among the items, have room for what *)
(* the present stacks cannot take.                                          *)
Serves(K, v, need) ==
  /\ K \in [Item -> Nat]
  /\ \A i \in Item : need[i] <= Room(v, i) + K[i] * MaxAmount[i]
  /\ Sum(K, Item) <= Cardinality(Free(v))

Fits(v, need) == \E K : Serves(K, v, need)

AmountsOf == [Item -> Nat]

LEMMA FreeFinite == \A v : IsFiniteSet(Free(v)) /\ Cardinality(Free(v)) \in Nat
<1>. SUFFICES ASSUME NEW v PROVE IsFiniteSet(Free(v)) /\ Cardinality(Free(v)) \in Nat
  OBVIOUS
<1>1. Free(v) \in SUBSET Slot
  BY DEF Free
<1>. QED
  BY <1>1, SlotsFinite, FS_Subset, FS_CardinalityType

LEMMA PushFits ==
  ASSUME NEW v \in Inventory, NEW f, NEW i \in Item, NEW a \in 0..MaxAmount[i],
         NEW res, res = push([inv |-> v, full |-> f], [item |-> i, amount |-> a]),
         NEW need \in AmountsOf, Fits(v, need), a <= need[i]
  PROVE  /\ Outcome(res, f) /\ res.full = f
         /\ \A j \in Item \ {i} : item_count(res.inv, j) = item_count(v, j)
         /\ item_count(res.inv, i) = item_count(v, i) + a
         /\ Fits(res.inv, [need EXCEPT ![i] = @ - a])
<1>. DEFINE left == [need EXCEPT ![i] = @ - a]
            M == MaxAmount[i]
<1>0. M \in Nat /\ a \in Nat /\ a <= M /\ Room(v, i) \in Nat /\ need[i] \in Nat
  BY TradeCommitAssumption, HeldFacts DEF AmountsOf
<1>1. PICK K : Serves(K, v, need)
  BY DEF Fits
<1>2. K[i] \in Nat /\ need[i] <= Room(v, i) + K[i] * M
  BY <1>1 DEF Serves
<1>3. /\ Outcome(res, f)
      /\ \A j \in Item \ {i} : item_count(res.inv, j) = item_count(v, j) /\ Room(res.inv, j) = Room(v, j)
  BY PushWorks
<1>4. left[i] = need[i] - a /\ \A j \in Item \ {i} : left[j] = need[j]
  BY DEF AmountsOf
<1>. HIDE DEF left
<1>5. CASE a <= Room(v, i)
  <2>1. /\ res.full = f
        /\ Free(res.inv) = Free(v)
        /\ item_count(res.inv, i) = item_count(v, i) + a
        /\ Room(res.inv, i) = Room(v, i) - a
    BY <1>5, PushWorks
  <2>2. left[i] <= Room(res.inv, i) + K[i] * M
    <3>1. K[i] * M \in Nat
      BY <1>0, <1>2
    <3>. QED
      BY <1>0, <1>2, <1>4, <2>1, <3>1
  <2>3. \A j \in Item \ {i} : left[j] <= Room(res.inv, j) + K[j] * MaxAmount[j]
    BY <1>1, <1>3, <1>4 DEF Serves
  <2>4. Serves(K, res.inv, left)
    BY <1>1, <2>1, <2>2, <2>3 DEF Serves
  <2>. QED
    BY <1>3, <2>1, <2>4 DEF Fits, left
<1>6. CASE ~(a <= Room(v, i))
  <2>. DEFINE L == [K EXCEPT ![i] = @ - 1]
              one == [j \in Item |-> IF j = i THEN 1 ELSE 0]
  <2>1. K[i] >= 1
    <3>1. K[i] = 0 => K[i] * M = 0
      BY <1>0
    <3>. QED
      BY <1>0, <1>2, <1>6, <3>1
  <2>2. L \in [Item -> Nat] /\ L[i] = K[i] - 1 /\ \A j \in Item \ {i} : L[j] = K[j]
    BY <1>1, <2>1 DEF Serves
  <2>3. Sum(K, Item) = Sum(L, Item) + 1 /\ Sum(L, Item) \in Nat
    <3>1. one[i] = 1 /\ \A j \in Item \ {i} : one[j] = 0
      OBVIOUS
    <3>2. \A j \in Item : L[j] \in Int /\ one[j] \in Int /\ K[j] = L[j] + one[j]
      BY <1>1, <2>2 DEF Serves
    <3>. HIDE DEF L, one
    <3>3. Sum(one, Item) = one[i]
      BY <3>1, SlotsFinite, SumSingle
    <3>4. Sum(K, Item) = Sum(L, Item) + Sum(one, Item)
      BY <3>2, SlotsFinite, SumPlus
    <3>5. Sum(L, Item) \in Nat
      <4>1. \A j \in Item : L[j] \in Nat
        BY <2>2
      <4>. QED
        BY <4>1, SlotsFinite, SumNat
    <3>. QED
      BY <3>1, <3>3, <3>4, <3>5
  <2>. HIDE DEF L
  <2>4. Free(v) # {}
    <3>1. Sum(K, Item) <= Cardinality(Free(v))
      BY <1>1 DEF Serves
    <3>2. Free(v) = {} => Cardinality(Free(v)) = 0
      BY FS_EmptySet
    <3>. HIDE DEF one
    <3>. QED
      BY <2>3, <3>1, <3>2
  <2>5. /\ res.full = f
        /\ \E s \in Free(v) : Free(res.inv) = Free(v) \ {s}
        /\ item_count(res.inv, i) = item_count(v, i) + a
        /\ Room(res.inv, i) = M - (a - Room(v, i))
    BY <1>0, <1>6, <2>4, PushWorks
  <2>6. left[i] <= Room(res.inv, i) + L[i] * M
    <3>1. L[i] * M = K[i] * M - M /\ K[i] * M \in Nat
      BY <1>0, <1>2, <2>2
    <3>. QED
      BY <1>0, <1>2, <1>4, <2>5, <3>1
  <2>7. \A j \in Item \ {i} : left[j] <= Room(res.inv, j) + L[j] * MaxAmount[j]
    BY <1>1, <1>3, <1>4, <2>2 DEF Serves
  <2>8. Sum(L, Item) <= Cardinality(Free(res.inv))
    <3>1. Cardinality(Free(res.inv)) = Cardinality(Free(v)) - 1
      BY <2>5, FreeFinite, FS_RemoveElement
    <3>. QED
      BY <1>1, <2>3, <3>1, FreeFinite DEF Serves
  <2>9. Serves(L, res.inv, left)
    BY <2>2, <2>6, <2>7, <2>8 DEF Serves
  <2>. QED
    BY <1>3, <2>5, <2>9 DEF Fits, left
<1>. QED
  BY <1>5, <1>6

(* What the stacks at the positions of a sequence hold of an item.          *)
Wants(seq, i) == [k \in DOMAIN seq |-> IF seq[k].item = i THEN seq[k].amount ELSE 0]

(* The pushes of the positions t are done: what is known of the result.     *)
Pushed(v, seq, t) ==
  {r \in [inv : Inventory, full : BOOLEAN] :
     /\ r.full = FALSE
     /\ \A i \in Item : item_count(r.inv, i) = item_count(v, i) + Sum(Wants(seq, i), t)
     /\ Fits(r.inv, [i \in Item |-> Sum(Wants(seq, i), DOMAIN seq \ t)])}

LEMMA WantsNat ==
  ASSUME NEW D, NEW seq \in [D -> Pile], NEW i \in Item
  PROVE  \A k \in D : Wants(seq, i)[k] \in Nat
  BY DEF Wants, Pile

(* What the positions t add up to, with and without one of them.            *)
LEMMA SumsTo ==
  ASSUME NEW D, IsFiniteSet(D), NEW f, \A k \in D : f[k] \in Nat, NEW t \in SUBSET D
  PROVE  /\ Sum(f, t) \in Nat
         /\ \A k \in t : f[k] \in Nat /\ Sum(f, t \ {k}) \in Nat /\ Sum(f, t) = f[k] + Sum(f, t \ {k})
<1>1. ASSUME NEW u \in SUBSET D PROVE Sum(f, u) \in Nat
  <2>1. IsFiniteSet(u) /\ \A k \in u : f[k] \in Nat
    BY FS_Subset
  <2>. QED
    BY <2>1, SumNat
<1>2. \A k \in t : f[k] \in Nat /\ t \ {k} \in SUBSET D
  OBVIOUS
<1>3. \A k \in D : f[k] \in Int
  OBVIOUS
<1>. QED
  BY <1>1, <1>2, <1>3, SumSubsets

(* One more push.                                                           *)
LEMMA PushStep ==
  ASSUME NEW v \in Inventory, NEW D, IsFiniteSet(D), NEW seq \in [D -> Pile],
         NEW t \in SUBSET D, NEW k \in t, NEW r \in Pushed(v, seq, t \ {k})
  PROVE  push(r, seq[k]) \in Pushed(v, seq, t)
<1>. DEFINE need == [j \in Item |-> Sum(Wants(seq, j), D \ (t \ {k}))]
            left == [j \in Item |-> Sum(Wants(seq, j), D \ t)]
<1>1. PICK w, b : w = r.inv /\ b = r.full
  OBVIOUS
<1>2. PICK i, a : i = seq[k].item /\ a = seq[k].amount
  OBVIOUS
<1>3. PICK res : res = push([inv |-> w, full |-> b], [item |-> i, amount |-> a])
  OBVIOUS
<1>4. /\ w \in Inventory /\ r = [inv |-> w, full |-> b] /\ b \in BOOLEAN /\ b = FALSE
      /\ \A j \in Item : item_count(w, j) = item_count(v, j) + Sum(Wants(seq, j), t \ {k})
      /\ Fits(w, need)
  BY <1>1 DEF Pushed
<1>5. k \in D /\ i \in Item /\ a \in 0..MaxAmount[i] /\ a \in Nat /\ seq[k] = [item |-> i, amount |-> a]
  <2>1. k \in D /\ seq[k] \in Pile
    OBVIOUS
  <2>2. MaxAmount[i] \in Nat
    BY <1>2, <2>1, TradeCommitAssumption DEF Pile
  <2>. QED
    BY <1>2, <2>1, <2>2 DEF Pile
<1>6. ASSUME NEW j \in Item
      PROVE  /\ need[j] = Wants(seq, j)[k] + left[j] /\ left[j] \in Nat /\ need[j] \in Nat
             /\ Sum(Wants(seq, j), t) = Wants(seq, j)[k] + Sum(Wants(seq, j), t \ {k})
             /\ Sum(Wants(seq, j), t \ {k}) \in Nat
             /\ Wants(seq, j)[k] = IF j = i THEN a ELSE 0
  <2>. DEFINE f == Wants(seq, j)
              u == D \ (t \ {k})
  <2>1. u \in SUBSET D /\ D \ t \in SUBSET D /\ k \in u /\ u \ {k} = D \ t
    BY <1>5
  <2>2. f[k] = IF j = i THEN a ELSE 0
    BY <1>2, <1>5 DEF Wants
  <2>3. need[j] = Sum(f, u) /\ left[j] = Sum(f, D \ t)
    OBVIOUS
  <2>4. \A x \in D : f[x] \in Nat
    BY WantsNat
  <2>. HIDE DEF need, left, f, u
  <2>5. Sum(f, t \ {k}) \in Nat /\ f[k] \in Nat /\ Sum(f, t) = f[k] + Sum(f, t \ {k})
    BY <2>4, SumsTo
  <2>6. Sum(f, D \ t) \in Nat /\ Sum(f, u) \in Nat
    BY <2>1, <2>4, SumsTo
  <2>7. Sum(f, u) = f[k] + Sum(f, D \ t)
    <3>1. Sum(f, u) = f[k] + Sum(f, u \ {k})
      BY <2>1, <2>4, SumsTo
    <3>. QED
      BY <2>1, <3>1
  <2>. QED
    BY <2>2, <2>3, <2>5, <2>6, <2>7 DEF f
<1>7. need \in AmountsOf /\ a <= need[i] /\ left = [need EXCEPT ![i] = @ - a]
  <2>1. \A j \in Item : need[j] \in Nat /\ left[j] = (IF j = i THEN need[j] - a ELSE need[j])
    <3>. HIDE DEF need, left
    <3>. QED
      BY <1>5, <1>6
  <2>2. a <= need[i]
    <3>. HIDE DEF need, left
    <3>. QED
      BY <1>5, <1>6
  <2>. QED
    BY <2>1, <2>2 DEF AmountsOf
<1>. HIDE DEF need, left
<1>8. /\ Outcome(res, b) /\ res.full = b
      /\ \A j \in Item \ {i} : item_count(res.inv, j) = item_count(w, j)
      /\ item_count(res.inv, i) = item_count(w, i) + a
      /\ Fits(res.inv, left)
  <2>1. /\ w \in Inventory /\ i \in Item /\ a \in 0..MaxAmount[i]
        /\ need \in AmountsOf /\ Fits(w, need) /\ a <= need[i]
    BY <1>4, <1>5, <1>7
  <2>2. /\ Outcome(res, b) /\ res.full = b
        /\ \A j \in Item \ {i} : item_count(res.inv, j) = item_count(w, j)
        /\ item_count(res.inv, i) = item_count(w, i) + a
        /\ Fits(res.inv, [need EXCEPT ![i] = @ - a])
    BY <1>3, <2>1, PushFits
  <2>. QED
    BY <1>7, <2>2
<1>9. push(r, seq[k]) = res
  BY <1>3, <1>4, <1>5
<1>10. ASSUME NEW j \in Item PROVE item_count(res.inv, j) = item_count(v, j) + Sum(Wants(seq, j), t)
  <2>1. /\ item_count(w, j) = item_count(v, j) + Sum(Wants(seq, j), t \ {k})
        /\ item_count(v, j) \in Nat /\ item_count(w, j) \in Nat
    BY <1>4, HeldFacts
  <2>2. item_count(res.inv, j) = item_count(w, j) + (IF j = i THEN a ELSE 0)
    BY <1>5, <1>8, <2>1
  <2>3. /\ Sum(Wants(seq, j), t) = (IF j = i THEN a ELSE 0) + Sum(Wants(seq, j), t \ {k})
        /\ Sum(Wants(seq, j), t \ {k}) \in Nat
    BY <1>6
  <2>. QED
    BY <1>5, <2>1, <2>2, <2>3
<1>11. DOMAIN seq = D
  OBVIOUS
<1>12. res \in [inv : Inventory, full : BOOLEAN] /\ res.full = FALSE
  BY <1>4, <1>8 DEF Outcome
<1>. QED
  BY <1>8, <1>9, <1>10, <1>11, <1>12 DEF Pushed, left

(* What push_all returns, if it is known what every push returns: V[t] are  *)
(* the results that there may be when the positions t are pushed.           *)
LEMMA PushFold ==
  ASSUME NEW v, NEW n \in Nat, NEW seq, DOMAIN seq = 1..n,
         NEW V, [inv |-> v, full |-> FALSE] \in V[{}],
         \A t \in SUBSET (1..n) : \A k \in t : \A y \in V[t \ {k}] : push(y, seq[k]) \in V[t]
  PROVE  push_all(v, seq) \in V[1..n]
<1>. DEFINE S == DOMAIN seq
            base == [inv |-> v, full |-> FALSE]
            U == UNION {V[t] : t \in SUBSET S}
            step(y, g) == push(y, g)
            Rec(H) == [t \in SUBSET S |-> IF t = {} THEN base ELSE step(H[t \ {Max(t)}], seq[Max(t)])]
            F == CHOOSE H : H = Rec(H)
            f == [p \in U \X S |-> step(p[1], seq[p[2]])]
<1>0. S = 1..n /\ IsFiniteSet(S) /\ \A t \in SUBSET S : t # {} => Max(t) \in t
  BY Positions
<1>1. FoldLeft(push, base, seq) = F[S]
  BY DEF FoldLeft, MapThenFoldSet
<1>2. ASSUME NEW t \in SUBSET S, NEW k \in t, NEW y \in V[t \ {k}] PROVE y \in U /\ step(y, seq[k]) \in V[t]
  <2>1. t \ {k} \in SUBSET S
    OBVIOUS
  <2>. QED
    BY <1>0, <2>1
<1>. HIDE DEF step, U
<1>5. StepsKnown(n, V, f)
  BY <1>0, <1>2 DEF StepsKnown
<1>6. PICK G : G = Recursion(n, base, f, G) /\ Known(n, V, G)
  <2>. HIDE DEF f, base
  <2>. QED
    BY <1>5, FoldExists DEF base
<1>7. \A t \in SUBSET S : G[t] \in V[t]
  BY <1>0, <1>6 DEF Known
<1>8. G = Rec(G)
  <2>1. ASSUME NEW t \in SUBSET S
        PROVE  G[t] = IF t = {} THEN base ELSE step(G[t \ {Max(t)}], seq[Max(t)])
    <3>1. t # {} => G[t \ {Max(t)}] \in U /\ Max(t) \in S
      BY <1>0, <1>2, <1>7
    <3>2. G[t] = IF t = {} THEN base ELSE f[<<G[t \ {Max(t)}], Max(t)>>]
      BY <1>0, <1>6 DEF Recursion
    <3>. QED
      BY <3>1, <3>2
  <2>2. G = [t \in SUBSET S |-> G[t]]
    BY <1>0, <1>6 DEF Recursion
  <2>. QED
    BY <2>1, <2>2
<1>9. F = Rec(F)
  BY <1>8
<1>. HIDE DEF F
<1>10. F[{}] = G[{}] /\ Follows(F, G, S)
  BY <1>0, <1>8, <1>9 DEF Follows
<1>11. F[S] = G[S]
  BY <1>0, <1>10, FoldUnique
<1>. QED
  BY <1>0, <1>1, <1>7, <1>11 DEF push_all

(* If it fits, all of it finds its place.                                   *)
LEMMA PushAllFits ==
  ASSUME NEW v \in Inventory, NEW n \in Nat, NEW seq \in [1..n -> Pile],
         Fits(v, [i \in Item |-> Sum(Wants(seq, i), 1..n)])
  PROVE  /\ push_all(v, seq) \in [inv : Inventory, full : BOOLEAN]
         /\ ~push_all(v, seq).full
         /\ \A i \in Item : item_count(push_all(v, seq).inv, i) =
                              item_count(v, i) + Sum(Wants(seq, i), 1..n)
<1>. DEFINE S == DOMAIN seq
            base == [inv |-> v, full |-> FALSE]
            V == [t \in SUBSET S |-> Pushed(v, seq, t)]
<1>0. S = 1..n /\ IsFiniteSet(S)
  BY Positions
<1>2. ASSUME NEW t \in SUBSET S, NEW k \in t, NEW y \in V[t \ {k}] PROVE push(y, seq[k]) \in V[t]
  <2>1. t \ {k} \in SUBSET S /\ seq \in [S -> Pile]
    BY <1>0
  <2>2. y \in Pushed(v, seq, t \ {k})
    BY <1>2, <2>1
  <2>3. push(y, seq[k]) \in Pushed(v, seq, t)
    <3>. HIDE DEF S, V
    <3>. QED
      BY <1>0, <2>1, <2>2, PushStep
  <2>. QED
    BY <2>3
<1>4. base \in V[{}]
  <2>1. {} \in SUBSET (1..n) /\ DOMAIN seq \ {} = 1..n
    OBVIOUS
  <2>2. \A i \in Item : Sum(Wants(seq, i), {}) = 0 /\ item_count(v, i) \in Nat
    <3>1. ASSUME NEW i \in Item PROVE Sum(Wants(seq, i), {}) = 0
      <4>1. \A k \in {} : Wants(seq, i)[k] \in Int
        OBVIOUS
      <4>. QED
        BY <4>1, FS_EmptySet, SumOne
    <3>. QED
      BY <3>1, HeldFacts
  <2>3. \A i \in Item : item_count(v, i) = item_count(v, i) + Sum(Wants(seq, i), {})
    BY <2>2
  <2>4. base \in Pushed(v, seq, {})
    BY <2>1, <2>3 DEF Pushed
  <2>. QED
    BY <2>1, <2>4
<1>5. push_all(v, seq) \in V[1..n]
  <2>. HIDE DEF V
  <2>. QED
    BY <1>0, <1>2, <1>4, PushFold
<1>6. push_all(v, seq) \in Pushed(v, seq, 1..n)
  BY <1>0, <1>5
<1>. QED
  BY <1>6 DEF Pushed

(* Pushing anything leaves an inventory.                                    *)
LEMMA PushAllTyped ==
  ASSUME NEW v \in Inventory, NEW n \in Nat, NEW seq, DOMAIN seq = 1..n,
         \A k \in 1..n : \E i \in Item : \E a \in 0..MaxAmount[i] : seq[k] = [item |-> i, amount |-> a]
  PROVE  push_all(v, seq).inv \in Inventory
<1>. DEFINE U == [inv : Inventory, full : BOOLEAN]
            V == [t \in SUBSET (1..n) |-> U]
<1>1. [inv |-> v, full |-> FALSE] \in V[{}]
  OBVIOUS
<1>2. ASSUME NEW t \in SUBSET (1..n), NEW k \in t, NEW y \in V[t \ {k}] PROVE push(y, seq[k]) \in V[t]
  <2>0. PICK i \in Item : \E a \in 0..MaxAmount[i] : seq[k] = [item |-> i, amount |-> a]
    OBVIOUS
  <2>1. PICK a \in 0..MaxAmount[i] : seq[k] = [item |-> i, amount |-> a]
    BY <2>0
  <2>2. t \ {k} \in SUBSET (1..n) /\ y \in U
    OBVIOUS
  <2>3. PICK w, f : w = y.inv /\ f = y.full
    OBVIOUS
  <2>4. w \in Inventory /\ f \in BOOLEAN /\ y = [inv |-> w, full |-> f]
    BY <2>2, <2>3
  <2>5. PICK res : res = push(y, seq[k])
    OBVIOUS
  <2>6. res = push([inv |-> w, full |-> f], [item |-> i, amount |-> a])
    BY <2>1, <2>4, <2>5
  <2>7. Outcome(res, f)
    BY <2>4, <2>6, PushWorks
  <2>8. res \in U
    BY <2>4, <2>7 DEF Outcome
  <2>. QED
    BY <2>5, <2>8
<1>3. push_all(v, seq) \in V[1..n]
  <2>. HIDE DEF V
  <2>. QED
    BY <1>1, <1>2, PushFold
<1>. QED
  BY <1>3

----------------------------------------------------------------------------
(* Taking out what is offered.                                              *)

(* The offered slots that are emptied.                                      *)
Emptied(v, o) == {s \in DOMAIN o : o[s] = v[s].amount}

ValidOffer(v, o) == v \in Inventory /\ IsOffer(o) /\ Offers_valid(v, o)

LEMMA TakenSlot ==
  ASSUME NEW v, NEW o, ValidOffer(v, o), NEW s \in Slot
  PROVE  /\ s \in DOMAIN o => /\ v[s].item \in Item /\ v[s].amount \in Nat /\ o[s] \in Nat /\ o[s] <= v[s].amount
                              /\ v[s].amount > 0 /\ v[s].amount <= MaxAmount[v[s].item]
                              /\ v[s].amount # o[s] => is_stackable(v[s].item)
         /\ TakenOut(v, o)[s] = IF s \in Emptied(v, o) THEN Empty
                                ELSE IF s \in DOMAIN o
                                     THEN [item |-> v[s].item, amount |-> v[s].amount - o[s]]
                                ELSE v[s]
         /\ TakenOut(v, o)[s] \in Stack
<1>. DEFINE q == Quantity(o, s)
            T == TakenOut(v, o)
<1>1. v \in Inventory /\ v[s] \in Stack /\ (v[s] = [item |-> v[s].item, amount |-> v[s].amount])
  BY StackFacts DEF ValidOffer, Inventory
<1>2. T[s] = IF v[s] = Empty \/ TakesAll(v[s], q) THEN Empty
             ELSE [v[s] EXCEPT !.amount = @ - q]
  BY DEF TakenOut, take_amount
<1>3. CASE s \notin DOMAIN o
  <2>1. q = 0 /\ s \notin Emptied(v, o)
    BY <1>3 DEF Quantity, Emptied
  <2>2. ~TakesAll(v[s], q)
    BY <2>1 DEF TakesAll
  <2>3. v[s].amount \in Nat
    BY <1>1, StackFacts
  <2>4. T[s] = v[s]
    <3>1. v[s].amount - 0 = v[s].amount
      BY <2>3
    <3>. QED
      BY <1>1, <1>2, <2>1, <2>2, <3>1
  <2>. QED
    BY <1>1, <1>3, <2>1, <2>4
<1>4. CASE s \in DOMAIN o
  <2>0. q = o[s]
    BY <1>4 DEF Quantity
  <2>1. o[s] \in Nat
    BY <1>4 DEF ValidOffer, IsOffer
  <2>2. v[s] # Empty /\ o[s] <= v[s].amount /\ (o[s] < v[s].amount => is_stackable(v[s].item))
    BY <1>4 DEF ValidOffer, Offers_valid
  <2>3. v[s].item \in Item /\ v[s].amount \in Nat /\ v[s].amount > 0 /\ v[s].amount <= MaxAmount[v[s].item]
    BY <1>1, <2>2, StackFacts
  <2>4. MaxAmount[v[s].item] \in Nat
    BY <2>3, TradeCommitAssumption
  <2>5. v[s].amount # o[s] => is_stackable(v[s].item)
    BY <2>1, <2>2, <2>3
  <2>6. TakesAll(v[s], q) <=> o[s] = v[s].amount
    BY <2>0, <2>1, <2>2, <2>3 DEF TakesAll
  <2>7. T[s] = IF o[s] = v[s].amount THEN Empty ELSE [item |-> v[s].item, amount |-> v[s].amount - o[s]]
    BY <1>1, <1>2, <2>0, <2>2, <2>6
  <2>8. s \in Emptied(v, o) <=> o[s] = v[s].amount
    BY <1>4 DEF Emptied
  <2>9. o[s] # v[s].amount => [item |-> v[s].item, amount |-> v[s].amount - o[s]] \in Pile
    BY <2>1, <2>2, <2>3, <2>4 DEF Pile
  <2>. QED
    BY <1>4, <2>1, <2>2, <2>3, <2>5, <2>7, <2>8, <2>9 DEF Stack
<1>. QED
  BY <1>3, <1>4

LEMMA OfferedSlot ==
  ASSUME NEW v, NEW o, ValidOffer(v, o), NEW s \in DOMAIN o
  PROVE  s \in Slot /\ v[s].item \in Item /\ v[s].item # NoItem /\ o[s] \in Nat
<1>1. s \in Slot
  BY DEF ValidOffer, IsOffer
<1>2. v[s].item \in Item /\ o[s] \in Nat
  BY <1>1, TakenSlot
<1>. QED
  BY <1>1, <1>2, TradeCommitAssumption

Offered(v, o, i) == Within(o, OfferedSlots(v, o, i), Slot)

LEMMA OfferedFacts ==
  ASSUME NEW v, NEW o, ValidOffer(v, o), NEW i \in Item
  PROVE  /\ OfferedSlots(v, o, i) \in SUBSET Slot
         /\ \A s \in Slot : /\ s \in OfferedSlots(v, o, i) <=> s \in DOMAIN o /\ v[s].item = i
                            /\ Offered(v, o, i)[s] = IF s \in OfferedSlots(v, o, i) THEN o[s] ELSE 0
                            /\ Offered(v, o, i)[s] \in Nat
         /\ quantity_sold(v, o, i) = Sum(Offered(v, o, i), Slot)
         /\ quantity_sold(v, o, i) \in Nat
<1>1. OfferedSlots(v, o, i) \in SUBSET Slot
  BY DEF OfferedSlots, ValidOffer, IsOffer
<1>2. \A s \in OfferedSlots(v, o, i) : o[s] \in Nat
  BY <1>1, TakenSlot DEF OfferedSlots
<1>3. ASSUME NEW s \in Slot
      PROVE  /\ s \in OfferedSlots(v, o, i) <=> s \in DOMAIN o /\ v[s].item = i
             /\ Offered(v, o, i)[s] = IF s \in OfferedSlots(v, o, i) THEN o[s] ELSE 0
             /\ Offered(v, o, i)[s] \in Nat
  <2>1. s \in OfferedSlots(v, o, i) <=> s \in DOMAIN o /\ v[s].item = i
    BY DEF OfferedSlots
  <2>2. Offered(v, o, i)[s] = IF s \in OfferedSlots(v, o, i) THEN o[s] ELSE 0
    BY DEF Offered, Within
  <2>. QED
    BY <1>2, <2>1, <2>2
<1>4. quantity_sold(v, o, i) = Sum(Offered(v, o, i), Slot)
  <2>1. \A s \in OfferedSlots(v, o, i) : o[s] \in Int
    BY <1>2
  <2>2. Sum(o, OfferedSlots(v, o, i)) = Sum(Offered(v, o, i), Slot)
    BY <1>1, <2>1, SlotsFinite, SumWithin DEF Offered
  <2>. QED
    BY <2>2, SumOverIs DEF quantity_sold
<1>5. Sum(Offered(v, o, i), Slot) \in Nat
  BY <1>3, SlotsFinite, SumNat
<1>. QED
  BY <1>1, <1>3, <1>4, <1>5

LEMMA TakenOutCounts ==
  ASSUME NEW v, NEW o, ValidOffer(v, o)
  PROVE  /\ TakenOut(v, o) \in Inventory
         /\ \A i \in Item : item_count(TakenOut(v, o), i) = item_count(v, i) - quantity_sold(v, o, i)
<1>. DEFINE T == TakenOut(v, o)
<1>0. v \in Inventory
  BY DEF ValidOffer
<1>1. T \in Inventory
  <2>1. T = [s \in Slot |-> T[s]]
    BY DEF TakenOut
  <2>2. \A s \in Slot : T[s] \in Stack
    BY TakenSlot
  <2>. HIDE DEF T
  <2>. QED
    BY <2>1, <2>2 DEF Inventory
<1>2. ASSUME NEW i \in Item PROVE item_count(T, i) = item_count(v, i) - quantity_sold(v, o, i)
  <2>1. ASSUME NEW s \in Slot
        PROVE  /\ Held(T, i)[s] \in Int /\ Offered(v, o, i)[s] \in Int
               /\ Held(v, i)[s] = Held(T, i)[s] + Offered(v, o, i)[s]
    <3>1. T[s] = IF s \in Emptied(v, o) THEN Empty
                 ELSE IF s \in DOMAIN o THEN [item |-> v[s].item, amount |-> v[s].amount - o[s]]
                 ELSE v[s]
      BY TakenSlot
    <3>2. /\ s \in OfferedSlots(v, o, i) <=> s \in DOMAIN o /\ v[s].item = i
          /\ Offered(v, o, i)[s] = IF s \in OfferedSlots(v, o, i) THEN o[s] ELSE 0
          /\ Offered(v, o, i)[s] \in Nat
      BY OfferedFacts
    <3>3. v[s].amount \in Nat /\ i # NoItem
      BY <1>0, StackFacts, TradeCommitAssumption
    <3>4. s \in DOMAIN o => o[s] \in Nat /\ o[s] <= v[s].amount
      BY TakenSlot
    <3>5. s \in Emptied(v, o) <=> s \in DOMAIN o /\ o[s] = v[s].amount
      BY DEF Emptied
    <3>6. /\ Held(T, i)[s] = IF T[s].item = i THEN T[s].amount ELSE 0
          /\ Held(v, i)[s] = IF v[s].item = i THEN v[s].amount ELSE 0
      BY DEF Held
    <3>. HIDE DEF T
    <3>7. CASE s \in Emptied(v, o)
      <4>1. T[s].item = NoItem
        BY <3>1, <3>7 DEF Empty
      <4>. QED
        BY <3>2, <3>3, <3>4, <3>5, <3>6, <3>7, <4>1
    <3>8. CASE s \in DOMAIN o /\ s \notin Emptied(v, o)
      <4>1. T[s].item = v[s].item /\ T[s].amount = v[s].amount - o[s]
        BY <3>1, <3>8
      <4>. QED
        BY <3>2, <3>3, <3>4, <3>6, <3>8, <4>1
    <3>9. CASE s \notin DOMAIN o
      <4>1. T[s] = v[s]
        BY <3>1, <3>5, <3>9
      <4>. QED
        BY <3>2, <3>3, <3>6, <3>9, <4>1
    <3>. QED
      BY <3>7, <3>8, <3>9
  <2>2. Sum(Held(v, i), Slot) = Sum(Held(T, i), Slot) + Sum(Offered(v, o, i), Slot)
    BY <2>1, SlotsFinite, SumPlus
  <2>3. /\ item_count(v, i) = Sum(Held(v, i), Slot) /\ item_count(T, i) = Sum(Held(T, i), Slot)
        /\ item_count(v, i) \in Nat /\ item_count(T, i) \in Nat
    BY <1>0, <1>1, HeldFacts
  <2>4. quantity_sold(v, o, i) = Sum(Offered(v, o, i), Slot) /\ quantity_sold(v, o, i) \in Nat
    BY OfferedFacts
  <2>. QED
    BY <2>2, <2>3, <2>4
<1>. QED
  BY <1>1, <1>2

(* What party_capacity promises is there once the offer is out.             *)
LEMMA TakenOutRoom ==
  ASSUME NEW v, NEW o, ValidOffer(v, o), NEW i \in Item
  PROVE  Room(TakenOut(v, o), i) = party_capacity(v, o, i) /\ party_capacity(v, o, i) \in Nat
<1>. DEFINE T == TakenOut(v, o)
            full == FullStacks(v, o, i)
            part == OfferedSlots(v, o, i) \ full
            A == Within(Rooms(v, i), full, Slot)
            B == Within(o, part, Slot)
            h == [s \in Slot |-> Rooms(v, i)[s] + B[s]]
<1>0. v \in Inventory /\ T \in Inventory
  BY TakenOutCounts DEF ValidOffer
<1>1. full \in SUBSET Slot /\ part \in SUBSET Slot
  BY OfferedFacts DEF FullStacks
<1>2. ASSUME NEW s \in Slot
      PROVE  /\ Rooms(T, i)[s] \in Int /\ A[s] \in Int /\ Rooms(v, i)[s] \in Int /\ B[s] \in Int
             /\ Rooms(v, i)[s] + B[s] = Rooms(T, i)[s] + A[s]
  <2>1. T[s] = IF s \in Emptied(v, o) THEN Empty
               ELSE IF s \in DOMAIN o THEN [item |-> v[s].item, amount |-> v[s].amount - o[s]]
               ELSE v[s]
    BY TakenSlot
  <2>2. s \in OfferedSlots(v, o, i) <=> s \in DOMAIN o /\ v[s].item = i
    BY OfferedFacts
  <2>3. /\ s \in full <=> s \in Emptied(v, o) /\ v[s].item = i
        /\ s \in part <=> s \in DOMAIN o /\ s \notin Emptied(v, o) /\ v[s].item = i
    BY <2>2 DEF FullStacks, Emptied
  <2>4. v[s].amount \in Nat /\ i # NoItem /\ MaxAmount[i] \in Nat
    BY <1>0, StackFacts, TradeCommitAssumption
  <2>5. s \in DOMAIN o => o[s] \in Nat
    BY TakenSlot
  <2>6. /\ Rooms(T, i)[s] = IF T[s].item = i THEN MaxAmount[i] - T[s].amount ELSE 0
        /\ Rooms(v, i)[s] = IF v[s].item = i THEN MaxAmount[i] - v[s].amount ELSE 0
    BY DEF Rooms, RoomIn
  <2>7. A[s] = (IF s \in full THEN Rooms(v, i)[s] ELSE 0) /\ B[s] = IF s \in part THEN o[s] ELSE 0
    BY DEF Within
  <2>8. s \in Emptied(v, o) => s \in DOMAIN o
    BY DEF Emptied
  <2>. HIDE DEF T, full, part, A, B
  <2>9. CASE s \in Emptied(v, o)
    <3>1. T[s].item = NoItem
      BY <2>1, <2>9 DEF Empty
    <3>. QED
      BY <2>3, <2>4, <2>6, <2>7, <2>9, <3>1
  <2>10. CASE s \in DOMAIN o /\ s \notin Emptied(v, o)
    <3>1. T[s].item = v[s].item /\ T[s].amount = v[s].amount - o[s]
      BY <2>1, <2>10
    <3>. QED
      BY <2>3, <2>4, <2>5, <2>6, <2>7, <2>10, <3>1
  <2>11. CASE s \notin DOMAIN o
    <3>1. T[s] = v[s]
      BY <2>1, <2>8, <2>11
    <3>. QED
      BY <2>3, <2>4, <2>6, <2>7, <2>8, <2>11, <3>1
  <2>. QED
    BY <2>9, <2>10, <2>11
<1>3. Sum(Rooms(v, i), SlotsWith(v, i)) = Sum(Rooms(v, i), Slot)
  <2>. DEFINE R == Rooms(v, i)
              U == SlotsWith(v, i)
              W == Within(R, U, Slot)
  <2>1. U \in SUBSET Slot
    BY DEF SlotsWith
  <2>2. \A s \in Slot : R[s] \in Int /\ (s \notin U => R[s] = 0)
    BY <1>2 DEF SlotsWith, Rooms, RoomIn
  <2>3. \A s \in Slot : W[s] = R[s]
    BY <2>2 DEF Within
  <2>. HIDE DEF R, U
  <2>4. \A s \in U : R[s] \in Int
    BY <2>1, <2>2
  <2>5. Sum(R, U) = Sum(W, Slot)
    BY <2>1, <2>4, SlotsFinite, SumWithin
  <2>. HIDE DEF W
  <2>6. \A s \in Slot : W[s] \in Int /\ W[s] = R[s]
    BY <2>2, <2>3
  <2>7. Sum(W, Slot) = Sum(R, Slot)
    BY <2>6, SlotsFinite, SumSame
  <2>. QED
    BY <2>5, <2>7 DEF R, U
<1>4. unusable_capacity(v, o, i) = Sum(A, Slot)
  <2>1. \A s \in full : Rooms(v, i)[s] \in Int
    BY <1>1, <1>2
  <2>. HIDE DEF full
  <2>2. Sum(Rooms(v, i), full) = Sum(A, Slot)
    BY <1>1, <2>1, SlotsFinite, SumWithin
  <2>3. unusable_capacity(v, o, i) = Sum(Rooms(v, i), full)
    BY SumOverIs DEF unusable_capacity, Rooms, full
  <2>. QED
    BY <2>2, <2>3
<1>5. freed_capacity(v, o, i) = Sum(B, Slot)
  <2>1. \A s \in part : o[s] \in Int
    <3>1. \A s \in part : s \in DOMAIN o
      BY DEF OfferedSlots
    <3>2. \A s \in DOMAIN o : o[s] \in Nat
      BY OfferedSlot
    <3>. HIDE DEF part
    <3>. QED
      BY <3>1, <3>2
  <2>2. freed_capacity(v, o, i) = Sum(o, part)
    BY SumOverIs DEF freed_capacity
  <2>. HIDE DEF part
  <2>3. Sum(o, part) = Sum(B, Slot)
    BY <1>1, <2>1, SlotsFinite, SumWithin
  <2>. QED
    BY <2>2, <2>3
<1>6. party_capacity(v, o, i) = Sum(Rooms(v, i), Slot) - Sum(A, Slot) + Sum(B, Slot)
  <2>1. SumOver([s \in Slot |-> RoomIn(v, i, s)], SlotsWith(v, i)) = Sum(Rooms(v, i), Slot)
    BY <1>3, SumOverIs DEF Rooms
  <2>. HIDE DEF A, B
  <2>. QED
    BY <1>4, <1>5, <2>1 DEF party_capacity
<1>. HIDE DEF T, A, B
<1>7. Sum(h, Slot) = Sum(Rooms(v, i), Slot) + Sum(B, Slot)
  <2>1. \A s \in Slot : Rooms(v, i)[s] \in Int /\ B[s] \in Int /\ h[s] = Rooms(v, i)[s] + B[s]
    BY <1>2
  <2>. HIDE DEF h
  <2>. QED
    BY <2>1, SlotsFinite, SumPlus
<1>8. Sum(h, Slot) = Sum(Rooms(T, i), Slot) + Sum(A, Slot)
  <2>1. \A s \in Slot : Rooms(T, i)[s] \in Int /\ A[s] \in Int /\ h[s] = Rooms(T, i)[s] + A[s]
    BY <1>2
  <2>. HIDE DEF h
  <2>. QED
    BY <2>1, SlotsFinite, SumPlus
<1>9. Sum(A, Slot) \in Int /\ Sum(B, Slot) \in Int
  <2>1. (\A s \in Slot : A[s] \in Int) /\ (\A s \in Slot : B[s] \in Int)
    BY <1>2
  <2>. QED
    BY <2>1, SlotsFinite, SumOne
<1>10. Sum(Rooms(v, i), Slot) \in Nat /\ Sum(Rooms(T, i), Slot) \in Nat
  BY <1>0, HeldFacts DEF Room
<1>11. Sum(Rooms(T, i), Slot) = party_capacity(v, o, i)
  BY <1>6, <1>7, <1>8, <1>9, <1>10
<1>. QED
  BY <1>10, <1>11 DEF Room, T

LEMMA TakenOutFree ==
  ASSUME NEW v, NEW o, ValidOffer(v, o)
  PROVE  /\ IsFiniteSet(Emptied(v, o)) /\ Emptied(v, o) \subseteq Slot
         /\ Cardinality(Emptied(v, o)) \in Nat /\ Cardinality(Populated(v)) \in Nat
         /\ Cardinality(Free(TakenOut(v, o))) = Slots - Cardinality(Populated(v)) + Cardinality(Emptied(v, o))
<1>. DEFINE E == Emptied(v, o)
            T == TakenOut(v, o)
            P == Populated(v)
<1>1. E \subseteq Slot /\ P \subseteq Slot
  BY DEF Emptied, Populated, ValidOffer, IsOffer
<1>2. IsFiniteSet(E) /\ IsFiniteSet(P) /\ Cardinality(E) \in Nat /\ Cardinality(P) \in Nat
  <2>. HIDE DEF E, P
  <2>1. IsFiniteSet(E) /\ IsFiniteSet(P)
    BY <1>1, SlotsFinite, FS_Subset
  <2>. QED
    BY <2>1, FS_CardinalityType
<1>3. Cardinality(Slot) = Slots /\ Slots \in Nat
  <2>1. Slots \in Nat \ {0}
    BY TradeCommitAssumption
  <2>2. Cardinality(1..Slots) = Slots
    BY <2>1, FS_Interval
  <2>. QED
    BY <2>1, <2>2 DEF Slot
<1>4. ASSUME NEW s \in Slot PROVE (s \in Free(T)) <=> (s \in Free(v) \/ s \in E)
  <2>1. T[s] = IF s \in E THEN Empty
               ELSE IF s \in DOMAIN o THEN [item |-> v[s].item, amount |-> v[s].amount - o[s]]
               ELSE v[s]
    BY TakenSlot
  <2>2. s \in DOMAIN o => v[s].item # NoItem
    BY OfferedSlot
  <2>3. s \in DOMAIN o /\ s \notin E => T[s] # Empty /\ v[s] # Empty
    BY <2>1, <2>2 DEF Empty
  <2>4. (s \in Free(T) <=> T[s] = Empty) /\ (s \in Free(v) <=> v[s] = Empty)
    BY DEF Free, Populated
  <2>. HIDE DEF E, T
  <2>. QED
    BY <2>1, <2>3, <2>4
<1>5. Free(T) = Free(v) \cup E
  <2>1. Free(T) \subseteq Slot /\ Free(v) \subseteq Slot
    BY DEF Free
  <2>. HIDE DEF T, E
  <2>. QED
    BY <1>1, <1>4, <2>1
<1>6. Free(v) \cap E = {}
  <2>1. ASSUME NEW s \in E PROVE s \notin Free(v)
    <3>1. s \in DOMAIN o /\ s \in Slot
      BY <1>1 DEF Emptied
    <3>2. v[s].item # NoItem
      BY <3>1, OfferedSlot
    <3>3. v[s] # Empty
      BY <3>2 DEF Empty
    <3>. QED
      BY <3>1, <3>3 DEF Free, Populated
  <2>. QED
    BY <2>1
<1>7. Cardinality(Free(v)) = Slots - Cardinality(P)
  <2>1. Slot \cap P = P
    BY <1>1
  <2>. HIDE DEF P
  <2>2. Cardinality(Slot \ P) = Cardinality(Slot) - Cardinality(Slot \cap P)
    BY SlotsFinite, FS_Difference
  <2>. QED
    BY <1>3, <2>1, <2>2 DEF Free, P
<1>8. Cardinality(Free(T)) = Cardinality(Free(v)) + Cardinality(E)
  <2>. HIDE DEF E, T
  <2>1. Cardinality(Free(v) \cup E) = Cardinality(Free(v)) + Cardinality(E) - Cardinality(Free(v) \cap E)
    BY <1>2, FreeFinite, FS_Union
  <2>2. Cardinality({}) = 0 /\ Cardinality(Free(v)) \in Nat
    BY FreeFinite, FS_EmptySet
  <2>3. Cardinality(Free(T)) = Cardinality(Free(v)) + Cardinality(E) - 0
    BY <1>5, <1>6, <2>1, <2>2, Zenon
  <2>. QED
    BY <1>2, <2>2, <2>3
<1>. HIDE DEF E, T, P
<1>9. Cardinality(Free(T)) = Slots - Cardinality(P) + Cardinality(E)
  BY <1>2, <1>3, <1>7, <1>8
<1>. QED
  BY <1>1, <1>2, <1>9 DEF E, T, P

----------------------------------------------------------------------------
(* The arithmetic before the exchange: what Enough_space allows, fits.      *)

LEMMA RoundUp == \A x \in Nat, m \in Nat \ {0} : x \div m \in Nat /\ x <= ((x \div m) + 1) * m
<1>. SUFFICES ASSUME NEW x \in Nat, NEW m \in Nat \ {0}
              PROVE  x \div m \in Nat /\ x <= ((x \div m) + 1) * m
  OBVIOUS
<1>1. x \div m \in Nat
  OBVIOUS
<1>2. x = (m * (x \div m)) + (x % m) /\ x % m < m /\ x % m \in Nat
  OBVIOUS
<1>3. \A q \in Nat : m * q + m = (q + 1) * m /\ m * q \in Nat
  OBVIOUS
<1>. QED
  BY <1>1, <1>2, <1>3

LEMMA NewSlotsServe ==
  ASSUME NEW v, NEW o, ValidOffer(v, o), NEW w, NEW p, ValidOffer(w, p), NEW i \in Item
  PROVE  /\ new_slots(v, o, w, p, i) \in Nat
         /\ quantity_sold(w, p, i) \in Nat
         /\ quantity_sold(w, p, i) <= Room(TakenOut(v, o), i) + new_slots(v, o, w, p, i) * MaxAmount[i]
<1>1. PICK sold, capacity, m : /\ sold = quantity_sold(w, p, i) /\ capacity = party_capacity(v, o, i)
                               /\ m = MaxAmount[i]
  OBVIOUS
<1>2. sold \in Nat /\ capacity \in Nat /\ m \in Nat \ {0} /\ Room(TakenOut(v, o), i) = capacity
  BY <1>1, OfferedFacts, TakenOutRoom, TradeCommitAssumption
<1>3. CASE ~is_stackable(i)
  <2>. DEFINE S == OfferedSlots(w, p, i)
              n == Cardinality(S)
              one == [s \in S |-> 1]
  <2>1. S \in SUBSET Slot /\ S \subseteq DOMAIN p /\ \A s \in S : w[s].item = i
    BY OfferedFacts DEF OfferedSlots
  <2>2. m = 1
    BY <1>1, <1>2, <1>3 DEF is_stackable
  <2>3. ASSUME NEW s \in S PROVE p[s] \in Int /\ one[s] \in Int /\ p[s] <= one[s]
    <3>1. s \in Slot /\ s \in DOMAIN p /\ w[s].item = i
      BY <2>1
    <3>2. p[s] \in Nat /\ p[s] <= w[s].amount /\ w[s].amount \in Nat /\ w[s].amount <= MaxAmount[w[s].item]
      BY <3>1, TakenSlot
    <3>3. w[s].amount <= 1
      BY <1>1, <2>2, <3>1, <3>2
    <3>. QED
      BY <3>2, <3>3
  <2>. HIDE DEF S
  <2>4. IsFiniteSet(S)
    BY <2>1, SlotsFinite, FS_Subset
  <2>5. n = Sum(one, S) /\ n \in Nat
    <3>1. \A s \in S : one[s] = 1
      OBVIOUS
    <3>. HIDE DEF one
    <3>. QED
      BY <2>4, <3>1, CardinalityIsSum, FS_CardinalityType
  <2>6. Sum(p, S) <= Sum(one, S)
    <3>. HIDE DEF one
    <3>. QED
      BY <2>3, <2>4, SumLeq
  <2>7. sold = Sum(p, S)
    BY <1>1, SumOverIs DEF quantity_sold, S
  <2>8. new_slots(v, o, w, p, i) = n
    BY <1>3 DEF new_slots, S
  <2>. HIDE DEF n
  <2>9. sold <= capacity + n * m
    BY <1>2, <2>2, <2>5, <2>6, <2>7
  <2>. QED
    BY <1>1, <1>2, <2>5, <2>8, <2>9
<1>4. CASE is_stackable(i) /\ capacity < sold
  <2>1. PICK x : x = sold - capacity
    OBVIOUS
  <2>2. x \in Nat
    BY <1>2, <1>4, <2>1
  <2>3. x \div m \in Nat /\ x <= ((x \div m) + 1) * m
    BY <1>2, <2>2, RoundUp
  <2>4. new_slots(v, o, w, p, i) = (x \div m) + 1
    BY <1>1, <1>4, <2>1 DEF new_slots, NewStacks
  <2>5. PICK k : k = (x \div m) + 1
    OBVIOUS
  <2>6. k \in Nat /\ k * m \in Nat /\ x <= k * m
    BY <1>2, <2>3, <2>5
  <2>7. sold <= capacity + k * m
    BY <1>2, <2>1, <2>2, <2>6
  <2>. QED
    BY <1>1, <1>2, <2>4, <2>5, <2>6, <2>7
<1>5. CASE is_stackable(i) /\ ~(capacity < sold)
  <2>1. new_slots(v, o, w, p, i) = 0
    BY <1>1, <1>5 DEF new_slots
  <2>2. 0 * m = 0 /\ sold <= capacity + 0
    BY <1>2, <1>5
  <2>. QED
    BY <1>1, <1>2, <2>1, <2>2
<1>. QED
  BY <1>3, <1>4, <1>5

LEMMA EnoughSpaceFits ==
  ASSUME NEW v, NEW o, ValidOffer(v, o), NEW w, NEW p, ValidOffer(w, p), Enough_space(v, o, w, p)
  PROVE  Fits(TakenOut(v, o), [i \in Item |-> quantity_sold(w, p, i)])
<1>. DEFINE K == [i \in Item |-> new_slots(v, o, w, p, i)]
            E == [i \in Item |-> Cardinality(FullStacks(v, o, i))]
            D == [i \in Item |-> new_slots(v, o, w, p, i) - Cardinality(FullStacks(v, o, i))]
            kind == [s \in Slot |-> v[s].item]
            T == TakenOut(v, o)
            need == [i \in Item |-> quantity_sold(w, p, i)]
<1>1. ASSUME NEW i \in Item PROVE FullStacks(v, o, i) = OfKind(Emptied(v, o), kind, i)
  <2>1. Emptied(v, o) \subseteq Slot
    BY TakenOutFree
  <2>. QED
    BY <2>1 DEF FullStacks, OfferedSlots, Emptied, OfKind
<1>2. \A s \in Emptied(v, o) : kind[s] \in Item
  <2>1. ASSUME NEW s \in Emptied(v, o) PROVE kind[s] \in Item
    <3>1. s \in DOMAIN o
      BY DEF Emptied
    <3>. QED
      BY <3>1, OfferedSlot
  <2>. QED
    BY <2>1
<1>3. Cardinality(Emptied(v, o)) = Sum(E, Item)
  <2>1. \A i \in Item : E[i] = Cardinality(OfKind(Emptied(v, o), kind, i))
    BY <1>1
  <2>2. IsFiniteSet(Emptied(v, o)) /\ IsFiniteSet(Item)
    BY TakenOutFree, TradeCommitAssumption
  <2>. HIDE DEF E, kind
  <2>. QED
    BY <1>2, <2>1, <2>2, CountByKind
<1>4. ASSUME NEW i \in Item PROVE K[i] \in Nat /\ E[i] \in Nat /\ D[i] \in Int /\ K[i] = D[i] + E[i]
  <2>1. FullStacks(v, o, i) \in SUBSET Emptied(v, o)
    BY DEF FullStacks, OfferedSlots, Emptied
  <2>2. Cardinality(FullStacks(v, o, i)) \in Nat
    BY <2>1, TakenOutFree, FS_Subset, FS_CardinalityType
  <2>3. new_slots(v, o, w, p, i) \in Nat
    BY NewSlotsServe
  <2>. QED
    BY <2>2, <2>3
<1>5. Sum(K, Item) = Sum(D, Item) + Sum(E, Item)
  <2>1. \A i \in Item : D[i] \in Int /\ E[i] \in Int /\ K[i] = D[i] + E[i]
    BY <1>4
  <2>. HIDE DEF K, D, E
  <2>. QED
    BY <2>1, SlotsFinite, SumPlus
<1>6. Cardinality(Populated(v)) + Sum(D, Item) <= Slots
  BY SumOverIs DEF Enough_space, delta_slots
<1>7. Sum(K, Item) <= Cardinality(Free(T))
  <2>1. \A i \in Item : D[i] \in Int
    BY <1>4
  <2>. HIDE DEF K, D, E
  <2>2. Sum(D, Item) \in Int
    BY <2>1, SlotsFinite, SumOne
  <2>3. /\ Cardinality(Emptied(v, o)) \in Nat /\ Cardinality(Populated(v)) \in Nat
        /\ Cardinality(Free(T)) = Slots - Cardinality(Populated(v)) + Cardinality(Emptied(v, o))
    BY TakenOutFree
  <2>4. Sum(K, Item) = Sum(D, Item) + Cardinality(Emptied(v, o))
    BY <1>3, <1>5
  <2>5. Slots \in Nat
    BY SlotsFinite
  <2>. HIDE DEF T
  <2>. QED
    BY <1>6, <2>2, <2>3, <2>4, <2>5
<1>8. K \in [Item -> Nat]
  BY <1>4
<1>9. \A i \in Item : need[i] <= Room(T, i) + K[i] * MaxAmount[i]
  BY NewSlotsServe
<1>10. Serves(K, T, need)
  <2>. HIDE DEF K, T, need
  <2>. QED
    BY <1>7, <1>8, <1>9 DEF Serves
<1>. QED
  BY <1>10 DEF Fits

----------------------------------------------------------------------------
(* What is taken out, in whatever order, is what was offered.               *)

LEMMA OrderIsBijection ==
  ASSUME NEW S, IsFiniteSet(S), NEW n, n = Cardinality(S), NEW q \in SetToSeqs(S)
  PROVE  n \in Nat /\ q \in Bijection(1..n, S)
<1>1. n \in Nat
  BY FS_CardinalityType
<1>2. IsFiniteSet(1..n) /\ Cardinality(1..n) = n
  BY <1>1, FS_Interval
<1>3. q \in [1..n -> S] /\ \A i, j \in 1..n : i # j => q[i] # q[j]
  BY DEF SetToSeqs
<1>4. q \in Injection(1..n, S)
  BY <1>3 DEF Injection, IsInjective
<1>5. (Cardinality(1..n) = Cardinality(S)) <=> q \in Surjection(1..n, S)
  BY <1>4, FS_Injection
<1>. QED
  BY <1>1, <1>2, <1>4, <1>5 DEF Bijection

Given(p) == {s \in DOMAIN p : p[s] > 0}

LEMMA TakenPile ==
  ASSUME NEW w, NEW p, ValidOffer(w, p), NEW q, NEW k \in DOMAIN q, q[k] \in Given(p)
  PROVE  /\ Taken(w, p, q)[k] = [item |-> w[q[k]].item, amount |-> p[q[k]]]
         /\ Taken(w, p, q)[k] \in Pile
<1>1. PICK s : s = q[k]
  OBVIOUS
<1>2. s \in DOMAIN p /\ p[s] > 0
  BY <1>1 DEF Given
<1>3. s \in Slot /\ w \in Inventory
  BY <1>2, OfferedSlot DEF ValidOffer
<1>4. /\ w[s].item \in Item /\ w[s].amount \in Nat /\ p[s] \in Nat /\ p[s] <= w[s].amount
      /\ w[s].amount <= MaxAmount[w[s].item]
      /\ w[s].amount # p[s] => is_stackable(w[s].item)
  BY <1>2, <1>3, TakenSlot
<1>5. w[s] = [item |-> w[s].item, amount |-> w[s].amount]
  BY <1>3, StackFacts
<1>6. Taken(w, p, q)[k] = IF TakesAll(w[s], p[s]) THEN w[s] ELSE [w[s] EXCEPT !.amount = p[s]]
  BY <1>1 DEF Taken
<1>7. Taken(w, p, q)[k] = [item |-> w[s].item, amount |-> p[s]]
  <2>1. CASE TakesAll(w[s], p[s])
    <3>1. w[s].amount = p[s]
      BY <1>4, <2>1 DEF TakesAll
    <3>. QED
      BY <1>5, <1>6, <2>1, <3>1
  <2>2. CASE ~TakesAll(w[s], p[s])
    BY <1>5, <1>6, <2>2
  <2>. QED
    BY <2>1, <2>2
<1>8. MaxAmount[w[s].item] \in Nat
  BY <1>4, TradeCommitAssumption
<1>9. [item |-> w[s].item, amount |-> p[s]] \in Pile
  BY <1>2, <1>4, <1>8 DEF Pile
<1>. QED
  BY <1>1, <1>7, <1>9

LEMMA TakenSums ==
  ASSUME NEW w, NEW p, ValidOffer(w, p), NEW q \in Orders(p),
         NEW n, n = Cardinality(Given(p)), NEW T, T = Taken(w, p, q)
  PROVE  /\ n \in Nat /\ T \in [1..n -> Pile]
         /\ \A i \in Item : quantity_sold(w, p, i) = Sum(Wants(T, i), 1..n)
<1>1. Given(p) \in SUBSET Slot /\ IsFiniteSet(Given(p))
  <2>1. Given(p) \in SUBSET Slot
    BY OfferedSlot DEF Given
  <2>. QED
    BY <2>1, SlotsFinite, FS_Subset
<1>2. n \in Nat /\ q \in Bijection(1..n, Given(p))
  BY <1>1, OrderIsBijection DEF Orders, Given
<1>3. q \in [1..n -> Given(p)]
  BY <1>2 DEF Bijection, Injection
<1>4. ASSUME NEW k \in 1..n
      PROVE  /\ T[k] = [item |-> w[q[k]].item, amount |-> p[q[k]]] /\ T[k] \in Pile
             /\ q[k] \in Given(p)
  <2>1. k \in DOMAIN q /\ q[k] \in Given(p)
    BY <1>3
  <2>2. /\ Taken(w, p, q)[k] = [item |-> w[q[k]].item, amount |-> p[q[k]]]
        /\ Taken(w, p, q)[k] \in Pile
    BY <2>1, TakenPile, Zenon
  <2>. QED
    BY <2>1, <2>2, Zenon
<1>5. T \in [1..n -> Pile]
  <2>1. T = [k \in 1..n |-> T[k]]
    BY <1>3 DEF Taken
  <2>. QED
    BY <1>4, <2>1
<1>6. ASSUME NEW i \in Item PROVE quantity_sold(w, p, i) = Sum(Wants(T, i), 1..n)
  <2>. DEFINE f == Offered(w, p, i)
              g == Wants(T, i)
              D == 1..n
              G == Given(p)
  <2>1. ASSUME NEW s \in Slot
        PROVE  /\ f[s] \in Nat
               /\ s \in G => f[s] = IF w[s].item = i THEN p[s] ELSE 0
               /\ s \notin G => f[s] = 0
    <3>1. /\ s \in OfferedSlots(w, p, i) <=> s \in DOMAIN p /\ w[s].item = i
          /\ f[s] = IF s \in OfferedSlots(w, p, i) THEN p[s] ELSE 0
          /\ f[s] \in Nat
      BY OfferedFacts
    <3>2. s \in DOMAIN p => p[s] \in Nat
      BY OfferedSlot
    <3>. HIDE DEF f
    <3>. QED
      BY <3>1, <3>2 DEF Given
  <2>2. \A k \in D : g[k] = f[q[k]]
    <3>1. ASSUME NEW k \in D PROVE g[k] = f[q[k]]
      <4>1. g[k] = IF w[q[k]].item = i THEN p[q[k]] ELSE 0
        BY <1>4, <1>5 DEF Wants
      <4>2. q[k] \in Slot /\ q[k] \in G
        BY <1>1, <1>4
      <4>. HIDE DEF f, g
      <4>. QED
        BY <2>1, <4>1, <4>2
    <3>. QED
      BY <3>1
  <2>3. IsFiniteSet(D)
    BY <1>2, FS_Interval
  <2>4. q \in Bijection(D, G)
    BY <1>2
  <2>5. \A s \in G : f[s] \in Int
    BY <1>1, <2>1
  <2>6. \A s \in Slot : Within(f, G, Slot)[s] = f[s] /\ f[s] \in Int /\ Within(f, G, Slot)[s] \in Int
    BY <2>1 DEF Within
  <2>. HIDE DEF f, g, D, G
  <2>7. Sum(g, D) = Sum(f, G)
    BY <2>2, <2>3, <2>4, <2>5, SumReindexed
  <2>8. G \in SUBSET Slot
    BY <1>1 DEF G
  <2>9. Sum(f, G) = Sum(Within(f, G, Slot), Slot)
    BY <2>5, <2>8, SlotsFinite, SumWithin
  <2>10. Sum(Within(f, G, Slot), Slot) = Sum(f, Slot)
    BY <2>6, SlotsFinite, SumSame
  <2>11. quantity_sold(w, p, i) = Sum(f, Slot)
    BY OfferedFacts DEF f
  <2>. QED
    BY <2>7, <2>9, <2>10, <2>11 DEF g, D
<1>. QED
  BY <1>2, <1>5, <1>6

----------------------------------------------------------------------------
(* One side of the exchange.                                                *)

LEMMA CommitWorks ==
  ASSUME NEW v, NEW o, ValidOffer(v, o), NEW w, NEW p, ValidOffer(w, p), Enough_space(v, o, w, p),
         NEW q \in Orders(p), NEW res, res = push_all(TakenOut(v, o), Taken(w, p, q))
  PROVE  /\ res.inv \in Inventory
         /\ ~res.full
         /\ \A i \in Item : item_count(res.inv, i) =
                item_count(v, i) - quantity_sold(v, o, i) + quantity_sold(w, p, i)
<1>1. PICK n, T, x : n = Cardinality(Given(p)) /\ T = Taken(w, p, q) /\ x = TakenOut(v, o)
  OBVIOUS
<1>2. n \in Nat /\ T \in [1..n -> Pile] /\ \A i \in Item : quantity_sold(w, p, i) = Sum(Wants(T, i), 1..n)
  BY <1>1, TakenSums
<1>3. x \in Inventory /\ \A i \in Item : item_count(x, i) = item_count(v, i) - quantity_sold(v, o, i)
  BY <1>1, TakenOutCounts
<1>4. Fits(x, [i \in Item |-> quantity_sold(w, p, i)])
  BY <1>1, EnoughSpaceFits
<1>5. [i \in Item |-> quantity_sold(w, p, i)] = [i \in Item |-> Sum(Wants(T, i), 1..n)]
  BY <1>2
<1>6. Fits(x, [i \in Item |-> Sum(Wants(T, i), 1..n)])
  BY <1>4, <1>5, Zenon
<1>7. res = push_all(x, T)
  BY <1>1
<1>8. /\ res \in [inv : Inventory, full : BOOLEAN] /\ ~res.full
      /\ \A i \in Item : item_count(res.inv, i) = item_count(x, i) + Sum(Wants(T, i), 1..n)
  BY <1>2, <1>3, <1>6, <1>7, PushAllFits
<1>9. ASSUME NEW i \in Item
      PROVE  item_count(res.inv, i) = item_count(v, i) - quantity_sold(v, o, i) + quantity_sold(w, p, i)
  <2>1. item_count(res.inv, i) = item_count(x, i) + quantity_sold(w, p, i)
    BY <1>2, <1>8, Zenon
  <2>. QED
    BY <1>3, <2>1, Zenon
<1>. QED
  BY <1>8, <1>9

----------------------------------------------------------------------------
(* The whole step, and what holds of every commit.                          *)

OInv ==
  /\ stock \in [1..2 -> Inventory]
  /\ \A who \in 1..2 : IsOffer(deal[who])
  /\ outcome # "panic"

LEMMA StacksAreStacks == Stacks \subseteq Stack
<1>1. ASSUME NEW i \in Item, NEW g \in [item : {i}, amount : 1..MaxAmount[i]] PROVE g \in Pile
  BY TradeCommitAssumption DEF Pile
<1>. QED
  BY <1>1 DEF Stacks, Stack

LEMMA OffersAreOffers == \A o \in Offers : IsOffer(o)
<1>1. ASSUME NEW S \in SUBSET Slot, NEW o \in [S -> 0..MaxOffer] PROVE IsOffer(o)
  BY CommitOnceAssumption DEF IsOffer
<1>. QED
  BY <1>1 DEF Offers

LEMMA OInitInv == OInit => OInv
<1>. SUFFICES ASSUME OInit PROVE OInv
  OBVIOUS
<1>1. stock \in [1..2 -> Inventory]
  BY StacksAreStacks DEF OInit, Inventory
<1>2. deal[1] \in Offers /\ deal[2] \in Offers
  BY DEF OInit
<1>3. \A who \in 1..2 : IsOffer(deal[who])
  BY <1>2, OffersAreOffers
<1>. QED
  BY <1>1, <1>3 DEF OInit, OInv

(* One side of a commit that the checks let through.                        *)
LEMMA OneSide ==
  ASSUME NEW invs \in [1..2 -> Inventory], NEW offers, \A who \in 1..2 : IsOffer(offers[who]),
         commit_result(invs, offers) = "Completed",
         NEW orders, \A who \in 1..2 : orders[who] \in Orders(offers[who]),
         NEW who \in 1..2, NEW res, res = Exchange(invs, offers, orders)[who]
  PROVE  /\ res.inv \in Inventory
         /\ ~res.full
         /\ \A i \in Item : item_count(res.inv, i) =
                item_count(invs[who], i) - quantity_sold(invs[who], offers[who], i)
                  + quantity_sold(invs[3 - who], offers[3 - who], i)
<1>1. \A x \in 1..2 : /\ Offers_valid(invs[x], offers[x])
                      /\ Enough_space(invs[x], offers[x], invs[3 - x], offers[3 - x])
  BY DEF commit_result
<1>2. PICK other : other = 3 - who /\ other \in 1..2
  OBVIOUS
<1>3. PICK v, o, w, p, q : /\ v = invs[who] /\ o = offers[who]
                           /\ w = invs[other] /\ p = offers[other] /\ q = orders[other]
  OBVIOUS
<1>4. ValidOffer(v, o) /\ ValidOffer(w, p)
  BY <1>1, <1>2, <1>3 DEF ValidOffer
<1>5. Enough_space(v, o, w, p) /\ q \in Orders(p)
  BY <1>1, <1>2, <1>3
<1>6. res = push_all(TakenOut(v, o), Taken(w, p, q))
  BY <1>2, <1>3 DEF Exchange
<1>7. /\ res.inv \in Inventory
      /\ ~res.full
      /\ \A i \in Item : item_count(res.inv, i) =
            item_count(v, i) - quantity_sold(v, o, i) + quantity_sold(w, p, i)
  BY <1>4, <1>5, <1>6, CommitWorks
<1>. QED
  BY <1>2, <1>3, <1>7, Zenon

TermsMet ==
  \A who \in 1..2, i \in Item :
    item_count(stock'[who], i) =
      item_count(stock[who], i) - quantity_sold(stock[who], deal[who], i)
        + quantity_sold(stock[3 - who], deal[3 - who], i)

LEMMA OStep == OInv /\ [ONext]_once =>
  /\ OInv'
  /\ once' # once /\ outcome' = "Completed" => TermsMet
<1>. SUFFICES ASSUME OInv, [ONext]_once
              PROVE  OInv' /\ (once' # once /\ outcome' = "Completed" => TermsMet)
  OBVIOUS
<1>1. CASE UNCHANGED once
  BY <1>1 DEF OInv, once
<1>2. ASSUME NEW o1 \in Orders(deal[1]), NEW o2 \in Orders(deal[2]), CommitNow(o1, o2)
      PROVE  OInv' /\ (outcome' = "Completed" => TermsMet)
  <2>. DEFINE res == Exchange(stock, deal, <<o1, o2>>)
  <2>1. CASE commit_result(stock, deal) # "Completed"
    <3>1. outcome' = commit_result(stock, deal) /\ UNCHANGED <<stock, deal>>
      BY <1>2, <2>1 DEF CommitNow
    <3>2. commit_result(stock, deal) \in {"Declined", "NotEnoughSpace"}
      BY <2>1 DEF commit_result
    <3>. QED
      BY <3>1, <3>2 DEF OInv
  <2>2. CASE commit_result(stock, deal) = "Completed"
    <3>1. PICK orders : orders = <<o1, o2>>
      OBVIOUS
    <3>2. \A who \in 1..2 : orders[who] \in Orders(deal[who])
      BY <3>1
    <3>3. ASSUME NEW who \in 1..2
          PROVE  /\ res[who].inv \in Inventory /\ ~res[who].full
                 /\ \A i \in Item : item_count(res[who].inv, i) =
                      item_count(stock[who], i) - quantity_sold(stock[who], deal[who], i)
                        + quantity_sold(stock[3 - who], deal[3 - who], i)
      BY <2>2, <3>1, <3>2, OneSide DEF OInv
    <3>. HIDE DEF res
    <3>4. outcome' = "Completed" /\ stock' = [who \in 1..2 |-> res[who].inv] /\ deal' = deal
      BY <1>2, <2>2, <3>3 DEF CommitNow, res
    <3>5. OInv'
      BY <3>3, <3>4 DEF OInv
    <3>6. TermsMet
      BY <3>3, <3>4, Zenon DEF TermsMet
    <3>. QED
      BY <3>5, <3>6
  <2>. QED
    BY <2>1, <2>2
<1>. QED
  BY <1>1, <1>2 DEF ONext

LEMMA OAlways == OSpec => []OInv
<1>1. OInv /\ [ONext]_once => OInv'
  BY OStep
<1>. QED
  BY <1>1, OInitInv, PTL DEF OSpec

(* Whatever two parties offer of whatever they carry: when the checks of    *)
(* commit_trade let a trade through, every item taken out finds a place in  *)
(* the other inventory, in every iteration order of the two HashMaps. The   *)
(* panic! after the exchange is dead code, and no stack outgrows its item.  *)
THEOREM CommitNeverPanics == OSpec => []EverythingFits
<1>1. OInv => EverythingFits
  <2>. SUFFICES ASSUME OInv PROVE EverythingFits
    OBVIOUS
  <2>1. ASSUME NEW who \in 1..2, NEW s \in Populated(stock[who])
        PROVE  stock[who][s].item \in Item /\ stock[who][s].amount \in 1..MaxAmount[stock[who][s].item]
    <3>1. stock[who] \in Inventory /\ s \in Slot /\ stock[who][s] # Empty
      BY DEF OInv, Populated
    <3>2. PICK g : g = stock[who][s]
      OBVIOUS
    <3>3. g \in Pile
      BY <3>1, <3>2 DEF Inventory, Stack
    <3>. QED
      BY <3>2, <3>3, TradeCommitAssumption DEF Pile
  <2>. QED
    BY <2>1 DEF EverythingFits, OInv
<1>. QED
  BY <1>1, OAlways, PTL

(* A commit moves exactly the agreed quantities: of every item, either      *)
(* party ends up with what it had, less what it sold, plus what the other   *)
(* one sold, however its stacks were split, merged or filled up.            *)
THEOREM CommitMovesTheTerms == OSpec => ExactlyTheTerms
<1>1. OInv /\ [ONext]_once => [outcome' = "Completed" => TermsMet]_once
  <2>. SUFFICES ASSUME OInv, [ONext]_once, outcome' = "Completed", once' # once PROVE TermsMet
    OBVIOUS
  <2>. QED
    BY OStep
<1>2. OSpec => [][outcome' = "Completed" => TermsMet]_once
  BY <1>1, OAlways, PTL DEF OSpec
<1>. QED
  BY <1>2 DEF ExactlyTheTerms, TermsMet
=============================================================================
