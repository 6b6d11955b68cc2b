----------------------------- MODULE TradeCommit -----------------------------
(***************************************************************************)
(* commit_trade: what two inventories become when both parties have agreed. *)
(* The code first decides by arithmetic whether everything will fit, then   *)
(* takes all offered items out and pushes them into the other inventory; it *)
(* panics if the arithmetic promised space that is not there.               *)
(* Everything here is a function of two inventories and two offers.         *)
(***************************************************************************)
EXTENDS Integers, Sequences, FiniteSetsExt, SequencesExt

CONSTANTS
  Slots,       \* number of slots of an inventory
  Item,        \* item definitions
  MaxAmount,   \* Item::max_amount: 1, or more for a stackable item
  NoItem

ASSUME TradeCommitAssumption ==
  /\ Slots \in Nat \ {0}
  /\ IsFiniteSet(Item)
  /\ MaxAmount \in [Item -> Nat \ {0}]
  /\ NoItem \notin Item

Slot  == 1..Slots
Empty == [item |-> NoItem, amount |-> 0]
Pile  == {g \in [item : Item, amount : Nat \ {0}] : g.amount <= MaxAmount[g.item]}
Stack == {Empty} \cup Pile
Inventory == [Slot -> Stack]

(* An offer is a HashMap from slots to quantities.                          *)
IsOffer(o) == DOMAIN o \subseteq Slot /\ o \in [DOMAIN o -> Nat]

is_stackable(i) == MaxAmount[i] > 1
SlotsWith(inv, i) == {s \in Slot : inv[s].item = i}
Populated(inv)    == {s \in Slot : inv[s] # Empty}
SumOver(f, S)     == MapThenSumSet(LAMBDA s : f[s], S)
Amounts(inv)      == [s \in Slot |-> inv[s].amount]

(* How much of item i an inventory holds, in all its stacks together.       *)
item_count(inv, i) == SumOver(Amounts(inv), SlotsWith(inv, i))

----------------------------------------------------------------------------
(* Inventory::take_amount of every offered slot                             *)

Quantity(offer, s) == IF s \in DOMAIN offer THEN offer[s] ELSE 0

TakesAll(stack, n) == n > 0 /\ (~is_stackable(stack.item) \/ stack.amount <= n)

take_amount(stack, n) ==
  IF stack = Empty \/ TakesAll(stack, n) THEN Empty
  ELSE [stack EXCEPT !.amount = @ - n]

TakenOut(inv, offer) == [s \in Slot |-> take_amount(inv[s], Quantity(offer, s))]

(* The orders in which the HashMap may name the slots that give something.  *)
Orders(offer) == SetToSeqs({s \in DOMAIN offer : offer[s] > 0})

TakenWhole(inv, offer, order) == [i \in DOMAIN order |-> inv[order[i]]]   \* slip

(* The items taken.                                                         *)
Taken(inv, offer, order) ==
  [i \in DOMAIN order |->
     LET s == order[i]
     IN  IF TakesAll(inv[s], offer[s]) THEN inv[s]
         ELSE [inv[s] EXCEPT !.amount = offer[s]]]

----------------------------------------------------------------------------
(* Inventory::push_prefer_slot: equal stacks are filled up in slot order,   *)
(* what remains goes to the first empty slot, or is left over.              *)

Clamp(x, lo, hi) == IF x < lo THEN lo ELSE IF x > hi THEN hi ELSE x

RoomIn(inv, i, s) == IF inv[s].item = i THEN MaxAmount[i] - inv[s].amount ELSE 0

RoomBefore(inv, i, s) == SumOver([t \in Slot |-> RoomIn(inv, i, t)], 1..(s - 1))

push(result, stack) ==
  LET inv    == result.inv
      i      == stack.item
      gain   == [s \in Slot |-> Clamp(stack.amount - RoomBefore(inv, i, s), 0, RoomIn(inv, i, s))]
      filled == IF is_stackable(i)
                THEN [s \in Slot |-> IF inv[s].item = i THEN [inv[s] EXCEPT !.amount = @ + gain[s]]
                                     ELSE inv[s]]
                ELSE inv
      rest   == IF is_stackable(i) THEN stack.amount - SumOver(gain, Slot) ELSE stack.amount
      free   == Slot \ Populated(inv)
  IN  IF rest = 0 THEN [result EXCEPT !.inv = filled]
      ELSE IF free # {}
           THEN [result EXCEPT !.inv = [filled EXCEPT ![Min(free)] = [item |-> i, amount |-> rest]]]
      ELSE [inv |-> filled, full |-> TRUE]

push_all(inv, stacks) == FoldLeft(push, [inv |-> inv, full |-> FALSE], stacks)

----------------------------------------------------------------------------
(* The checks before anything is moved                                      *)

(* Every offered slot holds at least what is offered of it.                 *)
Offers_valid(inv, offer) ==
  \A s \in DOMAIN offer :
    /\ inv[s] # Empty
    /\ offer[s] <= inv[s].amount
    /\ offer[s] < inv[s].amount => is_stackable(inv[s].item)

OfferedSlots(inv, offer, i) == {s \in DOMAIN offer : inv[s].item = i}
FullStacks(inv, offer, i)   == {s \in OfferedSlots(inv, offer, i) : offer[s] = inv[s].amount}
quantity_sold(inv, offer, i) == SumOver(offer, OfferedSlots(inv, offer, i))

unusable_capacity(inv, offer, i) ==
  SumOver([s \in Slot |-> RoomIn(inv, i, s)], FullStacks(inv, offer, i))
freed_capacity(inv, offer, i) ==
  SumOver(offer, OfferedSlots(inv, offer, i) \ FullStacks(inv, offer, i))

(* Capacity for item i in the stacks that stay in the inventory.            *)
party_capacity(inv, offer, i) ==
  SumOver([s \in Slot |-> RoomIn(inv, i, s)], SlotsWith(inv, i))
    - unusable_capacity(inv, offer, i) + freed_capacity(inv, offer, i)

(* New stacks the party needs for what the other one sells of item i.       *)
RoundedDown(surplus, i) == surplus \div MaxAmount[i]     \* slip
NewStacks(surplus, i)   == (surplus \div MaxAmount[i]) + 1

new_slots(inv, offer, otherInv, otherOffer, i) ==
  LET sold     == quantity_sold(otherInv, otherOffer, i)
      capacity == party_capacity(inv, offer, i)
  IN  IF ~is_stackable(i) THEN Cardinality(OfferedSlots(otherInv, otherOffer, i))
      ELSE IF capacity < sold THEN NewStacks(sold - capacity, i) ELSE 0

delta_slots(inv, offer, otherInv, otherOffer) ==
  SumOver([i \in Item |-> new_slots(inv, offer, otherInv, otherOffer, i)
                            - Cardinality(FullStacks(inv, offer, i))], Item)

Enough_space(inv, offer, otherInv, otherOffer) ==
  Cardinality(Populated(inv)) + delta_slots(inv, offer, otherInv, otherOffer) <= Slots

----------------------------------------------------------------------------
(* Both inventories after the exchange; full: the code panics.              *)
Exchange(invs, offers, orders) ==
  [who \in 1..2 |->
     push_all(TakenOut(invs[who], offers[who]),
              Taken(invs[3 - who], offers[3 - who], orders[3 - who]))]

(* The result of commit_trade.                                              *)
commit_result(invs, offers) ==
  IF \E who \in 1..2 : ~Offers_valid(invs[who], offers[who]) THEN "Declined"
  ELSE IF \E who \in 1..2 :
            ~Enough_space(invs[who], offers[who], invs[3 - who], offers[3 - who])
       THEN "NotEnoughSpace"
  ELSE "Completed"
=============================================================================
