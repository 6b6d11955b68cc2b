------------------------------ MODULE CommitOnce ------------------------------
(***************************************************************************)
(* commit_trade on its own: any two inventories and any two offers are an  *)
(* initial state; the one step commits the trade, in any iteration order.  *)
(***************************************************************************)
EXTENDS TradeCommit

CONSTANT MaxOffer   \* bound: units offered of one slot

ASSUME CommitOnceAssumption == MaxOffer \in Nat

VARIABLES stock, deal, outcome
once == <<stock, deal, outcome>>

Stacks == {Empty} \cup UNION {[item : {i}, amount : 1..MaxAmount[i]] : i \in Item}
Offers == UNION {[S -> 0..MaxOffer] : S \in SUBSET Slot}

OInit ==
  /\ stock \in [1..2 -> [Slot -> Stacks]]
  /\ deal \in Offers \X Offers
  /\ outcome = "open"

CommitNow(o1, o2) ==
  LET res == Exchange(stock, deal, <<o1, o2>>)
  IN  /\ outcome = "open"
      /\ CASE commit_result(stock, deal) # "Completed" ->
                 outcome' = commit_result(stock, deal) /\ UNCHANGED stock
           [] commit_result(stock, deal) = "Completed" /\ (\E who \in 1..2 : res[who].full) ->
                 outcome' = "panic" /\ UNCHANGED stock
           [] OTHER -> /\ outcome' = "Completed"
                       /\ stock' = [who \in 1..2 |-> res[who].inv]
      /\ UNCHANGED deal

ONext == \E o1 \in Orders(deal[1]), o2 \in Orders(deal[2]) : CommitNow(o1, o2)
OSpec == OInit /\ [][ONext]_once

----------------------------------------------------------------------------
(* A completed trade moves exactly what was offered, of every item, also    *)
(* when stacks merge, split or fill up: nothing is lost and nothing made.   *)
ExactlyTheTerms ==
  [][outcome' = "Completed" =>
       \A who \in 1..2, i \in Item :
         item_count(stock'[who], i) =
           item_count(stock[who], i) - quantity_sold(stock[who], deal[who], i)
             + quantity_sold(stock[3 - who], deal[3 - who], i)]_once

(* The panic! of commit_trade is out of reach: the slots it counts are      *)
(* never fewer than the pushes need, in any order of the HashMap; and no    *)
(* stack grows over the item's max_amount or is left with nothing.          *)
EverythingFits ==
  /\ outcome # "panic"
  /\ \A who \in 1..2 : \A s \in Populated(stock[who]) :
       stock[who][s].item \in Item /\ stock[who][s].amount \in 1..MaxAmount[stock[who][s].item]
=============================================================================
