------------------------------- MODULE MCTrade -------------------------------
(* Small instances of Trade and of its refinement of ConsentedExchange.      *)
EXTENDS TradeConsent
CONSTANTS alice, bob, carol, coin, sword

MaxStacks == [i \in Item |-> IF i = coin THEN 2 ELSE 1]

(* Alice owns coins, Bob a sword, and Carol has nothing.                    *)
Owned(e) == CASE e = alice -> [item |-> coin, amount |-> 1]
              [] e = bob -> [item |-> sword, amount |-> 1]
              [] OTHER -> Empty
FirstSlots == [e \in Entity |-> [s \in Slot |-> IF s = 1 THEN Owned(e) ELSE Empty]]

(* One coin to be traded, and two entities that nothing tells apart.        *)
OneCoin == [e \in Entity |-> [s \in Slot |->
              IF e = alice /\ s = 1 THEN [item |-> coin, amount |-> 1] ELSE Empty]]
Others  == Permutations({bob, carol})

Coin   == {[item |-> coin, amount |-> 1]}
NoGift == {}
=============================================================================
