---------------------------- MODULE MCPersistence ----------------------------
(* Instances of Persistence for TLC: two players with a character each, who *)
(* can exchange coins, one character that two accounts ask for, and (for    *)
(* counterexamples of the README) one account with two characters.          *)
EXTENDS PersistenceStore, TLC
CONSTANTS p1, p2, a, b

OwnerEach == a :> p1 @@ b :> p2
OwnerOne  == a :> p1
OwnerBoth == a :> p1 @@ b :> p1

OneCoin  == a :> 1 @@ b :> 0
NoCoins  == [c \in Char |-> 0]
=============================================================================
