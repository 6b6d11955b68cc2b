--------------------------- MODULE MCTradeClients ---------------------------
(* One coin, two entities with their clients, and slow streams.             *)
EXTENDS TradeClients
CONSTANTS alice, bob, coin

MaxStacks == [i \in Item |-> 2]
FirstSlots == [e \in Entity |-> [s \in Slot |->
                 IF e = alice /\ s = 1 THEN [item |-> coin, amount |-> 1] ELSE Empty]]
(* Alice's actions may queue up behind each other, those of Bob may be late. *)
Queues == [e \in Entity |-> IF e = alice THEN 2 ELSE 1]
Single == [e \in Entity |-> 1]
(* Bound: it is Bob who invites.                                            *)
OneInvite == pending \subseteq {<<bob, alice>>}
NoGift == {}
=============================================================================
