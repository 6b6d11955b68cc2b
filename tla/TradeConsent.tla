---------------------------- MODULE TradeConsent ----------------------------
(***************************************************************************)
(* Trade implements ConsentedExchange: a trade in the review phase is a     *)
(* sealed deal, and its terms are the goods that its offers stand for.      *)
(***************************************************************************)
EXTENDS Trade

Gives(trade) ==
  [who \in 1..2 |->
     [i \in Item |-> quantity_sold(inv[trade.parties[who]], trade.offers[who], i)]]

InReview == {id \in DOMAIN trades : trades[id].phase = "Review"}

Abstract == INSTANCE ConsentedExchange WITH
  Party    <- Entity,
  Good     <- Item,
  DealId   <- TradeId,
  holdings <- [e \in Entity |-> [i \in Item |-> item_count(inv[e], i)]],
  deals    <- [id \in InReview |->
                 [parties |-> trades[id].parties, gives |-> Gives(trades[id])]]

(* Goods change hands only to the terms that both parties had in front of   *)
(* them, unchanged, for the whole of the review phase.                      *)
TradesAreConsented == Abstract!ASpec
=============================================================================
