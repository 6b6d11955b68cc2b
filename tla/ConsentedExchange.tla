-------------------------- MODULE ConsentedExchange --------------------------
(***************************************************************************)
(* What trading promises.  Two parties seal the terms of a deal; while it   *)
(* is sealed neither the terms nor what the parties hold can change; and    *)
(* goods pass between two parties only by closing a sealed deal, to exactly *)
(* its terms and to both sides at once.                                     *)
(***************************************************************************)
EXTENDS Integers

CONSTANTS Party, Good, DealId

VARIABLES
  holdings,   \* how much of each good each party holds
  deals       \* the sealed deals, by their ids: [parties, gives]

avars == <<holdings, deals>>

Sealed(d)    == d \in DOMAIN deals
InDeal(p, d) == \E who \in 1..2 : deals[d].parties[who] = p

AInit == deals = <<>> /\ holdings \in [Party -> [Good -> Nat]]

(* The parties of a new deal are two, and in no other.                      *)
Seal(d) ==
  /\ ~Sealed(d)
  /\ DOMAIN deals' = DOMAIN deals \cup {d}
  /\ \A other \in DOMAIN deals : deals'[other] = deals[other]
  /\ deals'[d].parties[1] # deals'[d].parties[2]
  /\ \A who \in 1..2, other \in DOMAIN deals : ~InDeal(deals'[d].parties[who], other)
  /\ UNCHANGED holdings

Without(d) == deals' = [other \in DOMAIN deals \ {d} |-> deals[other]]

CallOff(d) ==
  /\ Sealed(d)
  /\ Without(d)
  /\ UNCHANGED holdings

(* What one party has after giving and receiving.                           *)
Settled(d, who) ==
  [g \in Good |-> holdings[deals[d].parties[who]][g]
                    - deals[d].gives[who][g] + deals[d].gives[3 - who][g]]

Close(d) ==
  /\ Sealed(d)
  /\ \A who \in 1..2, g \in Good :
       holdings[deals[d].parties[who]][g] >= deals[d].gives[who][g]
  /\ holdings' = [p \in Party |->
       IF p = deals[d].parties[1] THEN Settled(d, 1)
       ELSE IF p = deals[d].parties[2] THEN Settled(d, 2) ELSE holdings[p]]
  /\ Without(d)

(* A party that is in no sealed deal does what it likes with its own goods. *)
Personal(p) ==
  /\ \A d \in DOMAIN deals : ~InDeal(p, d)
  /\ \A q \in Party \ {p} : holdings'[q] = holdings[q]
  /\ UNCHANGED deals

ANext ==
  \/ \E d \in DealId : Seal(d) \/ CallOff(d) \/ Close(d)
  \/ \E p \in Party : Personal(p)

ASpec == AInit /\ [][ANext]_avars
=============================================================================
