-------------------------------- MODULE Trade --------------------------------
(***************************************************************************)
(* Trading between entities, as the server runs it: invites to trade and    *)
(* their timeout, the pending trades and their two phases, the commit, and  *)
(* everything else that touches an inventory while a trade is open.         *)
(*                                                                          *)
(* Each action is one event handled by the server (events/invite.rs,        *)
(* events/trade.rs, events/inventory_manip.rs, ...) from its first check to *)
(* its last write.  Events of different kinds are handled in an order that  *)
(* depends on who sent what, so any of them may come next.  An entity that  *)
(* leaves the world is gone for good: who logs in again is a new entity.    *)
(***************************************************************************)
EXTENDS TradeCommit

CONSTANTS
  Entity,       \* players and NPCs that can trade; an entity and its Uid
  None,
  FirstInv,     \* the inventories to begin with
  Deltas,       \* quantities that a TradeAction may name
  Npcs,         \* those of them that no player controls
  Gifts,        \* stacks handed over in a dialogue, or spent on a transcription
  Ungated,      \* whether there are dialogues and transcriptions at all
  Disturbed,    \* bound: entities that get attacked or hurt, or leave
  MaxTrades     \* bound: trades begun in a behaviour

ASSUME TradeAssumption ==
  /\ None \notin Entity \cup Nat
  /\ FirstInv \in [Entity -> Inventory]
  /\ Deltas \subseteq Nat \ {0}
  /\ Npcs \subseteq Entity
  /\ Gifts \subseteq Pile
  /\ Ungated \in BOOLEAN
  /\ Disturbed \subseteq Entity
  /\ MaxTrades \in Nat

VARIABLES
  inv,            \* the Inventory of each entity
  here,           \* the entities in the world
  downed,         \* the entities that are dead, or downed and crawling
  invites,        \* Invite component: who has invited this entity
  pending,        \* PendingInvites components: pairs <<inviter, invitee>>
  trades,         \* Trades::trades
  entity_trades,  \* Trades::entity_trades
  next_id,        \* Trades::next_id
  out             \* what the last handler sent, to each client in order

vars == <<inv, here, downed, invites, pending, trades, entity_trades, next_id, out>>
inviteVars == <<invites, pending>>
tradeVars  == <<trades, entity_trades, next_id>>

TradeId    == 0..(MaxTrades - 1)
TradePhase == {"Mutate", "Review", "Complete"}

IsPendingTrade(t) ==
  /\ t = [parties |-> t.parties, offers |-> t.offers, phase |-> t.phase,
          accept_flags |-> t.accept_flags]
  /\ t.parties \in Entity \X Entity
  /\ t.offers = <<t.offers[1], t.offers[2]>> /\ IsOffer(t.offers[1]) /\ IsOffer(t.offers[2])
  /\ t.phase \in TradePhase
  /\ t.accept_flags \in BOOLEAN \X BOOLEAN

TradeAction ==
  [kind: {"AddItem", "RemoveItem"}, item: Slot, quantity: Deltas, ours: BOOLEAN]
    \cup [kind: {"Accept"}, phase: TradePhase]

UpdatePendingTrade(id, trade) == [kind |-> "UpdatePendingTrade", id |-> id, trade |-> trade]
FinishedTrade(result)         == [kind |-> "FinishedTrade", result |-> result]
IsMessage(m) ==
  \/ /\ m.kind = "UpdatePendingTrade" /\ m = UpdatePendingTrade(m.id, m.trade)
     /\ m.id \in TradeId /\ IsPendingTrade(m.trade)
  \/ /\ m.kind = "FinishedTrade" /\ m = FinishedTrade(m.result)
     /\ m.result \in {"Completed", "Declined", "NotEnoughSpace"}

(* HashMap::insert and HashMap::remove.                                     *)
insert(m, k, v) == [x \in DOMAIN m \cup {k} |-> IF x = k THEN v ELSE m[x]]
remove(m, k)    == [x \in DOMAIN m \ {k} |-> m[x]]

Silence     == [e \in Entity |-> <<>>]
TellOne(to, m) ==                                             \* slip: one party only
  [e \in Entity |-> IF to # {} /\ e = CHOOSE f \in to : TRUE THEN <<m>> ELSE <<>>]
Tell(to, m) == [e \in Entity |-> IF e \in to THEN <<m>> ELSE <<>>]

Init ==
  /\ inv = FirstInv
  /\ here = Entity
  /\ downed = {}
  /\ invites = [e \in Entity |-> None]
  /\ pending = {}
  /\ trades = <<>>
  /\ entity_trades = [e \in Entity |-> None]
  /\ next_id = 0
  /\ out = Silence

----------------------------------------------------------------------------
(* The bookkeeping of Trades: an operation takes and returns the two maps,  *)
(* and names the entities to notify.                                        *)

book == [trades |-> trades, entity_trades |-> entity_trades, notify |-> {}]

NewTrade(party, counterparty) ==
  [parties |-> <<party, counterparty>>, offers |-> <<<<>>, <<>>>>,
   phase |-> "Mutate", accept_flags |-> <<FALSE, FALSE>>]

Parties(trade)        == {trade.parties[1], trade.parties[2]}
OtherParty(trade, e)  == IF trade.parties[1] = e THEN trade.parties[2] ELSE trade.parties[1]
which_party(trade, e) == IF trade.parties[1] = e THEN 1 ELSE 2

DeclineOneSided(b, id, who) ==                                \* slip: one mapping stays
  IF id \in DOMAIN b.trades /\ who \in Parties(b.trades[id])
  THEN [trades        |-> remove(b.trades, id),
        entity_trades |-> [b.entity_trades EXCEPT ![who] = None],
        notify        |-> {OtherParty(b.trades[id], who)}]
  ELSE b

decline_trade(b, id, who) ==
  IF id \in DOMAIN b.trades /\ who \in Parties(b.trades[id])
  THEN [trades        |-> remove(b.trades, id),
        entity_trades |-> [e \in Entity |->
                             IF e \in Parties(b.trades[id]) THEN None ELSE b.entity_trades[e]],
        notify        |-> {OtherParty(b.trades[id], who)}]
  ELSE b

(* Decline the trade that an entity is in, if it is in one.                 *)
decline_current(b, e) ==
  IF b.entity_trades[e] = None THEN b ELSE decline_trade(b, b.entity_trades[e], e)

begin_trade(b, id, party, counterparty) ==
  [trades        |-> insert(b.trades, id, NewTrade(party, counterparty)),
   entity_trades |-> [e \in Entity |->
                        IF e \in {party, counterparty} THEN id ELSE b.entity_trades[e]],
   notify        |-> b.notify]

Keep(b) == trades' = b.trades /\ entity_trades' = b.entity_trades

in_trade_with_phase(e, phases) ==
  /\ entity_trades[e] # None
  /\ entity_trades[e] \in DOMAIN trades
  /\ trades[entity_trades[e]].phase \in phases

OnceComplete(e)       == in_trade_with_phase(e, {"Complete"})   \* slip: too late
in_immutable_trade(e) == in_trade_with_phase(e, {"Review", "Complete"})
in_mutable_trade(e)   == in_trade_with_phase(e, {"Mutate"})

is_alive_and_well(e) == e \in here /\ e \notin downed

----------------------------------------------------------------------------
(* Invites                                                                  *)

(* InitiateInviteEvent, kind Trade.  The inviter's current trade is closed  *)
(* before it is known whether the invitee can be invited.                   *)
InitiateInvite(p, q) ==
  LET b == decline_current(book, p)
  IN  /\ p # q /\ is_alive_and_well(p) /\ is_alive_and_well(q)
      /\ Keep(b)
      /\ out' = Tell(b.notify, FinishedTrade("Declined"))
      /\ IF invites[q] # None THEN UNCHANGED inviteVars
         ELSE /\ invites' = [invites EXCEPT ![q] = p]
              /\ pending' = pending \cup {<<p, q>>}
      /\ UNCHANGED <<inv, here, downed, next_id>>

TakeUnlisted(q) ==                                            \* slip: stays pending
  /\ invites[q] # None
  /\ invites' = [invites EXCEPT ![q] = None]
  /\ UNCHANGED pending

(* get_inviter_and_kind: the invite is consumed in any case, but counts     *)
(* only while the inviter still has it pending.                             *)
TakeInvite(q) ==
  /\ invites[q] # None
  /\ invites' = [invites EXCEPT ![q] = None]
  /\ pending' = pending \ {<<invites[q], q>>}

StillPending(q) == <<invites[q], q>> \in pending

(* The invitee's trade is closed first; if that was a trade with the        *)
(* inviter, the inviter is free again.                                      *)
handle_invite_accept(q) ==
  LET p == invites[q]
      b == decline_current(book, q)
      new == begin_trade(b, next_id, p, q)
      began == StillPending(q) /\ b.entity_trades[p] = None
      finished(e) == IF e \in b.notify THEN <<FinishedTrade("Declined")>> ELSE <<>>
      started(e)  == IF e \in {p, q} THEN <<UpdatePendingTrade(next_id, NewTrade(p, q))>> ELSE <<>>
  IN  /\ TakeInvite(q)
      /\ began => next_id < MaxTrades
      /\ CASE ~StillPending(q) -> UNCHANGED tradeVars /\ out' = Silence
           [] StillPending(q) /\ ~began ->
                Keep(b) /\ UNCHANGED next_id /\ out' = [e \in Entity |-> finished(e)]
           [] began -> /\ Keep(new) /\ next_id' = next_id + 1
                       /\ out' = [e \in Entity |-> finished(e) \o started(e)]
      /\ UNCHANGED <<inv, here, downed>>

handle_invite_decline(q) ==
  /\ TakeInvite(q)
  /\ out' = Silence
  /\ UNCHANGED <<inv, here, downed>> /\ UNCHANGED tradeVars

TimeoutOfTheWell(q) ==                                        \* slip: skips the downed
  /\ invites[q] # None /\ StillPending(q) /\ is_alive_and_well(q)
  /\ TakeInvite(q)
  /\ out' = Silence
  /\ UNCHANGED <<inv, here, downed>> /\ UNCHANGED tradeVars

(* invite_timeout: a deadline passes at some time not modelled; the system  *)
(* looks at invites that the inviter still lists.                           *)
InviteTimeout(q) ==
  /\ invites[q] # None /\ StillPending(q)
  /\ TakeInvite(q)
  /\ out' = Silence
  /\ UNCHANGED <<inv, here, downed>> /\ UNCHANGED tradeVars

----------------------------------------------------------------------------
(* PendingTrade::process_trade_action                                       *)

Unaccepted(trade) == [trade EXCEPT !.accept_flags = <<FALSE, FALSE>>]

AddItem(trade, who, s, delta) ==
  LET owned == inv[trade.parties[who]][s].amount
      offer == trade.offers[who]
  IN  IF trade.phase # "Mutate" THEN trade
      ELSE Unaccepted([trade EXCEPT !.offers[who] =
             insert(offer, s, Min({Quantity(offer, s) + delta, owned}))])

RemoveUnchecked(trade, who, s, delta) ==                      \* slip: no saturation
  LET offer == trade.offers[who]
  IN  IF trade.phase # "Mutate" \/ s \notin DOMAIN offer THEN trade
      ELSE Unaccepted([trade EXCEPT !.offers[who] = insert(offer, s, offer[s] - delta)])

RemoveItem(trade, who, s, delta) ==
  LET offer == trade.offers[who]
  IN  IF trade.phase # "Mutate" THEN trade
      ELSE Unaccepted([trade EXCEPT !.offers[who] =
             IF Quantity(offer, s) > delta THEN insert(offer, s, offer[s] - delta)
             ELSE remove(offer, s)])

is_empty_trade(trade) == DOMAIN trade.offers[1] = {} /\ DOMAIN trade.offers[2] = {}

NextPhase(phase) == IF phase = "Mutate" THEN "Review" ELSE "Complete"

AcceptAnyPhase(trade, who, phase) ==                          \* slip: phase ignored
  LET flagged == IF is_empty_trade(trade) THEN trade
                 ELSE [trade EXCEPT !.accept_flags[who] = TRUE]
  IN  IF flagged.accept_flags = <<TRUE, TRUE>>
      THEN Unaccepted([flagged EXCEPT !.phase = NextPhase(flagged.phase)])
      ELSE flagged

Accept(trade, who, phase) ==
  LET agrees  == trade.phase = phase /\ ~is_empty_trade(trade)
      flagged == IF agrees THEN [trade EXCEPT !.accept_flags[who] = TRUE] ELSE trade
  IN  IF flagged.accept_flags = <<TRUE, TRUE>>
      THEN Unaccepted([flagged EXCEPT !.phase = NextPhase(flagged.phase)])
      ELSE flagged

process_trade_action(trade, e, a) ==
  LET who   == which_party(trade, e)
      whose == IF a.kind # "Accept" /\ ~a.ours THEN 3 - who ELSE who
  IN  IF e \notin Parties(trade) \/ ~(Parties(trade) \subseteq here) THEN trade
      ELSE CASE a.kind = "AddItem"    -> AddItem(trade, whose, a.item, a.quantity)
             [] a.kind = "RemoveItem" -> RemoveItem(trade, whose, a.item, a.quantity)
             [] a.kind = "Accept"     -> Accept(trade, who, a.phase)

----------------------------------------------------------------------------
(* ProcessTradeActionEvent                                                  *)

(* The commit of a trade in phase Complete, taking and giving the items of  *)
(* the two offers in some order (that everything fits is what MCTradeCommit *)
(* checks), and the end of the trade.                                       *)
Commit(id, trade, orders) ==
  LET mine   == [who \in 1..2 |-> inv[trade.parties[who]]]
      given  == Exchange(mine, trade.offers, orders)
      result == IF Parties(trade) \subseteq here THEN commit_result(mine, trade.offers)
                ELSE "Declined"
  IN  /\ inv' = [e \in Entity |->
                   IF result = "Completed" /\ e \in Parties(trade)
                   THEN given[which_party(trade, e)].inv ELSE inv[e]]
      /\ trades' = remove(trades, id)
      /\ entity_trades' = [e \in Entity |->
                             IF e \in Parties(trade) THEN None ELSE entity_trades[e]]
      /\ out' = Tell(Parties(trade) \cap here, FinishedTrade(result))

DeclineTrade(e, id) ==
  LET b == decline_trade(book, id, e)
  IN  /\ e \in here
      /\ Keep(b)
      /\ out' = Tell(b.notify \cap here, FinishedTrade("Declined"))
      /\ UNCHANGED <<inv, here, downed, next_id>> /\ UNCHANGED inviteVars

(* Every action but Decline; both parties see the new state of the trade,   *)
(* even if the action changed nothing.                                      *)
ProcessTradeAction(e, id, a) ==
  LET trade == process_trade_action(trades[id], e, a)
  IN  /\ is_alive_and_well(e)
      /\ id \in DOMAIN trades
      /\ \/ /\ trade.phase = "Complete"
            /\ \E o1 \in Orders(trade.offers[1]), o2 \in Orders(trade.offers[2]) :
                 Commit(id, trade, <<o1, o2>>)
         \/ /\ trade.phase # "Complete"
            /\ trades' = insert(trades, id, trade)
            /\ out' = Tell(Parties(trade) \cap here, UpdatePendingTrade(id, trade))
            /\ UNCHANGED <<inv, entity_trades>>
      /\ UNCHANGED <<here, downed, next_id>> /\ UNCHANGED inviteVars

----------------------------------------------------------------------------
(* Inventories outside of trades                                            *)

Swap(v, a, b)   == [v EXCEPT ![a] = v[b], ![b] = v[a]]
Delete(v, s, n) == [v EXCEPT ![s] = take_amount(v[s], n)]

(* InventoryManipEvent: refused in the review phase, and in the first phase *)
(* it silently resets both accept flags.                                    *)
InventoryManip(e, v) ==
  /\ e \in here /\ e \notin downed
  /\ ~in_immutable_trade(e)
  /\ inv' = [inv EXCEPT ![e] = v]
  /\ trades' = IF in_mutable_trade(e)
               THEN [trades EXCEPT ![entity_trades[e]] = Unaccepted(@)] ELSE trades
  /\ out' = Silence
  /\ UNCHANGED <<here, downed, entity_trades, next_id>> /\ UNCHANGED inviteVars

SwapSlots(e)  == \E a, b \in Slot : a < b /\ InventoryManip(e, Swap(inv[e], a, b))
DeleteSome(e) == \E s \in Slot, n \in Deltas : InventoryManip(e, Delete(inv[e], s, n))

(* Two events move items without asking Trades.  remove_item_amount empties *)
(* stacks in slot order and returns what it took from each (nothing, from   *)
(* most of them; pushing nothing changes nothing).                          *)
has_space_for(v, g) ==
  SumOver([s \in Slot |-> RoomIn(v, g.item, s)], Slot)
    + Cardinality(Slot \ Populated(v)) * MaxAmount[g.item] >= g.amount

HeldBefore(v, i, s) == SumOver(Amounts(v), SlotsWith(v, i) \cap 1..(s - 1))

TakenAt(v, g, s) ==
  IF v[s].item = g.item THEN Clamp(g.amount - HeldBefore(v, g.item, s), 0, v[s].amount) ELSE 0

remove_item_amount(v, g) ==
  [s \in Slot |-> IF TakenAt(v, g, s) = 0 THEN v[s]
                  ELSE IF TakenAt(v, g, s) = v[s].amount THEN Empty
                  ELSE [v[s] EXCEPT !.amount = @ - TakenAt(v, g, s)]]

removed_items(v, g) ==
  [s \in Slot |-> [item |-> g.item, amount |-> TakenAt(v, g, s)]]

OutsideOfTrades ==
  Ungated /\ out' = Silence
    /\ UNCHANGED <<here, downed>> /\ UNCHANGED inviteVars /\ UNCHANGED tradeVars

(* DialogueEvent: a statement or response may come with an item.            *)
Dialogue(sender, target, g) ==
  /\ {sender, target} \subseteq here /\ {sender, target} \cap Npcs # {}
  /\ has_space_for(inv[target], g) /\ item_count(inv[sender], g.item) >= g.amount
  /\ LET left == [inv EXCEPT ![sender] = remove_item_amount(@, g)]
     IN  inv' = [left EXCEPT ![target] = push_all(@, removed_items(inv[sender], g)).inv]
  /\ OutsideOfTrades

(* TranscribeSpellEvent: a page is paid for with what the mage carries.     *)
Transcribe(e, fee) ==
  /\ e \in here
  /\ item_count(inv[e], fee.item) >= fee.amount
  /\ inv' = [inv EXCEPT ![e] = remove_item_amount(@, fee)]
  /\ OutsideOfTrades

----------------------------------------------------------------------------
(* What happens to entities                                                 *)

(* EntityAttackedHookEvent: an attack cancels the trade of its target.      *)
Attacked(e) ==
  LET b == decline_current(book, e)
  IN  /\ e \in here
      /\ Keep(b)
      /\ out' = IF b.notify = {} THEN Silence
                ELSE Tell(b.notify \cup {e}, FinishedTrade("Declined"))
      /\ UNCHANGED <<inv, here, downed, next_id>> /\ UNCHANGED inviteVars

Down(e) ==
  /\ e \in here \ downed
  /\ downed' = downed \cup {e}
  /\ out' = Silence
  /\ UNCHANGED <<inv, here>> /\ UNCHANGED inviteVars /\ UNCHANGED tradeVars

Recover(e) ==
  /\ e \in downed
  /\ downed' = downed \ {e}
  /\ out' = Silence
  /\ UNCHANGED <<inv, here>> /\ UNCHANGED inviteVars /\ UNCHANGED tradeVars

(* exit_ingame or deletion: the trade is cancelled; the entity's own Invite *)
(* and PendingInvites go with it, those of others that name it stay.        *)
Leave(e) ==
  LET b == decline_current(book, e)
  IN  /\ e \in here
      /\ here' = here \ {e}
      /\ downed' = downed \ {e}
      /\ Keep(b)
      /\ invites' = [invites EXCEPT ![e] = None]
      /\ pending' = {pq \in pending : pq[1] # e}
      /\ out' = Tell(b.notify, FinishedTrade("Declined"))
      /\ UNCHANGED <<inv, next_id>>

----------------------------------------------------------------------------
InviteStep ==
  \/ \E p, q \in Entity : InitiateInvite(p, q)
  \/ \E q \in Entity :
       handle_invite_accept(q) \/ handle_invite_decline(q) \/ InviteTimeout(q)

TradeStep ==
  \E e \in Entity, id \in TradeId :
    DeclineTrade(e, id) \/ \E a \in TradeAction : ProcessTradeAction(e, id, a)

OtherStep ==
  \/ \E e \in Entity : SwapSlots(e) \/ DeleteSome(e)
  \/ \E e \in Entity, g \in Gifts : Transcribe(e, g) \/ \E f \in Entity : Dialogue(e, f, g)
  \/ \E e \in Disturbed : Attacked(e) \/ Down(e) \/ Recover(e) \/ Leave(e)

Next == InviteStep \/ TradeStep \/ OtherStep

Spec == Init /\ [][Next]_vars

(* The server runs the invite_timeout system on every tick, and time passes.*)
TimelySpec == Spec /\ \A q \in Entity : WF_vars(InviteTimeout(q))

----------------------------------------------------------------------------
(* Properties                                                               *)

(* Every variable has its type.                                             *)
TypeOK ==
  /\ inv \in [Entity -> Inventory]
  /\ here \subseteq Entity
  /\ downed \subseteq here
  /\ invites \in [Entity -> Entity \cup {None}]
  /\ pending \subseteq Entity \X Entity
  /\ DOMAIN trades \subseteq TradeId
  /\ \A id \in DOMAIN trades : IsPendingTrade(trades[id])
  /\ entity_trades \in [Entity -> TradeId \cup {None}]
  /\ next_id \in 0..MaxTrades
  /\ DOMAIN out = Entity
  /\ \A e \in Entity : \A m \in Range(out[e]) : IsMessage(m)

(* The two maps of Trades agree: an entity that has a trade is a party of   *)
(* it, both parties of a trade have it, both are in the world, and they are *)
(* two.  Invites, commits, attacks and logouts each undo a trade from one   *)
(* side; a mapping left behind would gate that entity's inventory forever.  *)
TradesConsistent ==
  /\ \A e \in Entity : entity_trades[e] # None =>
       entity_trades[e] \in DOMAIN trades /\ e \in Parties(trades[entity_trades[e]])
  /\ \A id \in DOMAIN trades :
       /\ trades[id].parties[1] # trades[id].parties[2]
       /\ Parties(trades[id]) \subseteq here
       /\ \A e \in Parties(trades[id]) : entity_trades[e] = id

(* Invite and PendingInvites agree while both entities are in the world:    *)
(* an unlisted invite could neither be accepted nor time out, and a listed  *)
(* one that is gone would count against its inviter.                        *)
InvitesConsistent ==
  \A p, q \in here : (invites[q] = p) <=> (<<p, q>> \in pending)

(* What an offer stands for: the stacks in the offered slots, and how much  *)
(* of each.                                                                 *)
Terms(trade) ==
  [who \in 1..2 |->
     [s \in DOMAIN trade.offers[who] |->
        <<inv[trade.parties[who]][s], trade.offers[who][s]>>]]

Continues(id) == id \in DOMAIN trades /\ id \in DOMAIN trades'

(* Whoever changes what an open trade stands for, through the trade or      *)
(* through an inventory, resets both accept flags in the same step: nobody  *)
(* is taken to have accepted terms other than those they accepted.          *)
AcceptanceIsFresh ==
  [][\A id \in TradeId : Continues(id) /\ Terms(trades[id])' # Terms(trades[id]) =>
       trades'[id].accept_flags = <<FALSE, FALSE>>]_vars

(* PendingTrade's doc: past the first phase the offered slots cannot change *)
(* under the counterparty's feet.                                           *)
TermsFrozen ==
  [][\A id \in TradeId :
       Continues(id) /\ trades[id].phase = "Review" => Terms(trades[id])' = Terms(trades[id])]_vars

(* An invite is answered or times out while its inviter stays in the world. *)
ListedInvitesExpire ==
  \A q \in Entity : invites[q] # None ~> invites[q] = None \/ invites[q] \notin here

----------------------------------------------------------------------------
(* Statements of the sources that do not hold: the README says when.        *)

(* process_trade_action's doc: a party is never shown as offering more of   *)
(* an item than they own.                                                   *)
OffersOwned ==
  \A id \in DOMAIN trades, who \in 1..2 :
    \A s \in DOMAIN trades[id].offers[who] :
      trades[id].offers[who][s] <= inv[trades[id].parties[who]][s].amount

(* process_trade_action's doc: offers with a quantity of zero are removed.  *)
NoZeroOffers ==
  \A id \in DOMAIN trades, who \in 1..2 :
    \A s \in DOMAIN trades[id].offers[who] : trades[id].offers[who][s] > 0

(* invite_timeout's doc: the system removes timed out invites.              *)
InvitesExpire == \A q \in Entity : invites[q] # None ~> invites[q] = None
=============================================================================
