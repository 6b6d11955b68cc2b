----------------------------- MODULE TradeProofs ------------------------------
(***************************************************************************)
(* Theorems about Trade, TradeClients and TradeConsent, for any entities,   *)
(* inventories, numbers of trades and lengths of streams: the two maps of   *)
(* Trades always agree, invites and their inviters' lists agree, every      *)
(* variable has its type, and but for the two events that do not ask Trades *)
(* nothing changes what a trade in review stands for, and goods change      *)
(* hands only to terms both parties have accepted.  A player's Accept means *)
(* the terms on that player's screen, and a screen to which nothing is      *)
(* under way shows the terms the server has.                                *)
(***************************************************************************)
EXTENDS TradeClients, TradeConsent, CommitProofs


IsTrade(t) ==
  /\ t = [parties |-> t.parties, offers |-> t.offers, phase |-> t.phase,
          accept_flags |-> t.accept_flags]
  /\ t.parties \in Entity \X Entity
  /\ t.phase \in TradePhase

(* A pair of maps as Trades may hold them.                                  *)
BookOK(b) ==
  /\ b = [trades |-> b.trades, entity_trades |-> b.entity_trades, notify |-> b.notify]
  /\ b.entity_trades \in [Entity -> TradeId \cup {None}]
  /\ DOMAIN b.trades \subseteq TradeId
  /\ \A e \in Entity : b.entity_trades[e] # None =>
       b.entity_trades[e] \in DOMAIN b.trades /\ e \in Parties(b.trades[b.entity_trades[e]])
  /\ \A id \in DOMAIN b.trades :
       /\ IsTrade(b.trades[id])
       /\ b.trades[id].parties[1] # b.trades[id].parties[2]
       /\ \A e \in Parties(b.trades[id]) : b.entity_trades[e] = id

(* Trades only name entities of the world, under ids already given out.     *)
TradesOK ==
  /\ BookOK(book)
  /\ next_id \in Nat
  /\ \A id \in DOMAIN trades : id < next_id /\ Parties(trades[id]) \subseteq here

InvitesOK ==
  /\ here \subseteq Entity
  /\ invites \in [Entity -> Entity \cup {None}]
  /\ \A q \in Entity : invites[q] # None => q \in here
  /\ \A pq \in pending : pq \in Entity \X Entity /\ pq[1] \in here /\ pq[1] # pq[2]
  /\ InvitesConsistent

(* The inductive invariant.                                                 *)
IInv == TradesOK /\ InvitesOK

----------------------------------------------------------------------------
(* The operations of Trades                                                 *)

LEMMA Distinct == None \notin TradeId /\ None \notin Entity /\ TradeId \subseteq Nat
  BY TradeAssumption DEF TradeId

(* Declining takes one trade out of both maps and leaves the rest.          *)
LEMMA DeclineOK ==
  ASSUME NEW b, BookOK(b), NEW id, NEW who \in Entity,
         NEW d, d = decline_trade(b, id, who)
  PROVE  /\ BookOK(d)
         /\ DOMAIN d.trades \subseteq DOMAIN b.trades
         /\ \A i \in DOMAIN d.trades : d.trades[i] = b.trades[i]
<1>1. CASE id \in DOMAIN b.trades /\ who \in Parties(b.trades[id])
  <2>1. /\ d = [trades |-> d.trades, entity_trades |-> d.entity_trades, notify |-> d.notify]
        /\ DOMAIN d.trades = DOMAIN b.trades \ {id}
        /\ \A i \in DOMAIN d.trades : d.trades[i] = b.trades[i]
        /\ d.entity_trades = [e \in Entity |->
                IF e \in Parties(b.trades[id]) THEN None ELSE b.entity_trades[e]]
    BY <1>1 DEF decline_trade, remove
  <2>2. ASSUME NEW e \in Entity, d.entity_trades[e] # None
        PROVE  /\ d.entity_trades[e] = b.entity_trades[e]
               /\ d.entity_trades[e] # id
    BY <1>1, <2>1, <2>2 DEF BookOK
  <2>3. \A e \in Entity : d.entity_trades[e] # None =>
          d.entity_trades[e] \in DOMAIN d.trades /\ e \in Parties(d.trades[d.entity_trades[e]])
    BY <2>1, <2>2 DEF BookOK
  <2>4. ASSUME NEW i \in DOMAIN d.trades, NEW e \in Parties(d.trades[i])
        PROVE  d.entity_trades[e] = i
    <3>1. e \in Entity /\ b.entity_trades[e] = i
      BY <2>1, <2>4 DEF BookOK, IsTrade, Parties
    <3>2. e \notin Parties(b.trades[id])
      BY <1>1, <2>1, <3>1 DEF BookOK
    <3>. QED
      BY <2>1, <3>1, <3>2
  <2>. QED
    BY <2>1, <2>3, <2>4 DEF BookOK
<1>2. CASE ~(id \in DOMAIN b.trades /\ who \in Parties(b.trades[id]))
  BY <1>2 DEF decline_trade
<1>. QED
  BY <1>1, <1>2

(* After an entity's current trade is declined it has none.                 *)
LEMMA DeclineCurrentOK ==
  ASSUME NEW b, BookOK(b), NEW e \in Entity, NEW d, d = decline_current(b, e)
  PROVE  /\ BookOK(d)
         /\ DOMAIN d.trades \subseteq DOMAIN b.trades
         /\ \A i \in DOMAIN d.trades : d.trades[i] = b.trades[i]
         /\ d.entity_trades[e] = None
         /\ \A i \in DOMAIN d.trades : e \notin Parties(d.trades[i])
<1>1. CASE b.entity_trades[e] = None
  BY <1>1, Distinct DEF decline_current, BookOK
<1>2. CASE b.entity_trades[e] # None
  <2>1. d = decline_trade(b, b.entity_trades[e], e)
    BY <1>2 DEF decline_current
  <2>2. d.entity_trades[e] = None
    BY <1>2, <2>1 DEF decline_trade, BookOK
  <2>. QED
    BY <2>1, <2>2, DeclineOK, Distinct DEF BookOK
<1>. QED
  BY <1>1, <1>2

(* A trade begun between two entities without one.                          *)
LEMMA BeginOK ==
  ASSUME NEW b, BookOK(b), NEW id \in TradeId, id \notin DOMAIN b.trades,
         NEW p \in Entity, NEW q \in Entity, p # q,
         b.entity_trades[p] = None, b.entity_trades[q] = None,
         NEW d, d = begin_trade(b, id, p, q)
  PROVE  /\ BookOK(d)
         /\ DOMAIN d.trades = DOMAIN b.trades \cup {id}
         /\ \A i \in DOMAIN b.trades : d.trades[i] = b.trades[i]
         /\ d.trades[id] = NewTrade(p, q)
<1>1. /\ d = [trades |-> d.trades, entity_trades |-> d.entity_trades, notify |-> d.notify]
      /\ DOMAIN d.trades = DOMAIN b.trades \cup {id}
      /\ \A i \in DOMAIN b.trades : d.trades[i] = b.trades[i]
      /\ d.trades[id] = NewTrade(p, q)
      /\ d.entity_trades = [e \in Entity |-> IF e \in {p, q} THEN id ELSE b.entity_trades[e]]
  BY DEF begin_trade, insert, BookOK
<1>2. IsTrade(d.trades[id]) /\ Parties(d.trades[id]) = {p, q} /\ d.trades[id].parties = <<p, q>>
  BY <1>1 DEF IsTrade, NewTrade, Parties, TradePhase
<1>3. \A e \in Entity : d.entity_trades[e] # None =>
        d.entity_trades[e] \in DOMAIN d.trades /\ e \in Parties(d.trades[d.entity_trades[e]])
  BY <1>1, <1>2 DEF BookOK
<1>4. ASSUME NEW i \in DOMAIN d.trades, NEW e \in Parties(d.trades[i])
      PROVE  d.entity_trades[e] = i
  <2>1. CASE i = id
    BY <1>1, <1>2, <1>4, <2>1
  <2>2. CASE i # id
    <3>1. e \in Entity /\ b.entity_trades[e] = i /\ i \in TradeId
      BY <1>1, <1>4, <2>2 DEF BookOK, IsTrade, Parties
    <3>. QED
      BY <1>1, <3>1, Distinct
  <2>. QED
    BY <2>1, <2>2
<1>. QED
  BY <1>1, <1>2, <1>3, <1>4 DEF BookOK

----------------------------------------------------------------------------
(* PendingTrade::process_trade_action never changes the parties, and the    *)
(* offers only in the first phase, with both accept flags taken back.       *)

OpenEdit(t, u) ==
  /\ IsTrade(u)
  /\ u.parties = t.parties
  /\ \/ u.offers = t.offers
     \/ t.phase = "Mutate" /\ u.accept_flags = <<FALSE, FALSE>>

LEMMA FieldOK ==
  ASSUME NEW t, IsTrade(t), NEW x
  PROVE  /\ LET u == [t EXCEPT !.offers = x]
            IN  IsTrade(u) /\ u.parties = t.parties
         /\ LET u == [t EXCEPT !.phase = x]
            IN  (x \in TradePhase => IsTrade(u)) /\ u.parties = t.parties /\ u.offers = t.offers
         /\ LET u == [t EXCEPT !.accept_flags = x]
            IN  IsTrade(u) /\ u.parties = t.parties /\ u.offers = t.offers /\ u.phase = t.phase /\ u.accept_flags = x
  BY DEF IsTrade

LEMMA UnacceptedOK ==
  ASSUME NEW t, IsTrade(t)
  PROVE  /\ IsTrade(Unaccepted(t))
         /\ Unaccepted(t).parties = t.parties
         /\ Unaccepted(t).offers = t.offers
         /\ Unaccepted(t).phase = t.phase
         /\ Unaccepted(t).accept_flags = <<FALSE, FALSE>>
<1>1. ASSUME NEW x
      PROVE  /\ IsTrade([t EXCEPT !.accept_flags = x])
             /\ [t EXCEPT !.accept_flags = x].parties = t.parties
             /\ [t EXCEPT !.accept_flags = x].offers = t.offers
             /\ [t EXCEPT !.accept_flags = x].phase = t.phase
             /\ [t EXCEPT !.accept_flags = x].accept_flags = x
  BY FieldOK
<1>. QED
  BY <1>1, Zenon DEF Unaccepted

LEMMA AcceptOK ==
  ASSUME NEW t, IsTrade(t), NEW who \in 1..2, NEW phase
  PROVE  OpenEdit(t, Accept(t, who, phase))
<1>. DEFINE flagged == IF t.phase = phase /\ ~is_empty_trade(t)
                       THEN [t EXCEPT !.accept_flags = [t.accept_flags EXCEPT ![who] = TRUE]]
                       ELSE t
            next == [flagged EXCEPT !.phase = NextPhase(flagged.phase)]
<1>1. IsTrade(flagged) /\ flagged.parties = t.parties /\ flagged.offers = t.offers
  BY FieldOK
<1>2. Accept(t, who, phase) = IF flagged.accept_flags = <<TRUE, TRUE>>
                              THEN Unaccepted(next) ELSE flagged
  BY DEF Accept
<1>. HIDE DEF flagged
<1>3. IsTrade(next) /\ next.parties = t.parties /\ next.offers = t.offers
  <2>1. NextPhase(flagged.phase) \in TradePhase
    BY DEF NextPhase, TradePhase
  <2>. QED
    BY <1>1, <2>1, FieldOK
<1>. HIDE DEF next
<1>. QED
  BY <1>1, <1>2, <1>3, UnacceptedOK DEF OpenEdit

LEMMA EditOK ==
  ASSUME NEW t, IsTrade(t), NEW who \in 1..2, NEW s, NEW n
  PROVE  OpenEdit(t, AddItem(t, who, s, n)) /\ OpenEdit(t, RemoveItem(t, who, s, n))
<1>1. ASSUME NEW o
      PROVE  /\ IsTrade([t EXCEPT !.offers = o])
             /\ [t EXCEPT !.offers = o].parties = t.parties
  BY DEF IsTrade
<1>2. ASSUME NEW o, t.phase = "Mutate"
      PROVE  OpenEdit(t, Unaccepted([t EXCEPT !.offers = o]))
  BY <1>1, <1>2, UnacceptedOK DEF OpenEdit
<1>3. OpenEdit(t, t)
  BY DEF OpenEdit
<1>4. \/ AddItem(t, who, s, n) = t
      \/ t.phase = "Mutate" /\ \E o : AddItem(t, who, s, n) = Unaccepted([t EXCEPT !.offers = o])
  BY DEF AddItem
<1>5. \/ RemoveItem(t, who, s, n) = t
      \/ t.phase = "Mutate" /\ \E o : RemoveItem(t, who, s, n) = Unaccepted([t EXCEPT !.offers = o])
  BY DEF RemoveItem
<1>. QED
  BY <1>2, <1>3, <1>4, <1>5

LEMMA ProcessOK ==
  ASSUME NEW t, IsTrade(t), NEW e \in Entity, NEW a \in TradeAction
  PROVE  OpenEdit(t, process_trade_action(t, e, a))
<1>. DEFINE who   == which_party(t, e)
            whose == IF a.kind # "Accept" /\ ~a.ours THEN 3 - who ELSE who
<1>1. who \in 1..2 /\ whose \in 1..2
  BY DEF which_party
<1>2. a.kind \in {"AddItem", "RemoveItem", "Accept"}
  BY DEF TradeAction
<1>3. \/ process_trade_action(t, e, a) = t
      \/ process_trade_action(t, e, a) = AddItem(t, whose, a.item, a.quantity)
      \/ process_trade_action(t, e, a) = RemoveItem(t, whose, a.item, a.quantity)
      \/ process_trade_action(t, e, a) = Accept(t, who, a.phase)
  BY <1>2 DEF process_trade_action
<1>. HIDE DEF who, whose
<1>4. OpenEdit(t, t)
  BY DEF OpenEdit
<1>. QED
  BY <1>1, <1>3, <1>4, AcceptOK, EditOK

----------------------------------------------------------------------------
(* One step keeps the books.                                                *)

(* A step that takes its two maps from a good book, and loses no entity.    *)
LEMMA KeepOK ==
  ASSUME NEW b, BookOK(b), Keep(b)
  PROVE  BookOK(book)'
  BY DEF BookOK, Keep, book

(* Nothing but trades that were there before, and who leaves is in none.    *)
LEMMA FewerOK ==
  ASSUME TradesOK, NEW b, BookOK(b), Keep(b), next_id' = next_id,
         DOMAIN b.trades \subseteq DOMAIN trades,
         \A i \in DOMAIN b.trades : b.trades[i] = trades[i] /\ Parties(b.trades[i]) \subseteq here'
  PROVE  TradesOK'
<1>1. BookOK(book)'
  BY KeepOK
<1>. QED
  BY <1>1 DEF TradesOK, Keep

LEMMA UnchangedOK ==
  ASSUME TradesOK, UNCHANGED <<trades, entity_trades, next_id, here>>
  PROVE  TradesOK'
  BY DEF TradesOK, BookOK, book

(* Declining the trade of one entity keeps them, also if that entity leaves.*)
LEMMA DeclineStepOK ==
  ASSUME TradesOK, InvitesOK, NEW e \in Entity, Keep(decline_current(book, e)),
         next_id' = next_id, here' = here \/ here' = here \ {e}
  PROVE  TradesOK'
<1>. DEFINE b == decline_current(book, e)
<1>1. BookOK(book) /\ book.trades = trades
  BY DEF TradesOK, book
<1>2. /\ BookOK(b)
      /\ DOMAIN b.trades \subseteq DOMAIN trades
      /\ \A i \in DOMAIN b.trades : b.trades[i] = trades[i] /\ e \notin Parties(b.trades[i])
  BY <1>1, DeclineCurrentOK
<1>3. \A i \in DOMAIN b.trades : Parties(b.trades[i]) \subseteq here'
  BY <1>2 DEF TradesOK
<1>. HIDE DEF b
<1>. QED
  BY <1>2, <1>3, FewerOK DEF b

(* Trades may change, but not the parties of any.                           *)
LEMMA SamePartiesOK ==
  ASSUME TradesOK, UNCHANGED <<entity_trades, next_id, here>>,
         DOMAIN trades' = DOMAIN trades,
         \A i \in DOMAIN trades : IsTrade(trades'[i]) /\ trades'[i].parties = trades[i].parties
  PROVE  TradesOK'
<1>1. \A i \in DOMAIN trades : Parties(trades'[i]) = Parties(trades[i])
  BY DEF Parties
<1>2. BookOK(book)'
  BY <1>1 DEF TradesOK, BookOK, book
<1>. QED
  BY <1>1, <1>2 DEF TradesOK

LEMMA BookFacts ==
  ASSUME TradesOK
  PROVE  /\ BookOK(book)
         /\ book.trades = trades /\ book.entity_trades = entity_trades
         /\ \A id \in DOMAIN trades : IsTrade(trades[id]) /\ Parties(trades[id]) \subseteq Entity
         /\ \A id \in DOMAIN trades : \A e \in Parties(trades[id]) : entity_trades[e] = id
  BY DEF TradesOK, BookOK, book, IsTrade, Parties

(* The new trade of an accepted invite gets an id that no trade has.        *)
LEMMA AcceptInviteTrades ==
  ASSUME IInv, NEW q \in Entity, handle_invite_accept(q)
  PROVE  TradesOK'
<1>. DEFINE p   == invites[q]
            b   == decline_current(book, q)
            new == begin_trade(b, next_id, p, q)
            began == StillPending(q) /\ b.entity_trades[p] = None
<1>1. TradesOK /\ InvitesOK /\ next_id \in Nat /\ here' = here
  BY DEF IInv, TradesOK, handle_invite_accept
<1>2. /\ BookOK(b)
      /\ DOMAIN b.trades \subseteq DOMAIN trades
      /\ \A i \in DOMAIN b.trades : b.trades[i] = trades[i]
      /\ b.entity_trades[q] = None
  BY <1>1, BookFacts, DeclineCurrentOK
<1>3. \A i \in DOMAIN b.trades : Parties(b.trades[i]) \subseteq here' /\ i < next_id /\ i \in TradeId
  BY <1>1, <1>2 DEF TradesOK, BookOK
<1>4. \/ ~StillPending(q) /\ UNCHANGED tradeVars
      \/ ~began /\ Keep(b) /\ next_id' = next_id
      \/ began /\ next_id < MaxTrades /\ Keep(new) /\ next_id' = next_id + 1
  BY DEF handle_invite_accept
<1>5. CASE UNCHANGED tradeVars
  BY <1>1, <1>5, UnchangedOK DEF tradeVars
<1>6. CASE Keep(b) /\ next_id' = next_id
  <2>1. \A i \in DOMAIN b.trades : b.trades[i] = trades[i] /\ Parties(b.trades[i]) \subseteq here'
    BY <1>2, <1>3
  <2>. HIDE DEF b
  <2>. QED
    BY <1>1, <1>2, <1>6, <2>1, FewerOK
<1>7. CASE began /\ next_id < MaxTrades /\ Keep(new) /\ next_id' = next_id + 1
  <2>1. p \in Entity /\ p \in here /\ q \in here /\ p # q /\ b.entity_trades[p] = None
    BY <1>1, <1>7 DEF InvitesOK, StillPending, handle_invite_accept, TakeInvite
  <2>2. next_id \in TradeId /\ next_id \notin DOMAIN b.trades
    BY <1>1, <1>3, <1>7, TradeAssumption DEF TradeId
  <2>. HIDE DEF b, p
  <2>3. /\ BookOK(new)
        /\ DOMAIN new.trades = DOMAIN b.trades \cup {next_id}
        /\ \A i \in DOMAIN b.trades : new.trades[i] = b.trades[i]
        /\ new.trades[next_id] = NewTrade(p, q)
    BY <1>2, <2>1, <2>2, BeginOK
  <2>4. Parties(NewTrade(p, q)) = {p, q}
    BY DEF Parties, NewTrade
  <2>. HIDE DEF new
  <2>5. trades' = new.trades /\ BookOK(book)'
    BY <1>7, <2>3, KeepOK DEF Keep
  <2>6. \A i \in DOMAIN trades' : i < next_id' /\ Parties(trades'[i]) \subseteq here'
    <3>1. ASSUME NEW i \in DOMAIN b.trades
          PROVE  i < next_id + 1 /\ Parties(new.trades[i]) \subseteq here'
      <4>1. i \in Nat /\ i < next_id /\ Parties(b.trades[i]) \subseteq here'
        BY <1>3, Distinct
      <4>. QED
        BY <1>1, <2>3, <4>1
    <3>2. next_id < next_id + 1 /\ Parties(new.trades[next_id]) \subseteq here'
      BY <1>1, <2>1, <2>3, <2>4
    <3>. QED
      BY <1>7, <2>3, <2>5, <3>1, <3>2
  <2>. QED
    BY <1>1, <1>7, <2>5, <2>6 DEF TradesOK
<1>. QED
  BY <1>4, <1>5, <1>6, <1>7

(* The commit takes a trade out of both maps, just as declining it does.    *)
LEMMA ProcessTrades ==
  ASSUME IInv, NEW e \in Entity, NEW id \in TradeId, NEW a \in TradeAction,
         ProcessTradeAction(e, id, a)
  PROVE  TradesOK'
<1>. DEFINE trade == process_trade_action(trades[id], e, a)
<1>1. TradesOK /\ id \in DOMAIN trades /\ UNCHANGED <<next_id, here>>
  BY DEF IInv, ProcessTradeAction
<1>2. IsTrade(trade) /\ trade.parties = trades[id].parties /\ Parties(trade) = Parties(trades[id])
  BY <1>1, BookFacts, ProcessOK DEF Parties, OpenEdit
<1>3. \/ \E orders : Commit(id, trade, orders)
      \/ trades' = insert(trades, id, trade) /\ entity_trades' = entity_trades
  BY DEF ProcessTradeAction
<1>. HIDE DEF trade
<1>4. CASE \E orders : Commit(id, trade, orders)
  <2>. DEFINE who == trades[id].parties[1]
              b   == decline_trade(book, id, who)
  <2>1. who \in Entity /\ who \in Parties(trades[id])
    BY <1>1, BookFacts DEF Parties
  <2>2. Keep(b)
    BY <1>1, <1>2, <1>4, <2>1 DEF Commit, decline_trade, book, Keep
  <2>3. /\ BookOK(b)
        /\ DOMAIN b.trades \subseteq DOMAIN trades
        /\ \A i \in DOMAIN b.trades : b.trades[i] = trades[i]
    BY <1>1, <2>1, BookFacts, DeclineOK
  <2>4. \A i \in DOMAIN b.trades : Parties(b.trades[i]) \subseteq here'
    BY <1>1, <2>3 DEF TradesOK
  <2>. HIDE DEF b
  <2>. QED
    BY <1>1, <2>2, <2>3, <2>4, FewerOK
<1>5. CASE trades' = insert(trades, id, trade) /\ entity_trades' = entity_trades
  BY <1>1, <1>2, <1>5, BookFacts, SamePartiesOK DEF insert
<1>. QED
  BY <1>3, <1>4, <1>5

LEMMA InventoryTrades ==
  ASSUME IInv, NEW e \in Entity, NEW v, InventoryManip(e, v)
  PROVE  TradesOK'
<1>1. TradesOK /\ UNCHANGED <<entity_trades, next_id, here>>
  BY DEF IInv, InventoryManip
<1>2. CASE in_mutable_trade(e)
  <2>. DEFINE id == entity_trades[e]
  <2>1. id \in DOMAIN trades /\ trades' = [trades EXCEPT ![id] = Unaccepted(trades[id])]
    BY <1>2 DEF InventoryManip, in_mutable_trade, in_trade_with_phase
  <2>2. IsTrade(Unaccepted(trades[id])) /\ Unaccepted(trades[id]).parties = trades[id].parties
    BY <1>1, <2>1, BookFacts, UnacceptedOK
  <2>. HIDE DEF id
  <2>. QED
    BY <1>1, <2>1, <2>2, BookFacts, SamePartiesOK
<1>3. CASE ~in_mutable_trade(e)
  BY <1>1, <1>3, UnchangedOK DEF InventoryManip
<1>. QED
  BY <1>2, <1>3

LEMMA DeclineTrades ==
  ASSUME IInv, NEW e \in Entity, NEW id \in TradeId, DeclineTrade(e, id)
  PROVE  TradesOK'
<1>. DEFINE b == decline_trade(book, id, e)
<1>1. TradesOK /\ Keep(b) /\ UNCHANGED <<next_id, here>>
  BY DEF IInv, DeclineTrade
<1>2. /\ BookOK(b)
      /\ DOMAIN b.trades \subseteq DOMAIN trades
      /\ \A i \in DOMAIN b.trades : b.trades[i] = trades[i]
  BY <1>1, BookFacts, DeclineOK
<1>3. \A i \in DOMAIN b.trades : Parties(b.trades[i]) \subseteq here'
  BY <1>1, <1>2 DEF TradesOK
<1>. HIDE DEF b
<1>. QED
  BY <1>1, <1>2, <1>3, FewerOK

----------------------------------------------------------------------------
(* One step keeps the invites.                                              *)

LEMMA InviteKeeps ==
  ASSUME IInv, NEW p \in Entity, NEW q \in Entity, InitiateInvite(p, q)
  PROVE  InvitesOK'
<1>1. InvitesOK /\ here' = here /\ p # q /\ p \in here /\ q \in here
  BY DEF IInv, InitiateInvite, is_alive_and_well
<1>2. CASE invites[q] # None
  BY <1>1, <1>2 DEF InvitesOK, InvitesConsistent, InitiateInvite, inviteVars
<1>3. CASE invites[q] = None
  <2>1. invites' = [invites EXCEPT ![q] = p] /\ pending' = pending \cup {<<p, q>>}
    BY <1>3 DEF InitiateInvite
  <2>2. ASSUME NEW x \in here, NEW y \in here
        PROVE  (invites'[y] = x) <=> (<<x, y>> \in pending')
    <3>1. CASE y = q
      <4>1. <<x, q>> \notin pending
        BY <1>1, <1>3, Distinct DEF InvitesOK, InvitesConsistent
      <4>. QED
        BY <1>1, <2>1, <3>1, <4>1 DEF InvitesOK
    <3>2. CASE y # q
      BY <1>1, <2>1, <3>2 DEF InvitesOK, InvitesConsistent
    <3>. QED
      BY <3>1, <3>2
  <2>. QED
    BY <1>1, <2>1, <2>2 DEF InvitesOK, InvitesConsistent
<1>. QED
  BY <1>2, <1>3

(* Accepting, declining and timing out all consume the invite.              *)
LEMMA TakeKeeps ==
  ASSUME IInv, NEW q \in Entity, TakeInvite(q), here' = here
  PROVE  InvitesOK'
<1>1. /\ InvitesOK
      /\ invites' = [invites EXCEPT ![q] = None]
      /\ pending' = pending \ {<<invites[q], q>>}
  BY DEF IInv, TakeInvite
<1>2. ASSUME NEW x \in here, NEW y \in here
      PROVE  (invites'[y] = x) <=> (<<x, y>> \in pending')
  <2>1. x # None
    BY <1>1, Distinct DEF InvitesOK
  <2>2. CASE y = q
    <3>1. <<x, q>> \in pending => x = invites[q]
      BY <1>1, <1>2, <2>2 DEF InvitesOK, InvitesConsistent
    <3>. QED
      BY <1>1, <2>1, <2>2, <3>1 DEF InvitesOK
  <2>3. CASE y # q
    BY <1>1, <2>3 DEF InvitesOK, InvitesConsistent
  <2>. QED
    BY <2>2, <2>3
<1>. QED
  BY <1>1, <1>2 DEF InvitesOK, InvitesConsistent

LEMMA LeaveKeeps ==
  ASSUME IInv, NEW e \in Entity, Leave(e)
  PROVE  InvitesOK'
<1>1. /\ InvitesOK /\ here' = here \ {e}
      /\ invites' = [invites EXCEPT ![e] = None]
      /\ pending' = {pq \in pending : pq[1] # e}
  BY DEF IInv, Leave
<1>. QED
  BY <1>1 DEF InvitesOK, InvitesConsistent

LEMMA StillKeeps ==
  ASSUME IInv, UNCHANGED inviteVars, here' = here
  PROVE  InvitesOK'
  BY DEF IInv, InvitesOK, InvitesConsistent, inviteVars

----------------------------------------------------------------------------
(* The inductive invariant.                                                 *)

LEMMA InitIInv == Init => IInv
<1>. SUFFICES ASSUME Init PROVE IInv
  OBVIOUS
<1>1. DOMAIN trades = {} /\ next_id = 0 /\ entity_trades = [e \in Entity |-> None]
  BY DEF Init
<1>2. TradesOK
  BY <1>1, TradeAssumption DEF TradesOK, BookOK, book
<1>3. InvitesOK
  BY Distinct DEF Init, InvitesOK, InvitesConsistent
<1>. QED
  BY <1>2, <1>3 DEF IInv

LEMMA NextIInv == IInv /\ [Next]_vars => IInv'
<1>. SUFFICES ASSUME IInv, [Next]_vars PROVE IInv'
  OBVIOUS
<1>. USE DEF IInv
<1>1. ASSUME NEW p \in Entity, NEW q \in Entity, InitiateInvite(p, q)
      PROVE  IInv'
  <2>1. Keep(decline_current(book, p)) /\ UNCHANGED <<next_id, here>>
    BY <1>1 DEF InitiateInvite
  <2>. QED
    BY <1>1, <2>1, DeclineStepOK, InviteKeeps
<1>2. ASSUME NEW q \in Entity, handle_invite_accept(q)
      PROVE  IInv'
  <2>1. TakeInvite(q) /\ here' = here
    BY <1>2 DEF handle_invite_accept
  <2>. QED
    BY <1>2, <2>1, AcceptInviteTrades, TakeKeeps
<1>3. ASSUME NEW q \in Entity, handle_invite_decline(q) \/ InviteTimeout(q)
      PROVE  IInv'
  <2>1. TakeInvite(q) /\ UNCHANGED <<here, trades, entity_trades, next_id>>
    BY <1>3 DEF handle_invite_decline, InviteTimeout, tradeVars
  <2>. QED
    BY <2>1, TakeKeeps, UnchangedOK
<1>4. ASSUME NEW e \in Entity, NEW id \in TradeId, DeclineTrade(e, id)
      PROVE  IInv'
  <2>1. UNCHANGED inviteVars /\ here' = here
    BY <1>4 DEF DeclineTrade
  <2>. QED
    BY <1>4, <2>1, DeclineTrades, StillKeeps
<1>5. ASSUME NEW e \in Entity, NEW id \in TradeId, NEW a \in TradeAction,
             ProcessTradeAction(e, id, a)
      PROVE  IInv'
  <2>1. UNCHANGED inviteVars /\ here' = here
    BY <1>5 DEF ProcessTradeAction
  <2>. QED
    BY <1>5, <2>1, ProcessTrades, StillKeeps
<1>6. ASSUME NEW e \in Entity, NEW v, InventoryManip(e, v)
      PROVE  IInv'
  <2>1. UNCHANGED inviteVars /\ here' = here
    BY <1>6 DEF InventoryManip
  <2>. QED
    BY <1>6, <2>1, InventoryTrades, StillKeeps
<1>7. ASSUME OutsideOfTrades
      PROVE  IInv'
  <2>1. UNCHANGED inviteVars /\ UNCHANGED <<here, trades, entity_trades, next_id>>
    BY <1>7 DEF OutsideOfTrades, tradeVars
  <2>. QED
    BY <2>1, StillKeeps, UnchangedOK
<1>8. ASSUME NEW e \in Entity, Attacked(e)
      PROVE  IInv'
  <2>1. Keep(decline_current(book, e)) /\ UNCHANGED inviteVars /\ UNCHANGED <<next_id, here>>
    BY <1>8 DEF Attacked
  <2>. QED
    BY <2>1, DeclineStepOK, StillKeeps
<1>9. ASSUME NEW e \in Entity, Down(e) \/ Recover(e)
      PROVE  IInv'
  <2>1. UNCHANGED inviteVars /\ UNCHANGED <<here, trades, entity_trades, next_id>>
    BY <1>9 DEF Down, Recover, tradeVars
  <2>. QED
    BY <2>1, StillKeeps, UnchangedOK
<1>10. ASSUME NEW e \in Entity, Leave(e)
       PROVE  IInv'
  <2>1. Keep(decline_current(book, e)) /\ next_id' = next_id /\ here' = here \ {e}
    BY <1>10 DEF Leave
  <2>. QED
    BY <1>10, <2>1, DeclineStepOK, LeaveKeeps
<1>11. CASE UNCHANGED vars
  <2>1. UNCHANGED inviteVars /\ UNCHANGED <<here, trades, entity_trades, next_id>>
    BY <1>11 DEF vars, inviteVars
  <2>. QED
    BY <2>1, StillKeeps, UnchangedOK
<1>12. Disturbed \subseteq Entity
  BY TradeAssumption
<1>. QED
  BY <1>1, <1>2, <1>3, <1>4, <1>5, <1>6, <1>7, <1>8, <1>9, <1>10, <1>11, <1>12
     DEF Next, InviteStep, TradeStep, OtherStep, SwapSlots, DeleteSome, Dialogue, Transcribe

(* The inductive invariant holds of every reachable state.                  *)
THEOREM Invariant == Spec => []IInv
<1>. QED
  BY InitIInv, NextIInv, PTL DEF Spec

(* Trades' two maps agree in every reachable state, however invites,        *)
(* commits, attacks and departures interleave: no entity is left bound to a *)
(* trade that is over, and no trade to an entity that is gone.              *)
THEOREM TradesStayConsistent == Spec => []TradesConsistent
<1>1. IInv => TradesConsistent
  BY DEF IInv, TradesOK, BookOK, book, TradesConsistent
<1>. QED
  BY <1>1, Invariant, PTL

(* An invite is on its invitee exactly while it is in its inviter's list,   *)
(* as long as both are in the world.                                        *)
THEOREM InvitesStayConsistent == Spec => []InvitesConsistent
<1>1. IInv => InvitesConsistent
  BY DEF IInv, InvitesOK
<1>. QED
  BY <1>1, Invariant, PTL

----------------------------------------------------------------------------
(* What a step may do to the terms of a trade that stays open.              *)

Untouched(id) ==
  /\ trades'[id].parties = trades[id].parties
  /\ trades'[id].offers = trades[id].offers
  /\ \A e \in Parties(trades[id]) : inv'[e] = inv[e]

Reset(id) == trades[id].phase = "Mutate" /\ trades'[id].accept_flags = <<FALSE, FALSE>>

LEMMA SameTerms ==
  ASSUME NEW id, Untouched(id)
  PROVE  Terms(trades[id])' = Terms(trades[id])
<1>1. \A who \in 1..2 : inv'[trades[id].parties[who]] = inv[trades[id].parties[who]]
  BY DEF Untouched, Parties
<1>. QED
  BY <1>1 DEF Terms, Untouched

(* Closing a trade leaves the others as they were.                          *)
LEMMA DeclineUntouched ==
  ASSUME TradesOK, NEW id \in TradeId, Continues(id), inv' = inv,
         (\E e \in Entity : Keep(decline_current(book, e)))
           \/ (\E e \in Entity, i \in TradeId : Keep(decline_trade(book, i, e)))
           \/ trades' = trades
  PROVE  Untouched(id)
<1>1. trades'[id] = trades[id]
  BY BookFacts, DeclineCurrentOK, DeclineOK DEF Keep, Continues
<1>. QED
  BY <1>1 DEF Untouched

LEMMA AcceptUntouched ==
  ASSUME IInv, NEW q \in Entity, handle_invite_accept(q), NEW id \in TradeId, Continues(id)
  PROVE  Untouched(id)
<1>. DEFINE b == decline_current(book, q)
<1>1. /\ TradesOK /\ inv' = inv
      /\ trades' = trades \/ Keep(b) \/ Keep(begin_trade(b, next_id, invites[q], q))
  BY DEF IInv, handle_invite_accept, tradeVars
<1>2. CASE trades' = trades \/ Keep(b)
  BY <1>1, <1>2, DeclineUntouched
<1>3. CASE Keep(begin_trade(b, next_id, invites[q], q))
  <2>1. id # next_id
    BY <1>1, Distinct DEF TradesOK, Continues
  <2>2. id \in DOMAIN b.trades /\ trades'[id] = b.trades[id]
    BY <1>3, <2>1 DEF Keep, begin_trade, insert, Continues
  <2>3. b.trades[id] = trades[id]
    BY <1>1, <2>2, BookFacts, DeclineCurrentOK
  <2>. QED
    BY <1>1, <2>2, <2>3 DEF Untouched
<1>. QED
  BY <1>1, <1>2, <1>3

(* An action on one trade reaches no other: entities are in one at a time.  *)
LEMMA ProcessUntouched ==
  ASSUME IInv, NEW e \in Entity, NEW i \in TradeId, NEW a \in TradeAction,
         ProcessTradeAction(e, i, a), NEW id \in TradeId, Continues(id)
  PROVE  Untouched(id) \/ Reset(id)
<1>. DEFINE trade == process_trade_action(trades[i], e, a)
<1>1. TradesOK /\ i \in DOMAIN trades /\ id \in DOMAIN trades
  BY DEF IInv, ProcessTradeAction, Continues
<1>2. OpenEdit(trades[i], trade)
  BY <1>1, BookFacts, ProcessOK
<1>3. \/ \E orders : Commit(i, trade, orders)
      \/ trades' = insert(trades, i, trade) /\ inv' = inv
  BY DEF ProcessTradeAction
<1>. HIDE DEF trade
<1>4. CASE trades' = insert(trades, i, trade) /\ inv' = inv
  <2>1. CASE i = id
    <3>1. trades'[id] = trade
      BY <1>1, <1>4, <2>1 DEF insert
    <3>. QED
      BY <1>2, <1>4, <2>1, <3>1, Zenon DEF OpenEdit, Untouched, Reset
  <2>2. CASE i # id
    BY <1>1, <1>4, <2>2 DEF insert, Untouched
  <2>. QED
    BY <2>1, <2>2
<1>5. CASE \E orders : Commit(i, trade, orders)
  <2>1. trades' = remove(trades, i) /\ \A f \in Entity \ Parties(trade) : inv'[f] = inv[f]
    BY <1>5 DEF Commit
  <2>2. id # i /\ trades'[id] = trades[id]
    BY <1>1, <2>1 DEF remove, Continues
  <2>3. Parties(trade) = Parties(trades[i])
    BY <1>2 DEF OpenEdit, Parties
  <2>4. \A f \in Parties(trades[id]) : f \in Entity /\ f \notin Parties(trades[i])
    BY <1>1, <2>2, BookFacts
  <2>. QED
    BY <2>1, <2>2, <2>3, <2>4 DEF Untouched
<1>. QED
  BY <1>3, <1>4, <1>5

(* A manipulation of a trading inventory resets the trade, which is then in *)
(* its first phase; that of another inventory does not reach it.            *)
LEMMA InventoryUntouched ==
  ASSUME IInv, NEW e \in Entity, NEW v, InventoryManip(e, v), NEW id \in TradeId, Continues(id)
  PROVE  Untouched(id) \/ Reset(id)
<1>1. TradesOK /\ id \in DOMAIN trades /\ IsTrade(trades[id]) /\ Parties(trades[id]) \subseteq Entity
  BY BookFacts DEF IInv, Continues
<1>2. CASE e \in Parties(trades[id])
  <2>1. entity_trades[e] = id /\ id # None
    BY <1>1, <1>2, BookFacts, Distinct
  <2>2. trades[id].phase = "Mutate" /\ in_mutable_trade(e)
    BY <1>1, <2>1 DEF InventoryManip, in_immutable_trade, in_mutable_trade, in_trade_with_phase,
                      IsTrade, TradePhase
  <2>3. trades'[id] = Unaccepted(trades[id])
    BY <1>1, <2>1, <2>2 DEF InventoryManip
  <2>. QED
    BY <1>1, <2>2, <2>3, UnacceptedOK, Zenon DEF Reset
<1>3. CASE e \notin Parties(trades[id])
  <2>1. \A f \in Parties(trades[id]) : inv'[f] = inv[f]
    BY <1>1, <1>3 DEF InventoryManip
  <2>2. in_mutable_trade(e) => entity_trades[e] # id
    BY <1>1, <1>3, BookFacts DEF in_mutable_trade, in_trade_with_phase, BookOK
  <2>3. trades'[id] = trades[id]
    BY <1>1, <2>2 DEF InventoryManip
  <2>. QED
    BY <2>1, <2>3 DEF Untouched
<1>. QED
  BY <1>2, <1>3

LEMMA StepOnTerms ==
  ASSUME Ungated = FALSE, IInv, [Next]_vars, NEW id \in TradeId, Continues(id)
  PROVE  Untouched(id) \/ Reset(id)
<1>0. TradesOK /\ Disturbed \subseteq Entity
  BY TradeAssumption DEF IInv
<1>1. ASSUME NEW p \in Entity, NEW q \in Entity, InitiateInvite(p, q)
      PROVE  Untouched(id)
  BY <1>0, <1>1, DeclineUntouched DEF InitiateInvite
<1>2. ASSUME NEW q \in Entity, handle_invite_decline(q) \/ InviteTimeout(q)
      PROVE  Untouched(id)
  BY <1>0, <1>2, DeclineUntouched DEF handle_invite_decline, InviteTimeout, tradeVars
<1>3. ASSUME NEW e \in Entity, NEW i \in TradeId, DeclineTrade(e, i)
      PROVE  Untouched(id)
  BY <1>0, <1>3, DeclineUntouched DEF DeclineTrade
<1>4. ASSUME NEW e \in Entity, Attacked(e) \/ Down(e) \/ Recover(e) \/ Leave(e)
      PROVE  Untouched(id)
  BY <1>0, <1>4, DeclineUntouched DEF Attacked, Down, Recover, Leave, tradeVars
<1>5. CASE UNCHANGED vars
  BY <1>0, <1>5, DeclineUntouched DEF vars
<1>6. ~OutsideOfTrades
  BY DEF OutsideOfTrades
<1>. QED
  BY <1>0, <1>1, <1>2, <1>3, <1>4, <1>5, <1>6,
     AcceptUntouched, ProcessUntouched, InventoryUntouched
     DEF Next, InviteStep, TradeStep, OtherStep, SwapSlots, DeleteSome, Dialogue, Transcribe

(* Were it not for the events that do not ask Trades, what a trade in       *)
(* review stands for could not change: the gate of InventoryManip is all    *)
(* the protection it needs.                                                 *)
THEOREM ReviewIsFrozen ==
  ASSUME Ungated = FALSE
  PROVE  Spec => TermsFrozen
<1>1. IInv /\ [Next]_vars =>
        [\A id \in TradeId :
           Continues(id) /\ trades[id].phase = "Review" =>
             Terms(trades[id])' = Terms(trades[id])]_vars
  BY StepOnTerms, SameTerms DEF Reset
<1>. QED
  BY <1>1, Invariant, PTL DEF Spec, TermsFrozen

(* Nor could terms change in any phase without both accept flags being      *)
(* taken back.                                                              *)
THEOREM AcceptanceStaysFresh ==
  ASSUME Ungated = FALSE
  PROVE  Spec => AcceptanceIsFresh
<1>1. IInv /\ [Next]_vars =>
        [\A id \in TradeId :
           Continues(id) /\ Terms(trades[id])' # Terms(trades[id]) =>
             trades'[id].accept_flags = <<FALSE, FALSE>>]_vars
  BY StepOnTerms, SameTerms, Zenon DEF Reset
<1>. QED
  BY <1>1, Invariant, PTL DEF Spec, AcceptanceIsFresh

----------------------------------------------------------------------------
(* The clients of the two players, and the streams to and from them.        *)

(* What the screen of e shows now (k = 0), and after each message under way.*)
ShownBy(m) == IF m.kind = "UpdatePendingTrade" THEN [id |-> m.id, trade |-> m.trade] ELSE None
At(e, k)   == IF k = 0 THEN pending_trade[e] ELSE ShownBy(toClient[e][k])
Views(e)   == 0..Len(toClient[e])

Stream(s) == s \in Seq(Range(s))

StreamsOK ==
  /\ pending_trade \in [Entity -> Range(pending_trade)]
  /\ agreed \in [Entity -> Range(agreed)]
  /\ toClient \in [Entity -> Range(toClient)] /\ \A e \in Entity : Stream(toClient[e])
  /\ toServer \in [Entity -> Range(toServer)] /\ \A e \in Entity : Stream(toServer[e])

(* What is shown was a trade of the entity; if that trade is open, what was *)
(* shown of its review still holds, and no later trade has been shown.      *)
ViewOK(e, k) ==
  /\ At(e, k).id \in TradeId /\ At(e, k).id < next_id
  /\ At(e, k).id \in DOMAIN trades =>
       /\ e \in Parties(trades[At(e, k).id])
       /\ At(e, k).trade.phase = "Review" =>
            /\ trades[At(e, k).id].phase = "Review"
            /\ trades[At(e, k).id].offers = At(e, k).trade.offers
  /\ \A id \in DOMAIN trades : e \in Parties(trades[id]) => At(e, k).id <= id

ViewsOK == \A e \in Entity : \A k \in Views(e) : At(e, k) # None => ViewOK(e, k)

(* Trades are shown in the order in which they were begun.                  *)
InOrder ==
  \A e \in Entity : \A j, k \in Views(e) :
    j < k /\ At(e, j) # None /\ At(e, k) # None => At(e, j).id <= At(e, k).id

ShowsTerms(t, u) == t.parties = u.parties /\ t.offers = u.offers /\ t.phase = u.phase

Final(e) == At(e, Len(toClient[e]))

(* The last message shows an open trade as it is, but for its flags.        *)
LastOK ==
  \A e \in Entity : Final(e) # None /\ Final(e).id \in DOMAIN trades =>
    ShowsTerms(Final(e).trade, trades[Final(e).id])

(* An Accept of a review that is under way.                                 *)
Accepts(m, id) == m.id = id /\ m.action.kind = "Accept" /\ m.action.phase = "Review"

PressesOK ==
  \A e \in Entity : \A k \in 1..Len(toServer[e]) :
    LET m == toServer[e][k]
    IN  /\ m.id \in TradeId /\ m.id < next_id
        /\ m.action \in TradeAction \cup {Decline}
        /\ Accepts(m, m.id) /\ m.id \in DOMAIN trades =>
             e \in Parties(trades[m.id]) /\ trades[m.id].phase = "Review"

Flagged(e, id) == \E who \in 1..2 :
  trades[id].parties[who] = e /\ trades[id].accept_flags[who] = TRUE
Pressed(e, id) == \E k \in 1..Len(toServer[e]) : Accepts(toServer[e][k], id)

(* Who has accepted an open trade in review, on the server or on the way to *)
(* it, agreed to its offers, and the screen shows no other trade since.     *)
VotesOK ==
  \A id \in DOMAIN trades : \A e \in Parties(trades[id]) :
    trades[id].phase = "Review" /\ (Flagged(e, id) \/ Pressed(e, id)) =>
      /\ agreed[e] = [id |-> id, offers |-> trades[id].offers]
      /\ \A k \in Views(e) : At(e, k) # None => At(e, k).id = id

(* A trade does not stay open once it is complete.                          *)
PhasesOK == \A id \in DOMAIN trades : trades[id].phase \in {"Mutate", "Review"}

ScreensOK == StreamsOK /\ ViewsOK /\ InOrder /\ LastOK /\ PressesOK /\ VotesOK /\ PhasesOK

(* The inductive invariant.                                                 *)
SInv == IInv /\ ScreensOK

----------------------------------------------------------------------------
(* Streams                                                                  *)

LEMMA SeqStream ==
  ASSUME NEW T, NEW s \in Seq(T)
  PROVE  Stream(s)
<1>1. s \in [1..Len(s) -> T] /\ Len(s) \in Nat
  OBVIOUS
<1>2. s \in [1..Len(s) -> Range(s)]
  BY <1>1 DEF Range
<1>. QED
  BY <1>1, <1>2 DEF Stream

LEMMA JoinStreams ==
  ASSUME NEW s, Stream(s), NEW t, Stream(t)
  PROVE  /\ Stream(s \o t)
         /\ Len(s) \in Nat /\ Len(t) \in Nat /\ Len(s \o t) = Len(s) + Len(t)
         /\ \A k \in 1..Len(s) : (s \o t)[k] = s[k]
         /\ \A k \in 1..Len(t) : (s \o t)[Len(s) + k] = t[k]
<1>. DEFINE T == Range(s) \cup Range(t)
<1>1. s \in Seq(T) /\ t \in Seq(T)
  BY DEF Stream
<1>. HIDE DEF T
<1>2. s \o t \in Seq(T)
  BY <1>1
<1>3. Stream(s \o t)
  BY <1>2, SeqStream
<1>. QED
  BY <1>1, <1>2, <1>3

LEMMA AppendStream ==
  ASSUME NEW s, Stream(s), NEW m
  PROVE  /\ Stream(Append(s, m))
         /\ Len(s) \in Nat /\ Len(Append(s, m)) = Len(s) + 1
         /\ \A k \in 1..Len(s) : Append(s, m)[k] = s[k]
         /\ Append(s, m)[Len(s) + 1] = m
<1>. DEFINE T == Range(s) \cup {m}
<1>1. s \in Seq(T) /\ m \in T
  BY DEF Stream
<1>. HIDE DEF T
<1>2. Append(s, m) \in Seq(T)
  BY <1>1
<1>3. Stream(Append(s, m))
  BY <1>2, SeqStream
<1>. QED
  BY <1>1, <1>2, <1>3

LEMMA TailStream ==
  ASSUME NEW s, Stream(s), s # <<>>
  PROVE  /\ Stream(Tail(s))
         /\ Len(s) \in Nat \ {0} /\ Len(Tail(s)) = Len(s) - 1
         /\ \A k \in 1..Len(Tail(s)) : Tail(s)[k] = s[k + 1]
         /\ Head(s) = s[1]
<1>. DEFINE T == Range(s)
<1>1. s \in Seq(T)
  BY DEF Stream
<1>. HIDE DEF T
<1>2. Tail(s) \in Seq(T)
  BY <1>1
<1>3. Stream(Tail(s))
  BY <1>2, SeqStream
<1>. QED
  BY <1>1, <1>2, <1>3

LEMMA ShortStreams ==
  /\ Stream(<<>>) /\ Len(<<>>) = 0
  /\ \A m : Stream(<<m>>) /\ Len(<<m>>) = 1 /\ <<m>>[1] = m
<1>1. ASSUME NEW m PROVE Stream(<<m>>) /\ Len(<<m>>) = 1 /\ <<m>>[1] = m
  <2>1. <<m>> \in Seq({m})
    OBVIOUS
  <2>. QED
    BY <2>1, SeqStream
<1>2. <<>> \in Seq({})
  OBVIOUS
<1>. QED
  BY <1>1, <1>2, SeqStream

(* What is not an update of a trade shows none.                             *)
LEMMA ShowsNothing ==
  /\ \A r : ShownBy(FinishedTrade(r)) = None
  /\ ShownBy(ExitInGameSuccess) = None
  /\ \A id, t : ShownBy(UpdatePendingTrade(id, t)) = [id |-> id, trade |-> t]
  BY DEF ShownBy, FinishedTrade, ExitInGameSuccess, UpdatePendingTrade

----------------------------------------------------------------------------
(* What a step of the server does to the open trades, and tells.            *)

(* Its last message, if any, to an entity is of its trade as it now is.     *)
OutOK ==
  \A e \in Entity :
    /\ Stream(out'[e])
    /\ \A k \in 1..Len(out'[e]) : ShownBy(out'[e][k]) # None =>
         /\ k = Len(out'[e]) /\ e \in here'
         /\ \E id \in DOMAIN trades' :
              e \in Parties(trades'[id]) /\ out'[e][k] = UpdatePendingTrade(id, trades'[id])

Told(id) ==
  \A e \in Parties(trades'[id]) :
    out'[e] # <<>> /\ out'[e][Len(out'[e])] = UpdatePendingTrade(id, trades'[id])

Kept(id) ==
  /\ id \in DOMAIN trades
  /\ ShowsTerms(trades'[id], trades[id])
  /\ \A who \in 1..2 : trades'[id].accept_flags[who] = TRUE => trades[id].accept_flags[who] = TRUE

Begun(id) == id = next_id /\ trades'[id].phase = "Mutate" /\ Told(id)

(* The party has accepted, or accepts now, the trade t in review.           *)
AcceptedBy(t, e, a, w) ==
  \/ t.accept_flags[w] = TRUE
  \/ t.parties[w] = e /\ a.kind = "Accept" /\ a.phase = "Review"

Advanced(id, e, a) ==
  /\ id \in DOMAIN trades /\ Told(id)
  /\ trades'[id].parties = trades[id].parties
  /\ trades'[id].phase \in {"Mutate", "Review"}
  /\ trades[id].phase = "Review" =>
       trades'[id].phase = "Review" /\ trades'[id].offers = trades[id].offers
  /\ trades'[id].phase = "Review" =>
       \A who \in 1..2 : trades'[id].accept_flags[who] = TRUE =>
         trades[id].phase = "Review" /\ AcceptedBy(trades[id], e, a, who)

LEMMA FinishedOut ==
  ASSUME NEW S, NEW r, out' = Tell(S, FinishedTrade(r)) \/ out' = Silence
  PROVE  OutOK
<1>1. \A e \in Entity : out'[e] = <<>> \/ out'[e] = <<FinishedTrade(r)>>
  BY DEF Tell, Silence
<1>2. ASSUME NEW e \in Entity
      PROVE  Stream(out'[e]) /\ \A k \in 1..Len(out'[e]) : ShownBy(out'[e][k]) = None
  <2>1. CASE out'[e] = <<>>
    BY <2>1, ShortStreams
  <2>2. CASE out'[e] = <<FinishedTrade(r)>>
    <3>. DEFINE m == FinishedTrade(r)
    <3>1. Stream(<<m>>) /\ Len(<<m>>) = 1 /\ <<m>>[1] = m /\ ShownBy(m) = None
      BY ShortStreams, ShowsNothing
    <3>. HIDE DEF m
    <3>. QED
      BY <2>2, <3>1 DEF m
  <2>. QED
    BY <1>1, <2>1, <2>2
<1>. QED
  BY <1>2 DEF OutOK

(* Declining trades only takes trades out.                                  *)
LEMMA KeptByDecline ==
  ASSUME TradesOK, NEW id \in DOMAIN trades',
         (\E e \in Entity : Keep(decline_current(book, e)))
           \/ (\E e \in Entity, i \in TradeId : Keep(decline_trade(book, i, e)))
           \/ trades' = trades
  PROVE  Kept(id)
<1>1. id \in DOMAIN trades /\ trades'[id] = trades[id]
  BY BookFacts, DeclineCurrentOK, DeclineOK DEF Keep
<1>. QED
  BY <1>1 DEF Kept, ShowsTerms

(* Accepting an invite begins a trade, of which both sides are told.        *)
LEMMA KeptByAccept ==
  ASSUME IInv, NEW q \in Entity, handle_invite_accept(q)
  PROVE  /\ OutOK
         /\ next_id' \in {next_id, next_id + 1}
         /\ \A id \in DOMAIN trades' : Kept(id) \/ Begun(id)
         /\ \A e \in Entity : FinishedTrade("Completed") \notin Range(out'[e])
<1>. DEFINE p     == invites[q]
            b     == decline_current(book, q)
            began == StillPending(q) /\ b.entity_trades[p] = None
            new   == begin_trade(b, next_id, p, q)
            fin   == FinishedTrade("Declined")
            upd   == UpdatePendingTrade(next_id, NewTrade(p, q))
            finished(e) == IF e \in b.notify THEN <<fin>> ELSE <<>>
            started(e)  == IF e \in {p, q} THEN <<upd>> ELSE <<>>
<1>1. /\ TradesOK /\ InvitesOK /\ here' = here
      /\ \/ UNCHANGED tradeVars /\ out' = Silence
         \/ Keep(b) /\ UNCHANGED next_id /\ out' = Tell(b.notify, fin)
         \/ /\ began /\ Keep(new) /\ next_id' = next_id + 1
            /\ out' = [e \in Entity |-> finished(e) \o started(e)]
  BY DEF IInv, handle_invite_accept, Tell
<1>2. ASSUME out' = Tell(b.notify, fin) \/ out' = Silence, NEW e \in Entity
      PROVE  FinishedTrade("Completed") \notin Range(out'[e])
  <2>1. out'[e] = <<>> \/ out'[e] = <<fin>>
    BY <1>2 DEF Tell, Silence
  <2>2. fin # FinishedTrade("Completed")
    BY DEF FinishedTrade
  <2>. HIDE DEF fin
  <2>. QED
    BY <2>1, <2>2, ShortStreams DEF Range
<1>3. CASE UNCHANGED tradeVars /\ out' = Silence
  BY <1>1, <1>2, <1>3, FinishedOut, KeptByDecline DEF tradeVars
<1>4. CASE Keep(b) /\ UNCHANGED next_id /\ out' = Tell(b.notify, fin)
  BY <1>1, <1>2, <1>4, FinishedOut, KeptByDecline
<1>5. CASE /\ began /\ Keep(new) /\ next_id' = next_id + 1
           /\ out' = [e \in Entity |-> finished(e) \o started(e)]
  <2>1. /\ p \in Entity /\ p \in here /\ q \in here
    BY <1>1, <1>5 DEF InvitesOK, StillPending, handle_invite_accept, TakeInvite
  <2>2. /\ DOMAIN trades' = DOMAIN b.trades \cup {next_id}
        /\ trades'[next_id] = NewTrade(p, q)
        /\ \A i \in DOMAIN b.trades : i # next_id => trades'[i] = b.trades[i]
    BY <1>5 DEF Keep, begin_trade, insert
  <2>3. \A i \in DOMAIN b.trades : i # next_id /\ b.trades[i] = trades[i] /\ i \in DOMAIN trades
    BY <1>1, BookFacts, DeclineCurrentOK, Distinct DEF TradesOK, BookOK
  <2>4. \A i \in DOMAIN b.trades : Kept(i)
    BY <2>2, <2>3 DEF Kept, ShowsTerms
  <2>5. Parties(NewTrade(p, q)) = {p, q} /\ NewTrade(p, q).phase = "Mutate"
    BY DEF Parties, NewTrade
  <2>6. /\ ShownBy(fin) = None /\ upd = UpdatePendingTrade(next_id, trades'[next_id])
        /\ fin # FinishedTrade("Completed") /\ upd # FinishedTrade("Completed")
    BY <2>2, ShowsNothing DEF FinishedTrade, UpdatePendingTrade
  <2>. HIDE DEF fin, upd, p
  <2>7. ASSUME NEW e \in Entity
        PROVE  /\ Stream(out'[e])
               /\ \A k \in 1..Len(out'[e]) :
                    \/ out'[e][k] = fin
                    \/ (e \in {p, q} /\ k = Len(out'[e]) /\ out'[e][k] = upd)
               /\ e \in {p, q} => out'[e] # <<>> /\ out'[e][Len(out'[e])] = upd
    <3>1. out'[e] = finished(e) \o started(e)
      BY <1>5
    <3>2. Stream(finished(e)) /\ Stream(started(e))
      BY ShortStreams
    <3>3. /\ Len(finished(e)) \in 0..1 /\ \A k \in 1..Len(finished(e)) : finished(e)[k] = fin
          /\ IF e \in {p, q} THEN Len(started(e)) = 1 /\ started(e)[1] = upd ELSE Len(started(e)) = 0
      BY ShortStreams
    <3>. HIDE DEF finished, started
    <3>4. PICK s, t : /\ out'[e] = s \o t /\ Stream(s) /\ Stream(t)
                      /\ Len(s) \in 0..1 /\ \A k \in 1..Len(s) : s[k] = fin
                      /\ IF e \in {p, q} THEN Len(t) = 1 /\ t[1] = upd ELSE Len(t) = 0
      BY <3>1, <3>2, <3>3
    <3>5. /\ Stream(s \o t) /\ Len(s \o t) = Len(s) + Len(t)
          /\ \A k \in 1..Len(s) : (s \o t)[k] = s[k]
          /\ \A k \in 1..Len(t) : (s \o t)[Len(s) + k] = t[k]
      BY <3>4, JoinStreams
    <3>6. CASE e \in {p, q}
      <4>1. Len(t) = 1 /\ t[1] = upd
        BY <3>4, <3>6
      <4>2. 1 \in 1..Len(t) /\ Len(s \o t) = Len(s) + 1
        BY <3>5, <4>1
      <4>3. Len(s \o t) = Len(s) + 1 /\ (s \o t)[Len(s) + 1] = upd
        BY <3>5, <4>1, <4>2, Zenon
      <4>4. s \o t # <<>>
        BY <3>4, <4>3, ShortStreams
      <4>. QED
        BY <3>4, <3>5, <3>6, <4>3, <4>4
    <3>7. CASE e \notin {p, q}
      BY <3>4, <3>5, <3>7
    <3>. QED
      BY <3>6, <3>7
  <2>8. Begun(next_id)
    BY <2>1, <2>2, <2>5, <2>6, <2>7 DEF Begun, Told
  <2>9. OutOK
    <3>1. /\ next_id \in DOMAIN trades' /\ Parties(trades'[next_id]) = {p, q}
          /\ p \in here' /\ q \in here'
      BY <1>1, <2>1, <2>2, <2>5
    <3>2. ASSUME NEW e \in Entity, NEW k \in 1..Len(out'[e]), ShownBy(out'[e][k]) # None
          PROVE  /\ k = Len(out'[e]) /\ e \in here'
                 /\ e \in Parties(trades'[next_id])
                 /\ out'[e][k] = UpdatePendingTrade(next_id, trades'[next_id])
      BY <2>6, <2>7, <3>1, <3>2
    <3>. QED
      BY <2>7, <3>1, <3>2 DEF OutOK
  <2>10. ASSUME NEW e \in Entity
         PROVE  FinishedTrade("Completed") \notin Range(out'[e])
    <3>1. DOMAIN out'[e] = 1..Len(out'[e])
      BY <2>7 DEF Stream
    <3>2. \A k \in DOMAIN out'[e] : out'[e][k] = fin \/ out'[e][k] = upd
      BY <2>7, <3>1
    <3>. QED
      BY <2>6, <3>2, Zenon DEF Range
  <2>. QED
    BY <1>5, <2>2, <2>4, <2>8, <2>9, <2>10
<1>. QED
  BY <1>1, <1>3, <1>4, <1>5

(* A manipulation of an inventory may only take flags back.                 *)
LEMMA KeptByInventory ==
  ASSUME IInv, NEW e \in Entity, NEW v, InventoryManip(e, v), NEW id \in DOMAIN trades'
  PROVE  Kept(id)
<1>1. TradesOK
  BY DEF IInv
<1>2. CASE trades' = trades
  BY <1>1, <1>2, KeptByDecline
<1>3. CASE in_mutable_trade(e)
  <2>. DEFINE i == entity_trades[e]
  <2>1. i \in DOMAIN trades /\ trades' = [trades EXCEPT ![i] = Unaccepted(trades[i])]
    BY <1>3 DEF InventoryManip, in_mutable_trade, in_trade_with_phase
  <2>. HIDE DEF i
  <2>. DEFINE u == Unaccepted(trades[i])
  <2>. HIDE DEF u
  <2>2. trades' = [trades EXCEPT ![i] = u]
    BY <2>1 DEF u
  <2>3. DOMAIN trades' = DOMAIN trades /\ (trades'[id] = trades[id] \/ (i = id /\ trades'[id] = u))
    BY <2>1, <2>2
  <2>4. /\ DOMAIN trades' = DOMAIN trades
        /\ trades'[id] = trades[id] \/ (i = id /\ trades'[id] = Unaccepted(trades[id]))
    BY <2>3 DEF u
  <2>5. /\ ShowsTerms(Unaccepted(trades[id]), trades[id])
        /\ \A who \in 1..2 : Unaccepted(trades[id]).accept_flags[who] # TRUE
    <3>1. Unaccepted(trades[id]).accept_flags = <<FALSE, FALSE>> /\ ShowsTerms(Unaccepted(trades[id]), trades[id])
      BY <1>1, <2>4, BookFacts, UnacceptedOK, Zenon DEF ShowsTerms
    <3>2. <<FALSE, FALSE>>[1] # TRUE /\ <<FALSE, FALSE>>[2] # TRUE
      OBVIOUS
    <3>3. \A who \in 1..2 : who = 1 \/ who = 2
      OBVIOUS
    <3>. QED
      BY <3>1, <3>2, <3>3, Zenon
  <2>. QED
    BY <2>4, <2>5 DEF Kept, ShowsTerms
<1>. QED
  BY <1>2, <1>3 DEF InventoryManip

----------------------------------------------------------------------------
(* One action on a trade                                                    *)

(* What an action may make of a trade t in either open phase.               *)
Advances(t, e, a, u) ==
  /\ u.phase = "Complete" => t.phase = "Review" /\ \A w \in 1..2 : AcceptedBy(t, e, a, w)
  /\ u.phase # "Complete" => u.phase \in {"Mutate", "Review"}
  /\ t.phase = "Review" /\ u.phase # "Complete" => u.phase = "Review" /\ u.offers = t.offers
  /\ u.phase = "Review" => \A w \in 1..2 : u.accept_flags[w] = TRUE =>
       t.phase = "Review" /\ AcceptedBy(t, e, a, w)

LEMMA AcceptAdvances ==
  ASSUME NEW t, IsTrade(t), t.phase \in {"Mutate", "Review"}, NEW who \in 1..2,
         NEW e, t.parties[who] = e, NEW a, a.kind = "Accept", NEW u, u = Accept(t, who, a.phase)
  PROVE  Advances(t, e, a, u)
<1>. DEFINE agrees  == t.phase = a.phase /\ ~is_empty_trade(t)
            flags   == [t.accept_flags EXCEPT ![who] = TRUE]
            flagged == IF agrees THEN [t EXCEPT !.accept_flags = flags] ELSE t
            next    == [flagged EXCEPT !.phase = NextPhase(flagged.phase)]
<1>1. u = IF flagged.accept_flags = <<TRUE, TRUE>> THEN Unaccepted(next) ELSE flagged
  BY DEF Accept
<1>2. \A w \in 1..2 : w # who /\ flags[w] = TRUE => t.accept_flags[w] = TRUE
  OBVIOUS
<1>. HIDE DEF flags
<1>3. /\ IsTrade(flagged) /\ flagged.phase = t.phase /\ flagged.offers = t.offers
      /\ \A w \in 1..2 : flagged.accept_flags[w] = TRUE =>
           t.accept_flags[w] = TRUE \/ (w = who /\ t.phase = a.phase)
  <2>1. CASE agrees
    <3>1. flagged.accept_flags = flags /\ IsTrade(flagged) /\ flagged.phase = t.phase /\ flagged.offers = t.offers
      BY <2>1, FieldOK
    <3>. QED
      BY <1>2, <2>1, <3>1
  <2>2. CASE ~agrees
    BY <2>2
  <2>. QED
    BY <2>1, <2>2
<1>. HIDE DEF flagged
<1>4. CASE flagged.accept_flags = <<TRUE, TRUE>>
  <2>1. NextPhase(flagged.phase) = IF t.phase = "Mutate" THEN "Review" ELSE "Complete"
    BY <1>3 DEF NextPhase
  <2>2. ASSUME NEW x \in TradePhase
        PROVE  LET v == [flagged EXCEPT !.phase = x]
               IN  IsTrade(v) /\ v.phase = x /\ v.offers = t.offers
    BY <1>3 DEF IsTrade
  <2>3. IsTrade(next) /\ next.phase = NextPhase(flagged.phase) /\ next.offers = t.offers
    BY <2>1, <2>2 DEF TradePhase
  <2>. HIDE DEF next
  <2>4. u = Unaccepted(next)
    BY <1>1, <1>4
  <2>5. /\ u.phase = NextPhase(flagged.phase) /\ u.offers = t.offers
        /\ u.accept_flags = <<FALSE, FALSE>>
    BY <2>4, <2>3, UnacceptedOK, Zenon
  <2>6. u.accept_flags[1] # TRUE /\ u.accept_flags[2] # TRUE
    BY <2>5
  <2>7. flagged.accept_flags[1] = TRUE /\ flagged.accept_flags[2] = TRUE
    BY <1>4
  <2>8. \A w \in 1..2 : w = 1 \/ w = 2
    OBVIOUS
  <2>9. \A w \in 1..2 : u.accept_flags[w] # TRUE /\ flagged.accept_flags[w] = TRUE
    BY <2>6, <2>7, <2>8, Zenon
  <2>10. ASSUME NEW w \in 1..2, u.phase = "Complete"
         PROVE  t.phase = "Review" /\ AcceptedBy(t, e, a, w)
    <3>1. t.phase = "Review"
      BY <2>1, <2>5, <2>10
    <3>2. t.accept_flags[w] = TRUE \/ (w = who /\ t.phase = a.phase)
      BY <1>3, <2>9, Zenon
    <3>. QED
      BY <3>1, <3>2, Zenon DEF AcceptedBy
  <2>11. t.phase = "Review" => u.phase = "Complete"
    BY <2>1, <2>5
  <2>12. u.phase # "Complete" => u.phase \in {"Mutate", "Review"}
    BY <2>1, <2>5
  <2>. QED
    BY <2>6, <2>8, <2>10, <2>11, <2>12, Zenon DEF Advances
<1>5. CASE flagged.accept_flags # <<TRUE, TRUE>>
  <2>1. u = flagged
    BY <1>1, <1>5
  <2>2. u.phase = t.phase /\ u.offers = t.offers /\ u.phase # "Complete"
    BY <1>3, <2>1
  <2>3. ASSUME NEW w \in 1..2, u.phase = "Review", u.accept_flags[w] = TRUE
        PROVE  t.phase = "Review" /\ AcceptedBy(t, e, a, w)
    <3>1. t.accept_flags[w] = TRUE \/ (w = who /\ t.phase = a.phase)
      BY <1>3, <2>1, <2>3, Zenon
    <3>2. t.phase = "Review"
      BY <2>2, <2>3
    <3>. QED
      BY <3>1, <3>2, Zenon DEF AcceptedBy
  <2>. QED
    BY <2>2, <2>3, Zenon DEF Advances
<1>. QED
  BY <1>4, <1>5

(* Adding and removing only has an effect in the first phase, and takes the *)
(* flags back.                                                              *)
LEMMA EditStays ==
  ASSUME NEW t, IsTrade(t), NEW who, NEW s, NEW n, NEW u,
         u = AddItem(t, who, s, n) \/ u = RemoveItem(t, who, s, n)
  PROVE  u = t \/ (t.phase = "Mutate" /\ u.phase = "Mutate")
<1>1. ASSUME NEW o, t.phase = "Mutate"
      PROVE  Unaccepted([t EXCEPT !.offers = o]).phase = "Mutate"
  <2>1. IsTrade([t EXCEPT !.offers = o]) /\ [t EXCEPT !.offers = o].phase = "Mutate"
    BY <1>1 DEF IsTrade
  <2>. QED
    BY <2>1, UnacceptedOK
<1>2. \/ u = t
      \/ t.phase = "Mutate" /\ \E o : u = Unaccepted([t EXCEPT !.offers = o])
  BY DEF AddItem, RemoveItem
<1>. QED
  BY <1>1, <1>2

LEMMA ProcessAdvances ==
  ASSUME NEW t, IsTrade(t), t.phase \in {"Mutate", "Review"}, NEW e \in Entity, NEW a \in TradeAction,
         NEW u, u = process_trade_action(t, e, a)
  PROVE  Advances(t, e, a, u)
<1>. DEFINE who   == which_party(t, e)
            whose == IF a.kind # "Accept" /\ ~a.ours THEN 3 - who ELSE who
<1>1. a.kind \in {"AddItem", "RemoveItem", "Accept"} /\ who \in 1..2
  BY DEF TradeAction, which_party
<1>2. \/ u = t
      \/ u = AddItem(t, whose, a.item, a.quantity) \/ u = RemoveItem(t, whose, a.item, a.quantity)
      \/ e \in Parties(t) /\ a.kind = "Accept" /\ u = Accept(t, who, a.phase)
  BY <1>1 DEF process_trade_action
<1>3. e \in Parties(t) => t.parties[who] = e /\ \A w \in 1..2 : t.parties[w] # e => w # who
  BY DEF which_party, Parties
<1>. HIDE DEF who, whose
<1>4. CASE u = t
  BY <1>4, Zenon DEF Advances, AcceptedBy
<1>5. CASE u = AddItem(t, whose, a.item, a.quantity) \/ u = RemoveItem(t, whose, a.item, a.quantity)
  <2>1. u = t \/ (t.phase = "Mutate" /\ u.phase = "Mutate")
    BY <1>5, EditStays
  <2>. QED
    BY <1>4, <2>1 DEF Advances
<1>6. CASE e \in Parties(t) /\ a.kind = "Accept" /\ u = Accept(t, who, a.phase)
  BY <1>1, <1>3, <1>6, AcceptAdvances
<1>. QED
  BY <1>2, <1>4, <1>5, <1>6

(* ProcessTradeAction: a trade stays as it is, is told as it has become, or *)
(* has been carried out or given up.                                        *)
LEMMA ProcessTold ==
  ASSUME IInv, PhasesOK, NEW e \in Entity, NEW i \in TradeId, NEW a \in TradeAction,
         ProcessTradeAction(e, i, a)
  PROVE  /\ OutOK /\ next_id' = next_id /\ here' = here
         /\ \A id \in DOMAIN trades' : Kept(id) \/ (id = i /\ Advanced(id, e, a))
         /\ i \notin DOMAIN trades' =>
              trades[i].phase = "Review" /\ \A w \in 1..2 : AcceptedBy(trades[i], e, a, w)
         /\ DOMAIN trades \subseteq DOMAIN trades' \cup {i}
<1>. DEFINE u == process_trade_action(trades[i], e, a)
<1>1. /\ TradesOK /\ i \in DOMAIN trades /\ next_id' = next_id /\ here' = here
      /\ IsTrade(trades[i]) /\ trades[i].phase \in {"Mutate", "Review"}
      /\ Parties(trades[i]) \subseteq here
  BY BookFacts DEF IInv, ProcessTradeAction, PhasesOK, TradesOK
<1>2. OpenEdit(trades[i], u)
  BY <1>1, ProcessOK
<1>3. \/ /\ u.phase = "Complete" /\ trades' = remove(trades, i)
         /\ \E S, r : out' = Tell(S, FinishedTrade(r))
      \/ /\ u.phase # "Complete" /\ trades' = insert(trades, i, u)
         /\ out' = Tell(Parties(u) \cap here, UpdatePendingTrade(i, u))
  BY DEF ProcessTradeAction, Commit
<1>4. Advances(trades[i], e, a, u)
  BY <1>1, ProcessAdvances
<1>5. Parties(u) = Parties(trades[i]) /\ u.parties = trades[i].parties
  BY <1>2 DEF OpenEdit, Parties
<1>. HIDE DEF u
<1>6. CASE /\ u.phase = "Complete" /\ trades' = remove(trades, i)
           /\ \E S, r : out' = Tell(S, FinishedTrade(r))
  <2>1. OutOK
    BY <1>6, FinishedOut
  <2>2. DOMAIN trades' = DOMAIN trades \ {i} /\ \A id \in DOMAIN trades' : trades'[id] = trades[id]
    BY <1>6 DEF remove
  <2>3. \A id \in DOMAIN trades' : Kept(id)
    BY <2>2 DEF Kept, ShowsTerms
  <2>4. DOMAIN trades \subseteq DOMAIN trades' \cup {i}
    BY <2>2
  <2>. QED
    BY <1>1, <1>4, <1>6, <2>1, <2>3, <2>4, Zenon DEF Advances
<1>7. CASE /\ u.phase # "Complete" /\ trades' = insert(trades, i, u)
           /\ out' = Tell(Parties(u) \cap here, UpdatePendingTrade(i, u))
  <2>. DEFINE m == UpdatePendingTrade(i, u)
  <2>1. /\ DOMAIN trades' = DOMAIN trades /\ trades'[i] = u
        /\ \A id \in DOMAIN trades : id # i => trades'[id] = trades[id]
    BY <1>1, <1>7 DEF insert
  <2>2. \A f \in Entity : IF f \in Parties(u) THEN out'[f] = <<m>> ELSE out'[f] = <<>>
    BY <1>1, <1>5, <1>7 DEF Tell
  <2>3. m = UpdatePendingTrade(i, trades'[i])
    BY <2>1
  <2>. HIDE DEF m
  <2>4. OutOK
    <3>1. ASSUME NEW f \in Entity
          PROVE  /\ Stream(out'[f])
                 /\ \A k \in 1..Len(out'[f]) :
                      f \in Parties(u) /\ k = Len(out'[f]) /\ out'[f][k] = m
      <4>1. CASE f \in Parties(u)
        <5>1. Stream(<<m>>) /\ Len(<<m>>) = 1 /\ <<m>>[1] = m
          BY ShortStreams
        <5>2. \A k \in 1..1 : k = 1
          OBVIOUS
        <5>3. out'[f] = <<m>>
          BY <2>2, <4>1
        <5>. QED
          BY <4>1, <5>1, <5>2, <5>3, Zenon
      <4>2. CASE f \notin Parties(u)
        BY <2>2, <4>2, ShortStreams
      <4>. QED
        BY <4>1, <4>2
    <3>2. \A f \in Parties(u) : f \in here'
      BY <1>1, <1>5
    <3>. QED
      BY <1>1, <2>1, <2>3, <3>1, <3>2 DEF OutOK
  <2>5. Told(i)
    <3>1. <<m>> # <<>> /\ Len(<<m>>) = 1 /\ <<m>>[1] = m
      BY ShortStreams
    <3>2. \A f \in Parties(trades'[i]) : f \in Entity
      BY <1>1, <1>5, <2>1, BookFacts
    <3>. QED
      BY <2>1, <2>2, <2>3, <3>1, <3>2 DEF Told
  <2>6. Advanced(i, e, a)
    BY <1>1, <1>4, <1>5, <1>7, <2>1, <2>5, Zenon DEF Advanced, Advances
  <2>7. \A id \in DOMAIN trades : id # i => Kept(id)
    BY <2>1 DEF Kept, ShowsTerms
  <2>. QED
    BY <1>1, <2>1, <2>4, <2>6, <2>7
<1>. QED
  BY <1>3, <1>6, <1>7

(* Everything else the server does.                                         *)
LEMMA OthersKeep ==
  ASSUME IInv, InviteStep \/ OtherStep
  PROVE  /\ OutOK
         /\ next_id' \in {next_id, next_id + 1}
         /\ \A id \in DOMAIN trades' : Kept(id) \/ Begun(id)
         /\ \A f \in Entity : FinishedTrade("Completed") \notin Range(out'[f])
<1>. DEFINE Goal == /\ OutOK
                    /\ next_id' \in {next_id, next_id + 1}
                    /\ \A id \in DOMAIN trades' : Kept(id) \/ Begun(id)
                    /\ \A f \in Entity : FinishedTrade("Completed") \notin Range(out'[f])
<1>. SUFFICES Goal
  OBVIOUS
<1>. HIDE DEF Goal
<1>1. TradesOK /\ Disturbed \subseteq Entity
  BY TradeAssumption DEF IInv
<1>2. ASSUME NEW S, out' = Tell(S, FinishedTrade("Declined")) \/ out' = Silence, next_id' = next_id,
             \/ \E e \in Entity : Keep(decline_current(book, e))
             \/ \E e \in Entity, i \in TradeId : Keep(decline_trade(book, i, e))
             \/ trades' = trades
      PROVE  Goal
  <2>1. OutOK
    BY <1>2, FinishedOut
  <2>2. ASSUME NEW f \in Entity
        PROVE  FinishedTrade("Completed") \notin Range(out'[f])
    <3>. DEFINE fin == FinishedTrade("Declined")
    <3>1. out'[f] = <<>> \/ out'[f] = <<fin>>
      BY <1>2 DEF Tell, Silence
    <3>2. fin # FinishedTrade("Completed")
      BY DEF FinishedTrade
    <3>. HIDE DEF fin
    <3>. QED
      BY <3>1, <3>2 DEF Range
  <2>. QED
    BY <1>1, <1>2, <2>1, <2>2, KeptByDecline DEF Goal
<1>3. ASSUME NEW p \in Entity, NEW q \in Entity, InitiateInvite(p, q)
      PROVE  Goal
  BY <1>3, <1>2 DEF InitiateInvite
<1>4. ASSUME NEW q \in Entity, handle_invite_accept(q)
      PROVE  Goal
  BY <1>4, KeptByAccept DEF Goal
<1>5. ASSUME NEW q \in Entity, handle_invite_decline(q) \/ InviteTimeout(q)
      PROVE  Goal
  BY <1>5, <1>2 DEF handle_invite_decline, InviteTimeout, tradeVars
<1>6. ASSUME NEW e \in Entity, NEW v, InventoryManip(e, v)
      PROVE  Goal
  <2>1. out' = Silence /\ next_id' = next_id
    BY <1>6 DEF InventoryManip
  <2>2. \A id \in DOMAIN trades' : Kept(id)
    BY <1>6, KeptByInventory
  <2>3. OutOK
    BY <2>1, FinishedOut
  <2>4. \A f \in Entity : Range(out'[f]) = {}
    BY <2>1 DEF Silence, Range
  <2>. QED
    BY <2>1, <2>2, <2>3, <2>4 DEF Goal
<1>7. CASE OutsideOfTrades
  BY <1>7, <1>2 DEF OutsideOfTrades, tradeVars
<1>8. ASSUME NEW e \in Entity, Attacked(e)
      PROVE  Goal
  BY <1>8, <1>2 DEF Attacked
<1>9. ASSUME NEW e \in Entity, Down(e) \/ Recover(e)
      PROVE  Goal
  BY <1>9, <1>2 DEF Down, Recover, tradeVars
<1>10. ASSUME NEW e \in Entity, Leave(e)
       PROVE  Goal
  BY <1>10, <1>2 DEF Leave
<1>11. CASE InviteStep
  BY <1>3, <1>4, <1>5, <1>11 DEF InviteStep
<1>12. CASE \E e \in Entity : SwapSlots(e) \/ DeleteSome(e)
  BY <1>6, <1>12 DEF SwapSlots, DeleteSome
<1>13. CASE \E e \in Entity, g \in Gifts : Transcribe(e, g) \/ \E f \in Entity : Dialogue(e, f, g)
  BY <1>7, <1>13 DEF Dialogue, Transcribe
<1>14. CASE \E e \in Disturbed : Attacked(e) \/ Down(e) \/ Recover(e) \/ Leave(e)
  BY <1>1, <1>8, <1>9, <1>10, <1>14
<1>. QED
  BY <1>11, <1>12, <1>13, <1>14 DEF OtherStep

(* Declining a trade.                                                       *)
LEMMA DeclineTold ==
  ASSUME IInv, NEW e \in Entity, NEW i \in TradeId, DeclineTrade(e, i)
  PROVE  /\ OutOK /\ next_id' = next_id
         /\ \A id \in DOMAIN trades' : Kept(id)
         /\ \A f \in Entity : FinishedTrade("Completed") \notin Range(out'[f])
<1>. DEFINE fin == FinishedTrade("Declined")
            b == decline_trade(book, i, e)
<1>1. TradesOK /\ next_id' = next_id /\ Keep(b) /\ out' = Tell(b.notify \cap here, fin)
  BY DEF IInv, DeclineTrade
<1>2. \A f \in Entity : out'[f] = <<>> \/ out'[f] = <<fin>>
  BY <1>1 DEF Tell
<1>3. fin # FinishedTrade("Completed")
  BY DEF FinishedTrade
<1>4. OutOK
  BY <1>1, FinishedOut
<1>5. \A id \in DOMAIN trades' : Kept(id)
  BY <1>1, KeptByDecline
<1>. HIDE DEF fin
<1>6. \A f \in Entity : FinishedTrade("Completed") \notin Range(out'[f])
  BY <1>2, <1>3 DEF Range
<1>. QED
  BY <1>1, <1>4, <1>5, <1>6

----------------------------------------------------------------------------
(* What is shown after a step                                               *)

LEMMA StreamFacts ==
  ASSUME StreamsOK, NEW e \in Entity
  PROVE  Stream(toClient[e]) /\ Len(toClient[e]) \in Nat /\ Stream(toServer[e]) /\ Len(toServer[e]) \in Nat
  BY DEF StreamsOK, Stream

(* Sending: what was shown is shown as before; what comes new is the last   *)
(* message, of an open trade of the entity as it now is.                    *)
Fresh(e, k) ==
  /\ k = Len(toClient'[e])
  /\ \E id \in DOMAIN trades' :
       e \in Parties(trades'[id]) /\ At(e, k)' = [id |-> id, trade |-> trades'[id]]

LEMMA SendViews ==
  ASSUME StreamsOK, OutOK, Send, pending_trade' = pending_trade, NEW e \in Entity
  PROVE  /\ Stream(toClient'[e]) /\ Len(toClient'[e]) \in Nat /\ Len(toClient[e]) \in Nat
         /\ Len(toClient[e]) <= Len(toClient'[e])
         /\ \A k \in 0..Len(toClient[e]) : At(e, k)' = At(e, k)
         /\ \A k \in Len(toClient[e]) + 1 .. Len(toClient'[e]) : At(e, k)' = None \/ Fresh(e, k)
         /\ Len(toClient'[e]) = Len(toClient[e]) => out'[e] = <<>>
<1>. DEFINE s == toClient[e]
            o == out'[e]
            x == IF e \in here \ here' THEN <<ExitInGameSuccess>> ELSE <<>>
            n == toClient'[e]
<1>1. n = (s \o o) \o x
  BY DEF Send
<1>2. Stream(s) /\ Stream(o) /\ Stream(x)
  BY StreamFacts, ShortStreams DEF OutOK
<1>3. /\ \A k \in 1..Len(x) : x[k] = ExitInGameSuccess
      /\ e \in here' => Len(x) = 0
  BY ShortStreams
<1>4. \A k \in 1..Len(o) : ShownBy(o[k]) # None =>
        /\ k = Len(o) /\ e \in here'
        /\ \E id \in DOMAIN trades' : e \in Parties(trades'[id]) /\ o[k] = UpdatePendingTrade(id, trades'[id])
  BY DEF OutOK
<1>. DEFINE y == s \o o
<1>. HIDE DEF o, x
<1>5. /\ Stream(s \o o) /\ Len(s) \in Nat /\ Len(o) \in Nat /\ Len(s \o o) = Len(s) + Len(o)
      /\ \A k \in 1..Len(s) : (s \o o)[k] = s[k]
      /\ \A k \in 1..Len(o) : (s \o o)[Len(s) + k] = o[k]
  BY <1>2, JoinStreams
<1>. HIDE DEF y
<1>6. Stream(y)
  BY <1>5 DEF y
<1>7. /\ Stream(y \o x) /\ Len(x) \in Nat /\ Len(y \o x) = Len(y) + Len(x)
      /\ \A k \in 1..Len(y) : (y \o x)[k] = y[k]
      /\ \A k \in 1..Len(x) : (y \o x)[Len(y) + k] = x[k]
  BY <1>2, <1>6, JoinStreams
<1>8. /\ Stream(n) /\ Len(x) \in Nat /\ Len(n) = Len(s \o o) + Len(x)
      /\ \A k \in 1..Len(s \o o) : n[k] = (s \o o)[k]
      /\ \A k \in 1..Len(x) : n[Len(s \o o) + k] = x[k]
  BY <1>1, <1>7 DEF y
<1>9. Len(n) \in Nat /\ Len(s) <= Len(n) /\ (Len(n) = Len(s) => o = <<>>)
  BY <1>2, <1>5, <1>8 DEF Stream
<1>10. \A k \in 1..Len(s) : n[k] = s[k]
  BY <1>5, <1>8
<1>11. \A k \in 0..Len(s) : At(e, k)' = At(e, k)
  BY <1>5, <1>10 DEF At
<1>12. ASSUME NEW k \in Len(s) + 1 .. Len(n), At(e, k)' # None
       PROVE  Fresh(e, k)
  <2>1. k \in Nat /\ k # 0 /\ At(e, k)' = ShownBy(n[k])
    BY <1>5, <1>9 DEF At
  <2>2. CASE k > Len(s) + Len(o)
    <3>. DEFINE j == k - (Len(s) + Len(o))
    <3>1. j \in 1..Len(x) /\ Len(s \o o) + j = k
      BY <1>5, <1>8, <2>1, <2>2
    <3>2. n[k] = ExitInGameSuccess
      BY <1>3, <1>8, <3>1
    <3>. QED
      BY <1>12, <2>1, <3>2, ShowsNothing
  <2>3. CASE k <= Len(s) + Len(o)
    <3>. DEFINE j == k - Len(s)
    <3>1. j \in 1..Len(o) /\ Len(s) + j = k /\ k \in 1..Len(s \o o)
      BY <1>5, <2>1, <2>3
    <3>. HIDE DEF j
    <3>2. n[k] = o[j]
      BY <1>5, <1>8, <3>1
    <3>3. ShownBy(o[j]) # None
      BY <1>12, <2>1, <3>2
    <3>4. j = Len(o) /\ e \in here'
      BY <1>4, <3>1, <3>3
    <3>5. PICK id \in DOMAIN trades' : e \in Parties(trades'[id]) /\ o[j] = UpdatePendingTrade(id, trades'[id])
      BY <1>4, <3>1, <3>3
    <3>6. At(e, k)' = [id |-> id, trade |-> trades'[id]]
      BY <2>1, <3>2, <3>5, ShowsNothing
    <3>7. k = Len(n)
      BY <1>3, <1>5, <1>8, <3>1, <3>4
    <3>. QED
      BY <3>5, <3>6, <3>7 DEF Fresh
  <2>. QED
    BY <1>5, <2>1, <2>2, <2>3
<1>. QED
  BY <1>5, <1>8, <1>9, <1>11, <1>12 DEF o

LEMMA OneTrade ==
  ASSUME TradesOK
  PROVE  /\ next_id \in Nat
         /\ \A i \in DOMAIN trades : i \in TradeId /\ i \in Nat /\ i < next_id
         /\ \A i \in DOMAIN trades : \A f \in Parties(trades[i]) : f \in Entity
         /\ \A i, j \in DOMAIN trades : \A f \in Parties(trades[i]) : f \in Parties(trades[j]) => i = j
  BY BookFacts, Distinct DEF TradesOK, BookOK

LEMMA OneTradeAfter ==
  ASSUME TradesOK'
  PROVE  /\ next_id' \in Nat
         /\ \A i \in DOMAIN trades' : i \in TradeId /\ i \in Nat /\ i < next_id'
         /\ \A i \in DOMAIN trades' : \A f \in Parties(trades'[i]) : f \in Entity
         /\ \A i, j \in DOMAIN trades' : \A f \in Parties(trades'[i]) : f \in Parties(trades'[j]) => i = j
<1>1. /\ next_id' \in Nat
      /\ \A i \in DOMAIN trades' : i \in TradeId /\ i < next_id' /\ IsTrade(trades'[i])
      /\ \A i \in DOMAIN trades' : \A f \in Parties(trades'[i]) : entity_trades'[f] = i
  BY DEF TradesOK, BookOK, book
<1>2. ASSUME NEW i \in DOMAIN trades'
      PROVE  i \in Nat /\ \A f \in Parties(trades'[i]) : f \in Entity
  <2>1. PICK t : t = trades'[i] /\ t.parties \in Entity \X Entity
    BY <1>1 DEF IsTrade
  <2>2. \A f \in Parties(t) : f \in Entity
    BY <2>1 DEF Parties
  <2>. QED
    BY <1>1, <2>1, <2>2, Distinct
<1>. QED
  BY <1>1, <1>2

(* The server's streams from the clients lose messages at most.             *)
Shorter ==
  /\ toServer' \in [Entity -> Range(toServer')]
  /\ \A f \in Entity : Stream(toServer'[f]) /\ \A k \in 1..Len(toServer'[f]) :
       \E j \in 1..Len(toServer[f]) : toServer'[f][k] = toServer[f][j]

(* Every change is one that a player wanted, and is told.                   *)
Changed(id, e) ==
  Kept(id) \/ Begun(id) \/ \E a : Advanced(id, e, a)
                                    /\ (a.kind = "Accept" /\ a.phase = "Review" => Pressed(e, id))

LEMMA ServerKeeps ==
  ASSUME SInv, TradesOK', OutOK, Send, Shorter, pending_trade' = pending_trade, agreed' = agreed,
         next_id' \in {next_id, next_id + 1}, NEW e,
         \A id \in DOMAIN trades' : Changed(id, e)
  PROVE  ScreensOK'
<1>1. /\ TradesOK /\ StreamsOK /\ ViewsOK /\ InOrder /\ LastOK /\ PressesOK /\ VotesOK /\ PhasesOK
  BY DEF SInv, IInv, ScreensOK
<1>2. /\ next_id \in Nat /\ next_id <= next_id'
      /\ \A i \in DOMAIN trades : i \in TradeId /\ i \in Nat /\ i < next_id
      /\ \A i \in DOMAIN trades : \A f \in Parties(trades[i]) : f \in Entity
      /\ \A i, j \in DOMAIN trades : \A f \in Parties(trades[i]) : f \in Parties(trades[j]) => i = j
  BY <1>1, OneTrade
<1>3. /\ next_id' \in Nat
      /\ \A i \in DOMAIN trades' : i \in TradeId /\ i \in Nat /\ i < next_id'
      /\ \A i \in DOMAIN trades' : \A f \in Parties(trades'[i]) : f \in Entity
      /\ \A i, j \in DOMAIN trades' : \A f \in Parties(trades'[i]) : f \in Parties(trades'[j]) => i = j
  BY OneTradeAfter
<1>4. ASSUME NEW id \in DOMAIN trades'
      PROVE  \/ /\ id \in DOMAIN trades /\ Parties(trades'[id]) = Parties(trades[id])
                /\ trades'[id].parties = trades[id].parties
                /\ trades[id].phase = "Review" =>
                     trades'[id].phase = "Review" /\ trades'[id].offers = trades[id].offers
                /\ trades'[id].phase \in {"Mutate", "Review"}
             \/ id = next_id /\ id \notin DOMAIN trades /\ trades'[id].phase = "Mutate"
  <2>1. Changed(id, e)
    OBVIOUS
  <2>2. CASE Begun(id)
    BY <1>2, <2>2 DEF Begun
  <2>3. CASE Kept(id)
    BY <1>1, <2>3 DEF Kept, ShowsTerms, Parties, PhasesOK
  <2>4. CASE \E a : Advanced(id, e, a)
    BY <2>4 DEF Advanced, Parties
  <2>. QED
    BY <2>1, <2>2, <2>3, <2>4 DEF Changed
<1>5. ASSUME NEW f \in Entity
      PROVE  /\ Stream(toClient'[f]) /\ Len(toClient'[f]) \in Nat /\ Len(toClient[f]) \in Nat
             /\ \A k \in 0..Len(toClient'[f]) : At(f, k)' # None =>
                  \/ k \in 0..Len(toClient[f]) /\ At(f, k)' = At(f, k)
                  \/ Fresh(f, k)
             /\ \E n \in 0..Len(toClient'[f]) :
                  /\ n = Len(toClient'[f]) /\ Final(f)' = At(f, n)'
                  /\ \/ n = Len(toClient[f]) /\ out'[f] = <<>>
                     \/ At(f, n)' = None \/ Fresh(f, n)
  <2>1. /\ Stream(toClient'[f]) /\ Len(toClient'[f]) \in Nat /\ Len(toClient[f]) \in Nat
        /\ Len(toClient[f]) <= Len(toClient'[f])
        /\ \A k \in 0..Len(toClient[f]) : At(f, k)' = At(f, k)
        /\ \A k \in Len(toClient[f]) + 1 .. Len(toClient'[f]) : At(f, k)' = None \/ Fresh(f, k)
        /\ Len(toClient'[f]) = Len(toClient[f]) => out'[f] = <<>>
    BY <1>1, SendViews
  <2>2. \A k \in 0..Len(toClient'[f]) :
          k \in 0..Len(toClient[f]) \/ k \in Len(toClient[f]) + 1 .. Len(toClient'[f])
    BY <2>1
  <2>3. PICK n \in 0..Len(toClient'[f]) : n = Len(toClient'[f])
    BY <2>1
  <2>4. Final(f)' = At(f, n)'
    BY <2>3 DEF Final, At
  <2>5. \/ n = Len(toClient[f]) /\ out'[f] = <<>>
        \/ At(f, n)' = None \/ Fresh(f, n)
    <3>1. n = Len(toClient[f]) \/ n \in Len(toClient[f]) + 1 .. Len(toClient'[f])
      BY <2>1, <2>2, <2>3
    <3>. QED
      BY <2>1, <2>3, <3>1
  <2>6. \A k \in 0..Len(toClient'[f]) : At(f, k)' # None =>
          \/ k \in 0..Len(toClient[f]) /\ At(f, k)' = At(f, k)
          \/ Fresh(f, k)
    BY <2>1, <2>2
  <2>. QED
    BY <2>1, <2>3, <2>4, <2>5, <2>6
<1>6. StreamsOK'
  <2>1. toClient' \in [Entity -> Range(toClient')]
    BY DEF Send, Range
  <2>. QED
    BY <1>1, <1>5, <2>1 DEF StreamsOK, Shorter
<1>7. ViewsOK'
  <2>1. ASSUME NEW f \in Entity, NEW k \in 0..Len(toClient'[f]), At(f, k)' # None
        PROVE  ViewOK(f, k)'
    <3>1. CASE k \in 0..Len(toClient[f]) /\ At(f, k)' = At(f, k)
      <4>1. ViewOK(f, k)
        BY <1>1, <2>1, <3>1 DEF ViewsOK, Views
      <4>2. PICK v : v = At(f, k) /\ v = At(f, k)'
        BY <3>1
      <4>3. /\ v.id \in TradeId /\ v.id \in Nat /\ v.id < next_id
            /\ v.id \in DOMAIN trades =>
                 /\ f \in Parties(trades[v.id])
                 /\ v.trade.phase = "Review" =>
                      trades[v.id].phase = "Review" /\ trades[v.id].offers = v.trade.offers
            /\ \A id \in DOMAIN trades : f \in Parties(trades[id]) => v.id <= id
        BY <4>1, <4>2, Distinct DEF ViewOK
      <4>4. v.id < next_id'
        BY <1>2, <1>3, <4>3
      <4>5. v.id \in DOMAIN trades' =>
              /\ f \in Parties(trades'[v.id])
              /\ v.trade.phase = "Review" =>
                   trades'[v.id].phase = "Review" /\ trades'[v.id].offers = v.trade.offers
        BY <1>2, <1>4, <4>3
      <4>6. \A id \in DOMAIN trades' : f \in Parties(trades'[id]) => v.id <= id
        BY <1>2, <1>4, <4>3
      <4>. QED
        BY <4>2, <4>3, <4>4, <4>5, <4>6 DEF ViewOK
    <3>2. CASE Fresh(f, k)
      <4>1. PICK id \in DOMAIN trades' : f \in Parties(trades'[id]) /\ At(f, k)' = [id |-> id, trade |-> trades'[id]]
        BY <3>2 DEF Fresh
      <4>2. At(f, k)'.id = id /\ At(f, k)'.trade = trades'[id]
        BY <4>1
      <4>3. \A i \in DOMAIN trades' : f \in Parties(trades'[i]) => id <= i
        BY <1>3, <4>1
      <4>. QED
        BY <1>3, <4>1, <4>2, <4>3 DEF ViewOK
    <3>. QED
      BY <1>5, <2>1, <3>1, <3>2
  <2>. QED
    BY <2>1 DEF ViewsOK, Views
<1>8. InOrder'
  <2>1. ASSUME NEW f \in Entity, NEW j \in 0..Len(toClient'[f]), NEW k \in 0..Len(toClient'[f]),
               j < k, At(f, j)' # None, At(f, k)' # None
        PROVE  At(f, j)'.id <= At(f, k)'.id
    <3>1. j \in 0..Len(toClient[f]) /\ At(f, j)' = At(f, j)
      BY <1>5, <2>1 DEF Fresh
    <3>2. CASE k \in 0..Len(toClient[f]) /\ At(f, k)' = At(f, k)
      <4>1. At(f, j).id <= At(f, k).id
        BY <1>1, <2>1, <3>1, <3>2 DEF InOrder, Views
      <4>. QED
        BY <3>1, <3>2, <4>1
    <3>3. CASE Fresh(f, k)
      <4>1. PICK id \in DOMAIN trades' : f \in Parties(trades'[id]) /\ At(f, k)' = [id |-> id, trade |-> trades'[id]]
        BY <3>3 DEF Fresh
      <4>2. ViewOK(f, j)
        BY <1>1, <2>1, <3>1 DEF ViewsOK, Views
      <4>3. PICK v : v = At(f, j) /\ v = At(f, j)'
        BY <3>1
      <4>4. /\ v.id \in Nat /\ v.id < next_id
            /\ \A i \in DOMAIN trades : f \in Parties(trades[i]) => v.id <= i
        BY <4>2, <4>3, Distinct DEF ViewOK
      <4>5. v.id <= id
        BY <1>2, <1>4, <4>1, <4>4
      <4>. QED
        BY <4>1, <4>3, <4>5
    <3>. QED
      BY <1>5, <2>1, <3>2, <3>3
  <2>. QED
    BY <2>1 DEF InOrder, Views
<1>9. LastOK'
  <2>1. ASSUME NEW f \in Entity, Final(f)' # None, Final(f)'.id \in DOMAIN trades'
        PROVE  ShowsTerms(Final(f)'.trade, trades'[Final(f)'.id])
    <3>1. PICK n \in 0..Len(toClient'[f]) :
            /\ n = Len(toClient'[f]) /\ Final(f)' = At(f, n)'
            /\ \/ n = Len(toClient[f]) /\ out'[f] = <<>>
               \/ At(f, n)' = None \/ Fresh(f, n)
      BY <1>5
    <3>2. CASE n = Len(toClient[f]) /\ out'[f] = <<>> /\ At(f, n)' = At(f, n)
      <4>1. PICK v : v = Final(f) /\ v = Final(f)'
        BY <3>1, <3>2 DEF Final
      <4>2. v # None /\ v.id \in DOMAIN trades'
        BY <2>1, <4>1
      <4>3. v.id \in TradeId /\ v.id \in Nat /\ v.id < next_id
        <5>1. Len(toClient[f]) \in Views(f)
          BY <1>5 DEF Views
        <5>2. ViewOK(f, Len(toClient[f]))
          BY <1>1, <4>1, <4>2, <5>1 DEF ViewsOK, Final
        <5>. QED
          BY <4>1, <5>2, Distinct DEF ViewOK, Final
      <4>4. v.id \in DOMAIN trades
        BY <1>2, <1>4, <4>2, <4>3
      <4>5. ShowsTerms(v.trade, trades[v.id]) /\ f \in Parties(trades[v.id])
        <5>1. Len(toClient[f]) \in Views(f)
          BY <1>5 DEF Views
        <5>2. ViewOK(f, Len(toClient[f]))
          BY <1>1, <4>1, <4>2, <5>1 DEF ViewsOK, Final
        <5>. QED
          BY <1>1, <4>1, <4>2, <4>4, <5>2 DEF LastOK, ViewOK, Final
      <4>6. f \in Parties(trades'[v.id])
        BY <1>2, <1>4, <4>2, <4>4, <4>5
      <4>7. ~Told(v.id)
        BY <3>2, <4>6 DEF Told
      <4>8. Kept(v.id)
        BY <4>2, <4>7 DEF Changed, Begun, Advanced
      <4>. QED
        BY <4>1, <4>5, <4>8 DEF Kept, ShowsTerms
    <3>3. CASE Fresh(f, n)
      BY <3>1, <3>3 DEF Fresh, ShowsTerms
    <3>4. \/ n = Len(toClient[f]) /\ out'[f] = <<>> /\ At(f, n)' = At(f, n)
          \/ Fresh(f, n)
      BY <1>5, <2>1, <3>1
    <3>. QED
      BY <3>2, <3>3, <3>4
  <2>. QED
    BY <2>1 DEF LastOK
<1>10. PressesOK'
  <2>1. ASSUME NEW f \in Entity, NEW k \in 1..Len(toServer'[f])
        PROVE  LET m == toServer'[f][k]
               IN  /\ m.id \in TradeId /\ m.id < next_id'
                   /\ m.action \in TradeAction \cup {Decline}
                   /\ Accepts(m, m.id) /\ m.id \in DOMAIN trades' =>
                        f \in Parties(trades'[m.id]) /\ trades'[m.id].phase = "Review"
    <3>1. PICK j \in 1..Len(toServer[f]) : toServer'[f][k] = toServer[f][j]
      BY DEF Shorter
    <3>2. PICK m : m = toServer[f][j] /\ m = toServer'[f][k]
      BY <3>1
    <3>3. /\ m.id \in TradeId /\ m.id \in Nat /\ m.id < next_id
          /\ m.action \in TradeAction \cup {Decline}
          /\ Accepts(m, m.id) /\ m.id \in DOMAIN trades =>
               f \in Parties(trades[m.id]) /\ trades[m.id].phase = "Review"
      BY <1>1, <3>2, Distinct DEF PressesOK
    <3>4. m.id < next_id'
      BY <1>2, <1>3, <3>3
    <3>5. m.id \in DOMAIN trades' => m.id \in DOMAIN trades
      BY <1>2, <1>4, <3>3
    <3>6. Accepts(m, m.id) /\ m.id \in DOMAIN trades' =>
                        f \in Parties(trades'[m.id]) /\ trades'[m.id].phase = "Review"
      BY <1>2, <1>4, <3>3, <3>5
    <3>. QED
      BY <3>2, <3>3, <3>4, <3>6
  <2>. QED
    BY <2>1 DEF PressesOK
<1>11. VotesOK'
  <2>1. ASSUME NEW id \in DOMAIN trades', NEW f \in Parties(trades'[id]),
               trades'[id].phase = "Review", Flagged(f, id)' \/ Pressed(f, id)'
        PROVE  /\ agreed'[f] = [id |-> id, offers |-> trades'[id].offers]
               /\ \A k \in 0..Len(toClient'[f]) : At(f, k)' # None => At(f, k)'.id = id
    <3>1. /\ id \in DOMAIN trades /\ Parties(trades'[id]) = Parties(trades[id])
          /\ f \in Entity /\ f \in Parties(trades[id])
          /\ trades'[id].parties = trades[id].parties
          /\ trades[id].phase = "Review" => trades'[id].offers = trades[id].offers
      BY <1>3, <1>4, <2>1
    <3>2. Pressed(f, id)' => Pressed(f, id) /\ trades[id].phase = "Review"
      <4>1. ASSUME NEW k \in 1..Len(toServer'[f]), Accepts(toServer'[f][k], id)
            PROVE  Pressed(f, id) /\ trades[id].phase = "Review"
        <5>1. PICK j \in 1..Len(toServer[f]) : toServer'[f][k] = toServer[f][j]
          BY <3>1 DEF Shorter
        <5>2. Accepts(toServer[f][j], id) /\ toServer[f][j].id = id
          BY <4>1, <5>1 DEF Accepts
        <5>. QED
          BY <1>1, <3>1, <5>1, <5>2 DEF PressesOK, Pressed
      <4>. QED
        BY <4>1 DEF Pressed
    <3>3. ASSUME NEW w \in 1..2, trades'[id].parties[w] = f, trades'[id].accept_flags[w] = TRUE
          PROVE  trades[id].phase = "Review" /\ (Flagged(f, id) \/ Pressed(f, id))
      <4>1. Changed(id, e) /\ ~Begun(id)
        BY <1>2, <3>1 DEF Begun
      <4>2. CASE Kept(id)
        <5>1. trades[id].phase = "Review" /\ trades[id].accept_flags[w] = TRUE
          BY <2>1, <3>3, <4>2, Zenon DEF Kept, ShowsTerms
        <5>. QED
          BY <3>1, <3>3, <5>1, Zenon DEF Flagged
      <4>3. ASSUME NEW a, Advanced(id, e, a), a.kind = "Accept" /\ a.phase = "Review" => Pressed(e, id)
            PROVE  trades[id].phase = "Review" /\ (Flagged(f, id) \/ Pressed(f, id))
        <5>1. trades[id].phase = "Review" /\ AcceptedBy(trades[id], e, a, w)
          BY <2>1, <3>3, <4>3, Zenon DEF Advanced
        <5>2. trades[id].parties[w] = f
          BY <3>1, <3>3
        <5>. QED
          BY <4>3, <5>1, <5>2, Zenon DEF AcceptedBy, Flagged
      <4>. QED
        BY <4>1, <4>2, <4>3 DEF Changed
    <3>4. trades[id].phase = "Review" /\ (Flagged(f, id) \/ Pressed(f, id))
      <4>1. Flagged(f, id)' => \E w \in 1..2 : trades'[id].parties[w] = f /\ trades'[id].accept_flags[w] = TRUE
        BY Zenon DEF Flagged
      <4>. QED
        BY <2>1, <3>2, <3>3, <4>1, Zenon
    <3>5. /\ agreed[f] = [id |-> id, offers |-> trades[id].offers]
          /\ \A k \in 0..Len(toClient[f]) : At(f, k) # None => At(f, k).id = id
      BY <1>1, <3>1, <3>4 DEF VotesOK, Views
    <3>6. ASSUME NEW k \in 0..Len(toClient'[f]), At(f, k)' # None
          PROVE  At(f, k)'.id = id
      <4>1. CASE k \in 0..Len(toClient[f]) /\ At(f, k)' = At(f, k)
        BY <3>5, <3>6, <4>1
      <4>2. CASE Fresh(f, k)
        BY <1>3, <2>1, <4>2 DEF Fresh
      <4>. QED
        BY <1>5, <3>1, <3>6, <4>1, <4>2
    <3>. QED
      BY <3>1, <3>4, <3>5, <3>6
  <2>. QED
    BY <2>1 DEF VotesOK, Views
<1>12. PhasesOK'
  BY <1>4 DEF PhasesOK
<1>. QED
  BY <1>6, <1>7, <1>8, <1>9, <1>10, <1>11, <1>12 DEF ScreensOK

(* Steps of the clients leave the server as it is.                          *)
LEMMA IdleKeeps ==
  ASSUME IInv, ServerIdle
  PROVE  IInv' /\ UNCHANGED <<trades, next_id>>
<1>1. UNCHANGED inviteVars /\ UNCHANGED <<here, trades, entity_trades, next_id>>
  BY DEF ServerIdle, inviteVars, tradeVars
<1>. QED
  BY <1>1, UnchangedOK, StillKeeps DEF IInv

(* A player presses what the screen offers.                                 *)
LEMMA PressKeeps ==
  ASSUME SInv, NEW e \in Entity, perform_trade_action(e)
  PROVE  ScreensOK'
<1>1. /\ IInv /\ StreamsOK /\ ViewsOK /\ InOrder /\ LastOK /\ PressesOK /\ VotesOK /\ PhasesOK
      /\ ServerIdle
  BY DEF SInv, ScreensOK, perform_trade_action
<1>2. trades' = trades /\ next_id' = next_id /\ toClient' = toClient
  BY <1>1, IdleKeeps DEF perform_trade_action
<1>3. PICK v : v = pending_trade[e]
  OBVIOUS
<1>4. PICK a \in OnScreen(e) :
        /\ toServer' = [toServer EXCEPT ![e] = Append(@, [id |-> v.id, action |-> a])]
        /\ pending_trade' = [pending_trade EXCEPT ![e] = IF a = Decline THEN None ELSE @]
        /\ agreed' = [agreed EXCEPT ![e] =
             IF a.kind = "Accept" /\ a.phase = "Review"
             THEN [id |-> v.id, offers |-> v.trade.offers] ELSE @]
  BY <1>3, Zenon DEF perform_trade_action
<1>5. PICK m : m = [id |-> v.id, action |-> a]
  OBVIOUS
<1>6. /\ v = pending_trade[e] /\ v # None
      /\ a \in OnScreen(e) /\ m = [id |-> v.id, action |-> a]
      /\ toServer' = [toServer EXCEPT ![e] = Append(@, m)]
      /\ pending_trade' = [pending_trade EXCEPT ![e] = IF a = Decline THEN None ELSE @]
      /\ agreed' = [agreed EXCEPT ![e] =
           IF a.kind = "Accept" /\ a.phase = "Review"
           THEN [id |-> v.id, offers |-> v.trade.offers] ELSE @]
  BY <1>3, <1>4, <1>5, Zenon DEF perform_trade_action
<1>7. m.id = v.id /\ m.action = a /\ a \in TradeAction \cup {Decline}
  BY <1>6 DEF OnScreen
<1>8. a.kind = "Accept" => a.phase = v.trade.phase
  BY <1>6 DEF OnScreen, Decline
<1>9. \A f \in Entity : Stream(toClient[f]) /\ Len(toClient[f]) \in Nat /\ Stream(toServer[f]) /\ Len(toServer[f]) \in Nat
  BY <1>1, StreamFacts
<1>10. /\ \A f \in Entity : f # e => toServer'[f] = toServer[f] /\ agreed'[f] = agreed[f]
       /\ toServer'[e] = Append(toServer[e], m)
       /\ agreed'[e] = IF a.kind = "Accept" /\ a.phase = "Review"
                       THEN [id |-> v.id, offers |-> v.trade.offers] ELSE agreed[e]
  BY <1>1, <1>6 DEF StreamsOK
<1>11. ASSUME NEW f \in Entity, NEW k \in Views(f), At(f, k)' # None
       PROVE  At(f, k)' = At(f, k)
  <2>1. pending_trade'[f] = pending_trade[f] \/ pending_trade'[f] = None
    BY <1>1, <1>6 DEF StreamsOK
  <2>. QED
    BY <1>2, <1>11, <2>1 DEF At
<1>12. \A f \in Entity : Views(f)' = Views(f) /\ Len(toClient[f]) \in Views(f) /\ 0 \in Views(f)
  BY <1>2, <1>9 DEF Views
<1>13. ViewOK(e, 0) /\ At(e, 0) = v
  BY <1>1, <1>6, <1>12 DEF ViewsOK, At
<1>14. /\ Stream(toServer'[e]) /\ Len(toServer'[e]) = Len(toServer[e]) + 1
       /\ \A k \in 1..Len(toServer[e]) : toServer'[e][k] = toServer[e][k]
       /\ toServer'[e][Len(toServer[e]) + 1] = m
       /\ \A k \in 1..Len(toServer'[e]) : k \in 1..Len(toServer[e]) \/ k = Len(toServer[e]) + 1
  <2>1. /\ Stream(toServer'[e]) /\ Len(toServer'[e]) = Len(toServer[e]) + 1
        /\ \A k \in 1..Len(toServer[e]) : toServer'[e][k] = toServer[e][k]
        /\ toServer'[e][Len(toServer[e]) + 1] = m
    BY <1>9, <1>10, AppendStream
  <2>2. \A k \in 1..Len(toServer[e]) + 1 : k \in 1..Len(toServer[e]) \/ k = Len(toServer[e]) + 1
    BY <1>9
  <2>. QED
    BY <2>1, <2>2
<1>15. StreamsOK'
  <2>1. /\ pending_trade' \in [Entity -> Range(pending_trade')]
        /\ agreed' \in [Entity -> Range(agreed')]
        /\ toServer' \in [Entity -> Range(toServer')]
    BY <1>1, <1>6 DEF StreamsOK, Range
  <2>2. \A f \in Entity : Stream(toServer'[f])
    BY <1>9, <1>10, <1>14
  <2>. QED
    BY <1>1, <1>2, <2>1, <2>2 DEF StreamsOK
<1>16. ViewsOK'
  <2>1. ASSUME NEW f \in Entity, NEW k \in Views(f), At(f, k)' # None
        PROVE  ViewOK(f, k)'
    BY <1>1, <1>2, <1>11, <2>1 DEF ViewsOK, ViewOK
  <2>. QED
    BY <1>12, <2>1 DEF ViewsOK
<1>17. InOrder'
  <2>1. ASSUME NEW f \in Entity, NEW j \in Views(f), NEW k \in Views(f), j < k,
               At(f, j)' # None, At(f, k)' # None
        PROVE  At(f, j)'.id <= At(f, k)'.id
    <3>1. At(f, j)' = At(f, j) /\ At(f, k)' = At(f, k)
      BY <1>11, <2>1
    <3>. QED
      BY <1>1, <2>1, <3>1 DEF InOrder
  <2>. QED
    BY <1>12, <2>1 DEF InOrder
<1>18. LastOK'
  <2>1. ASSUME NEW f \in Entity, Final(f)' # None
        PROVE  Final(f)' = Final(f)
    <3>1. PICK n \in Views(f) : n = Len(toClient[f])
      BY <1>12
    <3>2. Final(f)' = At(f, n)' /\ Final(f) = At(f, n)
      BY <1>2, <3>1 DEF Final, At
    <3>. QED
      BY <1>11, <2>1, <3>2
  <2>. QED
    BY <1>1, <1>2, <2>1 DEF LastOK
<1>19. PressesOK'
  <2>1. ASSUME NEW f \in Entity, NEW k \in 1..Len(toServer'[f]), NEW x, x = toServer'[f][k]
        PROVE  /\ x.id \in TradeId /\ x.id < next_id
               /\ x.action \in TradeAction \cup {Decline}
               /\ Accepts(x, x.id) /\ x.id \in DOMAIN trades =>
                    f \in Parties(trades[x.id]) /\ trades[x.id].phase = "Review"
    <3>1. CASE k \in 1..Len(toServer[f]) /\ toServer'[f][k] = toServer[f][k]
      BY <1>1, <2>1, <3>1 DEF PressesOK
    <3>2. CASE f = e /\ x = m
      BY <1>7, <1>8, <1>13, <3>2 DEF Accepts, ViewOK
    <3>. QED
      BY <1>10, <1>14, <2>1, <3>1, <3>2
  <2>. QED
    BY <1>2, <2>1 DEF PressesOK
<1>20. VotesOK'
  <2>1. ASSUME NEW id \in DOMAIN trades, NEW f \in Parties(trades[id]),
               trades[id].phase = "Review", Flagged(f, id)' \/ Pressed(f, id)'
        PROVE  /\ agreed'[f] = [id |-> id, offers |-> trades[id].offers]
               /\ \A k \in Views(f) : At(f, k)' # None => At(f, k)'.id = id
    <3>1. f \in Entity /\ id \in Nat
      BY <1>1, OneTrade DEF IInv
    <3>2. Flagged(f, id)' <=> Flagged(f, id)
      BY <1>2 DEF Flagged
    <3>3. Pressed(f, id)' => Pressed(f, id) \/ (f = e /\ Accepts(m, id))
      BY <1>10, <1>14, <3>1 DEF Pressed
    <3>4. CASE Flagged(f, id) \/ Pressed(f, id)
      <4>1. /\ agreed[f] = [id |-> id, offers |-> trades[id].offers]
            /\ \A k \in Views(f) : At(f, k) # None => At(f, k).id = id
        BY <1>1, <2>1, <3>4 DEF VotesOK
      <4>2. f = e => v.id = id
        BY <1>6, <1>12, <1>13, <3>1, <4>1
      <4>3. f = e /\ a.kind = "Accept" /\ a.phase = "Review" => v.trade.offers = trades[id].offers
        BY <1>8, <1>13, <4>2 DEF ViewOK
      <4>. QED
        BY <1>10, <1>11, <3>1, <4>1, <4>2, <4>3
    <3>5. CASE f = e /\ Accepts(m, id)
      <4>1. v.id = id /\ a.kind = "Accept" /\ a.phase = "Review" /\ v.trade.phase = "Review"
        BY <1>7, <1>8, <3>5 DEF Accepts
      <4>2. v.trade.offers = trades[id].offers
        BY <1>13, <4>1 DEF ViewOK
      <4>3. ASSUME NEW k \in Views(e), At(e, k) # None
            PROVE  At(e, k).id = id
        <5>1. ViewOK(e, k)
          BY <1>1, <4>3 DEF ViewsOK
        <5>2. PICK w : w = At(e, k) /\ w.id \in Nat /\ w.id <= id
          BY <3>5, <5>1, Distinct DEF ViewOK
        <5>3. id <= w.id
          <6>1. CASE k = 0
            BY <1>13, <3>1, <4>1, <5>2, <6>1
          <6>2. CASE k # 0
            <7>1. 0 < k
              BY <1>9, <6>2 DEF Views
            <7>. QED
              BY <1>1, <1>6, <1>12, <1>13, <4>1, <4>3, <5>2, <7>1 DEF InOrder
          <6>. QED
            BY <6>1, <6>2
        <5>. QED
          BY <3>1, <5>2, <5>3
      <4>. QED
        BY <1>10, <1>11, <3>5, <4>1, <4>2, <4>3
    <3>. QED
      BY <2>1, <3>2, <3>3, <3>4, <3>5
  <2>2. \A f \in Entity : \A k \in Views(f)' : k \in Views(f)
    BY <1>12
  <2>3. \A id \in DOMAIN trades : \A f \in Parties(trades[id]) : f \in Entity
    BY <1>1, OneTrade DEF IInv
  <2>. QED
    BY <1>2, <2>1, <2>2, <2>3 DEF VotesOK
<1>21. PhasesOK'
  BY <1>1, <1>2 DEF PhasesOK
<1>. QED
  BY <1>15, <1>16, <1>17, <1>18, <1>19, <1>20, <1>21 DEF ScreensOK

(* A message arrives: the screen shows what it was going to show.           *)
LEMMA ReceiveKeeps ==
  ASSUME SInv, NEW e \in Entity, Receive(e)
  PROVE  ScreensOK'
<1>1. /\ IInv /\ StreamsOK /\ ViewsOK /\ InOrder /\ LastOK /\ PressesOK /\ VotesOK /\ PhasesOK
      /\ ServerIdle
  BY DEF SInv, ScreensOK, Receive
<1>2. trades' = trades /\ next_id' = next_id /\ toServer' = toServer /\ agreed' = agreed
  BY <1>1, IdleKeeps DEF Receive
<1>3. \A f \in Entity : Stream(toClient[f]) /\ Len(toClient[f]) \in Nat
  BY <1>1, StreamFacts
<1>4. /\ Stream(toClient'[e]) /\ Len(toClient[e]) \in Nat \ {0} /\ Len(toClient'[e]) = Len(toClient[e]) - 1
      /\ \A k \in 1..Len(toClient'[e]) : toClient'[e][k] = toClient[e][k + 1]
      /\ pending_trade'[e] = ShownBy(toClient[e][1])
  <2>1. toClient'[e] = Tail(toClient[e]) /\ toClient[e] # <<>>
    BY <1>1 DEF Receive, StreamsOK
  <2>2. pending_trade'[e] = ShownBy(Head(toClient[e]))
    BY <1>1 DEF Receive, StreamsOK, ShownBy
  <2>3. /\ Stream(Tail(toClient[e]))
        /\ Len(toClient[e]) \in Nat \ {0} /\ Len(Tail(toClient[e])) = Len(toClient[e]) - 1
        /\ \A k \in 1..Len(Tail(toClient[e])) : Tail(toClient[e])[k] = toClient[e][k + 1]
        /\ Head(toClient[e]) = toClient[e][1]
    BY <1>3, <2>1, TailStream
  <2>. QED
    BY <2>1, <2>2, <2>3
<1>5. \A f \in Entity : f # e => toClient'[f] = toClient[f] /\ pending_trade'[f] = pending_trade[f]
  BY <1>1 DEF Receive, StreamsOK
(* Where a view was before, from the one it becomes.                        *)
<1>. DEFINE Was(f, k) == IF f = e THEN k + 1 ELSE k
<1>6. ASSUME NEW f \in Entity, NEW k \in 0..Len(toClient'[f])
      PROVE  Was(f, k) \in Views(f) /\ At(f, k)' = At(f, Was(f, k))
  <2>1. CASE f # e
    BY <1>3, <1>5, <2>1 DEF At, Views
  <2>2. CASE f = e /\ k = 0
    BY <1>4, <2>2 DEF At, Views
  <2>3. CASE f = e /\ k # 0
    <3>1. k \in 1..Len(toClient'[e]) /\ k + 1 # 0 /\ k + 1 \in Views(e)
      BY <1>4, <2>3 DEF Views
    <3>2. At(e, k)' = ShownBy(toClient'[e][k]) /\ At(e, k + 1) = ShownBy(toClient[e][k + 1])
      BY <2>3, <3>1 DEF At
    <3>. QED
      BY <1>4, <2>3, <3>1, <3>2
  <2>. QED
    BY <2>1, <2>2, <2>3
<1>7. \A f \in Entity : \A j, k \in 0..Len(toClient'[f]) : j < k => Was(f, j) < Was(f, k)
  BY <1>3, <1>4, <1>5
<1>8. \A f \in Entity : Final(f)' = Final(f)
  <2>1. ASSUME NEW f \in Entity, f # e
        PROVE  Final(f)' = Final(f)
    BY <1>5, <2>1 DEF Final, At
  <2>2. Final(e)' = Final(e)
    <3>1. PICK n \in 0..Len(toClient'[e]) : n = Len(toClient'[e]) /\ Len(toClient[e]) = n + 1
      BY <1>4 DEF Stream
    <3>2. Final(e)' = At(e, n)' /\ Final(e) = At(e, n + 1)
      BY <3>1 DEF Final, At
    <3>3. At(e, n)' = At(e, n + 1)
      BY <1>6, <3>1
    <3>. QED
      BY <3>2, <3>3
  <2>. QED
    BY <2>1, <2>2
<1>. HIDE DEF Was
<1>9. StreamsOK'
  <2>1. /\ pending_trade' \in [Entity -> Range(pending_trade')]
        /\ toClient' \in [Entity -> Range(toClient')]
    BY <1>1 DEF StreamsOK, Receive, Range
  <2>2. \A f \in Entity : Stream(toClient'[f])
    BY <1>3, <1>4, <1>5
  <2>. QED
    BY <1>1, <1>2, <2>1, <2>2 DEF StreamsOK
<1>10. ViewsOK'
  <2>1. ASSUME NEW f \in Entity, NEW k \in 0..Len(toClient'[f]), At(f, k)' # None
        PROVE  ViewOK(f, k)'
    <3>1. PICK j \in Views(f) : At(f, k)' = At(f, j)
      BY <1>6
    <3>2. ViewOK(f, j)
      BY <1>1, <2>1, <3>1 DEF ViewsOK
    <3>. QED
      BY <1>2, <3>1, <3>2 DEF ViewOK
  <2>. QED
    BY <2>1 DEF ViewsOK, Views
<1>11. InOrder'
  <2>1. ASSUME NEW f \in Entity, NEW j \in 0..Len(toClient'[f]), NEW k \in 0..Len(toClient'[f]), j < k,
               At(f, j)' # None, At(f, k)' # None
        PROVE  At(f, j)'.id <= At(f, k)'.id
    BY <1>1, <1>6, <1>7, <2>1 DEF InOrder
  <2>. QED
    BY <2>1 DEF InOrder, Views
<1>12. LastOK'
  BY <1>1, <1>2, <1>8 DEF LastOK
<1>13. PressesOK' /\ PhasesOK'
  BY <1>1, <1>2 DEF PressesOK, PhasesOK
<1>14. VotesOK'
  <2>1. ASSUME NEW id \in DOMAIN trades, NEW f \in Parties(trades[id]),
               trades[id].phase = "Review", Flagged(f, id)' \/ Pressed(f, id)'
        PROVE  /\ agreed'[f] = [id |-> id, offers |-> trades[id].offers]
               /\ \A k \in 0..Len(toClient'[f]) : At(f, k)' # None => At(f, k)'.id = id
    <3>1. f \in Entity
      BY <1>1, OneTrade DEF IInv
    <3>2. Flagged(f, id) \/ Pressed(f, id)
      BY <1>2, <2>1 DEF Flagged, Pressed
    <3>3. /\ agreed[f] = [id |-> id, offers |-> trades[id].offers]
          /\ \A k \in Views(f) : At(f, k) # None => At(f, k).id = id
      BY <1>1, <2>1, <3>2 DEF VotesOK
    <3>. QED
      BY <1>2, <1>6, <3>1, <3>3
  <2>. QED
    BY <1>2, <2>1 DEF VotesOK, Views
<1>. QED
  BY <1>9, <1>10, <1>11, <1>12, <1>13, <1>14 DEF ScreensOK

----------------------------------------------------------------------------
(* The server's steps                                                       *)

LEMMA NextActionFacts ==
  ASSUME SInv, NEW e \in Entity, toServer[e] # <<>>, toServer' = [toServer EXCEPT ![e] = Tail(@)]
  PROVE  /\ Shorter
         /\ \E m : /\ m = Head(toServer[e]) /\ m.id \in TradeId
                   /\ m.action \in TradeAction \cup {Decline}
                   /\ m.action.kind = "Accept" /\ m.action.phase = "Review" => Pressed(e, m.id)
<1>1. StreamsOK /\ PressesOK /\ \A f \in Entity : Stream(toServer[f])
  BY DEF SInv, ScreensOK, StreamsOK
<1>2. /\ Stream(Tail(toServer[e]))
      /\ Len(toServer[e]) \in Nat \ {0} /\ Len(Tail(toServer[e])) = Len(toServer[e]) - 1
      /\ \A k \in 1..Len(Tail(toServer[e])) : Tail(toServer[e])[k] = toServer[e][k + 1]
      /\ Head(toServer[e]) = toServer[e][1]
  BY <1>1, TailStream
<1>3. /\ toServer'[e] = Tail(toServer[e])
      /\ \A f \in Entity : f # e => toServer'[f] = toServer[f]
      /\ toServer' \in [Entity -> Range(toServer')]
  BY <1>1 DEF StreamsOK, Range
<1>4. \A k \in 1..Len(Tail(toServer[e])) : k + 1 \in 1..Len(toServer[e])
  BY <1>2 DEF Stream
<1>5. Shorter
  <2>1. ASSUME NEW k \in 1..Len(toServer'[e])
        PROVE  \E j \in 1..Len(toServer[e]) : toServer'[e][k] = toServer[e][j]
    <3>1. toServer'[e][k] = toServer[e][k + 1] /\ k + 1 \in 1..Len(toServer[e])
      BY <1>2, <1>3, <1>4
    <3>. QED
      BY <3>1, Zenon
  <2>2. ASSUME NEW f \in Entity, NEW k \in 1..Len(toServer'[f])
        PROVE  \E j \in 1..Len(toServer[f]) : toServer'[f][k] = toServer[f][j]
    BY <1>3, <2>1, <2>2
  <2>3. \A f \in Entity : Stream(toServer'[f])
    BY <1>1, <1>2, <1>3
  <2>. QED
    BY <1>3, <2>2, <2>3 DEF Shorter
<1>6. PICK m : m = toServer[e][1]
  OBVIOUS
<1>7. 1 \in 1..Len(toServer[e])
  BY <1>2
<1>8. m.id \in TradeId /\ m.action \in TradeAction \cup {Decline}
  BY <1>1, <1>6, <1>7 DEF PressesOK
<1>9. m.action.kind = "Accept" /\ m.action.phase = "Review" => Pressed(e, m.id)
  BY <1>6, <1>7 DEF Pressed, Accepts
<1>. QED
  BY <1>2, <1>5, <1>6, <1>8, <1>9

(* What the server's handler does with the action m of a client.            *)
Handled(e, m) ==
  \/ m.action = Decline /\ DeclineTrade(e, m.id)
  \/ m.action # Decline /\ ProcessTradeAction(e, m.id, m.action)
  \/ Ignored(e, m)

LEMMA HandleKeeps ==
  ASSUME SInv, NEW e \in Entity, HandleTradeAction(e)
  PROVE  SInv'
<1>1. /\ IInv /\ PhasesOK /\ TradesOK /\ toServer[e] # <<>>
      /\ toServer' = [toServer EXCEPT ![e] = Tail(@)]
      /\ Send /\ pending_trade' = pending_trade /\ agreed' = agreed
  BY DEF SInv, IInv, ScreensOK, HandleTradeAction
<1>2. Shorter
  BY <1>1, NextActionFacts
<1>3. PICK m : /\ m = Head(toServer[e]) /\ m.id \in TradeId
               /\ m.action \in TradeAction \cup {Decline}
               /\ m.action.kind = "Accept" /\ m.action.phase = "Review" => Pressed(e, m.id)
  BY <1>1, NextActionFacts
<1>4. Handled(e, m)
  BY <1>3 DEF HandleTradeAction, Handled
<1>. SUFFICES IInv' /\ OutOK /\ next_id' = next_id /\ \A id \in DOMAIN trades' : Changed(id, e)
  BY <1>1, <1>2, ServerKeeps DEF SInv, IInv
<1>5. CASE m.action = Decline /\ DeclineTrade(e, m.id)
  <2>1. IInv'
    BY <1>1, <1>3, <1>5, NextIInv DEF Next, TradeStep
  <2>. QED
    BY <1>1, <1>3, <1>5, <2>1, DeclineTold DEF Changed
<1>6. CASE m.action # Decline /\ ProcessTradeAction(e, m.id, m.action)
  <2>1. m.action \in TradeAction
    BY <1>3, <1>6
  <2>2. IInv'
    BY <1>1, <1>3, <1>6, <2>1, NextIInv DEF Next, TradeStep
  <2>3. /\ OutOK /\ next_id' = next_id
        /\ \A id \in DOMAIN trades' : Kept(id) \/ (id = m.id /\ Advanced(id, e, m.action))
    BY <1>1, <1>3, <1>6, <2>1, ProcessTold
  <2>4. \A id \in DOMAIN trades' : Changed(id, e)
    BY <1>3, <2>3 DEF Changed
  <2>. QED
    BY <2>2, <2>3, <2>4
<1>7. CASE Ignored(e, m)
  <2>1. IInv' /\ trades' = trades /\ next_id' = next_id /\ out' = Silence
    BY <1>1, <1>7, IdleKeeps DEF Ignored, ServerIdle
  <2>2. OutOK
    BY <2>1, FinishedOut
  <2>. QED
    BY <1>1, <2>1, <2>2, KeptByDecline DEF Changed
<1>. QED
  BY <1>4, <1>5, <1>6, <1>7 DEF Handled

LEMMA OtherKeeps ==
  ASSUME SInv, HandleOther
  PROVE  SInv'
<1>1. /\ IInv /\ StreamsOK /\ (InviteStep \/ OtherStep)
      /\ Send /\ toServer' = toServer /\ pending_trade' = pending_trade /\ agreed' = agreed
  BY DEF SInv, ScreensOK, HandleOther
<1>2. IInv'
  BY <1>1, NextIInv DEF Next
<1>3. /\ OutOK /\ next_id' \in {next_id, next_id + 1}
      /\ \A id \in DOMAIN trades' : Kept(id) \/ Begun(id)
  BY <1>1, OthersKeep
<1>4. Shorter
  BY <1>1 DEF Shorter, StreamsOK
<1>5. \A id \in DOMAIN trades' : Changed(id, None)
  BY <1>3 DEF Changed
<1>. QED
  BY <1>1, <1>2, <1>3, <1>4, <1>5, ServerKeeps DEF SInv, IInv

----------------------------------------------------------------------------
(* The invariant                                                            *)

LEMMA InitSInv == CInit => SInv
<1>. SUFFICES ASSUME CInit PROVE SInv
  OBVIOUS
<1>1. IInv
  BY InitIInv DEF CInit
<1>2. /\ DOMAIN trades = {}
      /\ \A e \in Entity : /\ pending_trade[e] = None
                           /\ toClient[e] = <<>> /\ Len(toClient[e]) = 0
                           /\ toServer[e] = <<>> /\ Len(toServer[e]) = 0
  BY DEF CInit, Init
<1>3. \A e \in Entity : \A k \in Views(e) : At(e, k) = None
  BY <1>2 DEF Views, At
<1>4. StreamsOK
  BY <1>2, ShortStreams DEF StreamsOK, CInit, Range
<1>5. ViewsOK /\ InOrder
  BY <1>3 DEF ViewsOK, InOrder
<1>6. LastOK /\ VotesOK /\ PhasesOK
  BY <1>2 DEF LastOK, VotesOK, PhasesOK
<1>7. PressesOK
  BY <1>2 DEF PressesOK
<1>. QED
  BY <1>1, <1>4, <1>5, <1>6, <1>7 DEF SInv, ScreensOK

LEMMA NextSInv == SInv /\ [CNext]_allVars => SInv'
<1>. SUFFICES ASSUME SInv, [CNext]_allVars PROVE SInv'
  OBVIOUS
<1>1. ASSUME NEW e \in Entity, perform_trade_action(e)
      PROVE  SInv'
  BY <1>1, IdleKeeps, PressKeeps DEF SInv, perform_trade_action
<1>2. ASSUME NEW e \in Entity, Receive(e)
      PROVE  SInv'
  BY <1>2, IdleKeeps, ReceiveKeeps DEF SInv, Receive
<1>3. ASSUME NEW e \in Entity, HandleTradeAction(e)
      PROVE  SInv'
  BY <1>3, HandleKeeps
<1>4. CASE HandleOther
  BY <1>4, OtherKeeps
<1>5. CASE UNCHANGED allVars
  <2>1. IInv'
    BY <1>5, NextIInv DEF allVars, SInv
  <2>2. ScreensOK'
    BY <1>5 DEF allVars, vars, clientVars, SInv, ScreensOK, StreamsOK, ViewsOK, ViewOK, InOrder,
                LastOK, PressesOK, VotesOK, PhasesOK, At, Views, Final, Flagged, Pressed
  <2>. QED
    BY <2>1, <2>2 DEF SInv
<1>. QED
  BY <1>1, <1>2, <1>3, <1>4, <1>5 DEF CNext

(* Screens, streams and votes agree in every reachable state.               *)
THEOREM ScreensStayInOrder == CSpec => []SInv
<1>. QED
  BY InitSInv, NextSInv, PTL DEF CSpec

(* A client to which nothing is under way shows an open trade with the      *)
(* parties, the offers and the phase that the server has.                   *)
THEOREM ShownTermsStayCurrent == CSpec => []ShownTermsAreCurrent
<1>1. SInv => ShownTermsAreCurrent
  <2>. SUFFICES ASSUME SInv, NEW e \in Entity, Settled(e)
                PROVE  ShowsTerms(pending_trade[e].trade, trades[pending_trade[e].id])
    BY DEF ShownTermsAreCurrent, ShowsTerms
  <2>1. Final(e) = pending_trade[e]
    BY ShortStreams DEF Settled, Final, At
  <2>. QED
    BY <2>1 DEF SInv, ScreensOK, LastOK, Settled
<1>. QED
  BY <1>1, ScreensStayInOrder, PTL

(* Only an action of a player can carry out a trade, and then both parties  *)
(* have agreed to what it carries out.                                      *)
LEMMA CommitConsented ==
  ASSUME SInv, NEW e \in Entity, HandleTradeAction(e), NEW id \in TradeId, Committed(id),
         NEW f \in Parties(trades[id])
  PROVE  agreed[f] = [id |-> id, offers |-> trades[id].offers]
<1>1. /\ IInv /\ TradesOK /\ PhasesOK /\ VotesOK /\ toServer[e] # <<>>
      /\ toServer' = [toServer EXCEPT ![e] = Tail(@)]
      /\ id \in DOMAIN trades /\ id \notin DOMAIN trades'
  BY DEF SInv, IInv, ScreensOK, HandleTradeAction, Committed
<1>2. PICK m : /\ m = Head(toServer[e]) /\ m.id \in TradeId
               /\ m.action \in TradeAction \cup {Decline}
               /\ m.action.kind = "Accept" /\ m.action.phase = "Review" => Pressed(e, m.id)
  BY <1>1, NextActionFacts
<1>3. Handled(e, m)
  BY <1>2 DEF HandleTradeAction, Handled
<1>4. ~(m.action = Decline /\ DeclineTrade(e, m.id))
  BY <1>1, <1>2, DeclineTold DEF Committed
<1>5. ~Ignored(e, m)
  BY <1>1, IdleKeeps DEF Ignored
<1>6. m.action \in TradeAction /\ ProcessTradeAction(e, m.id, m.action)
  BY <1>2, <1>3, <1>4, <1>5 DEF Handled
<1>7. /\ m.id \notin DOMAIN trades' =>
           trades[m.id].phase = "Review" /\ \A w \in 1..2 : AcceptedBy(trades[m.id], e, m.action, w)
      /\ DOMAIN trades \subseteq DOMAIN trades' \cup {m.id}
  BY <1>1, <1>2, <1>6, ProcessTold
<1>8. id = m.id
  BY <1>1, <1>7
<1>9. trades[id].phase = "Review" /\ \A w \in 1..2 : AcceptedBy(trades[id], e, m.action, w)
  BY <1>1, <1>7, <1>8
<1>10. PICK w \in 1..2 : trades[id].parties[w] = f
  BY <1>1, BookFacts DEF Parties, IsTrade
<1>11. Flagged(f, id) \/ Pressed(f, id)
  BY <1>2, <1>8, <1>9, <1>10, Zenon DEF AcceptedBy, Flagged
<1>. QED
  BY <1>1, <1>9, <1>11 DEF VotesOK

(* A trade is carried out only if each party pressed accept while its       *)
(* screen showed this trade in review with the offers carried out.          *)
THEOREM ConsentIsInformed == CSpec => InformedConsent
<1>1. SInv /\ [CNext]_allVars =>
        [\A id \in TradeId : Committed(id) =>
           \A e \in Parties(trades[id]) : agreed[e] = [id |-> id, offers |-> trades[id].offers]]_allVars
  <2>. SUFFICES ASSUME SInv, CNext, NEW id \in TradeId, Committed(id), NEW f \in Parties(trades[id])
                PROVE  agreed[f] = [id |-> id, offers |-> trades[id].offers]
    OBVIOUS
  <2>1. CASE \E e \in Entity : perform_trade_action(e) \/ Receive(e)
    BY <2>1, IdleKeeps DEF SInv, perform_trade_action, Receive, Committed
  <2>2. CASE \E e \in Entity : HandleTradeAction(e)
    BY <2>2, CommitConsented
  <2>3. CASE HandleOther
    BY <2>3, OthersKeep DEF SInv, HandleOther, Committed
  <2>. QED
    BY <2>1, <2>2, <2>3 DEF CNext
<1>. QED
  BY <1>1, ScreensStayInOrder, PTL DEF CSpec, InformedConsent

----------------------------------------------------------------------------
----------------------------------------------------------------------------
(* Inventories stay inventories.                                            *)

LEMMA SwapTyped ==
  ASSUME NEW v \in Inventory, NEW a \in Slot, NEW b \in Slot
  PROVE  Swap(v, a, b) \in Inventory
  BY DEF Swap, Inventory

LEMMA TakeAmountTyped ==
  ASSUME NEW g \in Stack, NEW n \in Nat
  PROVE  take_amount(g, n) \in Stack
<1>1. CASE g = Empty \/ TakesAll(g, n)
  BY <1>1 DEF take_amount, Stack
<1>2. CASE g # Empty /\ ~TakesAll(g, n)
  <2>1. g \in Pile /\ take_amount(g, n) = [g EXCEPT !.amount = @ - n]
    BY <1>2 DEF take_amount, Stack
  <2>2. /\ g = [item |-> g.item, amount |-> g.amount]
        /\ g.item \in Item /\ g.amount \in Nat \ {0} /\ g.amount <= MaxAmount[g.item]
        /\ MaxAmount[g.item] \in Nat
    BY <2>1, TradeCommitAssumption DEF Pile
  <2>3. n < g.amount
    BY <1>2, <2>2 DEF TakesAll
  <2>4. g.amount - n \in Nat \ {0} /\ g.amount - n <= MaxAmount[g.item]
    BY <2>2, <2>3
  <2>5. take_amount(g, n) = [item |-> g.item, amount |-> g.amount - n]
    BY <2>1, <2>2
  <2>6. [item |-> g.item, amount |-> g.amount - n] \in Pile
    BY <2>2, <2>4 DEF Pile
  <2>. QED
    BY <2>5, <2>6 DEF Stack
<1>. QED
  BY <1>1, <1>2

LEMMA DeleteTyped ==
  ASSUME NEW v \in Inventory, NEW s \in Slot, NEW n \in Nat
  PROVE  Delete(v, s, n) \in Inventory
<1>1. take_amount(v[s], n) \in Stack
  BY TakeAmountTyped DEF Inventory
<1>. QED
  BY <1>1 DEF Delete, Inventory

LEMMA TakenAtTyped ==
  ASSUME NEW v \in Inventory, NEW g \in Pile, NEW s \in Slot
  PROVE  TakenAt(v, g, s) \in Nat /\ TakenAt(v, g, s) <= v[s].amount
<1>. DEFINE before == SlotsWith(v, g.item) \cap 1..(s - 1)
<1>1. \A t \in Slot : v[t].amount \in Nat /\ Amounts(v)[t] = v[t].amount
  BY StackFacts DEF Amounts
<1>2. before \in SUBSET Slot
  BY DEF SlotsWith
<1>3. IsFiniteSet(before) /\ \A t \in before : Amounts(v)[t] \in Nat
  <2>1. \A t \in before : Amounts(v)[t] \in Nat
    BY <1>1, <1>2
  <2>. HIDE DEF before
  <2>. QED
    BY <1>2, <2>1, SlotsFinite, FS_Subset
<1>4. HeldBefore(v, g.item, s) \in Nat
  <2>1. HeldBefore(v, g.item, s) = Sum(Amounts(v), before)
    BY SumOverIs DEF HeldBefore
  <2>. HIDE DEF before
  <2>2. Sum(Amounts(v), before) \in Nat
    BY <1>3, SumNat
  <2>. QED
    BY <2>1, <2>2
<1>5. g.amount \in Nat /\ v[s].amount \in Nat
  BY <1>1 DEF Pile
<1>6. PICK x : x = g.amount - HeldBefore(v, g.item, s)
  OBVIOUS
<1>7. x \in Int
  BY <1>4, <1>5, <1>6
<1>8. Clamp(x, 0, v[s].amount) \in Nat /\ Clamp(x, 0, v[s].amount) <= v[s].amount
  BY <1>5, <1>7 DEF Clamp
<1>. QED
  BY <1>5, <1>6, <1>8 DEF TakenAt

LEMMA RemoveTyped ==
  ASSUME NEW v \in Inventory, NEW g \in Pile
  PROVE  remove_item_amount(v, g) \in Inventory
<1>1. ASSUME NEW s \in Slot
      PROVE  (IF TakenAt(v, g, s) = 0 THEN v[s]
              ELSE IF TakenAt(v, g, s) = v[s].amount THEN Empty
              ELSE [v[s] EXCEPT !.amount = @ - TakenAt(v, g, s)]) \in Stack
  <2>1. PICK n, x : n = TakenAt(v, g, s) /\ x = v[s]
    OBVIOUS
  <2>2. n \in Nat /\ n <= x.amount /\ x \in Stack
    BY <2>1, TakenAtTyped DEF Inventory
  <2>3. CASE n = 0 \/ n = x.amount
    BY <2>1, <2>2, <2>3 DEF Stack
  <2>4. CASE n # 0 /\ n # x.amount
    <3>1. x \in Pile
      BY <2>2, <2>4 DEF Stack, Empty
    <3>2. /\ x = [item |-> x.item, amount |-> x.amount]
          /\ x.item \in Item /\ x.amount \in Nat /\ x.amount <= MaxAmount[x.item]
          /\ MaxAmount[x.item] \in Nat
      BY <3>1, TradeCommitAssumption DEF Pile
    <3>3. x.amount - n \in Nat \ {0} /\ x.amount - n <= MaxAmount[x.item]
      BY <2>2, <2>4, <3>2
    <3>4. [x EXCEPT !.amount = @ - n] = [item |-> x.item, amount |-> x.amount - n]
      BY <3>2
    <3>5. [item |-> x.item, amount |-> x.amount - n] \in Pile
      BY <3>2, <3>3 DEF Pile
    <3>. QED
      BY <2>1, <2>4, <3>4, <3>5 DEF Stack
  <2>. QED
    BY <2>3, <2>4
<1>. QED
  BY <1>1 DEF remove_item_amount, Inventory

LEMMA GiftTyped ==
  ASSUME NEW v \in Inventory, NEW w \in Inventory, NEW g \in Pile
  PROVE  push_all(v, removed_items(w, g)).inv \in Inventory
<1>1. DOMAIN removed_items(w, g) = 1..Slots /\ Slots \in Nat
  BY TradeCommitAssumption DEF removed_items, Slot
<1>2. ASSUME NEW k \in 1..Slots
      PROVE  \E i \in Item : \E a \in 0..MaxAmount[i] : removed_items(w, g)[k] = [item |-> i, amount |-> a]
  <2>1. k \in Slot /\ g.item \in Item /\ MaxAmount[g.item] \in Nat
    BY TradeCommitAssumption DEF Slot, Pile
  <2>2. PICK a : a = TakenAt(w, g, k)
    OBVIOUS
  <2>3. a \in Nat /\ a <= w[k].amount /\ w[k].amount \in Nat
    BY <2>1, <2>2, TakenAtTyped, StackFacts
  <2>4. a <= MaxAmount[g.item]
    <3>1. CASE w[k].item = g.item
      <4>1. w[k].item # NoItem => w[k].amount <= MaxAmount[w[k].item]
        BY <2>1, StackFacts
      <4>2. w[k].item # NoItem
        BY <2>1, <3>1, TradeCommitAssumption
      <4>. QED
        BY <2>1, <2>3, <3>1, <4>1, <4>2
    <3>2. CASE w[k].item # g.item
      BY <2>1, <2>2, <3>2 DEF TakenAt
    <3>. QED
      BY <3>1, <3>2
  <2>5. removed_items(w, g)[k] = [item |-> g.item, amount |-> a]
    BY <2>1, <2>2 DEF removed_items
  <2>. QED
    BY <2>1, <2>3, <2>4, <2>5
<1>. QED
  BY <1>1, <1>2, PushAllTyped

----------------------------------------------------------------------------
(* Trades stay trades.                                                      *)

InvOK == inv \in [Entity -> Inventory]

LEMMA LesserIs == \A x \in Nat, y \in Nat : Min({x, y}) \in Nat
<1>. SUFFICES ASSUME NEW x \in Nat, NEW y \in Nat PROVE Min({x, y}) \in Nat
  OBVIOUS
<1>1. {x, y} \in SUBSET Nat /\ {x, y} # {}
  OBVIOUS
<1>2. Min({x, y}) \in {x, y}
  BY <1>1, FirstFree
<1>. QED
  BY <1>2

LEMMA OfferEdits ==
  ASSUME NEW o, IsOffer(o), NEW s \in Slot
  PROVE  /\ Quantity(o, s) \in Nat
         /\ \A n \in Nat : IsOffer(insert(o, s, n))
         /\ IsOffer(remove(o, s))
  BY DEF IsOffer, Quantity, insert, remove

LEMMA PairEdits ==
  ASSUME NEW f, NEW g, NEW x
  PROVE  \A who \in 1..2 : \/ [<<f, g>> EXCEPT ![who] = x] = <<x, g>>
                           \/ [<<f, g>> EXCEPT ![who] = x] = <<f, x>>
<1>1. [<<f, g>> EXCEPT ![1] = x] = <<x, g>> /\ [<<f, g>> EXCEPT ![2] = x] = <<f, x>>
  OBVIOUS
<1>. QED
  BY <1>1

(* A trade with new offers, another phase or other flags.                   *)
LEMMA PendingEdits ==
  ASSUME NEW t, IsPendingTrade(t)
  PROVE  /\ \A who \in 1..2 : \A o : IsOffer(o) => IsPendingTrade([t EXCEPT !.offers = [t.offers EXCEPT ![who] = o]])
         /\ \A ph \in TradePhase : IsPendingTrade([t EXCEPT !.phase = ph])
         /\ \A who \in 1..2 : IsPendingTrade([t EXCEPT !.accept_flags = [t.accept_flags EXCEPT ![who] = TRUE]])
         /\ IsPendingTrade(Unaccepted(t))
<1>0. /\ t = [parties |-> t.parties, offers |-> t.offers, phase |-> t.phase, accept_flags |-> t.accept_flags]
      /\ t.parties \in Entity \X Entity
      /\ t.offers = <<t.offers[1], t.offers[2]>> /\ IsOffer(t.offers[1]) /\ IsOffer(t.offers[2])
      /\ t.phase \in TradePhase
      /\ t.accept_flags \in BOOLEAN \X BOOLEAN
  BY DEF IsPendingTrade
<1>1. ASSUME NEW who \in 1..2, NEW o, IsOffer(o)
      PROVE  IsPendingTrade([t EXCEPT !.offers = [t.offers EXCEPT ![who] = o]])
  <2>1. PICK os : os = [t.offers EXCEPT ![who] = o]
    OBVIOUS
  <2>2. os = <<os[1], os[2]>> /\ IsOffer(os[1]) /\ IsOffer(os[2])
    <3>1. os = <<o, t.offers[2]>> \/ os = <<t.offers[1], o>>
      BY <1>0, <2>1
    <3>. QED
      BY <1>0, <1>1, <3>1
  <2>3. IsPendingTrade([t EXCEPT !.offers = os])
    BY <1>0, <2>2 DEF IsPendingTrade
  <2>. QED
    BY <2>1, <2>3
<1>2. ASSUME NEW ph \in TradePhase PROVE IsPendingTrade([t EXCEPT !.phase = ph])
  BY <1>0 DEF IsPendingTrade
<1>3. ASSUME NEW fl \in BOOLEAN \X BOOLEAN PROVE IsPendingTrade([t EXCEPT !.accept_flags = fl])
  BY <1>0 DEF IsPendingTrade
<1>4. ASSUME NEW who \in 1..2 PROVE [t.accept_flags EXCEPT ![who] = TRUE] \in BOOLEAN \X BOOLEAN
  <2>1. PICK f, g : t.accept_flags = <<f, g>> /\ f \in BOOLEAN /\ g \in BOOLEAN
    BY <1>0
  <2>2. PICK x : x = TRUE
    OBVIOUS
  <2>3. [<<f, g>> EXCEPT ![who] = x] = <<x, g>> \/ [<<f, g>> EXCEPT ![who] = x] = <<f, x>>
    BY PairEdits
  <2>4. <<x, g>> \in BOOLEAN \X BOOLEAN /\ <<f, x>> \in BOOLEAN \X BOOLEAN
    BY <2>1, <2>2
  <2>. QED
    BY <2>1, <2>2, <2>3, <2>4, Zenon
<1>5. <<FALSE, FALSE>> \in BOOLEAN \X BOOLEAN
  OBVIOUS
<1>. QED
  BY <1>1, <1>2, <1>3, <1>4, <1>5 DEF Unaccepted

LEMMA AddTyped ==
  ASSUME InvOK, NEW t, IsPendingTrade(t), NEW who \in 1..2, NEW s \in Slot, NEW d \in Deltas
  PROVE  IsPendingTrade(AddItem(t, who, s, d)) /\ IsPendingTrade(RemoveItem(t, who, s, d))
<1>. DEFINE offer == t.offers[who]
            owned == inv[t.parties[who]][s].amount
            n     == Min({Quantity(offer, s) + d, owned})
<1>1. IsOffer(offer) /\ t.parties[who] \in Entity /\ d \in Nat
  <2>1. IsOffer(t.offers[1]) /\ IsOffer(t.offers[2]) /\ t.parties \in Entity \X Entity
    BY DEF IsPendingTrade
  <2>2. who = 1 \/ who = 2
    OBVIOUS
  <2>. QED
    BY <2>1, <2>2, TradeAssumption
<1>2. owned \in Nat
  <2>1. inv[t.parties[who]] \in Inventory
    BY <1>1 DEF InvOK
  <2>. QED
    BY <2>1, StackFacts
<1>3. Quantity(offer, s) \in Nat /\ IsOffer(remove(offer, s)) /\ \A x \in Nat : IsOffer(insert(offer, s, x))
  BY <1>1, OfferEdits
<1>4. n \in Nat
  <2>1. Quantity(offer, s) + d \in Nat
    BY <1>1, <1>3
  <2>. QED
    BY <1>2, <2>1, LesserIs
<1>5. Quantity(offer, s) > d => offer[s] - d \in Nat
  BY <1>1, <1>3 DEF Quantity
<1>. HIDE DEF n, offer
<1>6. ASSUME NEW o, IsOffer(o)
      PROVE  IsPendingTrade(Unaccepted([t EXCEPT !.offers = [t.offers EXCEPT ![who] = o]]))
  <2>1. PICK u : u = [t EXCEPT !.offers = [t.offers EXCEPT ![who] = o]]
    OBVIOUS
  <2>2. IsPendingTrade(u)
    BY <1>6, <2>1, PendingEdits
  <2>. QED
    BY <2>1, <2>2, PendingEdits
<1>7. AddItem(t, who, s, d) =
        IF t.phase # "Mutate" THEN t
        ELSE Unaccepted([t EXCEPT !.offers = [t.offers EXCEPT ![who] = insert(offer, s, n)]])
  BY DEF AddItem, n, offer
<1>8. RemoveItem(t, who, s, d) =
        IF t.phase # "Mutate" THEN t
        ELSE Unaccepted([t EXCEPT !.offers = [t.offers EXCEPT ![who] =
               IF Quantity(offer, s) > d THEN insert(offer, s, offer[s] - d) ELSE remove(offer, s)]])
  BY DEF RemoveItem, offer
<1>9. /\ IsOffer(insert(offer, s, n))
      /\ IsOffer(IF Quantity(offer, s) > d THEN insert(offer, s, offer[s] - d) ELSE remove(offer, s))
  BY <1>3, <1>4, <1>5
<1>. QED
  BY <1>6, <1>7, <1>8, <1>9, Zenon

LEMMA AcceptTyped ==
  ASSUME NEW t, IsPendingTrade(t), NEW who \in 1..2, NEW phase
  PROVE  IsPendingTrade(Accept(t, who, phase))
<1>. DEFINE agrees  == t.phase = phase /\ ~is_empty_trade(t)
            flagged == IF agrees THEN [t EXCEPT !.accept_flags = [t.accept_flags EXCEPT ![who] = TRUE]] ELSE t
            next    == [flagged EXCEPT !.phase = NextPhase(flagged.phase)]
<1>1. IsPendingTrade(flagged)
  BY PendingEdits
<1>2. Accept(t, who, phase) = IF flagged.accept_flags = <<TRUE, TRUE>> THEN Unaccepted(next) ELSE flagged
  BY DEF Accept
<1>. HIDE DEF flagged
<1>3. IsPendingTrade(next)
  <2>1. NextPhase(flagged.phase) \in TradePhase
    BY DEF NextPhase, TradePhase
  <2>. QED
    BY <1>1, <2>1, PendingEdits
<1>. HIDE DEF next
<1>4. IsPendingTrade(Unaccepted(next))
  BY <1>3, PendingEdits
<1>. QED
  BY <1>1, <1>2, <1>4

LEMMA ProcessTyped ==
  ASSUME InvOK, NEW t, IsPendingTrade(t), NEW e \in Entity, NEW a \in TradeAction
  PROVE  IsPendingTrade(process_trade_action(t, e, a))
<1>. DEFINE who   == which_party(t, e)
            whose == IF a.kind # "Accept" /\ ~a.ours THEN 3 - who ELSE who
<1>1. who \in 1..2 /\ whose \in 1..2
  BY DEF which_party
<1>2. /\ a.kind \in {"AddItem", "RemoveItem", "Accept"}
      /\ a.kind # "Accept" => a.item \in Slot /\ a.quantity \in Deltas
  BY DEF TradeAction
<1>3. \/ process_trade_action(t, e, a) = t
      \/ a.kind # "Accept" /\ process_trade_action(t, e, a) = AddItem(t, whose, a.item, a.quantity)
      \/ a.kind # "Accept" /\ process_trade_action(t, e, a) = RemoveItem(t, whose, a.item, a.quantity)
      \/ process_trade_action(t, e, a) = Accept(t, who, a.phase)
  BY <1>2 DEF process_trade_action
<1>. HIDE DEF who, whose
<1>. QED
  BY <1>1, <1>2, <1>3, AcceptTyped, AddTyped

----------------------------------------------------------------------------
(* The types: what is added to the invariant, and one step at a time.       *)

BooksTyped == next_id \in 0..MaxTrades /\ \A id \in DOMAIN trades : IsPendingTrade(trades[id])

AreMessages(o) == DOMAIN o = Entity /\ \A e \in Entity : \A m \in Range(o[e]) : IsMessage(m)

TInv == IInv /\ InvOK /\ BooksTyped /\ downed \subseteq here /\ AreMessages(out)

LEMMA TInvTypes == TInv => TypeOK
<1>. SUFFICES ASSUME TInv PROVE TypeOK
  OBVIOUS
<1>1. TradesOK /\ InvitesOK /\ InvOK /\ BooksTyped /\ downed \subseteq here /\ AreMessages(out)
  BY DEF TInv, IInv
<1>2. DOMAIN trades \subseteq TradeId /\ entity_trades \in [Entity -> TradeId \cup {None}]
  BY <1>1 DEF TradesOK, BookOK, book
<1>3. /\ here \subseteq Entity /\ invites \in [Entity -> Entity \cup {None}]
      /\ pending \subseteq Entity \X Entity
  BY <1>1 DEF InvitesOK
<1>. QED
  BY <1>1, <1>2, <1>3 DEF TypeOK, InvOK, BooksTyped, AreMessages

LEMMA SilentTyped == AreMessages(Silence)
  BY DEF AreMessages, Silence, Range

LEMMA ToldTyped ==
  ASSUME NEW S, NEW m, IsMessage(m)
  PROVE  AreMessages(Tell(S, m))
<1>1. \A e \in Entity : Tell(S, m)[e] = <<m>> \/ Tell(S, m)[e] = <<>>
  BY DEF Tell
<1>2. DOMAIN Tell(S, m) = Entity
  BY DEF Tell
<1>3. \A x \in Range(<<m>>) : x = m
  BY DEF Range
<1>4. Range(<<>>) = {}
  BY DEF Range
<1>. QED
  BY <1>1, <1>2, <1>3, <1>4 DEF AreMessages

LEMMA MembersOfSeq ==
  ASSUME NEW T, NEW s \in Seq(T)
  PROVE  Range(s) \subseteq T
<1>1. \A k \in DOMAIN s : s[k] \in T
  OBVIOUS
<1>2. ASSUME NEW m \in Range(s) PROVE m \in T
  <2>1. PICK k \in DOMAIN s : m = s[k]
    BY <1>2 DEF Range
  <2>. QED
    BY <1>1, <2>1
<1>. QED
  BY <1>2

LEMMA FinishedIsMessage ==
  ASSUME NEW r \in {"Completed", "Declined", "NotEnoughSpace"}
  PROVE  IsMessage(FinishedTrade(r))
  BY DEF IsMessage, FinishedTrade

LEMMA UpdateIsMessage ==
  ASSUME NEW id \in TradeId, NEW t, IsPendingTrade(t)
  PROVE  IsMessage(UpdatePendingTrade(id, t))
  BY DEF IsMessage, UpdatePendingTrade

(* The trades that a step leaves alone keep their types.                    *)
LEMMA FewerTyped ==
  ASSUME BooksTyped, next_id' = next_id,
         \A id \in DOMAIN trades' : id \in DOMAIN trades /\ trades'[id] = trades[id]
  PROVE  BooksTyped'
  BY DEF BooksTyped

LEMMA DeclineTyped ==
  ASSUME TInv, NEW e \in Entity, next_id' = next_id,
         Keep(decline_current(book, e)) \/ \E i \in TradeId : Keep(decline_trade(book, i, e))
  PROVE  BooksTyped'
<1>1. \A id \in DOMAIN trades' : id \in DOMAIN trades /\ trades'[id] = trades[id]
  BY BookFacts, DeclineCurrentOK, DeclineOK DEF TInv, IInv, Keep
<1>. QED
  BY <1>1, FewerTyped DEF TInv

LEMMA NewTradeTyped ==
  ASSUME NEW p \in Entity, NEW q \in Entity
  PROVE  IsPendingTrade(NewTrade(p, q))
<1>1. IsOffer(<<>>)
  BY DEF IsOffer
<1>2. PICK o, ps, fl : o = <<<<>>, <<>>>> /\ ps = <<p, q>> /\ fl = <<FALSE, FALSE>>
  OBVIOUS
<1>3. o = <<o[1], o[2]>> /\ IsOffer(o[1]) /\ IsOffer(o[2])
  BY <1>1, <1>2
<1>4. ps \in Entity \X Entity /\ fl \in BOOLEAN \X BOOLEAN
  BY <1>2
<1>5. NewTrade(p, q) = [parties |-> ps, offers |-> o, phase |-> "Mutate", accept_flags |-> fl]
  BY <1>2 DEF NewTrade
<1>. QED
  BY <1>3, <1>4, <1>5 DEF IsPendingTrade, TradePhase

LEMMA AcceptInviteTyped ==
  ASSUME TInv, NEW q \in Entity, handle_invite_accept(q)
  PROVE  BooksTyped' /\ AreMessages(out')
<1>. DEFINE p   == invites[q]
            b   == decline_current(book, q)
            t   == NewTrade(p, q)
            began == StillPending(q) /\ b.entity_trades[p] = None
            finished(e) == IF e \in b.notify THEN <<FinishedTrade("Declined")>> ELSE <<>>
            started(e)  == IF e \in {p, q} THEN <<UpdatePendingTrade(next_id, t)>> ELSE <<>>
<1>1. TradesOK /\ InvitesOK /\ BooksTyped /\ next_id \in Nat
  BY DEF TInv, IInv, TradesOK
<1>2. \A id \in DOMAIN b.trades : id \in DOMAIN trades /\ b.trades[id] = trades[id]
  BY <1>1, BookFacts, DeclineCurrentOK
<1>3. p \in Entity
  BY <1>1 DEF InvitesOK, handle_invite_accept, TakeInvite
<1>4. IsPendingTrade(t)
  BY <1>3, NewTradeTyped
<1>5. \/ UNCHANGED tradeVars /\ out' = Silence
      \/ Keep(b) /\ next_id' = next_id /\ out' = [e \in Entity |-> finished(e)]
      \/ /\ next_id < MaxTrades /\ Keep(begin_trade(b, next_id, p, q)) /\ next_id' = next_id + 1
         /\ out' = [e \in Entity |-> finished(e) \o started(e)]
  BY DEF handle_invite_accept
<1>. DEFINE fin == FinishedTrade("Declined")
            upd == UpdatePendingTrade(next_id, t)
<1>6. IsMessage(fin)
  BY FinishedIsMessage
<1>7. Range(<<>>) = {} /\ \A x : Range(<<x>>) = {x}
  BY DEF Range
<1>. HIDE DEF fin, upd
<1>8. CASE UNCHANGED tradeVars /\ out' = Silence
  BY <1>1, <1>8, FewerTyped, SilentTyped DEF tradeVars
<1>9. CASE Keep(b) /\ next_id' = next_id /\ out' = [e \in Entity |-> finished(e)]
  <2>1. BooksTyped'
    BY <1>1, <1>2, <1>9, FewerTyped DEF Keep
  <2>2. \A e \in Entity : out'[e] = <<fin>> \/ out'[e] = <<>>
    BY <1>9 DEF fin
  <2>. QED
    BY <1>6, <1>7, <1>9, <2>1, <2>2 DEF AreMessages
<1>10. CASE /\ next_id < MaxTrades /\ Keep(begin_trade(b, next_id, p, q)) /\ next_id' = next_id + 1
            /\ out' = [e \in Entity |-> finished(e) \o started(e)]
  <2>1. next_id \in TradeId /\ next_id' \in 0..MaxTrades
    BY <1>1, <1>10, TradeAssumption DEF TradeId
  <2>2. /\ DOMAIN trades' = DOMAIN b.trades \cup {next_id}
        /\ \A id \in DOMAIN trades' : trades'[id] = IF id = next_id THEN t ELSE b.trades[id]
    BY <1>10 DEF Keep, begin_trade, insert
  <2>3. BooksTyped'
    <3>1. ASSUME NEW id \in DOMAIN trades' PROVE IsPendingTrade(trades'[id])
      BY <1>1, <1>2, <1>4, <2>2 DEF BooksTyped
    <3>. QED
      BY <2>1, <3>1 DEF BooksTyped
  <2>4. IsMessage(upd)
    BY <1>4, <2>1, UpdateIsMessage DEF upd
  <2>6. ASSUME NEW e \in Entity PROVE \A m \in Range(out'[e]) : m \in {fin, upd}
    <3>1. PICK T : T = {fin, upd}
      OBVIOUS
    <3>2. finished(e) \in Seq(T) /\ started(e) \in Seq(T)
      BY <3>1 DEF fin, upd
    <3>3. out'[e] = finished(e) \o started(e)
      BY <1>10
    <3>. HIDE DEF finished, started
    <3>4. out'[e] \in Seq(T)
      BY <3>2, <3>3
    <3>5. Range(out'[e]) \subseteq T
      BY <3>4, MembersOfSeq
    <3>. QED
      BY <3>1, <3>5
  <2>. QED
    BY <1>6, <1>10, <2>3, <2>4, <2>6 DEF AreMessages
<1>. QED
  BY <1>5, <1>8, <1>9, <1>10

(* The commit hands out inventories, in whatever order it takes the items.  *)
LEMMA CommitTyped ==
  ASSUME InvOK, NEW t, IsPendingTrade(t), t.parties[1] # t.parties[2], NEW id,
         NEW o1 \in Orders(t.offers[1]), NEW o2 \in Orders(t.offers[2]),
         Commit(id, t, <<o1, o2>>)
  PROVE  InvOK' /\ AreMessages(out')
<1>. DEFINE mine   == [who \in 1..2 |-> inv[t.parties[who]]]
            given  == Exchange(mine, t.offers, <<o1, o2>>)
            result == IF Parties(t) \subseteq here THEN commit_result(mine, t.offers) ELSE "Declined"
<1>1. \A who \in 1..2 : t.parties[who] \in Entity /\ IsOffer(t.offers[who])
  BY DEF IsPendingTrade
<1>2. mine \in [1..2 -> Inventory]
  BY <1>1 DEF InvOK
<1>3. /\ inv' = [e \in Entity |-> IF result = "Completed" /\ e \in Parties(t)
                                  THEN given[which_party(t, e)].inv ELSE inv[e]]
      /\ out' = Tell(Parties(t) \cap here, FinishedTrade(result))
  BY DEF Commit
<1>4. result \in {"Completed", "Declined", "NotEnoughSpace"}
  BY DEF commit_result
<1>5. AreMessages(out')
  <2>. HIDE DEF result
  <2>1. IsMessage(FinishedTrade(result))
    BY <1>4, FinishedIsMessage
  <2>. QED
    BY <1>3, <2>1, ToldTyped
<1>6. ASSUME result = "Completed", NEW who \in 1..2 PROVE given[who].inv \in Inventory
  <2>1. commit_result(mine, t.offers) = "Completed"
    BY <1>6
  <2>2. PICK orders : orders = <<o1, o2>>
    OBVIOUS
  <2>3. \A x \in 1..2 : orders[x] \in Orders(t.offers[x])
    BY <2>2
  <2>4. given[who] = Exchange(mine, t.offers, orders)[who]
    BY <2>2
  <2>. HIDE DEF mine, given
  <2>. QED
    BY <1>1, <1>2, <2>1, <2>3, <2>4, OneSide
<1>7. \A e \in Entity : which_party(t, e) \in 1..2
  BY DEF which_party
<1>8. InvOK'
  <2>. HIDE DEF result, given, mine
  <2>. QED
    BY <1>3, <1>6, <1>7 DEF InvOK
<1>. QED
  BY <1>5, <1>8

LEMMA ProcessStepTyped ==
  ASSUME TInv, NEW e \in Entity, NEW id \in TradeId, NEW a \in TradeAction,
         ProcessTradeAction(e, id, a)
  PROVE  InvOK' /\ BooksTyped' /\ AreMessages(out')
<1>. DEFINE t == process_trade_action(trades[id], e, a)
<1>1. TradesOK /\ InvOK /\ BooksTyped /\ id \in DOMAIN trades /\ next_id' = next_id
  BY DEF TInv, IInv, ProcessTradeAction
<1>2. IsPendingTrade(t)
  BY <1>1, ProcessTyped DEF BooksTyped
<1>3. t.parties[1] # t.parties[2]
  <2>1. IsTrade(trades[id]) /\ trades[id].parties[1] # trades[id].parties[2]
    BY <1>1, BookFacts DEF BookOK
  <2>2. t.parties = trades[id].parties
    BY <2>1, ProcessOK DEF OpenEdit
  <2>. QED
    BY <2>1, <2>2, Zenon
<1>4. \/ \E o1 \in Orders(t.offers[1]), o2 \in Orders(t.offers[2]) : Commit(id, t, <<o1, o2>>)
      \/ /\ trades' = insert(trades, id, t) /\ inv' = inv
         /\ out' = Tell(Parties(t) \cap here, UpdatePendingTrade(id, t))
  BY DEF ProcessTradeAction
<1>. HIDE DEF t
<1>5. CASE \E o1 \in Orders(t.offers[1]), o2 \in Orders(t.offers[2]) : Commit(id, t, <<o1, o2>>)
  <2>1. PICK o1 \in Orders(t.offers[1]), o2 \in Orders(t.offers[2]) : Commit(id, t, <<o1, o2>>)
    BY <1>5
  <2>2. InvOK' /\ AreMessages(out')
    BY <1>1, <1>2, <1>3, <2>1, CommitTyped
  <2>3. \A i \in DOMAIN trades' : i \in DOMAIN trades /\ trades'[i] = trades[i]
    BY <2>1 DEF Commit, remove
  <2>. QED
    BY <1>1, <2>2, <2>3, FewerTyped
<1>6. CASE /\ trades' = insert(trades, id, t) /\ inv' = inv
           /\ out' = Tell(Parties(t) \cap here, UpdatePendingTrade(id, t))
  <2>1. BooksTyped'
    BY <1>1, <1>2, <1>6 DEF BooksTyped, insert
  <2>2. AreMessages(out')
    BY <1>2, <1>6, UpdateIsMessage, ToldTyped
  <2>. QED
    BY <1>1, <1>6, <2>1, <2>2 DEF InvOK
<1>. QED
  BY <1>4, <1>5, <1>6

LEMMA ManipTyped ==
  ASSUME TInv, NEW e \in Entity, NEW v \in Inventory, InventoryManip(e, v)
  PROVE  InvOK' /\ BooksTyped' /\ AreMessages(out')
<1>1. /\ InvOK /\ BooksTyped /\ next_id' = next_id /\ out' = Silence
      /\ inv' = [inv EXCEPT ![e] = v]
      /\ trades' = IF in_mutable_trade(e) THEN [trades EXCEPT ![entity_trades[e]] = Unaccepted(@)] ELSE trades
  BY DEF TInv, InventoryManip
<1>2. InvOK' /\ AreMessages(out')
  BY <1>1, SilentTyped DEF InvOK
<1>3. \A id \in DOMAIN trades : IsPendingTrade(trades[id]) /\ IsPendingTrade(Unaccepted(trades[id]))
  BY <1>1, PendingEdits DEF BooksTyped
<1>4. DOMAIN trades' = DOMAIN trades /\ \A id \in DOMAIN trades : trades'[id] \in {trades[id], Unaccepted(trades[id])}
  BY <1>1
<1>. QED
  BY <1>1, <1>2, <1>3, <1>4 DEF BooksTyped

LEMMA OutsideTyped ==
  ASSUME TInv, NEW e \in Entity, NEW f \in Entity, NEW g \in Gifts, Transcribe(e, g) \/ Dialogue(e, f, g)
  PROVE  InvOK' /\ BooksTyped' /\ AreMessages(out')
<1>1. /\ InvOK /\ BooksTyped /\ out' = Silence /\ UNCHANGED tradeVars
      /\ g \in Pile
  BY TradeAssumption DEF TInv, Transcribe, Dialogue, OutsideOfTrades
<1>2. inv[e] \in Inventory /\ inv[f] \in Inventory
  BY <1>1 DEF InvOK
<1>3. remove_item_amount(inv[e], g) \in Inventory
  BY <1>1, <1>2, RemoveTyped
<1>4. ASSUME Transcribe(e, g) PROVE InvOK'
  BY <1>1, <1>3, <1>4 DEF InvOK, Transcribe
<1>5. ASSUME Dialogue(e, f, g) PROVE InvOK'
  <2>. DEFINE left == [inv EXCEPT ![e] = remove_item_amount(@, g)]
  <2>1. left \in [Entity -> Inventory]
    BY <1>1, <1>3 DEF InvOK
  <2>2. inv' = [left EXCEPT ![f] = push_all(@, removed_items(inv[e], g)).inv]
    BY <1>5 DEF Dialogue
  <2>. HIDE DEF left
  <2>3. push_all(left[f], removed_items(inv[e], g)).inv \in Inventory
    BY <1>1, <1>2, <2>1, GiftTyped
  <2>. QED
    BY <2>1, <2>2, <2>3 DEF InvOK
<1>6. BooksTyped' /\ AreMessages(out')
  BY <1>1, SilentTyped, FewerTyped DEF tradeVars
<1>. QED
  BY <1>4, <1>5, <1>6

LEMMA InitTInv == Init => TInv
<1>. SUFFICES ASSUME Init PROVE TInv
  OBVIOUS
<1>1. BooksTyped
  BY TradeAssumption DEF Init, BooksTyped
<1>2. InvOK /\ AreMessages(out) /\ downed \subseteq here
  BY SilentTyped, TradeAssumption DEF Init, InvOK
<1>. QED
  BY <1>1, <1>2, InitIInv DEF TInv

LEMMA NextTInv == TInv /\ [Next]_vars => TInv'
<1>. SUFFICES ASSUME TInv, [Next]_vars PROVE InvOK' /\ BooksTyped' /\ (downed \subseteq here)' /\ AreMessages(out)'
  BY NextIInv DEF TInv
<1>0. TradesOK /\ InvOK /\ BooksTyped /\ downed \subseteq here /\ Disturbed \subseteq Entity
  BY TradeAssumption DEF TInv, IInv
<1>a. IsMessage(FinishedTrade("Declined"))
  BY FinishedIsMessage
<1>1. ASSUME NEW p \in Entity, NEW q \in Entity, InitiateInvite(p, q)
      PROVE  InvOK' /\ BooksTyped' /\ (downed \subseteq here)' /\ AreMessages(out)'
  <2>1. /\ Keep(decline_current(book, p)) /\ next_id' = next_id
        /\ \E S : out' = Tell(S, FinishedTrade("Declined"))
    BY <1>1 DEF InitiateInvite
  <2>2. UNCHANGED <<inv, downed, here>>
    BY <1>1 DEF InitiateInvite
  <2>. QED
    BY <1>0, <1>a, <2>1, <2>2, DeclineTyped, ToldTyped DEF InvOK
<1>2. ASSUME NEW q \in Entity, handle_invite_accept(q)
      PROVE  InvOK' /\ BooksTyped' /\ (downed \subseteq here)' /\ AreMessages(out)'
  <2>1. UNCHANGED <<inv, downed, here>>
    BY <1>2 DEF handle_invite_accept
  <2>. QED
    BY <1>0, <1>2, <2>1, AcceptInviteTyped DEF InvOK
<1>3. ASSUME NEW q \in Entity, handle_invite_decline(q) \/ InviteTimeout(q)
      PROVE  InvOK' /\ BooksTyped' /\ (downed \subseteq here)' /\ AreMessages(out)'
  <2>1. UNCHANGED <<inv, downed, here, trades, next_id>> /\ out' = Silence
    BY <1>3 DEF handle_invite_decline, InviteTimeout, tradeVars
  <2>. QED
    BY <1>0, <2>1, SilentTyped DEF InvOK, BooksTyped
<1>4. ASSUME NEW e \in Entity, NEW id \in TradeId, DeclineTrade(e, id)
      PROVE  InvOK' /\ BooksTyped' /\ (downed \subseteq here)' /\ AreMessages(out)'
  <2>1. /\ Keep(decline_trade(book, id, e)) /\ UNCHANGED <<inv, downed, here, next_id>>
        /\ \E S : out' = Tell(S, FinishedTrade("Declined"))
    BY <1>4 DEF DeclineTrade
  <2>. QED
    BY <1>0, <1>a, <2>1, DeclineTyped, ToldTyped DEF InvOK
<1>5. ASSUME NEW e \in Entity, NEW id \in TradeId, NEW a \in TradeAction, ProcessTradeAction(e, id, a)
      PROVE  InvOK' /\ BooksTyped' /\ (downed \subseteq here)' /\ AreMessages(out)'
  <2>1. UNCHANGED <<downed, here>>
    BY <1>5 DEF ProcessTradeAction
  <2>. QED
    BY <1>0, <1>5, <2>1, ProcessStepTyped
<1>6. ASSUME NEW e \in Entity, NEW v \in Inventory, InventoryManip(e, v)
      PROVE  InvOK' /\ BooksTyped' /\ (downed \subseteq here)' /\ AreMessages(out)'
  <2>1. UNCHANGED <<downed, here>>
    BY <1>6 DEF InventoryManip
  <2>. QED
    BY <1>0, <1>6, <2>1, ManipTyped
<1>7. ASSUME NEW e \in Entity, SwapSlots(e) \/ DeleteSome(e)
      PROVE  \E v \in Inventory : InventoryManip(e, v)
  <2>1. inv[e] \in Inventory
    BY <1>0 DEF InvOK
  <2>2. \A a \in Slot, b \in Slot : Swap(inv[e], a, b) \in Inventory
    BY <2>1, SwapTyped
  <2>3. \A s \in Slot, n \in Deltas : Delete(inv[e], s, n) \in Inventory
    BY <2>1, DeleteTyped, TradeAssumption
  <2>. QED
    BY <1>7, <2>2, <2>3 DEF SwapSlots, DeleteSome
<1>8. ASSUME NEW e \in Entity, NEW f \in Entity, NEW g \in Gifts, Transcribe(e, g) \/ Dialogue(e, f, g)
      PROVE  InvOK' /\ BooksTyped' /\ (downed \subseteq here)' /\ AreMessages(out)'
  <2>1. UNCHANGED <<downed, here>>
    BY <1>8 DEF Transcribe, Dialogue, OutsideOfTrades
  <2>. QED
    BY <1>0, <1>8, <2>1, OutsideTyped
<1>9. ASSUME NEW e \in Entity, Attacked(e)
      PROVE  InvOK' /\ BooksTyped' /\ (downed \subseteq here)' /\ AreMessages(out)'
  <2>1. Keep(decline_current(book, e)) /\ UNCHANGED <<inv, downed, here, next_id>>
    BY <1>9 DEF Attacked
  <2>2. out' = Silence \/ \E S : out' = Tell(S, FinishedTrade("Declined"))
    BY <1>9 DEF Attacked
  <2>. QED
    BY <1>0, <1>a, <2>1, <2>2, DeclineTyped, ToldTyped, SilentTyped DEF InvOK
<1>10. ASSUME NEW e \in Entity, Down(e) \/ Recover(e)
       PROVE  InvOK' /\ BooksTyped' /\ (downed \subseteq here)' /\ AreMessages(out)'
  <2>1. UNCHANGED <<inv, here, trades, next_id>> /\ out' = Silence /\ downed' \subseteq here
    BY <1>0, <1>10 DEF Down, Recover, tradeVars
  <2>. QED
    BY <1>0, <2>1, SilentTyped DEF InvOK, BooksTyped
<1>11. ASSUME NEW e \in Entity, Leave(e)
       PROVE  InvOK' /\ BooksTyped' /\ (downed \subseteq here)' /\ AreMessages(out)'
  <2>1. /\ Keep(decline_current(book, e)) /\ UNCHANGED <<inv, next_id>>
        /\ here' = here \ {e} /\ downed' = downed \ {e}
        /\ \E S : out' = Tell(S, FinishedTrade("Declined"))
    BY <1>11 DEF Leave
  <2>. QED
    BY <1>0, <1>a, <2>1, DeclineTyped, ToldTyped DEF InvOK
<1>12. CASE UNCHANGED vars
  BY <1>12 DEF vars, TInv, InvOK, BooksTyped
<1>. QED
  BY <1>0, <1>1, <1>2, <1>3, <1>4, <1>5, <1>6, <1>7, <1>8, <1>9, <1>10, <1>11, <1>12
     DEF Next, InviteStep, TradeStep, OtherStep

LEMMA AlwaysTInv == Spec => []TInv
  BY InitTInv, NextTInv, PTL DEF Spec

(* Every variable of Trade has its type: offers name slots and quantities,  *)
(* no stack outgrows its item or is left with nothing in it, whatever moves *)
(* items, and nothing but the announced messages is sent.                   *)
THEOREM TradeIsTyped == Spec => []TypeOK
  BY AlwaysTInv, TInvTypes, PTL

----------------------------------------------------------------------------
(* Trade implements ConsentedExchange. An open trade is in one of its first *)
(* two phases.                                                              *)

RInv == TInv /\ PhasesOK

LEMMA InitRInv == Init => RInv
  BY InitTInv DEF Init, RInv, PhasesOK

LEMMA OpenPhases ==
  ASSUME RInv, [Next]_vars
  PROVE  PhasesOK'
<1>0. /\ TradesOK /\ Disturbed \subseteq Entity /\ BookOK(book) /\ book.trades = trades
      /\ \A id \in DOMAIN trades : IsTrade(trades[id]) /\ trades[id].phase \in {"Mutate", "Review"}
  BY TradeAssumption, BookFacts DEF RInv, TInv, IInv, PhasesOK
<1>1. ASSUME \A id \in DOMAIN trades' : id \in DOMAIN trades /\ trades'[id].phase = trades[id].phase
      PROVE  PhasesOK'
  BY <1>0, <1>1 DEF PhasesOK
<1>2. ASSUME NEW e \in Entity,
             \/ Keep(decline_current(book, e))
             \/ \E i \in TradeId : Keep(decline_trade(book, i, e))
             \/ trades' = trades
      PROVE  PhasesOK'
  <2>1. \A id \in DOMAIN trades' : id \in DOMAIN trades /\ trades'[id] = trades[id]
    BY <1>0, <1>2, DeclineCurrentOK, DeclineOK DEF Keep
  <2>. QED
    BY <1>1, <2>1
<1>3. ASSUME NEW p \in Entity, NEW q \in Entity, InitiateInvite(p, q) PROVE PhasesOK'
  BY <1>2, <1>3 DEF InitiateInvite
<1>4. ASSUME NEW q \in Entity, handle_invite_decline(q) \/ InviteTimeout(q) PROVE PhasesOK'
  BY <1>2, <1>4 DEF handle_invite_decline, InviteTimeout, tradeVars
<1>5. ASSUME NEW q \in Entity, handle_invite_accept(q) PROVE PhasesOK'
  <2>. DEFINE b == decline_current(book, q)
              new == NewTrade(invites[q], q)
  <2>1. trades' = trades \/ Keep(b) \/ Keep(begin_trade(b, next_id, invites[q], q))
    BY <1>5 DEF handle_invite_accept, tradeVars
  <2>2. CASE Keep(begin_trade(b, next_id, invites[q], q))
    <3>1. \A id \in DOMAIN trades' : trades'[id] = IF id = next_id THEN new ELSE b.trades[id]
      BY <2>2 DEF Keep, begin_trade, insert
    <3>2. \A id \in DOMAIN trades' : id # next_id => id \in DOMAIN b.trades
      BY <2>2 DEF Keep, begin_trade, insert
    <3>3. \A id \in DOMAIN b.trades : id \in DOMAIN trades /\ b.trades[id] = trades[id]
      BY <1>0, DeclineCurrentOK
    <3>4. new.phase = "Mutate"
      BY DEF NewTrade
    <3>. HIDE DEF b, new
    <3>. QED
      BY <1>0, <3>1, <3>2, <3>3, <3>4 DEF PhasesOK
  <2>. QED
    BY <1>2, <2>1, <2>2
<1>6. ASSUME NEW e \in Entity, NEW i \in TradeId, DeclineTrade(e, i) PROVE PhasesOK'
  BY <1>2, <1>6 DEF DeclineTrade
<1>7. ASSUME NEW e \in Entity, NEW i \in TradeId, NEW a \in TradeAction, ProcessTradeAction(e, i, a)
      PROVE  PhasesOK'
  <2>. DEFINE u == process_trade_action(trades[i], e, a)
  <2>1. i \in DOMAIN trades
    BY <1>7 DEF ProcessTradeAction
  <2>2. u.phase # "Complete" => u.phase \in {"Mutate", "Review"}
    BY <1>0, <2>1, ProcessAdvances DEF Advances
  <2>3. \/ trades' = remove(trades, i)
        \/ u.phase # "Complete" /\ trades' = insert(trades, i, u)
    BY <1>7 DEF ProcessTradeAction, Commit
  <2>. HIDE DEF u
  <2>. QED
    BY <1>0, <2>1, <2>2, <2>3 DEF remove, insert, PhasesOK
<1>8. ASSUME NEW e \in Entity, NEW v, InventoryManip(e, v) PROVE PhasesOK'
  <2>1. \A id \in DOMAIN trades : Unaccepted(trades[id]).phase = trades[id].phase
    BY <1>0, UnacceptedOK
  <2>2. DOMAIN trades' = DOMAIN trades /\ \A id \in DOMAIN trades : trades'[id] \in {trades[id], Unaccepted(trades[id])}
    BY <1>8 DEF InventoryManip
  <2>. QED
    BY <1>1, <2>1, <2>2
<1>9. ASSUME OutsideOfTrades \/ UNCHANGED vars PROVE PhasesOK'
  BY <1>1, <1>9 DEF OutsideOfTrades, tradeVars, vars
<1>10. ASSUME NEW e \in Entity, Attacked(e) \/ Leave(e) \/ Down(e) \/ Recover(e) PROVE PhasesOK'
  BY <1>2, <1>10 DEF Attacked, Leave, Down, Recover, tradeVars
<1>. QED
  BY <1>0, <1>3, <1>4, <1>5, <1>6, <1>7, <1>8, <1>9, <1>10
     DEF Next, InviteStep, TradeStep, OtherStep, SwapSlots, DeleteSome, Dialogue, Transcribe

LEMMA NextRInv == RInv /\ [Next]_vars => RInv'
  BY NextTInv, OpenPhases DEF RInv

LEMMA AlwaysRInv == Spec => []RInv
  BY InitRInv, NextRInv, PTL DEF Spec

----------------------------------------------------------------------------
(* What the abstract specification sees.                                    *)

Goods == [e \in Entity |-> [i \in Item |-> item_count(inv[e], i)]]
Deals == [id \in InReview |-> [parties |-> trades[id].parties, gives |-> Gives(trades[id])]]

LEMMA GivesIs ==
  ASSUME NEW id, Untouched(id)
  PROVE  trades'[id].parties = trades[id].parties /\ Gives(trades[id])' = Gives(trades[id])
<1>1. \A who \in 1..2 : inv'[trades'[id].parties[who]] = inv[trades[id].parties[who]]
  BY DEF Untouched, Parties
<1>2. trades'[id].parties = trades[id].parties /\ trades'[id].offers = trades[id].offers
  BY DEF Untouched
<1>3. \A who \in 1..2, i \in Item :
        quantity_sold(inv'[trades'[id].parties[who]], trades'[id].offers[who], i) =
          quantity_sold(inv[trades[id].parties[who]], trades[id].offers[who], i)
  BY <1>1, <1>2, Zenon
<1>. QED
  BY <1>2, <1>3 DEF Gives

(* A deal that stays sealed stays what it is.                               *)
LEMMA SameDeals ==
  ASSUME Ungated = FALSE, RInv, [Next]_vars, NEW id \in InReview, id \in InReview'
  PROVE  Deals'[id] = Deals[id]
<1>1. Continues(id) /\ trades[id].phase = "Review"
  BY DEF InReview, Continues
<1>2. id \in TradeId
  BY <1>1, BookFacts DEF RInv, TInv, IInv, BookOK, Continues
<1>3. Untouched(id)
  BY <1>1, <1>2, StepOnTerms DEF RInv, TInv, Reset
<1>4. trades'[id].parties = trades[id].parties /\ Gives(trades[id])' = Gives(trades[id])
  BY <1>3, GivesIs
<1>. QED
  BY <1>4 DEF Deals

(* At most one deal is called off, and nothing changes hands.               *)
LEMMA StepQuiet ==
  ASSUME Ungated = FALSE, RInv, [Next]_vars, inv' = inv,
         NEW id, InReview' \subseteq InReview, InReview \ {id} \subseteq InReview'
  PROVE  [Abstract!ANext]_(Abstract!avars)
<1>1. Goods' = Goods
  BY DEF Goods
<1>2. \A d \in InReview' : Deals'[d] = Deals[d]
  BY SameDeals
<1>3. /\ DOMAIN Deals = InReview /\ Deals = [d \in InReview |-> Deals[d]]
      /\ DOMAIN Deals' = InReview' /\ Deals' = [d \in InReview' |-> Deals'[d]]
  BY DEF Deals
<1>4. CASE InReview' = InReview
  <2>1. Deals' = Deals
    BY <1>2, <1>3, <1>4
  <2>. QED
    BY <1>1, <2>1 DEF Abstract!avars, Goods, Deals
<1>5. CASE InReview' # InReview
  <2>1. id \in InReview /\ InReview' = InReview \ {id}
    BY <1>5
  <2>2. id \in TradeId
    BY <2>1, BookFacts DEF RInv, TInv, IInv, BookOK, InReview
  <2>3. Deals' = [d \in DOMAIN Deals \ {id} |-> Deals[d]]
    BY <1>2, <1>3, <2>1
  <2>4. Abstract!CallOff(id)
    BY <1>1, <1>3, <2>1, <2>3 DEF Abstract!CallOff, Abstract!Sealed, Abstract!Without, Goods, Deals
  <2>. QED
    BY <2>2, <2>4 DEF Abstract!ANext
<1>. QED
  BY <1>4, <1>5

LEMMA InitDeals == Init => Abstract!AInit
<1>. SUFFICES ASSUME Init PROVE Abstract!AInit
  OBVIOUS
<1>1. InvOK
  BY InitTInv DEF TInv
<1>2. \A e \in Entity, i \in Item : item_count(inv[e], i) \in Nat
  BY <1>1, HeldFacts DEF InvOK
<1>3. Goods \in [Entity -> [Item -> Nat]]
  BY <1>2 DEF Goods
<1>4. InReview = {}
  BY DEF Init, InReview
<1>5. Deals = <<>>
  BY <1>4 DEF Deals
<1>. QED
  BY <1>3, <1>5 DEF Abstract!AInit, Goods, Deals

(* Trades in review have two parties each, and share none.                  *)
LEMMA ReviewFacts ==
  ASSUME RInv, NEW id \in InReview
  PROVE  /\ id \in DOMAIN trades /\ id \in TradeId /\ IsPendingTrade(trades[id]) /\ IsTrade(trades[id])
         /\ trades[id].parties[1] # trades[id].parties[2]
         /\ Parties(trades[id]) \subseteq Entity
         /\ \A e \in Parties(trades[id]) : entity_trades[e] = id
  BY BookFacts DEF RInv, TInv, IInv, TradesOK, BookOK, BooksTyped, InReview

LEMMA DeclineDeals ==
  ASSUME RInv, NEW e \in Entity,
         \/ Keep(decline_current(book, e))
         \/ \E i : Keep(decline_trade(book, i, e))
         \/ trades' = trades
  PROVE  \E id : InReview' \subseteq InReview /\ InReview \ {id} \subseteq InReview'
<1>1. \E id : trades' = trades \/ trades' = remove(trades, id)
  BY DEF Keep, decline_current, decline_trade, book
<1>2. ASSUME NEW id, trades' = remove(trades, id)
      PROVE  InReview' \subseteq InReview /\ InReview \ {id} \subseteq InReview'
  BY <1>2 DEF remove, InReview
<1>3. trades' = trades => InReview' = InReview
  BY DEF InReview
<1>. QED
  BY <1>1, <1>2, <1>3

LEMMA AcceptDeals ==
  ASSUME RInv, NEW q \in Entity, handle_invite_accept(q)
  PROVE  \E id : InReview' \subseteq InReview /\ InReview \ {id} \subseteq InReview'
<1>. DEFINE b == decline_current(book, q)
            new == NewTrade(invites[q], q)
<1>1. trades' = trades \/ Keep(b) \/ Keep(begin_trade(b, next_id, invites[q], q))
  BY DEF handle_invite_accept, tradeVars
<1>2. CASE trades' = trades \/ Keep(b)
  BY <1>2, DeclineDeals
<1>3. CASE Keep(begin_trade(b, next_id, invites[q], q))
  <2>1. PICK id : b.trades = trades \/ b.trades = remove(trades, id)
    BY DEF decline_current, decline_trade, book
  <2>2. trades' = insert(b.trades, next_id, new) /\ new.phase = "Mutate"
    BY <1>3 DEF Keep, begin_trade, NewTrade
  <2>3. next_id \notin DOMAIN trades
    BY Distinct, BookFacts DEF RInv, TInv, IInv, TradesOK
  <2>. HIDE DEF b, new
  <2>4. CASE b.trades = trades
    BY <2>2, <2>3, <2>4 DEF insert, InReview
  <2>5. CASE b.trades = remove(trades, id)
    BY <2>2, <2>3, <2>5 DEF insert, remove, InReview
  <2>. QED
    BY <2>1, <2>4, <2>5
<1>. QED
  BY <1>1, <1>2, <1>3

(* Both parties have accepted the first phase: the deal is sealed.          *)
LEMMA StepSeals ==
  ASSUME Ungated = FALSE, RInv, [Next]_vars, inv' = inv,
         NEW id, id \in InReview', id \notin InReview, InReview' = InReview \cup {id}
  PROVE  Abstract!Seal(id) /\ id \in TradeId
<1>1. RInv'
  BY NextRInv
<1>2. /\ id \in TradeId
      /\ trades'[id].parties[1] # trades'[id].parties[2]
      /\ \A who \in 1..2 : trades'[id].parties[who] \in Entity /\ entity_trades'[trades'[id].parties[who]] = id
  <2>1. /\ id \in DOMAIN trades' /\ BookOK(book)'
    BY <1>1, BookFacts DEF RInv, TInv, IInv, TradesOK, InReview
  <2>2. /\ IsTrade(trades'[id]) /\ trades'[id].parties[1] # trades'[id].parties[2]
        /\ \A e \in Parties(trades'[id]) : entity_trades'[e] = id
        /\ id \in TradeId
    BY <2>1 DEF BookOK, book, IsTrade, Parties
  <2>3. \A who \in 1..2 : trades'[id].parties[who] \in Parties(trades'[id])
    BY DEF Parties
  <2>. QED
    BY <2>2, <2>3 DEF IsTrade
<1>3. ASSUME NEW other \in InReview, NEW p, \E who \in 1..2 : trades[other].parties[who] = p
      PROVE  entity_trades'[p] = other
  <2>1. other \in InReview' /\ Deals'[other] = Deals[other]
    BY <1>3, SameDeals
  <2>2. trades'[other].parties = trades[other].parties
    BY <2>1 DEF Deals
  <2>3. \A e \in Parties(trades'[other]) : entity_trades'[e] = other
    BY <1>1, <2>1 DEF RInv, TInv, IInv, TradesOK, BookOK, book, InReview
  <2>. QED
    BY <1>3, <2>2, <2>3 DEF Parties
<1>4. Goods' = Goods
  BY DEF Goods
<1>5. \A other \in InReview : Deals'[other] = Deals[other]
  BY SameDeals
<1>6. /\ DOMAIN Deals = InReview /\ DOMAIN Deals' = InReview'
      /\ Deals'[id].parties = trades'[id].parties
      /\ \A other \in InReview : Deals[other].parties = trades[other].parties
  BY DEF Deals
<1>7. \A who \in 1..2 : \A other \in InReview :
        ~ \E w \in 1..2 : trades[other].parties[w] = trades'[id].parties[who]
  BY <1>2, <1>3
<1>. QED
  BY <1>2, <1>4, <1>5, <1>6, <1>7 DEF Abstract!Seal, Abstract!Sealed, Abstract!InDeal, Goods, Deals

(* Who manages an inventory is in no trade in review, and no deal changes.  *)
LEMMA StepPersonal ==
  ASSUME Ungated = FALSE, RInv, [Next]_vars, NEW e \in Entity, NEW v, InventoryManip(e, v)
  PROVE  Abstract!Personal(e)
<1>1. /\ ~in_immutable_trade(e) /\ inv' = [inv EXCEPT ![e] = v]
      /\ trades' = IF in_mutable_trade(e) THEN [trades EXCEPT ![entity_trades[e]] = Unaccepted(@)] ELSE trades
  BY DEF InventoryManip
<1>2. InReview' = InReview
  <2>1. \A id \in DOMAIN trades : Unaccepted(trades[id]).phase = trades[id].phase
    BY BookFacts, UnacceptedOK DEF RInv, TInv, IInv
  <2>2. DOMAIN trades' = DOMAIN trades /\ \A id \in DOMAIN trades : trades'[id] \in {trades[id], Unaccepted(trades[id])}
    BY <1>1
  <2>. QED
    BY <2>1, <2>2 DEF InReview
<1>3. Deals' = Deals
  <2>1. \A id \in InReview : Deals'[id] = Deals[id]
    BY <1>2, SameDeals
  <2>2. Deals = [id \in InReview |-> Deals[id]] /\ Deals' = [id \in InReview' |-> Deals'[id]]
    BY DEF Deals
  <2>. QED
    BY <1>2, <2>1, <2>2
<1>4. \A id \in InReview : \A who \in 1..2 : trades[id].parties[who] # e
  <2>. SUFFICES ASSUME NEW id \in InReview, e \in Parties(trades[id]) PROVE FALSE
    BY DEF Parties
  <2>1. entity_trades[e] = id /\ id \in TradeId /\ id \in DOMAIN trades /\ trades[id].phase = "Review"
    BY ReviewFacts DEF InReview
  <2>. QED
    BY <1>1, <2>1, Distinct DEF in_immutable_trade, in_trade_with_phase
<1>5. \A f \in Entity \ {e} : inv'[f] = inv[f]
  BY <1>1
<1>6. \A f \in Entity \ {e} : Goods'[f] = Goods[f]
  BY <1>5 DEF Goods
<1>7. DOMAIN Deals = InReview /\ \A id \in InReview : Deals[id].parties = trades[id].parties
  BY DEF Deals
<1>. QED
  BY <1>3, <1>4, <1>6, <1>7 DEF Abstract!Personal, Abstract!InDeal, Goods, Deals

(* No more is sold than there is.                                           *)
LEMMA SoldIsHeld ==
  ASSUME NEW v, NEW o, ValidOffer(v, o), NEW i \in Item
  PROVE  item_count(v, i) >= quantity_sold(v, o, i)
<1>1. /\ TakenOut(v, o) \in Inventory
      /\ item_count(TakenOut(v, o), i) = item_count(v, i) - quantity_sold(v, o, i)
  BY TakenOutCounts
<1>2. item_count(TakenOut(v, o), i) \in Nat /\ item_count(v, i) \in Nat /\ quantity_sold(v, o, i) \in Nat
  BY <1>1, HeldFacts, OfferedFacts DEF ValidOffer
<1>. QED
  BY <1>1, <1>2

(* A commit that completes closes the deal to its terms.                    *)
LEMMA StepCloses ==
  ASSUME Ungated = FALSE, RInv, [Next]_vars, NEW id \in InReview,
         NEW t, IsPendingTrade(t), t.parties = trades[id].parties, t.offers = trades[id].offers,
         NEW o1 \in Orders(t.offers[1]), NEW o2 \in Orders(t.offers[2]),
         Commit(id, t, <<o1, o2>>), inv' # inv
  PROVE  Abstract!Close(id)
<1>. DEFINE mine   == [who \in 1..2 |-> inv[t.parties[who]]]
            given  == Exchange(mine, t.offers, <<o1, o2>>)
            result == IF Parties(t) \subseteq here THEN commit_result(mine, t.offers) ELSE "Declined"
            p(who) == t.parties[who]
            sold(who, i) == quantity_sold(inv[p(who)], t.offers[who], i)
<1>1. /\ inv' = [e \in Entity |-> IF result = "Completed" /\ e \in Parties(t)
                                  THEN given[which_party(t, e)].inv ELSE inv[e]]
      /\ trades' = remove(trades, id)
  BY DEF Commit
<1>2. InvOK /\ inv = [e \in Entity |-> inv[e]]
  BY DEF RInv, TInv, InvOK
<1>3. result = "Completed"
  <2>. HIDE DEF result, given
  <2>. QED
    BY <1>1, <1>2
<1>4. /\ p(1) # p(2) /\ \A who \in 1..2 : p(who) \in Entity /\ IsOffer(t.offers[who])
  <2>1. p(1) # p(2)
    BY ReviewFacts
  <2>2. /\ t.parties[1] \in Entity /\ t.parties[2] \in Entity
        /\ IsOffer(t.offers[1]) /\ IsOffer(t.offers[2])
    BY DEF IsPendingTrade
  <2>. QED
    BY <2>1, <2>2
<1>5. mine \in [1..2 -> Inventory] /\ commit_result(mine, t.offers) = "Completed"
  BY <1>2, <1>3, <1>4 DEF InvOK
<1>6. ASSUME NEW who \in 1..2, NEW i \in Item
      PROVE  /\ item_count(given[who].inv, i) = item_count(inv[p(who)], i) - sold(who, i) + sold(3 - who, i)
             /\ item_count(inv[p(who)], i) >= sold(who, i)
  <2>1. PICK orders : orders = <<o1, o2>>
    OBVIOUS
  <2>2. \A x \in 1..2 : orders[x] \in Orders(t.offers[x])
    BY <2>1
  <2>3. given[who] = Exchange(mine, t.offers, orders)[who]
    BY <2>1
  <2>4. mine[who] = inv[p(who)] /\ mine[3 - who] = inv[p(3 - who)]
    OBVIOUS
  <2>5. ValidOffer(mine[who], t.offers[who])
    BY <1>4, <1>5 DEF ValidOffer, commit_result
  <2>. HIDE DEF mine, given
  <2>6. item_count(given[who].inv, i) =
          item_count(mine[who], i) - quantity_sold(mine[who], t.offers[who], i)
            + quantity_sold(mine[3 - who], t.offers[3 - who], i)
    BY <1>4, <1>5, <2>2, <2>3, OneSide
  <2>7. item_count(mine[who], i) >= quantity_sold(mine[who], t.offers[who], i)
    BY <2>5, SoldIsHeld
  <2>. QED
    BY <2>4, <2>6, <2>7, Zenon
<1>7. /\ which_party(t, p(1)) = 1 /\ which_party(t, p(2)) = 2
      /\ \A e \in Entity : e \in Parties(t) <=> e = p(1) \/ e = p(2)
  BY <1>4 DEF which_party, Parties
<1>8. \A e \in Entity : inv'[e] = IF e = p(1) THEN given[1].inv
                                 ELSE IF e = p(2) THEN given[2].inv ELSE inv[e]
  <2>. HIDE DEF given, result
  <2>. QED
    BY <1>1, <1>3, <1>7
<1>9. /\ Deals[id].parties = t.parties
      /\ \A who \in 1..2, i \in Item : Deals[id].gives[who][i] = sold(who, i)
  BY DEF Deals, Gives
<1>10. \A who \in 1..2, i \in Item :
         /\ Goods[p(who)][i] = item_count(inv[p(who)], i)
         /\ Goods[p(who)][i] >= sold(who, i)
  BY <1>4, <1>6 DEF Goods
<1>. DEFINE settled(who) == [i \in Item |-> Goods[p(who)][i] - Deals[id].gives[who][i] + Deals[id].gives[3 - who][i]]
<1>11. \A who \in 1..2 : settled(who) = [i \in Item |-> item_count(given[who].inv, i)]
  <2>. SUFFICES ASSUME NEW who \in 1..2, NEW i \in Item
                PROVE  settled(who)[i] = item_count(given[who].inv, i)
    OBVIOUS
  <2>1. settled(who)[i] = Goods[p(who)][i] - Deals[id].gives[who][i] + Deals[id].gives[3 - who][i]
    OBVIOUS
  <2>2. Deals[id].gives[who][i] = sold(who, i) /\ Deals[id].gives[3 - who][i] = sold(3 - who, i)
    <3>1. 3 - who \in 1..2
      OBVIOUS
    <3>. QED
      BY <1>9, <3>1
  <2>. HIDE DEF settled, given
  <2>. QED
    BY <1>6, <1>10, <2>1, <2>2
<1>12. Goods' = [e \in Entity |-> IF e = p(1) THEN settled(1) ELSE IF e = p(2) THEN settled(2) ELSE Goods[e]]
  <2>1. ASSUME NEW e \in Entity
        PROVE  Goods'[e] = IF e = p(1) THEN settled(1) ELSE IF e = p(2) THEN settled(2) ELSE Goods[e]
    <3>1. Goods'[e] = [i \in Item |-> item_count(inv'[e], i)] /\ Goods[e] = [i \in Item |-> item_count(inv[e], i)]
      BY DEF Goods
    <3>. HIDE DEF settled, given
    <3>. QED
      BY <1>8, <1>11, <3>1
  <2>2. Goods' = [e \in Entity |-> Goods'[e]]
    BY DEF Goods
  <2>. HIDE DEF settled
  <2>. QED
    BY <2>1, <2>2
<1>13. InReview' = InReview \ {id}
  BY <1>1 DEF remove, InReview
<1>14. Deals' = [d \in DOMAIN Deals \ {id} |-> Deals[d]]
  <2>1. \A d \in InReview' : Deals'[d] = Deals[d]
    BY <1>13, SameDeals
  <2>2. DOMAIN Deals = InReview /\ Deals' = [d \in InReview' |-> Deals'[d]]
    BY DEF Deals
  <2>. QED
    BY <1>13, <2>1, <2>2
<1>. HIDE DEF given, result
<1>15. DOMAIN Deals = InReview
  BY DEF Deals
<1>16. \A who \in 1..2, i \in Item : Goods[Deals[id].parties[who]][i] >= Deals[id].gives[who][i]
  BY <1>9, <1>10
<1>17. Goods' = [e \in Entity |-> IF e = Deals[id].parties[1] THEN settled(1)
                                  ELSE IF e = Deals[id].parties[2] THEN settled(2) ELSE Goods[e]]
  BY <1>9, <1>12
<1>18. \A who \in {1, 2} : settled(who) =
         [i \in Item |-> Goods[Deals[id].parties[who]][i] - Deals[id].gives[who][i] + Deals[id].gives[3 - who][i]]
  BY <1>9
<1>. HIDE DEF settled
<1>19. Goods' = [e \in Entity |->
         IF e = Deals[id].parties[1]
         THEN [i \in Item |-> Goods[Deals[id].parties[1]][i] - Deals[id].gives[1][i] + Deals[id].gives[3 - 1][i]]
         ELSE IF e = Deals[id].parties[2]
         THEN [i \in Item |-> Goods[Deals[id].parties[2]][i] - Deals[id].gives[2][i] + Deals[id].gives[3 - 2][i]]
         ELSE Goods[e]]
  BY <1>17, <1>18, Zenon
<1>. QED
  BY <1>14, <1>15, <1>16, <1>19 DEF Abstract!Close, Abstract!Sealed, Abstract!Without, Abstract!Settled, Goods, Deals

LEMMA StepProcesses ==
  ASSUME Ungated = FALSE, RInv, [Next]_vars,
         NEW e \in Entity, NEW id \in TradeId, NEW a \in TradeAction, ProcessTradeAction(e, id, a)
  PROVE  [Abstract!ANext]_(Abstract!avars)
<1>. DEFINE u == process_trade_action(trades[id], e, a)
<1>1. /\ InvOK /\ id \in DOMAIN trades
      /\ IsTrade(trades[id]) /\ IsPendingTrade(trades[id]) /\ trades[id].phase \in {"Mutate", "Review"}
  BY BookFacts DEF RInv, TInv, IInv, PhasesOK, BooksTyped, ProcessTradeAction
<1>2. IsPendingTrade(u) /\ OpenEdit(trades[id], u) /\ Advances(trades[id], e, a, u)
  BY <1>1, ProcessTyped, ProcessOK, ProcessAdvances
<1>3. \/ /\ u.phase = "Complete"
         /\ \E o1 \in Orders(u.offers[1]), o2 \in Orders(u.offers[2]) : Commit(id, u, <<o1, o2>>)
      \/ /\ u.phase # "Complete" /\ trades' = insert(trades, id, u) /\ inv' = inv
  BY DEF ProcessTradeAction
<1>. HIDE DEF u
<1>4. ASSUME u.phase = "Complete",
             NEW o1 \in Orders(u.offers[1]), NEW o2 \in Orders(u.offers[2]), Commit(id, u, <<o1, o2>>)
      PROVE  [Abstract!ANext]_(Abstract!avars)
  <2>1. /\ id \in InReview /\ u.parties = trades[id].parties /\ u.offers = trades[id].offers
    <3>1. trades[id].phase = "Review"
      BY <1>2, <1>4 DEF Advances
    <3>. QED
      BY <1>1, <1>2, <3>1 DEF OpenEdit, InReview
  <2>2. CASE inv' # inv
    BY <1>2, <1>4, <2>1, <2>2, StepCloses DEF Abstract!ANext
  <2>3. CASE inv' = inv
    <3>1. InReview' = InReview \ {id}
      BY <1>4 DEF Commit, remove, InReview
    <3>. QED
      BY <2>3, <3>1, StepQuiet
  <2>. QED
    BY <2>2, <2>3
<1>5. CASE u.phase # "Complete" /\ trades' = insert(trades, id, u) /\ inv' = inv
  <2>1. u.phase \in {"Mutate", "Review"} /\ (trades[id].phase = "Review" => u.phase = "Review")
    BY <1>2, <1>5 DEF Advances
  <2>2. /\ DOMAIN trades' = DOMAIN trades
        /\ \A i \in DOMAIN trades : trades'[i] = IF i = id THEN u ELSE trades[i]
    BY <1>1, <1>5 DEF insert
  <2>3. CASE u.phase = trades[id].phase
    <3>1. InReview' = InReview
      BY <2>2, <2>3 DEF InReview
    <3>. QED
      BY <1>5, <3>1, StepQuiet
  <2>4. CASE u.phase # trades[id].phase
    <3>1. id \notin InReview /\ InReview' = InReview \cup {id}
      BY <1>1, <2>1, <2>2, <2>4 DEF InReview
    <3>2. Abstract!Seal(id) /\ id \in TradeId
      BY <1>5, <3>1, StepSeals
    <3>. QED
      BY <3>2 DEF Abstract!ANext
  <2>. QED
    BY <2>3, <2>4
<1>. QED
  BY <1>3, <1>4, <1>5

LEMMA StepIsConsented ==
  ASSUME Ungated = FALSE, RInv, [Next]_vars
  PROVE  [Abstract!ANext]_(Abstract!avars)
<1>1. ASSUME inv' = inv, \E id : InReview' \subseteq InReview /\ InReview \ {id} \subseteq InReview'
      PROVE  [Abstract!ANext]_(Abstract!avars)
  BY <1>1, StepQuiet
<1>2. ASSUME inv' = inv, NEW e \in Entity,
             \/ Keep(decline_current(book, e))
             \/ \E i : Keep(decline_trade(book, i, e))
             \/ trades' = trades
      PROVE  [Abstract!ANext]_(Abstract!avars)
  BY <1>1, <1>2, DeclineDeals
<1>3. ASSUME NEW p \in Entity, NEW q \in Entity, InitiateInvite(p, q) PROVE [Abstract!ANext]_(Abstract!avars)
  BY <1>2, <1>3 DEF InitiateInvite
<1>4. ASSUME NEW q \in Entity, handle_invite_decline(q) \/ InviteTimeout(q)
      PROVE  [Abstract!ANext]_(Abstract!avars)
  BY <1>2, <1>4 DEF handle_invite_decline, InviteTimeout, tradeVars
<1>5. ASSUME NEW q \in Entity, handle_invite_accept(q) PROVE [Abstract!ANext]_(Abstract!avars)
  <2>1. inv' = inv
    BY <1>5 DEF handle_invite_accept
  <2>. QED
    BY <1>1, <1>5, <2>1, AcceptDeals
<1>6. ASSUME NEW e \in Entity, NEW id \in TradeId, DeclineTrade(e, id) PROVE [Abstract!ANext]_(Abstract!avars)
  BY <1>2, <1>6 DEF DeclineTrade
<1>7. ASSUME NEW e \in Entity, NEW id \in TradeId, NEW a \in TradeAction, ProcessTradeAction(e, id, a)
      PROVE  [Abstract!ANext]_(Abstract!avars)
  BY <1>7, StepProcesses
<1>8. ASSUME NEW e \in Entity, SwapSlots(e) \/ DeleteSome(e) PROVE [Abstract!ANext]_(Abstract!avars)
  <2>1. PICK v : InventoryManip(e, v)
    BY <1>8 DEF SwapSlots, DeleteSome
  <2>2. Abstract!Personal(e)
    BY <2>1, StepPersonal
  <2>. QED
    BY <2>2 DEF Abstract!ANext
<1>9. ASSUME NEW e \in Entity, Attacked(e) \/ Down(e) \/ Recover(e) \/ Leave(e)
      PROVE  [Abstract!ANext]_(Abstract!avars)
  BY <1>2, <1>9 DEF Attacked, Down, Recover, Leave, tradeVars
<1>10. CASE UNCHANGED vars
  <2>1. InReview' = InReview /\ inv' = inv
    BY <1>10 DEF vars, InReview
  <2>. QED
    BY <1>1, <2>1
<1>11. ~OutsideOfTrades
  BY DEF OutsideOfTrades
<1>12. Disturbed \subseteq Entity
  BY TradeAssumption
<1>. HIDE DEF Abstract!ANext, Abstract!avars
<1>. QED
  BY <1>3, <1>4, <1>5, <1>6, <1>7, <1>8, <1>9, <1>10, <1>11, <1>12
     DEF Next, InviteStep, TradeStep, OtherStep, Dialogue, Transcribe

(* Where nobody hands items over in a dialogue or a transcription, trading  *)
(* keeps its promise in full, for any entities, inventories and number of   *)
(* trades: once both parties have accepted, the terms stand as they are and *)
(* nobody touches the goods; and goods change hands only to those terms, on *)
(* both sides in one step.                                                  *)
THEOREM TradeImplementsConsent ==
  ASSUME Ungated = FALSE
  PROVE  Spec => TradesAreConsented
<1>1. RInv /\ [Next]_vars => [Abstract!ANext]_(Abstract!avars)
  BY StepIsConsented
<1>2. Spec => Abstract!ASpec
  BY <1>1, InitDeals, AlwaysRInv, PTL DEF Spec, Abstract!ASpec
<1>. QED
  BY <1>2 DEF TradesAreConsented
=============================================================================
