---------------------------- MODULE TradeClients ----------------------------
(***************************************************************************)
(* Trade together with the two clients and the network between: what a      *)
(* player sees of a trade is an older state of it, and what a player        *)
(* presses reaches the server when the trade may already be another.  Each  *)
(* direction is one ordered stream.                                         *)
(***************************************************************************)
EXTENDS Trade

CONSTANTS
  MaxPressed,    \* bound: actions under way from each client
  MaxShown       \* bound: messages under way to each client

ASSUME TradeClientsAssumption == 
  MaxPressed \in [Entity -> Nat \ {0}] /\ MaxShown \in [Entity -> Nat \ {0}]

VARIABLES
  pending_trade,  \* Client::pending_trade: the trade on the screen, or None
  toClient,       \* messages under way to each client
  toServer,       \* trade actions under way from each client
  agreed          \* (history) the trade each player last accepted in review

clientVars == <<pending_trade, toClient, toServer, agreed>>
allVars    == <<vars, clientVars>>

Decline == [kind |-> "Decline"]
ExitInGameSuccess == [kind |-> "ExitInGameSuccess"]

CInit ==
  /\ Init
  /\ pending_trade = [e \in Entity |-> None]
  /\ toClient = [e \in Entity |-> <<>>]
  /\ toServer = [e \in Entity |-> <<>>]
  /\ agreed = [e \in Entity |-> None]

(* What the handler of this step sends is put on the streams.               *)
Send ==
  /\ toClient' = [e \in Entity |->
       toClient[e] \o out'[e] \o (IF e \in here \ here' THEN <<ExitInGameSuccess>> ELSE <<>>)]
  /\ \A e \in Entity : Len(toClient'[e]) <= MaxShown[e]

ServerIdle ==
  out' = Silence /\ UNCHANGED <<inv, here, downed>> /\ UNCHANGED inviteVars /\ UNCHANGED tradeVars

----------------------------------------------------------------------------
(* Client::perform_trade_action: the action carries the id of the trade on  *)
(* the screen, an Accept also its phase; a Decline closes the window now.   *)
OnScreen(e) ==
  {a \in TradeAction : a.kind = "Accept" => a.phase = pending_trade[e].trade.phase} \cup {Decline}

perform_trade_action(e) ==
  /\ pending_trade[e] # None
  /\ Len(toServer[e]) < MaxPressed[e]
  /\ \E a \in OnScreen(e) :
       /\ toServer' = [toServer EXCEPT ![e] = Append(@, [id |-> pending_trade[e].id, action |-> a])]
       /\ pending_trade' = [pending_trade EXCEPT ![e] = IF a = Decline THEN None ELSE @]
       /\ agreed' = [agreed EXCEPT ![e] =
            IF a.kind = "Accept" /\ a.phase = "Review"
            THEN [id |-> pending_trade[e].id, offers |-> pending_trade[e].trade.offers] ELSE @]
  /\ UNCHANGED toClient /\ ServerIdle

(* Client::handle_server_in_game_msg, the messages about trades.            *)
Receive(e) ==
  /\ toClient[e] # <<>>
  /\ LET m == Head(toClient[e])
     IN  pending_trade' = [pending_trade EXCEPT ![e] =
           IF m.kind = "UpdatePendingTrade" THEN [id |-> m.id, trade |-> m.trade] ELSE None]
  /\ toClient' = [toClient EXCEPT ![e] = Tail(@)]
  /\ UNCHANGED <<toServer, agreed>> /\ ServerIdle

(* The server takes the next action of a client; an action for a trade that *)
(* is over, or of somebody who is dead, has no effect.                      *)
Ignored(e, m) ==
  /\ \/ e \notin here
     \/ m.action # Decline /\ (e \in downed \/ m.id \notin DOMAIN trades)
  /\ ServerIdle

HandleTradeAction(e) ==
  /\ toServer[e] # <<>>
  /\ LET m == Head(toServer[e])
     IN  \/ m.action = Decline /\ DeclineTrade(e, m.id)
         \/ m.action # Decline /\ ProcessTradeAction(e, m.id, m.action)
         \/ Ignored(e, m)
  /\ toServer' = [toServer EXCEPT ![e] = Tail(@)]
  /\ Send
  /\ UNCHANGED <<pending_trade, agreed>>

HandleOther == (InviteStep \/ OtherStep) /\ Send /\ UNCHANGED <<pending_trade, toServer, agreed>>

CNext ==
  \/ \E e \in Entity : perform_trade_action(e) \/ Receive(e) \/ HandleTradeAction(e)
  \/ HandleOther

CSpec == CInit /\ [][CNext]_allVars

----------------------------------------------------------------------------
Committed(id) ==
  /\ id \in DOMAIN trades /\ id \notin DOMAIN trades'
  /\ \E e \in Entity : FinishedTrade("Completed") \in Range(out'[e])

(* A trade is carried out only if each party pressed accept while its own   *)
(* screen showed this trade in review with exactly the offers carried out,  *)
(* whatever was under way in either direction: the phase in Accept is what  *)
(* keeps a double press, or a press on an old screen, from counting.        *)
InformedConsent ==
  [][\A id \in TradeId : Committed(id) =>
       \A e \in Parties(trades[id]) : agreed[e] = [id |-> id, offers |-> trades[id].offers]]_allVars

Settled(e) ==
  /\ e \in here /\ toClient[e] = <<>>
  /\ pending_trade[e] # None /\ pending_trade[e].id \in DOMAIN trades

(* Once nothing is under way to a client, the open trade on its screen has  *)
(* the parties, the offers and the phase that the server has: no change of  *)
(* them goes without a message to both.                                     *)
ShownTermsAreCurrent ==
  \A e \in Entity : Settled(e) =>
    LET shown == pending_trade[e].trade
        real  == trades[pending_trade[e].id]
    IN  shown.parties = real.parties /\ shown.offers = real.offers /\ shown.phase = real.phase

----------------------------------------------------------------------------
(* Statements of the sources that do not hold: the README says when.        *)

(* PendingTrade's doc: manipulating the inventory resets the accept flags   *)
(* to make the change visible, so a settled screen shows the flags as reset.*)
ShownFlagsAreCurrent ==
  \A e \in Entity : Settled(e) =>
    pending_trade[e].trade.accept_flags = trades[pending_trade[e].id].accept_flags
=============================================================================
