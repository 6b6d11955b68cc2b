----------------------------- MODULE MCSessions -----------------------------
(* Three connections, one of them perhaps a silent spectator, and five      *)
(* accounts: a moderator's, that of the administrator who bans and does not *)
(* play, one with an alias that is refused, and two of ordinary players.    *)
(* Two connections may use the same account, there is one place, and one    *)
(* connection may use any account of the others but the first.              *)
EXTENDS Sessions
CONSTANTS a, b, c, u, v, w, x, admin

MC_Role == [y \in Uuid |-> CASE y = v -> 1 [] y = admin -> 2 [] OTHER -> 0]
MC_Types == {[y \in Client |-> IF y = c THEN t ELSE "game"] : t \in {"game", "silent"}}
MC_Account == [y \in Client |-> CASE y = a -> {u} [] y = b -> {u, v} [] OTHER -> {v, w, x}]
=============================================================================
