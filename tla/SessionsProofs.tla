--------------------------- MODULE SessionsProofs ---------------------------
(***************************************************************************)
(* Theorems about Sessions for any clients, accounts and settings: one      *)
(* player per account, no banned player who stays, no more players than     *)
(* places, and current player lists.  They rest on what is true of a login  *)
(* between its admission and the end of the register system.                *)
(***************************************************************************)
EXTENDS Sessions, FiniteSetTheorems, TLAPS

(* What the register system has written down about the logins of this tick. *)
RegOK ==
  /\ phase # "register" => todo = {} /\ reg = NoReg
  /\ \A c \in todo : c \notin reg.new \cup reg.retries \cup reg.finished /\ player[c] = None
  /\ reg.new \subseteq reg.finished /\ reg.new \cap reg.retries = {}
  /\ \A c \in reg.finished \cup reg.retries : pending[c] # None
  /\ \A c \in Client : pending[c] # None => pending[c].uuid \in Account[c]
  /\ \A c \in Client : pending[c] # None /\ c \notin reg.new => answer[c] # "ok"

(* A place that was claimed belongs to an account that nobody else has, and *)
(* only admins come as something else than the game.                        *)
ClaimsOK ==
  /\ \A c \in reg.new :
       /\ player[c] = None /\ answer[c] = "ok"
       /\ ~ban_applies(pending[c].uuid)
       /\ pending[c].uuid \notin Admin => type[c] = "game"
       /\ \A d \in player_list : player[d] # pending[c].uuid
       /\ \A d \in reg.new : pending[d].uuid = pending[c].uuid => c = d
  /\ \A c \in Players : /\ answer[c] = "ok" /\ player[c] \in Account[c]
                        /\ player[c] \notin Admin => type[c] = "game"

ListsOK == \A c \in Players \cup reg.new : list[c] = player_list

(* Accounts that need one of the places and have it.                        *)
Claimed ==
  {c \in Players : player[c] \notin Admin} \cup {c \in reg.new : pending[c].uuid \notin Admin}
CountOK == Cardinality(Claimed) <= MaxPlayers

(* The inductive invariant; CountOK is added in a second step.              *)
IInv ==
  TypeOK /\ RegOK /\ ClaimsOK /\ OnePlayerPerUuid /\ BannedAreLeaving /\ ListsOK

LEMMA InitOK == Init => IInv /\ CountOK
<1> SUFFICES ASSUME Init PROVE IInv /\ CountOK
  OBVIOUS
<1>1. Players = {} /\ reg.new = {} /\ player_list = {}
  BY DEF Init, Players, player_list, Announced, NoReg
<1>2. TypeOK
  BY <1>1, SessionsAssumption DEF Init, TypeOK, NoReg
<1>3. RegOK
  BY DEF Init, RegOK, NoReg
<1>4. ClaimsOK /\ OnePlayerPerUuid /\ BannedAreLeaving /\ ListsOK
  BY <1>1 DEF ClaimsOK, OnePlayerPerUuid, BannedAreLeaving, ListsOK
<1>5. Claimed = {}
  BY <1>1 DEF Claimed
<1>6. CountOK
  BY <1>5, FS_EmptySet, SessionsAssumption DEF CountOK
<1> QED
  BY <1>2, <1>3, <1>4, <1>6 DEF IInv

(* Steps between two ticks that change nobody's account.                    *)
LEMMA VerifyOK ==
  ASSUME IInv, NEW c \in Client, NEW u \in Account[c], verify(c, u) PROVE IInv'
<1> USE DEF IInv, verify, tickVars
<1>1. todo = {} /\ reg = NoReg /\ u \in Uuid
  BY SessionsAssumption DEF RegOK
<1>2. player[c] = None /\ pending' \in [Client -> Login \cup {None}]
  BY <1>1 DEF TypeOK, ClaimsOK, Players, Login
<1>3. Players' = Players /\ player_list' = player_list
  BY DEF Players, player_list, Announced, emit_login_events
<1>4. TypeOK'
  BY <1>1, <1>2, <1>3 DEF TypeOK, Players
<1>5. RegOK'
  BY <1>1 DEF RegOK, NoReg
<1>6. ClaimsOK'
  BY <1>1, <1>2, <1>3 DEF ClaimsOK, TypeOK, NoReg, Players
<1>7. OnePlayerPerUuid' /\ BannedAreLeaving' /\ ListsOK'
  BY <1>1, <1>3 DEF OnePlayerPerUuid, BannedAreLeaving, SilentBeside, ban_applies, ListsOK, NoReg
<1> QED
  BY <1>4, <1>5, <1>6, <1>7

LEMMA VerifiedOK ==
  ASSUME IInv, NEW c \in Client, NEW is \in {"verified", "failed"}, Verified(c, is) PROVE IInv'
<1> USE DEF IInv, Verified, tickVars
<1>1. /\ pending' \in [Client -> Login \cup {None}]
      /\ \A d \in Client : /\ pending[d] # None <=> pending'[d] # None
                           /\ pending[d] # None => pending'[d].uuid = pending[d].uuid
  BY SessionsAssumption DEF TypeOK, Login
<1>2. Players' = Players /\ player_list' = player_list
  BY DEF Players, player_list, Announced, emit_login_events
<1>3. TypeOK'
  BY <1>1, <1>2 DEF TypeOK, Players
<1>4. RegOK'
  BY <1>1 DEF RegOK, TypeOK
<1>5. \A d \in reg.new : pending'[d].uuid = pending[d].uuid
  BY <1>1 DEF RegOK, TypeOK
<1>6. ClaimsOK'
  BY <1>2, <1>5 DEF ClaimsOK, ban_applies
<1>7. OnePlayerPerUuid' /\ BannedAreLeaving' /\ ListsOK'
  BY <1>2 DEF OnePlayerPerUuid, BannedAreLeaving, SilentBeside, ban_applies, ListsOK
<1> QED
  BY <1>3, <1>4, <1>6, <1>7

LEMMA ConnectionEndsOK ==
  ASSUME IInv, NEW c \in Client, ConnectionEnds(c) PROVE IInv'
<1> USE DEF IInv, ConnectionEnds, Kick, tickVars
<1>1. Players' = Players /\ player_list' = player_list
  BY DEF Players, player_list, Announced, emit_login_events
<1>2. TypeOK' /\ RegOK'
  BY <1>1 DEF TypeOK, RegOK, Players
<1>3. ClaimsOK'
  BY <1>1 DEF ClaimsOK, ban_applies
<1>4. OnePlayerPerUuid' /\ BannedAreLeaving' /\ ListsOK'
  BY <1>1 DEF OnePlayerPerUuid, BannedAreLeaving, SilentBeside, ban_applies, ListsOK
<1> QED
  BY <1>2, <1>3, <1>4

(* Of an account that has several sessions, all but one are silent.         *)
LEMMA BanOK ==
  ASSUME IInv, NEW by \in Admin, NEW u \in Uuid, handle_ban(by, u) PROVE IInv'
<1> USE DEF IInv, handle_ban, tickVars
<1>1. /\ Players' = Players /\ player_list' = player_list /\ reg = NoReg /\ todo = {}
      /\ Role[by] \in 0..2
  BY SessionsAssumption DEF Players, player_list, Announced, emit_login_events, RegOK, Admin
<1>2. TypeOK' /\ RegOK'
  BY <1>1 DEF TypeOK, RegOK, Players, Kick
<1>3. ClaimsOK' /\ OnePlayerPerUuid' /\ ListsOK'
  BY <1>1 DEF ClaimsOK, OnePlayerPerUuid, ListsOK, NoReg
<1>4. ASSUME NEW c \in Players, ban_applies(player[c])'
      PROVE  c \in leaving' \/ SilentBeside(player[c])
  <2>1. CASE player[c] # u
    BY <2>1, <1>4 DEF ban_applies, BannedAreLeaving, Kick, TypeOK
  <2>2. CASE player[c] = u
    <3>1. outranks(by, u) /\ c \in Client
      BY <2>2, <1>4 DEF ban_applies, outranks, Players, TypeOK
    <3>2. PICK d \in Client : player[d] = u /\ leaving' = leaving \cup {d}
      BY <3>1, <2>2 DEF Kick
    <3>3. /\ d \in Players /\ answer[d] = "ok" /\ u \in Account[d]
          /\ answer[c] = "ok" /\ u \in Account[c]
      BY <3>1, <3>2, <2>2, SessionsAssumption DEF Players, ClaimsOK
    <3>4. CASE type[c] = "silent" \/ type[d] = "silent"
      <4>1. u \in Admin
        BY <3>3, <3>4, <3>2, <2>2 DEF ClaimsOK
      <4> QED
        BY <4>1, <3>1, <3>3, <3>4, <2>2 DEF SilentBeside
    <3>5. CASE type[c] # "silent" /\ type[d] # "silent"
      <4>1. c \in player_list /\ d \in player_list
        BY <3>3, <3>5 DEF player_list, Announced, emit_login_events
      <4> QED
        BY <4>1, <3>2, <2>2 DEF OnePlayerPerUuid
    <3> QED
      BY <3>4, <3>5
  <2> QED
    BY <2>1, <2>2
<1>5. BannedAreLeaving'
  BY <1>1, <1>4 DEF BannedAreLeaving, SilentBeside
<1> QED
  BY <1>2, <1>3, <1>5

LEMMA BeginRegisterOK == ASSUME IInv, BeginRegister PROVE IInv'
<1> USE DEF IInv, BeginRegister
<1>1. Players' = Players /\ player_list' = player_list /\ reg = NoReg /\ reg' = NoReg
  BY DEF Players, player_list, Announced, emit_login_events, RegOK
<1>2. TypeOK'
  BY <1>1 DEF TypeOK, Players, NoReg
<1>3. RegOK'
  BY <1>1 DEF RegOK, NoReg
<1>4. ClaimsOK' /\ OnePlayerPerUuid' /\ BannedAreLeaving' /\ ListsOK'
  BY <1>1 DEF ClaimsOK, OnePlayerPerUuid, ListsOK, NoReg, BannedAreLeaving, SilentBeside, ban_applies
<1> QED
  BY <1>2, <1>3, <1>4
----------------------------------------------------------------------------
(* The register system                                                      *)

(* What every login that is looked at leaves alone.                         *)
LEMMA TakeOK ==
  ASSUME IInv, NEW c \in Client, phase = "register", Take(c), UNCHANGED <<conn, type>>
  PROVE  /\ Players' = Players /\ player_list' = player_list
         /\ c \notin reg.new \cup reg.retries \cup reg.finished
         /\ c \notin Players /\ pending[c] # None /\ pending[c] \in Login
         /\ todo' \subseteq todo /\ c \notin todo'
  BY DEF IInv, Take, Players, player_list, Announced, emit_login_events, RegOK, TypeOK

RegType == [new : SUBSET Client, retries : SUBSET Client, finished : SUBSET Client]

(* A login that claims no place.                                            *)
LEMMA NoClaimOK ==
  ASSUME IInv, NEW c \in Client, phase = "register", Take(c), UNCHANGED <<conn, type>>,
         leaving' \in SUBSET Client, leaving \subseteq leaving',
         reg' \in RegType, reg'.new = reg.new,
         reg.finished \subseteq reg'.finished, reg'.finished \subseteq reg.finished \cup {c},
         reg'.retries \subseteq reg.retries \cup {c},
         \/ answer' = answer
         \/ answer' = [answer EXCEPT ![c] = "refused"],
         list' = list
  PROVE  IInv'
<1>1. /\ Players' = Players /\ player_list' = player_list
      /\ c \notin reg.new \cup reg.retries \cup reg.finished
      /\ c \notin Players /\ pending[c] # None
      /\ todo' \subseteq todo /\ c \notin todo'
  BY TakeOK
<1>2. /\ reg.new \in SUBSET Client /\ reg.retries \in SUBSET Client
      /\ reg.finished \in SUBSET Client
  BY DEF IInv, TypeOK
<1>3. /\ answer' \in [Client -> {"none", "waiting", "refused", "ok"}]
      /\ \A d \in Client : d # c => answer'[d] = answer[d]
  BY DEF IInv, TypeOK
<1>4. TypeOK'
  BY <1>1, <1>2, <1>3 DEF IInv, TypeOK, Take, Players, RegType
<1>5. RegOK'
  <2>1. \A d \in Client : pending[d] # None /\ d \notin reg.new => answer'[d] # "ok"
    BY <1>3 DEF IInv, RegOK, TypeOK
  <2> QED
    BY <1>1, <1>2, <2>1 DEF IInv, RegOK, Take
<1>6. reg.new \subseteq Client \ {c} /\ Players \subseteq Client \ {c}
  BY <1>1, <1>2 DEF Players
<1>7. ClaimsOK'
  BY <1>1, <1>2, <1>3, <1>6 DEF IInv, ClaimsOK, Take, ban_applies
<1>8. BannedAreLeaving'
  <2>1. answer[c] # "ok"
    BY <1>1 DEF IInv, RegOK
  <2>2. \A v \in Uuid : SilentBeside(v) => SilentBeside(v)'
    BY <1>3, <2>1 DEF SilentBeside
  <2> QED
    BY <1>1, <2>2 DEF IInv, TypeOK, BannedAreLeaving, Players, Take, ban_applies
<1>9. OnePlayerPerUuid' /\ ListsOK'
  BY <1>1, <1>2 DEF IInv, OnePlayerPerUuid, ListsOK, Take
<1> QED
  BY <1>4, <1>5, <1>7, <1>8, <1>9 DEF IInv

(* Claiming a place: nobody has the account, neither a player of earlier    *)
(* ticks nor one admitted in this tick.                                     *)
LEMMA AdmitOK ==
  ASSUME IInv, NEW c \in Client, phase = "register", Take(c), Admit(c), UNCHANGED <<conn, type>>
  PROVE  IInv'
<1> DEFINE u == pending[c].uuid
<1>1. /\ Players' = Players /\ player_list' = player_list
      /\ c \notin reg.new \cup reg.retries \cup reg.finished
      /\ c \notin Players /\ pending[c] # None /\ u \in Uuid
      /\ todo' \subseteq todo /\ c \notin todo'
  BY TakeOK DEF Login
<1>2. /\ reg \in [new : SUBSET Client, retries : SUBSET Client, finished : SUBSET Client]
      /\ reg' = [reg EXCEPT !.finished = @ \cup {c}, !.new = @ \cup {c}]
  BY DEF IInv, TypeOK, Admit
<1>3. /\ reg'.new = reg.new \cup {c} /\ reg'.finished = reg.finished \cup {c}
      /\ reg'.retries = reg.retries
      /\ reg' \in [new : SUBSET Client, retries : SUBSET Client, finished : SUBSET Client]
  BY <1>2
<1>4. /\ answer' \in [Client -> {"none", "waiting", "refused", "ok"}]
      /\ answer'[c] = "ok" /\ \A d \in Client : d # c => answer'[d] = answer[d]
      /\ list' \in [Client -> SUBSET Client]
      /\ list'[c] = player_list /\ \A d \in Client : d # c => list'[d] = list[d]
  BY DEF IInv, TypeOK, Admit, player_list, Announced, Players
<1>5. reg.new \subseteq Client \ {c} /\ Players \subseteq Client \ {c}
  BY <1>1, <1>2 DEF Players
<1>6. TypeOK'
  BY <1>1, <1>3, <1>4 DEF IInv, TypeOK, Take, Players, Admit
<1>7. RegOK'
  BY <1>1, <1>3, <1>4 DEF IInv, RegOK, Take
<1>8. /\ ~ban_applies(u) /\ (u \notin Admin => type[c] = "game")
      /\ \A d \in player_list : player[d] # u
      /\ \A d \in reg.new : pending[d].uuid # u
  BY DEF Admit, login_ok, is_valid_for_role, old_player, old_players_by_uuid,
         new_players_by_uuid
<1>9. player[c] = None
  BY <1>1 DEF Players
<1>10. ClaimsOK'
  BY <1>1, <1>3, <1>4, <1>5, <1>8, <1>9 DEF IInv, ClaimsOK, Take, ban_applies
<1>11. BannedAreLeaving'
  <2>1. \A v \in Uuid : SilentBeside(v) => SilentBeside(v)'
    BY <1>4 DEF SilentBeside
  <2> QED
    BY <1>1, <2>1 DEF IInv, TypeOK, BannedAreLeaving, Players, Take, ban_applies, Admit
<1>12. OnePlayerPerUuid' /\ ListsOK'
  BY <1>1, <1>3, <1>4, <1>5 DEF IInv, OnePlayerPerUuid, ListsOK, Take, Admit
<1> QED
  BY <1>6, <1>7, <1>10, <1>11, <1>12 DEF IInv

LEMMA LoginOK == ASSUME IInv, NEW c \in Client, login(c) PROVE IInv'
<1>1. /\ phase = "register" /\ Take(c) /\ UNCHANGED <<conn, type>>
      /\ reg \in RegType /\ leaving \subseteq Client
  BY DEF login, Take, IInv, TypeOK, RegType
<1>2. CASE NotVerified(c)
  <2>1. /\ reg' \in RegType /\ reg'.new = reg.new
        /\ reg'.finished = reg.finished /\ reg'.retries = reg.retries
    BY <1>1, <1>2 DEF NotVerified, RegType
  <2> QED
    BY <1>1, <1>2, <2>1, NoClaimOK DEF NotVerified
<1>3. CASE LoginFails(c)
  <2>1. /\ reg' \in RegType /\ reg'.new = reg.new
        /\ reg'.finished = reg.finished \cup {c} /\ reg'.retries = reg.retries
    BY <1>1, <1>3 DEF LoginFails, RegType
  <2> QED
    BY <1>1, <1>3, <2>1, NoClaimOK DEF LoginFails, Kick, Refuse
<1>4. CASE InvalidClientType(c)
  <2>1. /\ reg' \in RegType /\ reg'.new = reg.new
        /\ reg'.finished = reg.finished /\ reg'.retries = reg.retries
    BY <1>1, <1>4 DEF InvalidClientType, RegType
  <2> QED
    BY <1>1, <1>4, <2>1, NoClaimOK DEF InvalidClientType, Kick
<1>5. CASE NewerLogin(c)
  <2>1. /\ reg' \in RegType /\ reg'.new = reg.new
        /\ reg'.finished = reg.finished \cup {c} /\ reg'.retries = reg.retries \cup {c}
    BY <1>1, <1>5 DEF NewerLogin, RegType
  <2>2. PICK old \in old_player(pending[c].uuid) : leaving' = leaving \cup {old}
    BY <1>5 DEF NewerLogin, Kick
  <2>3. old \in Client
    BY <1>1, <2>2 DEF RegType, old_player, old_players_by_uuid, new_players_by_uuid,
                      player_list, Announced, Players
  <2>4. leaving' \in SUBSET Client /\ leaving \subseteq leaving'
    BY <1>1, <2>2, <2>3
  <2> QED
    BY <1>1, <1>5, <2>1, <2>4, NoClaimOK DEF NewerLogin
<1>6. CASE InvalidAlias(c)
  <2>1. /\ reg' \in RegType /\ reg'.new = reg.new
        /\ reg'.finished = reg.finished \cup {c} /\ reg'.retries = reg.retries
    BY <1>1, <1>6 DEF InvalidAlias, RegType
  <2> QED
    BY <1>1, <1>6, <2>1, NoClaimOK DEF InvalidAlias, Refuse
<1>7. CASE Admit(c)
  BY <1>1, <1>7, AdmitOK
<1> QED
  BY <1>2, <1>3, <1>4, <1>5, <1>6, <1>7 DEF login

(* The places that were claimed become players.                             *)
LEMMA EndRegisterOK == ASSUME IInv, EndRegister PROVE IInv'
<1> USE DEF IInv, EndRegister
<1>1. /\ reg \in RegType /\ reg.new \in SUBSET Client /\ reg.new \subseteq reg.finished
      /\ todo = {} /\ reg' = NoReg
  BY DEF TypeOK, RegType, RegOK
<1>2. \A c \in reg.new : pending[c] \in Login /\ pending[c].uuid \in Uuid
  BY <1>1 DEF RegOK, TypeOK, Login
<1>3. /\ player' \in [Client -> Uuid \cup {None}]
      /\ \A c \in reg.new : player'[c] = pending[c].uuid
      /\ \A c \in Client \ reg.new : player'[c] = player[c]
  BY <1>2 DEF TypeOK
<1>4. Players' = Players \cup reg.new
  BY <1>1, <1>2, <1>3, SessionsAssumption DEF Players, ClaimsOK
<1>5. player_list' = player_list \cup Announced(reg.new)
  BY <1>4 DEF player_list, Announced, emit_login_events
<1>6. \A c \in reg.retries : pending[c] \in Login
  BY <1>1 DEF RegOK, TypeOK, RegType
<1>7. pending' \in [Client -> Login \cup {None}]
  <2>1. \A c \in reg.retries : [pending[c] EXCEPT !.is = "verified"] \in Login
    BY <1>6 DEF Login
  <2> QED
    BY <2>1 DEF TypeOK, AfterRegister
<1>8. \A c \in Players' : pending'[c] = None
  BY <1>1, <1>4 DEF AfterRegister, TypeOK, RegOK, Players
<1>9. /\ list' \in [Client -> SUBSET Client]
      /\ \A c \in Players \cup reg.new : list'[c] = list[c] \cup Announced(reg.new)
  BY <1>1 DEF TypeOK, told, Announced, Players
<1>10. TypeOK'
  <2>1. /\ conn \in [Client -> {"here", "gone"}] /\ type \in [Client -> Type]
        /\ answer \in [Client -> {"none", "waiting", "refused", "ok"}]
        /\ banned \in [Uuid -> 0..2] /\ leaving \subseteq Client
    BY DEF TypeOK
  <2>2. reg' \in [new : SUBSET Client, retries : SUBSET Client, finished : SUBSET Client]
    BY <1>1 DEF NoReg
  <2>3. todo' = {} /\ phase' \in {"idle", "register", "events"}
    BY <1>1
  <2> QED
    BY <2>1, <2>2, <2>3, <1>3, <1>7, <1>8, <1>9 DEF TypeOK
<1>11. RegOK'
  <2>1. ASSUME NEW c \in Client, pending'[c] # None
        PROVE  pending'[c].uuid \in Account[c] /\ answer'[c] # "ok"
    <3>1. c \notin reg.new /\ pending[c] # None /\ pending[c] \in Login
      BY <1>1, <2>1 DEF AfterRegister, RegOK, TypeOK
    <3>2. pending'[c].uuid = pending[c].uuid
      BY <2>1, <3>1 DEF AfterRegister, Login
    <3> QED
      BY <3>1, <3>2 DEF RegOK
  <2> QED
    BY <1>1, <2>1 DEF RegOK, NoReg
<1>12. ClaimsOK'
  <2>1. \A c \in reg.new : pending[c].uuid \in Account[c]
    BY <1>1 DEF RegOK
  <2> QED
    BY <1>1, <1>3, <1>4, <2>1 DEF ClaimsOK, NoReg, Players
<1>13. OnePlayerPerUuid'
  <2>1. player_list \subseteq Players \ reg.new /\ player_list \subseteq Client
    BY DEF player_list, Announced, Players, ClaimsOK
  <2>2. Announced(reg.new) \subseteq reg.new
    BY DEF Announced
  <2> QED
    BY <1>1, <1>3, <1>5, <2>1, <2>2 DEF OnePlayerPerUuid, ClaimsOK
<1>14. BannedAreLeaving'
  <2>1. \A c \in reg.new : ~ban_applies(player[c])'
    BY <1>3 DEF ClaimsOK, ban_applies
  <2>2. \A c \in Players \ reg.new : ban_applies(player[c])' => c \in leaving' \/ SilentBeside(player[c])'
    BY <1>3 DEF BannedAreLeaving, ban_applies, SilentBeside, Players
  <2> QED
    BY <1>4, <2>1, <2>2 DEF BannedAreLeaving
<1>15. ListsOK'
  <2>1. reg'.new = {}
    BY <1>1 DEF NoReg
  <2>2. \A c \in Players \cup reg.new : list'[c] = player_list \cup Announced(reg.new)
    BY <1>9 DEF ListsOK
  <2> QED
    BY <2>1, <2>2, <1>4, <1>5 DEF ListsOK
<1> QED
  BY <1>10, <1>11, <1>12, <1>13, <1>14, <1>15

LEMMA DisconnectOK == ASSUME IInv, handle_client_disconnect PROVE IInv'
<1> USE DEF IInv, handle_client_disconnect
<1>1. /\ Players' = Players \ leaving /\ todo = {} /\ reg = NoReg
      /\ \A c \in Players' : player'[c] = player[c]
  BY DEF Players, TypeOK, RegOK
<1>2. player_list' = player_list \ leaving
  BY <1>1 DEF player_list, Announced, emit_login_events
<1>3. \A c \in Players' : list'[c] = list[c] \ leaving
  BY <1>1 DEF Without, Announced, Players, TypeOK, ListsOK, player_list
<1>4. list' \in [Client -> SUBSET Client]
  BY DEF Without, TypeOK
<1>5. TypeOK'
  BY <1>1, <1>4 DEF TypeOK, Players, NoReg
<1>6. RegOK' /\ ClaimsOK'
  BY <1>1 DEF RegOK, ClaimsOK, NoReg, Players
<1>7. OnePlayerPerUuid' /\ BannedAreLeaving'
  BY <1>1, <1>2
  DEF OnePlayerPerUuid, BannedAreLeaving, SilentBeside, ban_applies, player_list, Announced
<1>8. ListsOK'
  <2>1. reg'.new = {} /\ \A c \in Players' : list[c] = player_list
    BY <1>1 DEF ListsOK, NoReg
  <2> QED
    BY <2>1, <1>2, <1>3 DEF ListsOK
<1> QED
  BY <1>5, <1>6, <1>7, <1>8

LEMMA StepOK == IInv /\ [Next]_vars => IInv'
<1> SUFFICES ASSUME IInv, [Next]_vars PROVE IInv'
  OBVIOUS
<1>1. CASE UNCHANGED vars
  BY <1>1 DEF vars, IInv, TypeOK, RegOK, ClaimsOK, OnePlayerPerUuid, BannedAreLeaving, ListsOK,
              Players, player_list, Announced, emit_login_events, ban_applies, SilentBeside
<1>2. ASSUME NEW c \in Client, NEW u \in Account[c], verify(c, u) PROVE IInv'
  BY <1>2, VerifyOK, SessionsAssumption
<1>3. ASSUME NEW c \in Client, NEW is \in {"verified", "failed"}, Verified(c, is) PROVE IInv'
  BY <1>3, VerifiedOK
<1>4. ASSUME NEW c \in Client, ConnectionEnds(c) PROVE IInv'
  BY <1>4, ConnectionEndsOK
<1>5. ASSUME NEW by \in Admin, NEW u \in Uuid, handle_ban(by, u) PROVE IInv'
  BY <1>5, BanOK
<1>6. CASE Tick
  BY <1>6, BeginRegisterOK, LoginOK, EndRegisterOK, DisconnectOK DEF Tick
<1> QED
  BY <1>1, <1>2, <1>3, <1>4, <1>5, <1>6 DEF Next

LEMMA Invariance == Spec => []IInv
  BY InitOK, StepOK, PTL DEF Spec

----------------------------------------------------------------------------
(* Places                                                                   *)

LEMMA ClaimedFinite ==
  ASSUME TypeOK
  PROVE  /\ IsFiniteSet(Claimed) /\ Cardinality(Claimed) \in Nat
         /\ IsFiniteSet(player_list) /\ IsFiniteSet(reg.new)
<1>1. Claimed \in SUBSET Client /\ player_list \in SUBSET Client /\ reg.new \in SUBSET Client
  BY DEF TypeOK, Claimed, Players, player_list, Announced
<1> QED
  BY <1>1, FS_Subset, FS_CardinalityType, SessionsAssumption

(* Whoever claims a place is counted together with the earlier claims.      *)
LEMMA AdmitCountOK ==
  ASSUME IInv, CountOK, NEW c \in Client, phase = "register", Take(c), Admit(c),
         UNCHANGED <<conn, type>>
  PROVE  CountOK'
<1>1. /\ Players' = Players /\ player' = player /\ pending' = pending
      /\ reg'.new = reg.new \cup {c} /\ TypeOK
  BY TakeOK DEF Admit, Take, IInv, TypeOK
<1>2. CASE pending[c].uuid \in Admin
  <2>1. Claimed' = Claimed
    BY <1>1, <1>2 DEF Claimed
  <2> QED
    BY <2>1 DEF CountOK
<1>3. CASE pending[c].uuid \notin Admin
  <2>1. Claimed' = Claimed \cup {c}
    BY <1>1, <1>3 DEF Claimed
  <2>2. Cardinality(player_list) + Cardinality(reg.new) < MaxPlayers
    BY <1>3 DEF Admit, login_ok, HasPlace, player_count
  <2>3. Claimed \subseteq player_list \cup reg.new
    BY DEF Claimed, player_list, Announced, emit_login_events, IInv, ClaimsOK
  <2>4. /\ IsFiniteSet(player_list \cup reg.new)
        /\ Cardinality(player_list \cup reg.new) <= Cardinality(player_list) + Cardinality(reg.new)
    <3>1. /\ Cardinality(player_list) \in Nat /\ Cardinality(reg.new) \in Nat
          /\ Cardinality(player_list \cap reg.new) \in Nat
      BY <1>1, ClaimedFinite, FS_CardinalityType, FS_Intersection
    <3>2. /\ IsFiniteSet(player_list \cup reg.new)
          /\ Cardinality(player_list \cup reg.new)
               = Cardinality(player_list) + Cardinality(reg.new) - Cardinality(player_list \cap reg.new)
      BY <1>1, ClaimedFinite, FS_Union
    <3> QED
      BY <3>1, <3>2
  <2>5. Cardinality(Claimed) <= Cardinality(player_list \cup reg.new)
    BY <2>3, <2>4, FS_Subset
  <2>6. Cardinality(Claimed') <= Cardinality(Claimed) + 1
    <3>1. IsFiniteSet(Claimed) /\ Cardinality(Claimed) \in Nat
      BY <1>1, ClaimedFinite
    <3>2. Cardinality(Claimed \cup {c})
            = IF c \in Claimed THEN Cardinality(Claimed) ELSE Cardinality(Claimed) + 1
      BY <3>1, FS_AddElement, Zenon
    <3> HIDE DEF Claimed
    <3> QED
      BY <2>1, <3>1, <3>2
  <2>7. /\ Cardinality(Claimed) \in Nat /\ Cardinality(Claimed') \in Nat
        /\ Cardinality(player_list) \in Nat /\ Cardinality(reg.new) \in Nat
        /\ Cardinality(player_list \cup reg.new) \in Nat
    BY <1>1, <2>1, <2>4, ClaimedFinite, FS_AddElement, FS_CardinalityType
  <2> QED
    BY <2>2, <2>4, <2>5, <2>6, <2>7, SessionsAssumption DEF CountOK
<1> QED
  BY <1>2, <1>3

(* All other steps leave the claims or shrink them.                         *)
LEMMA FewerClaims ==
  ASSUME TypeOK, CountOK, Claimed' \subseteq Claimed PROVE CountOK'
<1>1. Cardinality(Claimed') <= Cardinality(Claimed) /\ Cardinality(Claimed') \in Nat
  BY ClaimedFinite, FS_Subset, FS_CardinalityType
<1> QED
  BY <1>1, ClaimedFinite, SessionsAssumption DEF CountOK

LEMMA CountStepOK == IInv /\ CountOK /\ [Next]_vars => CountOK'
<1> SUFFICES ASSUME IInv, CountOK, [Next]_vars PROVE CountOK'
  OBVIOUS
<1>1. TypeOK
  BY DEF IInv
<1>2. CASE UNCHANGED vars
  BY <1>1, <1>2, FewerClaims DEF vars, Claimed, Players
<1>3. ASSUME NEW c \in Client, NEW u \in Account[c], verify(c, u) PROVE CountOK'
  BY <1>1, <1>3, FewerClaims DEF verify, tickVars, Claimed, Players, IInv, RegOK, NoReg
<1>4. ASSUME NEW c \in Client, NEW is \in {"verified", "failed"}, Verified(c, is) PROVE CountOK'
  <2>1. \A d \in reg.new : pending'[d].uuid = pending[d].uuid
    BY <1>4 DEF IInv, RegOK, TypeOK, Verified, Login
  <2> QED
    BY <1>1, <1>4, <2>1, FewerClaims DEF Verified, tickVars, Claimed, Players
<1>5. ASSUME NEW c \in Client, ConnectionEnds(c) PROVE CountOK'
  BY <1>1, <1>5, FewerClaims DEF ConnectionEnds, tickVars, Claimed, Players
<1>6. ASSUME NEW by \in Admin, NEW u \in Uuid, handle_ban(by, u) PROVE CountOK'
  BY <1>1, <1>6, FewerClaims DEF handle_ban, tickVars, Claimed, Players
<1>7. CASE BeginRegister
  BY <1>1, <1>7, FewerClaims DEF BeginRegister, Claimed, Players, NoReg
<1>8. ASSUME NEW c \in Client, login(c) PROVE CountOK'
  <2>1. phase = "register" /\ Take(c) /\ UNCHANGED <<conn, type>>
    BY <1>8 DEF login, Take
  <2>2. CASE Admit(c)
    BY <2>1, <2>2, AdmitCountOK
  <2>3. CASE ~Admit(c)
    <3>1. reg'.new = reg.new
      BY <1>1, <1>8, <2>3 DEF login, NotVerified, LoginFails, InvalidClientType, NewerLogin,
                              InvalidAlias, TypeOK
    <3> QED
      BY <1>1, <2>1, <3>1, FewerClaims DEF Take, Claimed, Players
  <2> QED
    BY <2>2, <2>3
<1>9. CASE EndRegister
  <2>1. /\ reg \in RegType /\ reg.new \in SUBSET Client /\ reg'.new = {}
    BY <1>1, <1>9 DEF TypeOK, RegType, EndRegister, NoReg
  <2>2. \A c \in Client : player'[c] = IF c \in reg.new THEN pending[c].uuid ELSE player[c]
    BY <1>9 DEF EndRegister
  <2> QED
    BY <1>1, <2>1, <2>2, FewerClaims DEF Claimed, Players
<1>10. CASE handle_client_disconnect
  <2>1. \A c \in Client : player'[c] = IF c \in leaving THEN None ELSE player[c]
    BY <1>10 DEF handle_client_disconnect
  <2>2. reg' = reg /\ reg.new = {}
    BY <1>10 DEF handle_client_disconnect, IInv, RegOK, NoReg
  <2> QED
    BY <1>1, <2>1, <2>2, FewerClaims DEF Claimed, Players
<1> QED
  BY <1>2, <1>3, <1>4, <1>5, <1>6, <1>7, <1>8, <1>9, <1>10 DEF Next, Tick

----------------------------------------------------------------------------
(* What follows                                                             *)

(* However the logins, retries and disconnections of the ticks fall, the    *)
(* register system never admits an account that an announced player has,    *)
(* and a player has no login that is under way.                             *)
THEOREM UniquePlayers == Spec => []SessionsConsistent
<1>1. IInv => SessionsConsistent
  BY DEF IInv, SessionsConsistent
<1> QED
  BY <1>1, Invariance, PTL

(* A ban ends the session of whoever it applies to; one session, where a    *)
(* silent spectator is beside another.                                      *)
THEOREM NoBannedPlayers == Spec => []BannedAreLeaving
<1>1. IInv => BannedAreLeaving
  BY DEF IInv
<1> QED
  BY <1>1, Invariance, PTL

(* Only EndRegister makes players, of those who claimed a place, and no ban *)
(* comes between the check and that.                                        *)
LEMMA AdmittedNotBanned ==
  ASSUME IInv, [Next]_vars, NEW c \in Players' \ Players PROVE ~ban_applies(player[c])'
<1>1. c \in Client /\ player'[c] # None /\ player[c] = None
  BY DEF Players
<1>2. CASE EndRegister
  <2>1. c \in reg.new
    BY <1>1, <1>2 DEF EndRegister
  <2>2. player'[c] = pending[c].uuid /\ banned' = banned
    BY <1>1, <1>2, <2>1 DEF EndRegister
  <2>3. ~ban_applies(pending[c].uuid)
    BY <2>1 DEF IInv, ClaimsOK
  <2> QED
    BY <2>2, <2>3 DEF ban_applies
<1>3. CASE ~EndRegister
  <2>1. player'[c] = player[c] \/ player'[c] = None
    BY <1>1, <1>3
    DEF Next, vars, verify, Verified, ConnectionEnds, handle_ban, Tick, BeginRegister, login,
        Take, handle_client_disconnect
  <2> QED
    BY <1>1, <2>1
<1> QED
  BY <1>2, <1>3

(* A ban that meets a login between its verification and its admission, or  *)
(* a retry, stops it, that of a moderator like any other.                   *)
THEOREM BannedAreRefused == Spec => BannedStayOut
<1>1. IInv /\ [Next]_vars => [\A c \in Players' \ Players : ~ban_applies(player[c])']_vars
  BY AdmittedNotBanned
<1> QED
  BY <1>1, Invariance, PTL DEF Spec, BannedStayOut

(* Every client is told of everybody who comes or goes exactly as they do.  *)
THEOREM PlayerListsAgree == Spec => []ListsAreCurrent
<1>1. IInv => ListsAreCurrent
  BY DEF IInv, ListsOK, ListsAreCurrent
<1> QED
  BY <1>1, Invariance, PTL

(* Logins of one tick, checked side by side, never claim more places than   *)
(* there are.                                                               *)
THEOREM PlacesSuffice == Spec => []PlayersFit
<1>1. IInv /\ CountOK => PlayersFit
  <2> SUFFICES ASSUME IInv, CountOK PROVE PlayersFit
    OBVIOUS
  <2> DEFINE P == {c \in Players : player[c] \notin Admin}
  <2>1. P \in SUBSET Claimed
    BY DEF Claimed
  <2>2. /\ IsFiniteSet(Claimed) /\ Cardinality(Claimed) \in Nat
    BY ClaimedFinite DEF IInv
  <2>3. Cardinality(P) <= Cardinality(Claimed) /\ Cardinality(P) \in Nat
    BY <2>1, <2>2, FS_Subset, FS_CardinalityType
  <2> QED
    BY <2>2, <2>3, SessionsAssumption DEF CountOK, PlayersFit
<1>2. Init => CountOK
  BY InitOK
<1> QED
  BY <1>1, <1>2, CountStepOK, Invariance, PTL DEF Spec
=============================================================================
