------------------------------ MODULE Sessions ------------------------------
(***************************************************************************)
(* From a connection to a player and back: the register system, which       *)
(* admits all pending logins of a tick in parallel, and the disconnections, *)
(* which are handled later in the same tick.  An account that logs in again *)
(* takes over: the older session is ended and the login tried again in the  *)
(* next tick.  The authentication server answers when it likes.             *)
(***************************************************************************)
EXTENDS Naturals, FiniteSets

CONSTANTS
  Client,       \* connections; each is used once
  Uuid,         \* accounts
  Role,         \* their role in the admins file: 0 none, 1 Moderator, 2 Admin
  Whitelist,    \* accounts in the whitelist file; nobody there: everybody may join
  BadAlias,     \* accounts whose alias Player::is_valid refuses
  MaxPlayers,   \* settings.max_players
  MaxBans,      \* bound: the accounts that are banned
  Types,        \* the combinations of client types to look at
  Account,      \* the accounts that a client may log in with
  None

(* ClientType: Game, SilentSpectator, and Bot { privileged: true }.         *)
Type == {"game", "silent", "bot"}

(* Accounts in the admins file, moderators and administrators.              *)
Admin == {u \in Uuid : Role[u] > 0}

Login == [uuid : Uuid, is : {"asked", "verified", "failed"}]

ASSUME SessionsAssumption ==
  /\ IsFiniteSet(Client)
  /\ Role \in [Uuid -> 0..2]
  /\ Whitelist \subseteq Uuid /\ BadAlias \subseteq Uuid
  /\ Types \subseteq [Client -> Type]
  /\ Account \in [Client -> SUBSET Uuid]
  /\ MaxPlayers \in Nat /\ MaxBans \in Nat
  /\ None \notin Uuid /\ None \notin Login

VARIABLES
  conn,       \* "here": an entity with a Client component; "gone": deleted
  type,       \* Client::client_type
  pending,    \* PendingLogin component: [uuid, is] with is "asked", "verified" or "failed"
  player,     \* Player component: its account
  answer,     \* what the client has read from the register stream
  list,       \* Client::player_list, once the messages to the client have arrived
  banned,     \* of every account, the role of who banned it; 0: no ban
  leaving,    \* entities with a ClientDisconnectEvent on the bus
  phase,      \* part of the server's tick: "idle", "register", "events"
  todo,       \* register system: logins that it has yet to look at
  reg         \* register system: [new : new_players, retries, finished : finished_pending]

vars == <<conn, type, pending, player, answer, list, banned, leaving, phase, todo, reg>>
tickVars == <<phase, todo, reg>>

NoReg == [new |-> {}, retries |-> {}, finished |-> {}]

Init ==
  /\ conn = [c \in Client |-> "here"]
  /\ type \in Types
  /\ pending = [c \in Client |-> None]
  /\ player = [c \in Client |-> None]
  /\ answer = [c \in Client |-> "none"]
  /\ list = [c \in Client |-> {}]
  /\ banned = [u \in Uuid |-> 0] /\ leaving = {}
  /\ phase = "idle" /\ todo = {} /\ reg = NoReg

emit_login_events(c) == type[c] # "silent"
is_valid_for_role(c) == type[c] # "game" => pending[c].uuid \in Admin

Players == {c \in Client : player[c] # None}
Announced(S) == {c \in S : emit_login_events(c)}
player_list == Announced(Players)

(* Players do not change while the register system runs.                    *)
old_players_by_uuid(u) == {c \in player_list : player[c] = u}
new_players_by_uuid(u) == {c \in reg.new : pending[c].uuid = u}

----------------------------------------------------------------------------
(* First message of a connection, and the answer of the authentication server   *)

(* ClientRegister arrives, and verify asks the server or derives the uuid.  *)
(* A connection sends it once, as the client does; the server would take it *)
(* again at any time.                                                       *)
verify(c, u) ==
  /\ phase = "idle"
  /\ conn[c] = "here" /\ answer[c] = "none"
  /\ pending' = [pending EXCEPT ![c] = [uuid |-> u, is |-> "asked"]]
  /\ answer' = [answer EXCEPT ![c] = "waiting"]
  /\ UNCHANGED <<conn, type, player, list, banned, leaving>> /\ UNCHANGED tickVars

Verified(c, is) ==
  /\ pending[c] # None /\ pending[c].is = "asked"
  /\ pending' = [pending EXCEPT ![c].is = is]
  /\ UNCHANGED <<conn, type, player, answer, list, banned, leaving>> /\ UNCHANGED tickVars

----------------------------------------------------------------------------
(* The register system.  The logins are handled on several threads, but all *)
(* from counting the players to claiming the place is done under one lock.  *)

BeginRegister ==
  /\ phase = "idle"
  /\ phase' = "register"
  /\ todo' = {c \in Client : conn[c] = "here" /\ pending[c] # None /\ player[c] = None}
  /\ reg' = NoReg
  /\ UNCHANGED <<conn, type, pending, player, answer, list, banned, leaving>>

Take(c) ==
  /\ c \in todo
  /\ todo' = todo \ {c}
  /\ UNCHANGED <<conn, type, pending, player, banned, phase>>

NotVerified(c) ==
  /\ pending[c].is = "asked"
  /\ UNCHANGED <<reg, leaving, answer, list>>

(* A role as high as that of who banned overrides the ban.                  *)
ban_applies(u)   == banned[u] > Role[u]
OnWhitelist(u)   == u \in Admin \/ Whitelist = {} \/ u \in Whitelist
CountWithoutNew  == Cardinality(player_list)                   \* slip: same tick forgotten
player_count     == Cardinality(player_list) + Cardinality(reg.new)
HasPlace(u)      == u \in Admin \/ player_count < MaxPlayers

(* slip: the ban list is looked at when the answer is asked for             *)
login_ok_of_verified(c) ==
  pending[c].is = "verified" /\ OnWhitelist(pending[c].uuid) /\ HasPlace(pending[c].uuid)

(* LoginProvider::login                                                     *)
login_ok(c) ==
  /\ pending[c].is = "verified"
  /\ ~ban_applies(pending[c].uuid)
  /\ OnWhitelist(pending[c].uuid)
  /\ HasPlace(pending[c].uuid)

Kick(S) == leaving' = leaving \cup S
Refuse(c) == answer' = [answer EXCEPT ![c] = "refused"]

LoginFails(c) ==
  /\ pending[c].is # "asked" /\ ~login_ok(c)
  /\ reg' = [reg EXCEPT !.finished = @ \cup {c}]
  /\ Refuse(c) /\ Kick({c})
  /\ UNCHANGED list

(* Not finished: the PendingLogin goes with the entity in the same tick.    *)
InvalidClientType(c) ==
  /\ login_ok(c) /\ ~is_valid_for_role(c)
  /\ Kick({c})
  /\ UNCHANGED <<reg, answer, list>>

old_player_of_earlier_ticks(u) == old_players_by_uuid(u)     \* slip

(* The session that has the account: one from earlier ticks before one that *)
(* was admitted in this tick.                                               *)
old_player(u) ==
  IF old_players_by_uuid(u) # {} THEN old_players_by_uuid(u) ELSE new_players_by_uuid(u)

(* The old session is ended; the login is repeated with the same answer.    *)
NewerLogin(c) ==
  /\ login_ok(c) /\ is_valid_for_role(c)
  /\ old_player(pending[c].uuid) # {}
  /\ reg' = [reg EXCEPT !.finished = @ \cup {c}, !.retries = @ \cup {c}]
  /\ \E old \in old_player(pending[c].uuid) : Kick({old})
  /\ UNCHANGED <<answer, list>>

InvalidAlias(c) ==
  /\ login_ok(c) /\ is_valid_for_role(c)
  /\ old_player(pending[c].uuid) = {} /\ pending[c].uuid \in BadAlias
  /\ reg' = [reg EXCEPT !.finished = @ \cup {c}]
  /\ Refuse(c)
  /\ UNCHANGED <<leaving, list>>

(* The place is claimed, and the client gets the players of earlier ticks.  *)
Admit(c) ==
  /\ login_ok(c) /\ is_valid_for_role(c)
  /\ old_player(pending[c].uuid) = {} /\ pending[c].uuid \notin BadAlias
  /\ reg' = [reg EXCEPT !.finished = @ \cup {c}, !.new = @ \cup {c}]
  /\ answer' = [answer EXCEPT ![c] = "ok"]
  /\ list' = [list EXCEPT ![c] = player_list]
  /\ UNCHANGED leaving

login(c) ==
  /\ phase = "register"
  /\ Take(c)
  /\ \/ NotVerified(c) \/ LoginFails(c) \/ InvalidClientType(c)
     \/ NewerLogin(c) \/ InvalidAlias(c) \/ Admit(c)

RetriesThenFinished ==                                         \* slip
  [c \in Client |-> IF c \in reg.finished THEN None ELSE pending[c]]

(* finished_pending are removed first, then the retries are inserted.       *)
AfterRegister ==
  [c \in Client |->
     IF c \in reg.retries THEN [pending[c] EXCEPT !.is = "verified"]
     ELSE IF c \in reg.finished THEN None ELSE pending[c]]

told_others(who) ==                                            \* slip: not the newcomers
  [c \in Client |-> IF c \in Players THEN list[c] \cup Announced(reg.new) ELSE list[c]]
told(who) == [c \in Client |-> IF c \in who THEN list[c] \cup Announced(reg.new) ELSE list[c]]

EndRegister ==
  /\ phase = "register" /\ todo = {}
  /\ player' = [c \in Client |-> IF c \in reg.new THEN pending[c].uuid ELSE player[c]]
  /\ pending' = AfterRegister
  /\ list' = told(Players \cup reg.new)
  /\ phase' = "events" /\ reg' = NoReg
  /\ UNCHANGED <<conn, type, answer, banned, leaving, todo>>

----------------------------------------------------------------------------
(* The other systems of a tick, and its events                              *)

(* ping, network_events, in_game...: a timeout, an error, or Terminate.  No  *)
(* other system looks at the bus before the events are handled.             *)
ConnectionEnds(c) ==
  /\ phase = "idle"
  /\ conn[c] = "here" /\ c \notin leaving
  /\ Kick({c})
  /\ UNCHANGED <<conn, type, pending, player, answer, list, banned>> /\ UNCHANGED tickVars

(* handle_client_disconnect, of all clients that have an event.             *)
Without(S) == [c \in Client |-> IF c \in leaving THEN {} ELSE list[c] \ Announced(S)]

handle_client_disconnect ==
  /\ phase = "events"
  /\ conn' = [c \in Client |-> IF c \in leaving THEN "gone" ELSE conn[c]]
  /\ pending' = [c \in Client |-> IF c \in leaving THEN None ELSE pending[c]]
  /\ player' = [c \in Client |-> IF c \in leaving THEN None ELSE player[c]]
  /\ list' = Without(leaving \cap Players)
  /\ leaving' = {} /\ phase' = "idle"
  /\ UNCHANGED <<type, answer, banned, todo, reg>>

AdminsOutrank(by, u) == Role[by] = 2 /\ u \notin Admin          \* slip
outranks(by, u) == Role[by] > Role[u]

(* handle_ban: commands come after the disconnections, so that the one it   *)
(* asks for is handled in the next tick.  A ban is written over an earlier  *)
(* one, and for anybody; only the session that find_uuid comes upon first   *)
(* is kicked, and only by one who outranks it.                              *)
handle_ban(by, u) ==
  /\ phase = "idle"
  /\ banned[u] > 0 \/ Cardinality({w \in Uuid : banned[w] > 0}) < MaxBans
  /\ banned' = [banned EXCEPT ![u] = Role[by]]
  /\ IF outranks(by, u) /\ \E c \in Client : player[c] = u
     THEN \E c \in Client : player[c] = u /\ Kick({c})
     ELSE UNCHANGED leaving
  /\ UNCHANGED <<conn, type, pending, player, answer, list>> /\ UNCHANGED tickVars

Tick == BeginRegister \/ (\E c \in Client : login(c)) \/ EndRegister \/ handle_client_disconnect

Next ==
  \/ \E c \in Client :
       \/ \E u \in Account[c] : verify(c, u)
       \/ \E is \in {"verified", "failed"} : Verified(c, is)
       \/ ConnectionEnds(c)
  \/ \E by \in Admin, u \in Uuid : handle_ban(by, u)
  \/ Tick

Spec == Init /\ [][Next]_vars

(* The server ticks, and the authentication server answers, if only with an *)
(* error: a lost answer closes the channel.                                 *)
FairSpec ==
  /\ Spec
  /\ []<><<BeginRegister>>_vars
  /\ \A c \in Client : []<>(pending[c] = None \/ pending[c].is # "asked")

----------------------------------------------------------------------------
(* Properties                                                               *)

TypeOK ==
  /\ conn \in [Client -> {"here", "gone"}]
  /\ type \in [Client -> Type]
  /\ pending \in [Client -> Login \cup {None}]
  /\ player \in [Client -> Uuid \cup {None}]
  /\ answer \in [Client -> {"none", "waiting", "refused", "ok"}]
  /\ list \in [Client -> SUBSET Client]
  /\ banned \in [Uuid -> 0..2]
  /\ leaving \subseteq Client
  /\ phase \in {"idle", "register", "events"}
  /\ todo \subseteq {c \in Client : pending[c] # None}
  /\ \A c \in Players : pending[c] = None
  /\ reg \in [new : SUBSET Client, retries : SUBSET Client, finished : SUBSET Client]

(* The register system's invariant: there is just one player per UUID, of   *)
(* those the player list shows, however logins, retries and disconnections  *)
(* of a tick fall together.                                                 *)
OnePlayerPerUuid ==
  \A c, d \in player_list : player[c] = player[d] => c = d

(* All variables have their types (a player has no login under way), and no *)
(* account has two players.                                                 *)
SessionsConsistent == TypeOK /\ OnePlayerPerUuid

(* Nobody with a ban plays on: whoever was admitted before it is being      *)
(* disconnected.  The exception is an account with a role, banned by a      *)
(* higher one, that has or had a silent spectator beside another session:   *)
(* a ban ends one of them.                                                  *)
SilentBeside(u) ==
  u \in Admin /\ \E d \in Client : type[d] = "silent" /\ answer[d] = "ok" /\ u \in Account[d]

BannedAreLeaving ==
  \A c \in Players : ban_applies(player[c]) => c \in leaving \/ SilentBeside(player[c])

(* Nobody becomes a player under a ban that applies, whatever the role:     *)
(* whoever was verified before the ban, or is tried again after it, is      *)
(* checked against the list in the tick of its admission.                   *)
BannedStayOut == [][\A c \in Players' \ Players : ~ban_applies(player[c])']_vars

(* The players who are no admins are never more than max_players, although  *)
(* all logins of a tick are checked side by side.                           *)
PlayersFit == Cardinality({c \in Players : player[c] \notin Admin}) <= MaxPlayers

(* The list at every client shows exactly the players in the game who are   *)
(* announced: a newcomer gets the old players with its login, those         *)
(* admitted beside it with the additions, and everybody all removals.       *)
ListsAreCurrent == \A c \in Players : list[c] = player_list

(* Every login is answered or its connection closed: also the one that has  *)
(* to wait for an older session to end.                                     *)
LoginsAreAnswered ==
  \A c \in Client : answer[c] = "waiting" ~> answer[c] # "waiting" \/ conn[c] = "gone"

----------------------------------------------------------------------------
(* Statements of the sources that do not hold: the README says when.        *)

(* "there is just one player per UUID": of all players.                     *)
OneSessionPerUuid == \A c, d \in Players : player[c] = player[d] => c = d

(* "If the player is online kick them": all sessions of the player.         *)
BannedAllLeave == \A c \in Players : ban_applies(player[c]) => c \in leaving
=============================================================================
