----------------------------- MODULE Persistence -----------------------------
(***************************************************************************)
(* Character persistence of the server: the character screen, the entity    *)
(* lifecycle of a session, the batches of CharacterUpdater, its background  *)
(* thread, and the thread of CharacterLoader.                               *)
(*                                                                          *)
(* Three threads run concurrently.  The main thread runs Server::tick:      *)
(*   "systems"   the ECS systems (client messages, the persistence system), *)
(*   "handlers"  disconnect_all_clients_if_requested, then handle_events,   *)
(*               one action per event, in the order of                      *)
(*               handle_all_serial_events, then DisconnectedSuccess,        *)
(*   "poll"      the messages of the two persistence threads.               *)
(* The updater thread takes one message of its channel per step; the loader *)
(* thread answers one request per step.  A character is abstracted to the   *)
(* number of coins it owns: what is persisted, and what players exchange.   *)
(***************************************************************************)
EXTENDS Integers, Sequences, FiniteSetsExt

CONSTANTS
  Player,       \* accounts; each has at most one connection
  Char,         \* characters
  Owner,        \* the account a character belongs to
  Custom,       \* accounts whose client is not the shipped one: it may ask
                \* for any character and delete from within the game
  Hardcore,     \* characters that are deleted when they die
  Coins,        \* coins every character starts with
  BatchId,      \* ids of batches (only ever compared for equality)
  NoChar, NoAction,
  MaxBacklog,   \* bound: messages waiting for the updater thread
  MaxEvents,    \* bound: client requests that raise an event in one tick
  MayFail,      \* can a database transaction fail?
  MayCrash      \* can the process die and be restarted?

ASSUME PersistenceAssumption ==
  /\ Owner \in [Char -> Player]
  /\ Custom \subseteq Player
  /\ Hardcore \subseteq Char
  /\ Coins \in [Char -> Nat]
  /\ NoChar \notin Char
  /\ NoAction \notin [state : {"new"}, row : Nat \cup {-1, -2}]
                  \cup [state : {"submitted"}, id : BatchId]
  /\ {MaxBacklog, MaxEvents} \subseteq Nat \ {0}
  /\ {MayFail, MayCrash} \subseteq BOOLEAN

VARIABLES
  pc,          \* where Server::tick is
  presence,    \* per account: the connection and its Presence component
  character,   \* the character being selected, loaded or played
  load,        \* the request to the loader, or its answer, for the live entity
  ev,          \* the event buses the serial handlers drain
  mem,         \* coins of the characters in the game
  dead,        \* hardcore characters in the game whose health is_dead
  pending,     \* CharacterUpdater::pending_database_actions
  disc,        \* Server::disconnect_all_clients_requested, DisconnectType
  flag,        \* CharacterUpdater::disconnect_all_clients_requested (atomic)
  updQ,        \* channel to the updater thread
  completed,   \* answers of the updater thread: ids of completed batches
  db           \* the committed rows

sessionVars == <<presence, character, load, mem, dead>>
threadVars  == <<flag, updQ, completed, db>>
vars == <<pc, sessionVars, ev, pending, disc, threadVars>>

Gone   == -1                       \* there is no row for the character
Keep   == -2                       \* in a batch: the row is not written
Row    == Nat \cup {Gone}
Idle   == [stage |-> "idle", row |-> Gone]
NoEvent == [init |-> {}, delete |-> {}, exit |-> {}, disc |-> {}, discNP |-> {}]

(* DatabaseAction: New(UpdateCharacter), New(DeleteCharacter), Submitted.   *)
New(row)      == [state |-> "new", row |-> row]
Submitted(id) == [state |-> "submitted", id |-> id]
IsNew(c)      == pending[c] # NoAction /\ pending[c].state = "new"

(* CharacterUpdaterAction                                                   *)
BatchUpdateMsg(id, updates) == [type |-> "batch", id |-> id, updates |-> updates]
DisconnectedSuccess         == [type |-> "disconnected"]

(* Who runs a character.                                                    *)
InGame(p)  == presence[p] = "ingame"
Online     == {character[p] : p \in {q \in Player : InGame(q)}}

(* Ids some entry, message or answer still refers to.                       *)
UsedIds == {pending[c].id : c \in {d \in Char : pending[d] # NoAction /\ ~IsNew(d)}}
           \cup {updQ[i].id : i \in {j \in DOMAIN updQ : updQ[j].type = "batch"}}
           \cup completed

----------------------------------------------------------------------------
(* CharacterUpdater, as the main thread uses it                             *)

(* Slip: an entry handed to the updater thread no longer counts.            *)
OnlyNewEntriesBlock(c) == IsNew(c)

has_pending_database_action(c) == pending[c] # NoAction

add_pending_logout_update(c) ==
  IF flag \/ pending[c] # NoAction
  THEN pending
  ELSE [pending EXCEPT ![c] = New(mem[c])]

(* p asks; the entry takes the place of any other, whoever p is.  That p    *)
(* owns c is a condition of the SQL statement: for the character of another *)
(* delete_character does nothing and succeeds.                              *)
queue_character_deletion(p, c) ==
  [pending EXCEPT ![c] = New(IF Owner[c] = p THEN Gone ELSE Keep)]

(* Slips: any completion clears everything; one completion is taken, the    *)
(* others of the same tick are dropped.                                     *)
CompletionClearsAll(ids) ==
  [c \in Char |-> IF ids # {} THEN NoAction ELSE pending[c]]
OneCompletionPerTick(ids) ==
  LET id == CHOOSE i \in ids : TRUE
  IN  [c \in Char |-> IF ids # {} /\ pending[c] = Submitted(id)
                      THEN NoAction ELSE pending[c]]

process_batch_completion(ids) ==
  [c \in Char |-> IF \E id \in ids : pending[c] = Submitted(id)
                  THEN NoAction ELSE pending[c]]

----------------------------------------------------------------------------
Init ==
  /\ pc = "systems"
  /\ presence = [p \in Player |-> "offline"]
  /\ character = [p \in Player |-> NoChar]
  /\ load = [p \in Player |-> Idle]
  /\ ev = NoEvent
  /\ mem = [c \in Char |-> 0]
  /\ dead = {}
  /\ pending = [c \in Char |-> NoAction]
  /\ disc = [requested |-> FALSE, type |-> "none"]
  /\ flag = FALSE
  /\ updQ = <<>>
  /\ completed = {}
  /\ db = Coins

----------------------------------------------------------------------------
(* The systems phase: client messages, gameplay, the persistence system     *)

EventRoom == Cardinality(ev.init) + Cardinality(ev.delete) + Cardinality(ev.exit)
             + Cardinality(ev.disc) < MaxEvents

(* A client registers and reaches the character screen.                     *)
Connect(p) ==
  /\ pc = "systems"
  /\ presence[p] = "offline"
  /\ presence' = [presence EXCEPT ![p] = "screen"]
  /\ UNCHANGED <<pc, character, load, ev, mem, dead, pending, disc, threadVars>>

(* ClientGeneral::Character accepted: the load is requested and             *)
(* InitializeCharacterEvent emitted.  A refused request changes nothing.    *)
RequestCharacter(p, c) ==
  /\ pc = "systems"
  /\ EventRoom
  /\ Owner[c] = p \/ p \in Custom
  /\ presence[p] = "screen"
  /\ p \notin ev.init               \* the client waits for the answer
  /\ ~has_pending_database_action(c)
  /\ ~flag
  /\ load' = [load EXCEPT ![p] = [stage |-> "asked", row |-> Gone]]
  /\ character' = [character EXCEPT ![p] = c]
  /\ ev' = [ev EXCEPT !.init = @ \cup {p}]
  /\ UNCHANGED <<pc, presence, mem, dead, pending, disc, threadVars>>

(* ClientGeneral::DeleteCharacter: the server takes it from whoever is      *)
(* registered; the shipped client picks a character from its list, at the   *)
(* character screen.                                                        *)
RequestDelete(p, c) ==
  /\ pc = "systems"
  /\ EventRoom
  /\ presence[p] # "offline"
  /\ (Owner[c] = p /\ presence[p] = "screen") \/ p \in Custom
  /\ ev' = [ev EXCEPT !.delete = @ \cup {<<p, c>>}]
  /\ UNCHANGED <<pc, sessionVars, pending, disc, threadVars>>

(* ClientGeneral::ExitInGame                                                *)
RequestExit(p) ==
  /\ pc = "systems"
  /\ EventRoom
  /\ presence[p] \in {"loading", "ingame"}
  /\ ev' = [ev EXCEPT !.exit = @ \cup {p}]
  /\ UNCHANGED <<pc, sessionVars, pending, disc, threadVars>>

(* ClientDisconnectEvent: the client leaves, times out or is kicked.        *)
LoseClient(p) ==
  /\ pc = "systems"
  /\ EventRoom
  /\ presence[p] # "offline"
  /\ ev' = [ev EXCEPT !.disc = @ \cup {p}]
  /\ UNCHANGED <<pc, sessionVars, pending, disc, threadVars>>

(* Gameplay: coins move from one character in the game to another.          *)
Transfer(c, d) ==
  /\ pc = "systems"
  /\ {c, d} \subseteq Online /\ c # d
  /\ mem[c] > 0
  /\ mem' = [mem EXCEPT ![c] = @ - 1, ![d] = @ + 1]
  /\ UNCHANGED <<pc, presence, character, load, ev, dead, pending, disc, threadVars>>

(* Gameplay: a hardcore character dies.                                     *)
Die(c) ==
  /\ pc = "systems"
  /\ c \in Online \cap Hardcore
  /\ dead' = dead \cup {c}
  /\ UNCHANGED <<pc, presence, character, load, ev, mem, pending, disc, threadVars>>

(* What the next batch writes for c: the update of a character in the game  *)
(* comes after (and so over) its pending action.                            *)
BatchRowOfPendingOnly(c) ==                 \* slip: only who logged out
  IF IsNew(c) THEN pending[c].row ELSE Keep

BatchRow(c) ==
  IF c \in Online THEN mem[c]
  ELSE IF IsNew(c) THEN pending[c].row
  ELSE Keep

(* The persistence system: new pending actions and the characters in the    *)
(* game make one batch.  With nothing to write no message is sent.          *)
batch_update_enabled ==
  /\ pc = "systems"
  /\ {c \in Char : IsNew(c)} \cup Online # {}
  /\ Len(updQ) < MaxBacklog
  /\ BatchId \ UsedIds # {}

batch_update ==
  LET fresh   == {c \in Char : IsNew(c)}
      id      == CHOOSE i \in BatchId : i \notin UsedIds
      updates == [c \in Char |-> BatchRow(c)]
  IN
  /\ batch_update_enabled
  /\ pending' = [c \in Char |-> IF c \in fresh THEN Submitted(id) ELSE pending[c]]
  /\ updQ' = Append(updQ, BatchUpdateMsg(id, updates))
  /\ UNCHANGED <<pc, sessionVars, ev, disc, flag, completed, db>>

----------------------------------------------------------------------------
(* disconnect_all_clients_if_requested ends the systems phase.              *)
ClientsWithoutPresence == {p \in Player : presence[p] = "screen"}   \* slip

Clients == {p \in Player : presence[p] # "offline"}

disconnect_all_clients_if_requested ==
  /\ pc = "systems"
  /\ pc' = "handlers"
  /\ CASE flag ->
            /\ ev' = [ev EXCEPT !.discNP = Clients]
            /\ disc' = [requested |-> FALSE, type |-> "without"]
       [] ~flag /\ disc.requested ->
            /\ ev' = [ev EXCEPT !.disc = Clients]
            /\ disc' = [requested |-> FALSE, type |-> "with"]
       [] OTHER ->
            /\ disc' = [disc EXCEPT !.type = "none"]
            /\ UNCHANGED ev
  /\ UNCHANGED <<sessionVars, pending, threadVars>>

----------------------------------------------------------------------------
(* The serial event handlers, in the order of handle_all_serial_events      *)

(* The entity of p is deleted; a connected client gets a new one (state st  *)
(* "screen") or is gone ("offline").  The answer of a load addressed to the *)
(* old entity is dropped, and so are the events that name it, except that   *)
(* a deletion is queued all the same.                                       *)
DeleteEntity(p, st) ==
  /\ presence' = [presence EXCEPT ![p] = st]
  /\ character' = [character EXCEPT ![p] = NoChar]
  /\ load' = [load EXCEPT ![p] = Idle]
  /\ mem' = [c \in Char |-> IF InGame(p) /\ c = character[p] THEN 0 ELSE mem[c]]
  /\ dead' = IF InGame(p) THEN dead \ {character[p]} ELSE dead

NoEventFor(p) == [ev EXCEPT !.init = @ \ {p}, !.exit = @ \ {p},
                            !.disc = @ \ {p}, !.discNP = @ \ {p}]

(* persist_entity: only a loaded character is persisted, and a dead         *)
(* hardcore character is deleted instead.                                   *)
persist_entity(p) ==
  IF ~InGame(p) THEN pending
  ELSE IF character[p] \in dead THEN queue_character_deletion(p, character[p])
  ELSE add_pending_logout_update(character[p])

Delivered == {p \in Player : load[p].stage = "delivered"}

handle_initialize_character(p) ==
  /\ pc = "handlers"
  /\ p \in ev.init
  /\ IF ~has_pending_database_action(character[p])
     THEN /\ presence' = [presence EXCEPT ![p] = "loading"]
          /\ ev' = [ev EXCEPT !.init = @ \ {p}]
          /\ UNCHANGED <<character, load, mem, dead>>
     ELSE /\ DeleteEntity(p, "screen")
          /\ ev' = NoEventFor(p)
  /\ UNCHANGED <<pc, pending, disc, threadVars>>

(* update_character_data: the answer is applied to the loading entity.      *)
handle_loaded_character_data(p) ==
  /\ pc = "handlers"
  /\ ev.init = {}
  /\ p \in Delivered
  /\ presence[p] = "loading"
  /\ presence' = [presence EXCEPT ![p] = "ingame"]
  /\ mem' = [mem EXCEPT ![character[p]] = load[p].row]
  /\ load' = [load EXCEPT ![p] = Idle]
  /\ UNCHANGED <<pc, character, dead, ev, pending, disc, threadVars>>

HasLoadedPresence(p) == InGame(p)                 \* slip: not while loading

HasPresence(p) == presence[p] \in {"loading", "ingame"}

(* A requester that has a presence is first put back to the character       *)
(* screen, without persistence.                                             *)
handle_character_delete(p, c) ==
  /\ pc = "handlers"
  /\ ev.init = {} /\ Delivered = {}
  /\ <<p, c>> \in ev.delete
  /\ IF HasPresence(p)
     THEN /\ DeleteEntity(p, "screen")
          /\ ev' = [NoEventFor(p) EXCEPT !.delete = @ \ {<<p, c>>}]
     ELSE /\ ev' = [ev EXCEPT !.delete = @ \ {<<p, c>>}]
          /\ UNCHANGED sessionVars
  /\ pending' = queue_character_deletion(p, c)
  /\ UNCHANGED <<pc, disc, threadVars>>

handle_exit_ingame(p) ==
  /\ pc = "handlers"
  /\ ev.init = {} /\ Delivered = {} /\ ev.delete = {}
  /\ p \in ev.exit
  /\ DeleteEntity(p, "screen")
  /\ ev' = NoEventFor(p)
  /\ pending' = persist_entity(p)
  /\ UNCHANGED <<pc, disc, threadVars>>

handle_client_disconnect(p) ==
  /\ pc = "handlers"
  /\ ev.init = {} /\ Delivered = {} /\ ev.delete = {} /\ ev.exit = {}
  /\ p \in ev.disc
  /\ DeleteEntity(p, "offline")
  /\ ev' = NoEventFor(p)
  /\ pending' = persist_entity(p)
  /\ UNCHANGED <<pc, disc, threadVars>>

handle_client_disconnect_without_persistence(p) ==
  /\ pc = "handlers"
  /\ ev.init = {} /\ Delivered = {} /\ ev.delete = {} /\ ev.exit = {} /\ ev.disc = {}
  /\ p \in ev.discNP
  /\ DeleteEntity(p, "offline")
  /\ ev' = NoEventFor(p)
  /\ UNCHANGED <<pc, pending, disc, threadVars>>

(* An administrator's command, handled after the disconnections.            *)
RequestDisconnectAll ==
  /\ pc = "handlers"
  /\ ev = NoEvent /\ Delivered = {}
  /\ ~disc.requested
  /\ disc' = [disc EXCEPT !.requested = TRUE]
  /\ UNCHANGED <<pc, sessionVars, ev, pending, threadVars>>

(* The handlers are done: after a disconnection without persistence the     *)
(* updater thread is told so.                                               *)
disconnected_success ==
  /\ pc = "handlers"
  /\ ev = NoEvent /\ Delivered = {}
  /\ pc' = "poll"
  /\ disc' = [disc EXCEPT !.type = "none"]
  /\ IF disc.type = "without"
     THEN Len(updQ) < MaxBacklog /\ updQ' = Append(updQ, DisconnectedSuccess)
     ELSE UNCHANGED updQ
  /\ UNCHANGED <<sessionVars, ev, pending, flag, completed, db>>

(* Messages of both threads: completed batches, loaded characters (applied  *)
(* next tick) and failed loads (the client leaves the game next tick).      *)
NobodyLeaves(errs) == {}                          \* slip: errors only logged

LoadFails(p)     == load[p].row = Gone
LeaveGame(errs)  == errs

PollMessages ==
  LET answered == {p \in Player : load[p].stage = "answered"}
      failed   == {p \in answered : LoadFails(p)}
  IN
  /\ pc = "poll"
  /\ pc' = "systems"
  /\ pending' = process_batch_completion(completed)
  /\ completed' = {}
  /\ load' = [p \in Player |->
                IF p \in failed THEN Idle
                ELSE IF p \in answered THEN [stage |-> "delivered", row |-> load[p].row]
                ELSE load[p]]
  /\ ev' = [ev EXCEPT !.exit = @ \cup LeaveGame(failed)]
  /\ UNCHANGED <<presence, character, mem, dead, disc, flag, updQ, db>>

----------------------------------------------------------------------------
(* The loader thread reads the committed row, which it only finds for the   *)
(* account that owns the character.                                         *)
LoadedRow(p) == IF Owner[character[p]] = p THEN db[character[p]] ELSE Gone

LoaderAnswers(p) ==
  /\ load[p].stage = "asked"
  /\ load' = [load EXCEPT ![p] = [stage |-> "answered", row |-> LoadedRow(p)]]
  /\ UNCHANGED <<pc, presence, character, ev, mem, dead, pending, disc, threadVars>>

(* The updater thread: execute_batch_update is one transaction, which an    *)
(* update of a missing row makes fail.                                      *)
Writable(updates) == \A c \in Char : updates[c] \in Nat => db[c] # Gone

HeadIsBatch == updQ # <<>> /\ Head(updQ).type = "batch"

BatchCommits ==
  LET updates == Head(updQ).updates
  IN
  /\ HeadIsBatch /\ ~flag
  /\ Writable(updates)
  /\ db' = [c \in Char |-> IF updates[c] # Keep THEN updates[c] ELSE db[c]]
  /\ completed' = completed \cup {Head(updQ).id}
  /\ updQ' = Tail(updQ)
  /\ UNCHANGED <<pc, sessionVars, ev, pending, disc, flag>>

BatchFails ==
  /\ HeadIsBatch /\ ~flag
  /\ MayFail \/ ~Writable(Head(updQ).updates)
  /\ flag' = TRUE
  /\ completed' = completed \cup {Head(updQ).id}
  /\ updQ' = Tail(updQ)
  /\ UNCHANGED <<pc, sessionVars, ev, pending, disc, db>>

(* While all clients are being disconnected a batch is skipped, unanswered. *)
BatchSkipped ==
  /\ HeadIsBatch /\ flag
  /\ updQ' = Tail(updQ)
  /\ UNCHANGED <<pc, sessionVars, ev, pending, disc, flag, completed, db>>

ResumeBatches ==
  /\ updQ # <<>> /\ Head(updQ) = DisconnectedSuccess
  /\ flag' = FALSE
  /\ updQ' = Tail(updQ)
  /\ UNCHANGED <<pc, sessionVars, ev, pending, disc, completed, db>>

(* The process dies and is restarted: only committed rows survive.          *)
Crash ==
  /\ MayCrash
  /\ pc' = "systems"
  /\ presence' = [p \in Player |-> "offline"]
  /\ character' = [p \in Player |-> NoChar]
  /\ load' = [p \in Player |-> Idle]
  /\ ev' = NoEvent
  /\ mem' = [c \in Char |-> 0]
  /\ dead' = {}
  /\ pending' = [c \in Char |-> NoAction]
  /\ disc' = [requested |-> FALSE, type |-> "none"]
  /\ flag' = FALSE
  /\ updQ' = <<>>
  /\ completed' = {}
  /\ UNCHANGED db

----------------------------------------------------------------------------
Client(p) ==
  \/ Connect(p)
  \/ \E c \in Char : RequestCharacter(p, c) \/ RequestDelete(p, c)
  \/ RequestExit(p)
  \/ LoseClient(p)

Handlers ==
  \/ \E p \in Player :
       \/ handle_initialize_character(p)
       \/ handle_loaded_character_data(p)
       \/ handle_exit_ingame(p)
       \/ handle_client_disconnect(p)
       \/ handle_client_disconnect_without_persistence(p)
       \/ \E c \in Char : handle_character_delete(p, c)

(* What the main thread does on its own in every tick.                      *)
Tick ==
  \/ disconnect_all_clients_if_requested
  \/ Handlers
  \/ disconnected_success
  \/ PollMessages

Updater == BatchCommits \/ BatchFails \/ BatchSkipped \/ ResumeBatches

Next ==
  \/ \E p \in Player : Client(p) \/ LoaderAnswers(p)
  \/ \E c, d \in Char : Transfer(c, d)
  \/ \E c \in Char : Die(c)
  \/ batch_update
  \/ RequestDisconnectAll
  \/ Tick
  \/ Updater
  \/ Crash

Spec == Init /\ [][Next]_vars

(* The server ticks on, the threads take what is sent to them, and the      *)
(* persistence system is scheduled again and again (every 10 s); clients    *)
(* and administrators do what they like.  These are weak fairness of Tick,  *)
(* Updater and LoaderAnswers and strong fairness of batch_update, with what *)
(* enables them written out and made use of: there is always a next tick.   *)
Fairness ==
  /\ []<><<disconnect_all_clients_if_requested>>_vars
  /\ []<><<updQ = <<>> \/ Updater>>_vars
  /\ \A p \in Player : []<>(load[p].stage # "asked")
  /\ <>[]~batch_update_enabled \/ []<><<batch_update>>_vars

FairSpec == Spec /\ Fairness

----------------------------------------------------------------------------
(* Properties                                                               *)

Action  == {NoAction} \cup [state : {"new"}, row : Row \cup {Keep}]
           \cup [state : {"submitted"}, id : BatchId]
Updates == [Char -> Row \cup {Keep}]
Message == [type : {"disconnected"}]
           \cup [type : {"batch"}, id : BatchId, updates : Updates]
Events  == [init : SUBSET Player, delete : SUBSET (Player \X Char), exit : SUBSET Player,
            disc : SUBSET Player, discNP : SUBSET Player]

(* Type invariant.                                                          *)
TypeOK ==
  /\ pc \in {"systems", "handlers", "poll"}
  /\ presence \in [Player -> {"offline", "screen", "loading", "ingame"}]
  /\ character \in [Player -> Char \cup {NoChar}]
  /\ load \in [Player -> [stage : {"idle", "asked", "answered", "delivered"}, row : Row]]
  /\ ev \in Events
  /\ mem \in [Char -> Nat]
  /\ dead \subseteq Hardcore
  /\ pending \in [Char -> Action]
  /\ disc \in [requested : BOOLEAN, type : {"none", "with", "without"}]
  /\ flag \in BOOLEAN
  /\ updQ \in Seq(Message)
  /\ completed \subseteq BatchId
  /\ db \in [Char -> Row]

(* Nobody plays a character, or has its data loaded, while its row is about *)
(* to be overwritten by a save of an earlier session or deleted ("the race  *)
(* condition of their login fetching their old data and overwriting the     *)
(* data saved here"), whatever the order of logouts, deletions, logins,     *)
(* failing batches and late answers.  What is left is the entry of a        *)
(* deletion asked for by an account that does not own the character: only a *)
(* client that is not the shipped one asks for that.                        *)
Plays(p) == HasPresence(p) /\ Owner[character[p]] = p

PendingExcludesPresence ==
  \A p \in Player : Plays(p) =>
    /\ ~(IsNew(character[p]) /\ pending[character[p]].row # Keep)
    /\ \A n \in DOMAIN updQ :
         updQ[n].type = "batch" => updQ[n].updates[character[p]] # Gone
    /\ pending[character[p]] # NoAction => Custom \ {p} # {}

(* All variables have their types, and sessions and saves exclude one       *)
(* another, whatever is selected, left, deleted and restarted.              *)
PersistenceConsistent == TypeOK /\ PendingExcludesPresence

(* From the moment a login asks for a character of its account until its    *)
(* data is applied, no batch under way writes that character, so that the   *)
(* several queries of load_character_data, outside a transaction, see one   *)
(* row; and the data applied to an entity is what the database holds then,  *)
(* however late.  (Clients are the shipped ones, Custom = {}.)              *)
LoadedRowIsCurrent ==
  \A p \in Player : load[p].stage # "idle" /\ Owner[character[p]] = p =>
    /\ \A n \in DOMAIN updQ :
         updQ[n].type = "batch" => updQ[n].updates[character[p]] = Keep
    /\ load[p].stage # "asked" => load[p].row = db[character[p]]

(* No transaction ever updates a row that an earlier one deleted: it would  *)
(* fail and take every other save of its batch with it.                     *)
BatchesAreWritable == HeadIsBatch => Writable(Head(updQ).updates)

(* A deletion accepted from the owner is not forgotten: only its own batch, *)
(* carrying the deletion, takes the entry away.  The exception is a later   *)
(* request of another account for the same character: its entry, which      *)
(* deletes nothing, takes the place of the owner's.                         *)
DeletionReachesBatch ==
  [][\A c \in Char :
       pending[c] = New(Gone) /\ pending'[c] # New(Gone) /\ ~Crash =>
         \/ \E i \in DOMAIN updQ' :
              /\ updQ'[i].type = "batch"
              /\ pending'[c] = Submitted(updQ'[i].id)
              /\ updQ'[i].updates[c] = Gone
         \/ \E p \in Custom : Owner[c] # p /\ handle_character_delete(p, c)]_vars

(* Coins are not duplicated: what the database holds, in all rows together, *)
(* never exceeds what the characters were given.                            *)
Total(rows) == MapThenSumSet(LAMBDA c : IF rows[c] = Gone THEN 0 ELSE rows[c], Char)

NoDuplication == Total(db) <= Total(Coins)

(* Every entry disappears, so that a player who logged out can log in       *)
(* again, as long as no transaction fails and the deletion of the character *)
(* is not asked for over and over again.                                    *)
DeletionsStop(c) == <>[](\A p \in Player : <<p, c>> \notin ev.delete)

PendingActionsEnd ==
  \A c \in Char :
    []~flag /\ DeletionsStop(c) => (pending[c] # NoAction ~> pending[c] = NoAction)

(* A login that was accepted ends: in the game or back at the screen.       *)
LoadingEnds ==
  \A p \in Player : presence[p] = "loading" ~> presence[p] # "loading"

(* The administrator's command ends the sessions of all who are in the game.*)
DisconnectAllEndsSessions ==
  \A p \in Player : disc.requested /\ InGame(p) ~> ~InGame(p)

----------------------------------------------------------------------------
(* Statements of the sources that do not hold: the README says when.        *)

(* The login is blocked temporarily (player.rs:336).                        *)
LoginBlockedOnlyTemporarily ==
  \A c \in Char : DeletionsStop(c) => (pending[c] # NoAction ~> pending[c] = NoAction)

(* A queued save is lost to a deletion only if "the user has actively       *)
(* chosen to delete the character" (character_updater.rs:390).              *)
SavesGiveWayByChoice ==
  [][\A c \in Char :
       IsNew(c) /\ pending[c].row \in Nat /\ pending' # pending /\ IsNew(c)' /\ ~Crash
         => pending'[c] \in {pending[c], New(Gone)}]_vars

(* A failed batch evicts whoever is in the game.                            *)
FailureDisconnectsAll ==
  \A p \in Player : flag /\ InGame(p) ~> ~InGame(p)
=============================================================================
