------------------------- MODULE PersistenceProofs --------------------------
(***************************************************************************)
(* Theorems about Persistence for every set of players and characters,     *)
(* every backlog, whatever clients ask for, with failing transactions and  *)
(* crashes: the state is well typed, no character is played while a save   *)
(* or a deletion of it is pending, no batch updates a row that another     *)
(* deletes, and only another account's request replaces a deletion.  When  *)
(* no transaction fails and clients are the shipped ones, a login reads a  *)
(* row that nothing is about to overwrite, and Persistence implements      *)
(* DurableStore.                                                           *)
(***************************************************************************)
EXTENDS PersistenceStore, WellFoundedInduction, TLAPS

(* What a session knows about its character: a row is only ever found for   *)
(* the account that owns it, and only clients that are not the shipped one  *)
(* ask for the deletion of another's.                                       *)
SessionOK ==
  /\ \A p \in Player :
       /\ HasPresence(p) \/ p \in ev.init => character[p] \in Char
       /\ load[p].stage # "idle" => character[p] \in Char
       /\ \/ InGame(p)
          \/ load[p].stage \in {"answered", "delivered"} /\ load[p].row # Gone
          => Owner[character[p]] = p
       /\ load[p].stage = "delivered" => load[p].row # Gone
  /\ \A q \in Player, c \in Char : <<q, c>> \in ev.delete => Owner[c] = q \/ q \in Custom

(* The entry of p's character, if there is one, is that of a deletion which *)
(* another account asked for.                                               *)
NoEntry(p) ==
  /\ ~(IsNew(character[p]) /\ pending[character[p]].row # Keep)
  /\ pending[character[p]] # NoAction => Custom \ {p} # {}

EntriesOK ==
  /\ \A p \in Player : Plays(p) => NoEntry(p)
  /\ \A c \in Char : IsNew(c) /\ pending[c].row = Keep => Custom # {}

(* The inductive invariant.                                                 *)
IInv == TypeOK /\ SessionOK /\ EntriesOK

USE DEF Row, Action

(* New and Submitted build database actions.                                *)
LEMMA ActionTypes ==
  /\ \A r \in Row \cup {Keep} : New(r) \in Action
  /\ \A i \in BatchId : Submitted(i) \in Action
  BY DEF New, Submitted

(* New and submitted actions can be told apart, and so can their contents.  *)
LEMMA Actions ==
  /\ \A r, s : New(r) = New(s) <=> r = s
  /\ \A i, j : Submitted(i) = Submitted(j) <=> i = j
  /\ \A r, i : New(r) # Submitted(i)
  /\ \A r : New(r).row = r /\ New(r).state = "new"
  /\ \A i : Submitted(i).state = "submitted"
<1>1. \A i : Submitted(i).state = "submitted" /\ Submitted(i).id = i
  BY DEF Submitted
<1>2. \A r : New(r).row = r /\ New(r).state = "new"
  BY DEF New
<1>3. \A r, s : New(r) = New(s) => r = s
  BY <1>2
<1>4. \A i, j : Submitted(i) = Submitted(j) => i = j
  BY <1>1
<1>5. \A r, i : New(r) # Submitted(i)
  <2>. SUFFICES ASSUME NEW r, NEW i, New(r) = Submitted(i) PROVE FALSE
    OBVIOUS
  <2>1. New(r).state = "new" /\ Submitted(i).state = "submitted"
    BY <1>1, <1>2
  <2>2. New(r).state = Submitted(i).state
    OBVIOUS
  <2>. QED
    BY <2>1, <2>2
<1>. QED
  BY <1>1, <1>2, <1>3, <1>4, <1>5

(* No action is NoAction.                                                   *)
LEMMA NoActionIsNone ==
  /\ \A r \in Row \cup {Keep} : New(r) # NoAction
  /\ \A i \in BatchId : Submitted(i) # NoAction
<1>1. NoAction \notin [state : {"new"}, row : Row \cup {Keep}] \cup [state : {"submitted"}, id : BatchId]
  <2>1. Row \cup {Keep} = Nat \cup {-1, -2}
    BY DEF Gone, Keep
  <2>. QED
    BY <2>1, PersistenceAssumption
<1>2. /\ \A r \in Row \cup {Keep} : New(r) \in [state : {"new"}, row : Row \cup {Keep}]
      /\ \A i \in BatchId : Submitted(i) \in [state : {"submitted"}, id : BatchId]
  BY DEF New, Submitted
<1>. QED
  BY <1>1, <1>2

(* The entries of a logout and of a deletion are database actions.          *)
LEMMA PersistTypes ==
  ASSUME TypeOK, SessionOK, NEW p \in Player
  PROVE  persist_entity(p) \in [Char -> Action]
<1>1. ASSUME NEW c \in Char PROVE queue_character_deletion(p, c) \in [Char -> Action]
  BY ActionTypes DEF queue_character_deletion, TypeOK, Gone
<1>2. ASSUME NEW c \in Char PROVE add_pending_logout_update(c) \in [Char -> Action]
  BY ActionTypes DEF add_pending_logout_update, TypeOK
<1>. QED
  BY <1>1, <1>2 DEF persist_entity, InGame, SessionOK, HasPresence, TypeOK

(* Dropping the events of an entity leaves well-typed event buses.          *)
LEMMA NoEventTypes ==
  ASSUME TypeOK, NEW p \in Player
  PROVE  /\ NoEventFor(p) \in Events
         /\ NoEventFor(p).delete = ev.delete
         /\ NoEventFor(p).init = ev.init \ {p}
  BY DEF NoEventFor, Events, TypeOK

(* Deleting an entity leaves a well-typed session.                          *)
LEMMA DeleteEntityTypes ==
  ASSUME TypeOK, NEW p \in Player, NEW st \in {"screen", "offline"},
         DeleteEntity(p, st)
  PROVE  /\ presence' \in [Player -> {"offline", "screen", "loading", "ingame"}]
         /\ character' \in [Player -> Char \cup {NoChar}]
         /\ load' \in [Player -> [stage : {"idle", "asked", "answered", "delivered"},
                                  row : Row]]
         /\ mem' \in [Char -> Nat]
         /\ dead' \subseteq Hardcore
  BY DEF DeleteEntity, TypeOK, Idle, Gone

(* The message at the head of the channel.                                  *)
LEMMA HeadTypes ==
  ASSUME TypeOK, updQ # <<>>
  PROVE  /\ Tail(updQ) \in Seq(Message)
         /\ Head(updQ) \in Message
         /\ HeadIsBatch => /\ Head(updQ).id \in BatchId
                           /\ Head(updQ).updates \in Updates
<1>1. Head(updQ) \in Message /\ Tail(updQ) \in Seq(Message)
  BY DEF TypeOK
<1>. QED
  BY <1>1 DEF Message, HeadIsBatch

(* The initial state.                                                       *)
LEMMA InitIInv == Init => IInv
<1>. SUFFICES ASSUME Init PROVE IInv
  OBVIOUS
<1>1. Idle \in [stage : {"idle", "asked", "answered", "delivered"}, row : Row]
  BY DEF Idle, Gone
<1>2. ev \in Events
  BY DEF Init, NoEvent, Events
<1>3. db \in [Char -> Row]
  BY PersistenceAssumption DEF Init
<1>4. disc \in [requested : BOOLEAN, type : {"none", "with", "without"}]
  BY DEF Init
<1>5. updQ \in Seq(Message)
  BY DEF Init
<1>6. TypeOK
  BY <1>1, <1>2, <1>3, <1>4, <1>5 DEF Init, TypeOK
<1>7. SessionOK /\ EntriesOK
  BY DEF Init, SessionOK, EntriesOK, Plays, HasPresence, InGame, IsNew, NoEvent, Idle
<1>. QED
  BY <1>6, <1>7 DEF IInv

----------------------------------------------------------------------------
(* One step keeps the types.                                                *)
LEMMA NextTypeOK == IInv /\ [Next]_vars => TypeOK'
<1>. SUFFICES ASSUME IInv, [Next]_vars PROVE TypeOK'
  OBVIOUS
<1>. USE DEF IInv
<1>1. ASSUME NEW p \in Player, Client(p) PROVE TypeOK'
  <2>1. CASE Connect(p)
    BY <2>1 DEF Connect, TypeOK, threadVars
  <2>2. ASSUME NEW c \in Char, RequestCharacter(p, c) PROVE TypeOK'
    <3>1. load' \in [Player -> [stage : {"idle", "asked", "answered", "delivered"}, row : Row]]
      BY <2>2 DEF RequestCharacter, TypeOK, Gone
    <3>2. ev' \in Events
      BY <2>2 DEF RequestCharacter, TypeOK, Events
    <3>. QED
      BY <2>2, <3>1, <3>2 DEF RequestCharacter, TypeOK, threadVars
  <2>3. ASSUME NEW c \in Char, RequestDelete(p, c) PROVE TypeOK'
    <3>1. ev' \in Events
      <4>1. ev.delete \cup {<<p, c>>} \in SUBSET (Player \X Char)
        BY DEF TypeOK, Events
      <4>2. ev' = [ev EXCEPT !.delete = @ \cup {<<p, c>>}]
        BY <2>3 DEF RequestDelete
      <4>. QED
        BY <4>1, <4>2 DEF TypeOK, Events
    <3>. QED
      BY <2>3, <3>1 DEF RequestDelete, TypeOK, threadVars, sessionVars
  <2>4. CASE RequestExit(p)
    <3>1. ev' \in Events
      BY <2>4 DEF RequestExit, TypeOK, Events
    <3>. QED
      BY <2>4, <3>1 DEF RequestExit, TypeOK, threadVars, sessionVars
  <2>5. CASE LoseClient(p)
    <3>1. ev' \in Events
      BY <2>5 DEF LoseClient, TypeOK, Events
    <3>. QED
      BY <2>5, <3>1 DEF LoseClient, TypeOK, threadVars, sessionVars
  <2>. QED
    BY <1>1, <2>1, <2>2, <2>3, <2>4, <2>5 DEF Client
<1>2. ASSUME NEW p \in Player, LoaderAnswers(p) PROVE TypeOK'
  <2>1. LoadedRow(p) \in Row
    BY <1>2 DEF LoaderAnswers, LoadedRow, TypeOK, SessionOK, Gone
  <2>. QED
    BY <1>2, <2>1 DEF LoaderAnswers, TypeOK, threadVars
<1>3. ASSUME NEW c \in Char, NEW d \in Char, Transfer(c, d) PROVE TypeOK'
  <2>1. mem[c] - 1 \in Nat /\ mem[d] + 1 \in Nat
    BY <1>3 DEF Transfer, TypeOK
  <2>2. mem' = [mem EXCEPT ![c] = mem[c] - 1, ![d] = mem[d] + 1]
    BY <1>3 DEF Transfer
  <2>3. mem' \in [Char -> Nat]
    BY <2>1, <2>2 DEF TypeOK
  <2>. QED
    BY <1>3, <2>3 DEF Transfer, TypeOK, threadVars
<1>4. ASSUME NEW c \in Char, Die(c) PROVE TypeOK'
  BY <1>4 DEF Die, TypeOK, threadVars
<1>5. CASE batch_update
  <2>. DEFINE id == CHOOSE i \in BatchId : i \notin UsedIds
              updates == [c \in Char |-> BatchRow(c)]
  <2>1. id \in BatchId
    BY <1>5 DEF batch_update, batch_update_enabled
  <2>2. \A c \in Char : BatchRow(c) \in Row \cup {Keep}
    BY DEF BatchRow, IsNew, TypeOK, Keep
  <2>3. BatchUpdateMsg(id, updates) \in Message
    BY <2>1, <2>2 DEF BatchUpdateMsg, Message, Updates
  <2>4. updQ' \in Seq(Message)
    <3>1. updQ' = Append(updQ, BatchUpdateMsg(id, updates))
      BY <1>5 DEF batch_update
    <3>. QED
      BY <2>3, <3>1 DEF TypeOK
  <2>5. pending' \in [Char -> Action]
    BY <1>5, <2>1, ActionTypes DEF batch_update, TypeOK
  <2>. QED
    BY <1>5, <2>4, <2>5 DEF batch_update, TypeOK, sessionVars
<1>6. CASE RequestDisconnectAll
  BY <1>6 DEF RequestDisconnectAll, TypeOK, threadVars, sessionVars
<1>7. CASE Tick
  <2>1. CASE disconnect_all_clients_if_requested
    <3>1. /\ [ev EXCEPT !.disc = Clients] \in Events
          /\ [ev EXCEPT !.discNP = Clients] \in Events
          /\ ev \in Events
      BY DEF TypeOK, Events, Clients
    <3>2. /\ ev' \in Events
          /\ disc' \in [requested : BOOLEAN, type : {"none", "with", "without"}]
      <4>1. CASE flag
        <5>1. /\ ev' = [ev EXCEPT !.discNP = Clients]
              /\ disc' = [requested |-> FALSE, type |-> "without"]
          BY <2>1, <4>1 DEF disconnect_all_clients_if_requested
        <5>. QED
          BY <3>1, <5>1
      <4>2. CASE ~flag /\ disc.requested
        <5>1. /\ ev' = [ev EXCEPT !.disc = Clients]
              /\ disc' = [requested |-> FALSE, type |-> "with"]
          BY <2>1, <4>2 DEF disconnect_all_clients_if_requested
        <5>. QED
          BY <3>1, <5>1
      <4>3. CASE ~flag /\ ~disc.requested
        BY <2>1, <3>1, <4>3 DEF disconnect_all_clients_if_requested, TypeOK
      <4>. QED
        BY <4>1, <4>2, <4>3
    <3>. QED
      BY <2>1, <3>2 DEF disconnect_all_clients_if_requested, TypeOK,
                              threadVars, sessionVars
  <2>2. CASE disconnected_success
    <3>1. DisconnectedSuccess \in Message
      BY DEF DisconnectedSuccess, Message
    <3>2. updQ' \in Seq(Message)
      <4>1. Append(updQ, DisconnectedSuccess) \in Seq(Message) /\ updQ \in Seq(Message)
        BY <3>1 DEF TypeOK
      <4>. QED
        BY <2>2, <4>1 DEF disconnected_success
    <3>3. disc' \in [requested : BOOLEAN, type : {"none", "with", "without"}]
      BY <2>2 DEF disconnected_success, TypeOK
    <3>. QED
      BY <2>2, <3>2, <3>3 DEF disconnected_success, TypeOK, sessionVars
  <2>3. CASE PollMessages
    <3>1. ev' \in Events
      BY <2>3 DEF PollMessages, TypeOK, Events, LeaveGame
    <3>2. pending' \in [Char -> Action]
      BY <2>3 DEF PollMessages, TypeOK, process_batch_completion
    <3>3. load' \in [Player -> [stage : {"idle", "asked", "answered", "delivered"}, row : Row]]
      <4>1. Idle \in [stage : {"idle", "asked", "answered", "delivered"}, row : Row]
        BY DEF Idle, Gone
      <4>2. \A p \in Player : load[p].row \in Row
        BY DEF TypeOK
      <4>. QED
        BY <2>3, <4>1, <4>2 DEF PollMessages, TypeOK
    <3>. QED
      BY <2>3, <3>1, <3>2, <3>3 DEF PollMessages, TypeOK
  <2>4. ASSUME NEW p \in Player, handle_initialize_character(p) PROVE TypeOK'
    <3>1. ev' \in Events
      <4>1. [ev EXCEPT !.init = @ \ {p}] \in Events
        BY DEF TypeOK, Events
      <4>. QED
        BY <2>4, <4>1, NoEventTypes DEF handle_initialize_character
    <3>2. CASE has_pending_database_action(character[p])
      BY <2>4, <3>1, <3>2, DeleteEntityTypes
         DEF handle_initialize_character, TypeOK, threadVars
    <3>3. CASE ~has_pending_database_action(character[p])
      BY <2>4, <3>1, <3>3 DEF handle_initialize_character, TypeOK, threadVars
    <3>. QED
      BY <3>2, <3>3
  <2>5. ASSUME NEW p \in Player, handle_loaded_character_data(p) PROVE TypeOK'
    <3>1. load[p].row \in Nat
      BY <2>5 DEF handle_loaded_character_data, Delivered, SessionOK, TypeOK
    <3>2. load' \in [Player -> [stage : {"idle", "asked", "answered", "delivered"}, row : Row]]
      BY <2>5 DEF handle_loaded_character_data, TypeOK, Idle, Gone
    <3>. QED
      BY <2>5, <3>1, <3>2 DEF handle_loaded_character_data, TypeOK, threadVars
  <2>6. ASSUME NEW p \in Player, NEW c \in Char, handle_character_delete(p, c) PROVE TypeOK'
    <3>2. pending' \in [Char -> Action]
      BY <2>6, ActionTypes DEF handle_character_delete, queue_character_deletion, TypeOK, Gone
    <3>3. ev' \in Events
      <4>1. /\ [NoEventFor(p) EXCEPT !.delete = @ \ {<<p, c>>}] \in Events
            /\ [ev EXCEPT !.delete = @ \ {<<p, c>>}] \in Events
        BY NoEventTypes DEF TypeOK, Events
      <4>. QED
        BY <2>6, <4>1 DEF handle_character_delete
    <3>4. CASE HasPresence(p)
      BY <2>6, <3>2, <3>3, <3>4, DeleteEntityTypes
         DEF handle_character_delete, TypeOK, threadVars
    <3>5. CASE ~HasPresence(p)
      BY <2>6, <3>2, <3>3, <3>5 DEF handle_character_delete, TypeOK, threadVars, sessionVars
    <3>. QED
      BY <3>4, <3>5
  <2>7. ASSUME NEW p \in Player,
               \/ handle_exit_ingame(p)
               \/ handle_client_disconnect(p)
               \/ handle_client_disconnect_without_persistence(p)
        PROVE  TypeOK'
    <3>1. \E st \in {"screen", "offline"} : DeleteEntity(p, st)
      BY <2>7 DEF handle_exit_ingame, handle_client_disconnect,
                  handle_client_disconnect_without_persistence
    <3>2. ev' \in Events
      BY <2>7, NoEventTypes DEF handle_exit_ingame, handle_client_disconnect,
                  handle_client_disconnect_without_persistence
    <3>3. pending' \in [Char -> Action]
      BY <2>7, PersistTypes DEF handle_exit_ingame, handle_client_disconnect,
                  handle_client_disconnect_without_persistence, TypeOK
    <3>4. UNCHANGED <<pc, disc, threadVars>>
      BY <2>7 DEF handle_exit_ingame, handle_client_disconnect,
                  handle_client_disconnect_without_persistence
    <3>. QED
      BY <3>1, <3>2, <3>3, <3>4, DeleteEntityTypes DEF TypeOK, threadVars
  <2>. QED
    BY <1>7, <2>1, <2>2, <2>3, <2>4, <2>5, <2>6, <2>7 DEF Tick, Handlers
<1>8. CASE Updater
  <2>1. CASE BatchCommits
    <3>1. HeadIsBatch /\ updQ # <<>>
      BY <2>1 DEF BatchCommits, HeadIsBatch
    <3>2. db' \in [Char -> Row]
      BY <2>1, <3>1, HeadTypes DEF BatchCommits, TypeOK, Updates
    <3>. QED
      BY <2>1, <3>1, <3>2, HeadTypes DEF BatchCommits, TypeOK, sessionVars
  <2>2. CASE BatchFails
    <3>1. HeadIsBatch /\ updQ # <<>>
      BY <2>2 DEF BatchFails, HeadIsBatch
    <3>. QED
      BY <2>2, <3>1, HeadTypes DEF BatchFails, TypeOK, sessionVars
  <2>3. CASE BatchSkipped
    <3>1. HeadIsBatch /\ updQ # <<>>
      BY <2>3 DEF BatchSkipped, HeadIsBatch
    <3>. QED
      BY <2>3, <3>1, HeadTypes DEF BatchSkipped, TypeOK, sessionVars
  <2>4. CASE ResumeBatches
    <3>1. updQ # <<>>
      BY <2>4 DEF ResumeBatches
    <3>. QED
      BY <2>4, <3>1, HeadTypes DEF ResumeBatches, TypeOK, sessionVars
  <2>. QED
    BY <1>8, <2>1, <2>2, <2>3, <2>4 DEF Updater
<1>9. CASE Crash
  <2>1. ev' \in Events /\ Idle \in [stage : {"idle", "asked", "answered", "delivered"}, row : Row]
    BY <1>9 DEF Crash, NoEvent, Events, Idle, Gone
  <2>2. disc' \in [requested : BOOLEAN, type : {"none", "with", "without"}]
    BY <1>9 DEF Crash
  <2>3. updQ' \in Seq(Message)
    BY <1>9 DEF Crash
  <2>. QED
    BY <1>9, <2>1, <2>2, <2>3 DEF Crash, TypeOK
<1>10. CASE UNCHANGED vars
  BY <1>10 DEF vars, sessionVars, threadVars, TypeOK
<1>. QED
  BY <1>1, <1>2, <1>3, <1>4, <1>5, <1>6, <1>7, <1>8, <1>9, <1>10 DEF Next

----------------------------------------------------------------------------
(* One step keeps what sessions know: only its account has the data of a    *)
(* character, a delivered answer is a row, and a character with an entry is *)
(* neither loading nor in the game.                                         *)

(* Who is in the game holds a character nobody else plays.                  *)
LEMMA PresenceUnique ==
  ASSUME IInv, NEW p \in Player, NEW q \in Player,
         InGame(p), Plays(q), character[p] = character[q]
  PROVE  p = q
  BY DEF IInv, SessionOK, Plays

(* A new entity has no presence, and the others are as they were.           *)
LEMMA DeleteEntitySession ==
  ASSUME TypeOK, SessionOK, NEW p \in Player, NEW st \in {"screen", "offline"},
         DeleteEntity(p, st)
  PROVE  /\ ~HasPresence(p)'
         /\ \A q \in Player \ {p} : /\ HasPresence(q)' = HasPresence(q)
                                    /\ presence'[q] = presence[q]
                                    /\ character'[q] = character[q]
                                    /\ load'[q] = load[q]
         /\ load'[p].stage = "idle"
  BY DEF DeleteEntity, TypeOK, HasPresence, Idle

(* What makes nobody start playing and queues nothing keeps the entries of  *)
(* played characters as they are.                                           *)
LEMMA EntriesKept ==
  ASSUME SessionOK, EntriesOK,
         \A q \in Player : Plays(q)' => Plays(q) /\ character'[q] = character[q],
         \A c \in Char : \/ pending'[c] = pending[c]
                         \/ ~IsNew(c)' /\ (pending[c] = NoAction => pending'[c] = NoAction)
  PROVE  EntriesOK'
<1>1. \A q \in Player : Plays(q) => character[q] \in Char
  BY DEF Plays, SessionOK
<1>2. \A c \in Char : IsNew(c)' => IsNew(c) /\ pending'[c] = pending[c]
  BY DEF IsNew
<1>3. \A q \in Player : Plays(q)' => NoEntry(q)'
  BY <1>1, <1>2 DEF EntriesOK, NoEntry
<1>. QED
  BY <1>2, <1>3 DEF EntriesOK

LEMMA NextSessionOK ==
  IInv /\ [Next]_vars => SessionOK' /\ EntriesOK'
<1>. SUFFICES ASSUME IInv, [Next]_vars
              PROVE  SessionOK' /\ EntriesOK'
  OBVIOUS
<1>. USE DEF IInv
<1>1. ASSUME UNCHANGED <<character, pending>>,
             \A q \in Player : HasPresence(q)' => HasPresence(q)
      PROVE  EntriesOK'
  BY <1>1, EntriesKept DEF Plays
<1>2. ASSUME NEW p \in Player, Client(p)
      PROVE  SessionOK' /\ EntriesOK'
  <2>1. CASE Connect(p)
    <3>1. presence' = [presence EXCEPT ![p] = "screen"] /\ UNCHANGED <<character, load, ev, pending>>
      BY <2>1 DEF Connect
    <3>2. SessionOK'
      BY <3>1 DEF TypeOK, SessionOK, HasPresence, InGame
    <3>. QED
      BY <1>1, <3>1, <3>2 DEF TypeOK, HasPresence
  <2>2. ASSUME NEW c \in Char, RequestCharacter(p, c)
        PROVE  SessionOK' /\ EntriesOK'
    <3>1. /\ character' = [character EXCEPT ![p] = c]
          /\ load' = [load EXCEPT ![p] = [stage |-> "asked", row |-> Gone]]
          /\ ev'.init = ev.init \cup {p} /\ ev'.delete = ev.delete
          /\ presence[p] = "screen"
          /\ UNCHANGED <<presence, pending>>
      BY <2>2 DEF RequestCharacter, TypeOK, Events
    <3>2. SessionOK'
      BY <3>1 DEF TypeOK, SessionOK, HasPresence, InGame
    <3>3. \A q \in Player : Plays(q)' => Plays(q) /\ character'[q] = character[q]
      BY <3>1 DEF TypeOK, Plays, HasPresence
    <3>. QED
      BY <3>1, <3>2, <3>3, EntriesKept
  <2>3. ASSUME NEW c \in Char, RequestDelete(p, c)
        PROVE  SessionOK' /\ EntriesOK'
    <3>1. /\ ev'.init = ev.init /\ ev'.delete = ev.delete \cup {<<p, c>>}
          /\ Owner[c] = p \/ p \in Custom
          /\ UNCHANGED <<presence, character, load, pending>>
      BY <2>3 DEF RequestDelete, TypeOK, Events, sessionVars
    <3>2. SessionOK'
      BY <3>1 DEF SessionOK, HasPresence, InGame
    <3>. QED
      BY <1>1, <3>1, <3>2 DEF HasPresence
  <2>4. CASE RequestExit(p) \/ LoseClient(p)
    <3>1. /\ ev'.init = ev.init /\ ev'.delete = ev.delete
          /\ UNCHANGED <<presence, character, load, pending>>
      BY <2>4 DEF RequestExit, LoseClient, TypeOK, Events, sessionVars
    <3>2. SessionOK'
      BY <3>1 DEF SessionOK, HasPresence, InGame
    <3>. QED
      BY <1>1, <3>1, <3>2 DEF HasPresence
  <2>. QED
    BY <1>2, <2>1, <2>2, <2>3, <2>4 DEF Client
<1>3. ASSUME NEW p \in Player, LoaderAnswers(p)
      PROVE  SessionOK' /\ EntriesOK'
  <2>1. /\ load' = [load EXCEPT ![p] = [stage |-> "answered", row |-> LoadedRow(p)]]
        /\ load[p].stage = "asked"
        /\ UNCHANGED <<presence, character, ev, pending>>
    BY <1>3 DEF LoaderAnswers
  <2>2. LoadedRow(p) # Gone => Owner[character[p]] = p
    BY DEF LoadedRow
  <2>3. SessionOK'
    BY <2>1, <2>2 DEF TypeOK, SessionOK, HasPresence, InGame
  <2>. QED
    BY <1>1, <2>1, <2>3 DEF HasPresence
<1>4. CASE batch_update
  <2>1. \A c \in Char : \/ pending'[c] = pending[c]
                        \/ ~IsNew(c)' /\ (pending[c] = NoAction => pending'[c] = NoAction)
    BY <1>4, Actions DEF batch_update, IsNew
  <2>2. UNCHANGED <<presence, character, load, ev>>
    BY <1>4 DEF batch_update, sessionVars
  <2>3. SessionOK'
    BY <2>2 DEF SessionOK, HasPresence, InGame
  <2>. QED
    BY <2>1, <2>2, <2>3, EntriesKept DEF Plays, HasPresence
<1>5. CASE disconnect_all_clients_if_requested
  <2>1. ev'.init = ev.init /\ ev'.delete = ev.delete
    <3>1. \/ ev' = [ev EXCEPT !.discNP = Clients]
          \/ ev' = [ev EXCEPT !.disc = Clients]
          \/ ev' = ev
      BY <1>5 DEF disconnect_all_clients_if_requested
    <3>. QED
      BY <3>1 DEF TypeOK, Events
  <2>2. UNCHANGED <<presence, character, load, pending>>
    BY <1>5 DEF disconnect_all_clients_if_requested, sessionVars
  <2>3. SessionOK'
    BY <2>1, <2>2 DEF SessionOK, HasPresence, InGame
  <2>. QED
    BY <1>1, <2>2, <2>3 DEF HasPresence
<1>6. CASE PollMessages
  <2>1. ev'.init = ev.init /\ ev'.delete = ev.delete
    BY <1>6 DEF PollMessages, TypeOK, Events
  <2>2. \A c \in Char : \/ pending'[c] = pending[c]
                        \/ pending'[c] = NoAction /\ ~IsNew(c)'
    BY <1>6 DEF PollMessages, process_batch_completion, IsNew
  <2>3. \A p \in Player :
          /\ load'[p].stage # "idle" => load[p].stage # "idle"
          /\ load'[p].stage \in {"answered", "delivered"} /\ load'[p].row # Gone =>
               load[p].stage \in {"answered", "delivered"} /\ load[p].row # Gone
          /\ load'[p].stage = "delivered" => load'[p].row # Gone
    BY <1>6 DEF PollMessages, LoadFails, SessionOK, TypeOK, Idle
  <2>4. UNCHANGED <<presence, character>>
    BY <1>6 DEF PollMessages
  <2>5. SessionOK'
    BY <2>1, <2>3, <2>4 DEF SessionOK, HasPresence, InGame
  <2>. QED
    BY <2>2, <2>4, <2>5, EntriesKept DEF Plays, HasPresence
<1>7. ASSUME NEW p \in Player, NEW st \in {"screen", "offline"}, DeleteEntity(p, st),
             ev'.init \subseteq ev.init \ {p}, ev'.delete \subseteq ev.delete
      PROVE  /\ SessionOK'
             /\ \A q \in Player : Plays(q)' => q # p /\ Plays(q) /\ character'[q] = character[q]
  <2>1. \A q \in Player \ {p} : InGame(q)' = InGame(q)
    BY <1>7, DeleteEntitySession DEF InGame
  <2>2. ~InGame(p)'
    BY <1>7, DeleteEntitySession DEF HasPresence, InGame
  <2>3. SessionOK'
    BY <1>7, <2>1, <2>2, DeleteEntitySession DEF SessionOK
  <2>4. \A q \in Player : Plays(q)' => q # p /\ Plays(q) /\ character'[q] = character[q]
    BY <1>7, DeleteEntitySession DEF Plays
  <2>. QED
    BY <2>3, <2>4
<1>8. ASSUME NEW p \in Player, handle_initialize_character(p)
      PROVE  SessionOK' /\ EntriesOK'
  <2>1. CASE has_pending_database_action(character[p])
    <3>1. DeleteEntity(p, "screen") /\ ev' = NoEventFor(p) /\ UNCHANGED pending
      BY <1>8, <2>1 DEF handle_initialize_character
    <3>2. ev'.init = ev.init \ {p} /\ ev'.delete = ev.delete
      BY <3>1, NoEventTypes
    <3>. QED
      BY <1>7, <3>1, <3>2, EntriesKept
  <2>2. CASE ~has_pending_database_action(character[p])
    <3>1. /\ presence' = [presence EXCEPT ![p] = "loading"]
          /\ ev'.init = ev.init \ {p} /\ ev'.delete = ev.delete
          /\ UNCHANGED <<character, load, pending>>
      BY <1>8, <2>2 DEF handle_initialize_character, TypeOK, Events
    <3>2. pending[character[p]] = NoAction /\ p \in ev.init
      BY <1>8, <2>2 DEF handle_initialize_character, has_pending_database_action
    <3>3. SessionOK'
      BY <3>1, <3>2 DEF TypeOK, SessionOK, HasPresence, InGame
    <3>4. NoEntry(p)'
      BY <3>1, <3>2 DEF NoEntry, IsNew
    <3>5. \A q \in Player : q # p /\ Plays(q)' => NoEntry(q)'
      BY <3>1 DEF EntriesOK, Plays, NoEntry, HasPresence, IsNew, TypeOK
    <3>. QED
      BY <3>1, <3>3, <3>4, <3>5 DEF EntriesOK, IsNew
  <2>. QED
    BY <2>1, <2>2
<1>9. ASSUME NEW p \in Player, handle_loaded_character_data(p)
      PROVE  SessionOK' /\ EntriesOK'
  <2>1. /\ presence[p] = "loading" /\ presence' = [presence EXCEPT ![p] = "ingame"]
        /\ load[p].stage = "delivered" /\ load' = [load EXCEPT ![p] = Idle]
        /\ UNCHANGED <<character, ev, pending>>
    BY <1>9 DEF handle_loaded_character_data, Delivered
  <2>2. \A q \in Player : HasPresence(q)' = HasPresence(q)
    BY <2>1 DEF HasPresence, TypeOK
  <2>3. SessionOK'
    BY <2>1, <2>2 DEF TypeOK, SessionOK, InGame, Idle
  <2>. QED
    BY <1>1, <2>1, <2>2, <2>3
<1>10. ASSUME NEW p \in Player, NEW c \in Char, handle_character_delete(p, c)
       PROVE  SessionOK' /\ EntriesOK'
  <2>1. <<p, c>> \in ev.delete /\ (Owner[c] = p \/ p \in Custom)
    BY <1>10 DEF handle_character_delete, SessionOK
  <2>2. /\ \A d \in Char : d # c => pending'[d] = pending[d]
        /\ pending'[c] = New(IF Owner[c] = p THEN Gone ELSE Keep)
    BY <1>10 DEF handle_character_delete, queue_character_deletion, TypeOK
  <2>3. SessionOK' /\ \A q \in Player : Plays(q)' => q # p /\ Plays(q) /\ character'[q] = character[q]
    <3>1. CASE HasPresence(p)
      <4>1. DeleteEntity(p, "screen") /\ ev' = [NoEventFor(p) EXCEPT !.delete = @ \ {<<p, c>>}]
        BY <1>10, <3>1 DEF handle_character_delete
      <4>2. ev'.init \subseteq ev.init \ {p} /\ ev'.delete \subseteq ev.delete
        BY <4>1, NoEventTypes DEF Events
      <4>. QED
        BY <1>7, <4>1, <4>2
    <3>2. CASE ~HasPresence(p)
      <4>1. /\ UNCHANGED <<presence, character, load>>
            /\ ev' = [ev EXCEPT !.delete = @ \ {<<p, c>>}]
        BY <1>10, <3>2 DEF handle_character_delete, sessionVars
      <4>2. ev'.init = ev.init /\ ev'.delete \subseteq ev.delete
        BY <4>1 DEF TypeOK, Events
      <4>3. SessionOK'
        BY <4>1, <4>2 DEF SessionOK, HasPresence, InGame
      <4>. QED
        BY <3>2, <4>1, <4>3 DEF Plays, HasPresence
    <3>. QED
      BY <3>1, <3>2
  <2>4. ASSUME NEW q \in Player, Plays(q)' PROVE NoEntry(q)'
    <3>1. q # p /\ Plays(q) /\ character'[q] = character[q] /\ character[q] \in Char /\ NoEntry(q)
      BY <2>3, <2>4 DEF EntriesOK, SessionOK, Plays
    <3>2. CASE character[q] = c
      <4>1. Owner[c] = q /\ p \in Custom \ {q}
        BY <2>1, <3>1, <3>2 DEF Plays
      <4>2. pending'[character'[q]].row = Keep
        BY <2>2, <3>1, <3>2, <4>1, Actions
      <4>. QED
        BY <4>1, <4>2 DEF NoEntry
    <3>3. CASE character[q] # c
      BY <2>2, <3>1, <3>3 DEF NoEntry, IsNew
    <3>. QED
      BY <3>2, <3>3
  <2>5. ASSUME NEW d \in Char, IsNew(d)', pending'[d].row = Keep PROVE Custom # {}
    <3>1. CASE d = c
      <4>1. Owner[c] # p
        BY <2>2, <2>5, <3>1, Actions DEF Gone, Keep
      <4>. QED
        BY <2>1, <4>1
    <3>2. CASE d # c
      BY <2>2, <2>5, <3>2 DEF EntriesOK, IsNew
    <3>. QED
      BY <3>1, <3>2
  <2>. QED
    BY <2>3, <2>4, <2>5 DEF EntriesOK
<1>11. ASSUME NEW p \in Player,
              \/ handle_exit_ingame(p)
              \/ handle_client_disconnect(p)
              \/ handle_client_disconnect_without_persistence(p)
       PROVE  SessionOK' /\ EntriesOK'
  <2>1. PICK st \in {"screen", "offline"} : DeleteEntity(p, st)
    BY <1>11 DEF handle_exit_ingame, handle_client_disconnect,
                handle_client_disconnect_without_persistence
  <2>2. ev'.init = ev.init \ {p} /\ ev'.delete = ev.delete
    BY <1>11, NoEventTypes DEF handle_exit_ingame, handle_client_disconnect,
                handle_client_disconnect_without_persistence
  <2>3. pending' = persist_entity(p) \/ pending' = pending
    BY <1>11 DEF handle_exit_ingame, handle_client_disconnect,
                handle_client_disconnect_without_persistence
  <2>4. ASSUME NEW c \in Char, pending'[c] # pending[c]
        PROVE  InGame(p) /\ c = character[p] /\ pending'[c] \in {New(Gone), New(mem[c])}
    <3>1. persist_entity(p)[c] # pending[c]
      BY <2>3, <2>4
    <3>2. InGame(p)
      BY <3>1 DEF persist_entity
    <3>3. Owner[character[p]] = p
      BY <3>2 DEF SessionOK
    <3>4. c = character[p] /\ persist_entity(p)[c] \in {New(Gone), New(mem[c])}
      BY <3>1, <3>2, <3>3
         DEF persist_entity, queue_character_deletion, add_pending_logout_update, TypeOK
    <3>. QED
      BY <2>3, <2>4, <3>2, <3>4
  <2>5. SessionOK' /\ \A q \in Player : Plays(q)' => q # p /\ Plays(q) /\ character'[q] = character[q]
    BY <1>7, <2>1, <2>2
  <2>6. ASSUME NEW q \in Player, Plays(q)' PROVE NoEntry(q)'
    <3>1. q # p /\ Plays(q) /\ character'[q] = character[q] /\ character[q] \in Char /\ NoEntry(q)
      BY <2>5, <2>6 DEF EntriesOK, SessionOK, Plays
    <3>2. pending'[character[q]] = pending[character[q]]
      BY <2>4, <3>1, PresenceUnique
    <3>. QED
      BY <3>1, <3>2 DEF NoEntry, IsNew
  <2>7. ASSUME NEW c \in Char, IsNew(c)', pending'[c].row = Keep PROVE Custom # {}
    <3>1. mem[c] # Keep /\ Gone # Keep
      BY DEF TypeOK, Gone, Keep
    <3>2. pending'[c] = pending[c]
      BY <2>4, <2>7, <3>1, Actions
    <3>. QED
      BY <2>7, <3>2 DEF EntriesOK, IsNew
  <2>. QED
    BY <2>5, <2>6, <2>7 DEF EntriesOK
<1>12. CASE Crash
  BY <1>12 DEF Crash, SessionOK, EntriesOK, Plays, HasPresence, InGame, IsNew, NoEvent, Idle
<1>13. ASSUME UNCHANGED <<presence, character, load, ev, pending>>
       PROVE  SessionOK' /\ EntriesOK'
  <2>1. SessionOK'
    BY <1>13 DEF SessionOK, HasPresence, InGame
  <2>. QED
    BY <1>1, <1>13, <2>1 DEF HasPresence
<1>14. \A c, d \in Char : Transfer(c, d) \/ Die(c) =>
         UNCHANGED <<presence, character, load, ev, pending>>
  BY DEF Transfer, Die
<1>15. \/ RequestDisconnectAll \/ disconnected_success \/ Updater \/ UNCHANGED vars
       => UNCHANGED <<presence, character, load, ev, pending>>
  BY DEF RequestDisconnectAll, disconnected_success, Updater, BatchCommits, BatchFails,
         BatchSkipped, ResumeBatches, vars, sessionVars
<1>. QED
  BY <1>2, <1>3, <1>4, <1>5, <1>6, <1>8, <1>9, <1>10, <1>11, <1>12, <1>13, <1>14, <1>15
     DEF Next, Tick, Handlers

----------------------------------------------------------------------------
(* Theorems                                                                 *)

(* The state of the persistence machinery keeps its types, with any number  *)
(* of players, characters and batches in flight, failures and crashes.      *)
THEOREM TypeCorrect == Spec => []TypeOK
<1>1. IInv /\ [Next]_vars => IInv'
  BY NextTypeOK, NextSessionOK DEF IInv
<1>2. IInv => TypeOK
  BY DEF IInv
<1>. QED
  BY InitIInv, <1>1, <1>2, PTL DEF Spec

----------------------------------------------------------------------------
(* The rows in the batches under way.                                       *)

(* The batches in the channel, and what they do to a row.                   *)
IsBatch(j)       == j \in DOMAIN updQ /\ updQ[j].type = "batch"
Deletes(j, c)    == IsBatch(j) /\ updQ[j].updates[c] = Gone
UpdatesRow(j, c) == IsBatch(j) /\ updQ[j].updates[c] \in Nat
Overwrites(j, c) == IsBatch(j) /\ updQ[j].updates[c] # Keep

(* The batch of c's entry is in the channel, batch j or a later one.        *)
Awaited(j, c) == \E k \in DOMAIN updQ : k >= j /\ IsBatch(k) /\ pending[c] = Submitted(updQ[k].id)

(* A batch has an id of its own, which has not been answered.               *)
IdsOK ==
  \A j \in DOMAIN updQ : IsBatch(j) =>
    /\ updQ[j].id \notin completed
    /\ \A k \in DOMAIN updQ : IsBatch(k) /\ updQ[k].id = updQ[j].id => k = j

(* A login under way: no save or deletion of its character is pending, and  *)
(* a deletion that its account asks for will find it.                       *)
LoadOK ==
  /\ pc = "poll" => ev = NoEvent
  /\ \A p \in Player :
    /\ load[p].stage # "idle" =>
         /\ Owner[character[p]] = p => NoEntry(p)
         /\ presence[p] = "loading" \/ (presence[p] = "screen" /\ p \in ev.init)
    /\ load[p].stage = "delivered" => presence[p] = "loading"

(* Who plays, or has asked for, a character of its own.                     *)
Holds(p) == Owner[character[p]] = p /\ (HasPresence(p) \/ load[p].stage # "idle")

(* The entry of c is that of a deletion, perhaps of one that another asked  *)
(* for.                                                                     *)
DeletionQueued(c) == pending[c] = New(Gone) \/ pending[c] = New(Keep)

(* While a deletion is under way there is an entry, so nobody saves or      *)
(* loads the character; and what saves a character finds its row.           *)
HeldOK ==
  \A p \in Player : Holds(p) => \A j \in DOMAIN updQ : ~Deletes(j, character[p])

RowsOK ==
  /\ HeldOK
  /\ \A c \in Char :
       /\ \A j \in DOMAIN updQ :
            /\ Deletes(j, c) => DeletionQueued(c) \/ Awaited(j, c)
            /\ UpdatesRow(j, c) =>
                 db[c] # Gone /\ \A i \in DOMAIN updQ : i < j => ~Deletes(i, c)
       /\ c \in Online => db[c] # Gone
       /\ IsNew(c) /\ pending[c].row \in Nat => db[c] # Gone
  /\ \A p \in Player :
       load[p].stage \in {"answered", "delivered"} /\ load[p].row # Gone => db[character[p]] # Gone

RInv == IInv /\ IdsOK /\ LoadOK /\ RowsOK

----------------------------------------------------------------------------
(* Messages are added at the end of the channel and taken at its head.      *)
LEMMA Appended ==
  ASSUME TypeOK, NEW m, updQ' = Append(updQ, m)
  PROVE  /\ Len(updQ) \in Nat
         /\ DOMAIN updQ = 1..Len(updQ)
         /\ DOMAIN updQ' = 1..(Len(updQ) + 1)
         /\ \A j \in 1..Len(updQ) : updQ'[j] = updQ[j]
         /\ updQ'[Len(updQ) + 1] = m
  BY DEF TypeOK

LEMMA Taken ==
  ASSUME TypeOK, updQ # <<>>, updQ' = Tail(updQ)
  PROVE  /\ Len(updQ) \in Nat \ {0}
         /\ DOMAIN updQ = 1..Len(updQ)
         /\ DOMAIN updQ' = 1..(Len(updQ) - 1)
         /\ \A j \in 1..(Len(updQ) - 1) : updQ'[j] = updQ[j + 1]
         /\ Head(updQ) = updQ[1]
<1>1. Len(updQ) \in Nat \ {0} /\ DOMAIN updQ = 1..Len(updQ) /\ Head(updQ) = updQ[1]
  BY DEF TypeOK
<1>2. Len(Tail(updQ)) = Len(updQ) - 1 /\ DOMAIN Tail(updQ) = 1..Len(Tail(updQ))
  BY <1>1 DEF TypeOK
<1>3. \A j \in 1..(Len(updQ) - 1) : Tail(updQ)[j] = updQ[j + 1]
  BY <1>1, <1>2 DEF TypeOK
<1>. QED
  BY <1>1, <1>2, <1>3

(* Who leaves, in any of the three ways: the entity is gone, and only its   *)
(* own character can have got an entry, that of a deletion or a first one.  *)
LeavesOf(p) ==
  \/ handle_exit_ingame(p)
  \/ handle_client_disconnect(p)
  \/ handle_client_disconnect_without_persistence(p)

LEMMA Leaving ==
  ASSUME TypeOK, SessionOK, NEW p \in Player, LeavesOf(p)
  PROVE  /\ \E st \in {"screen", "offline"} : DeleteEntity(p, st)
         /\ ev'.init = ev.init \ {p} /\ ev'.delete = ev.delete
         /\ \A c \in Char :
              \/ pending'[c] = pending[c]
              \/ /\ InGame(p) /\ c = character[p]
                 /\ \/ pending'[c] = New(Gone)
                    \/ pending[c] = NoAction /\ pending'[c] = New(mem[c])
         /\ UNCHANGED <<pc, disc, threadVars>>
<1>1. \E st \in {"screen", "offline"} : DeleteEntity(p, st)
  BY DEF LeavesOf, handle_exit_ingame, handle_client_disconnect,
         handle_client_disconnect_without_persistence
<1>2. ev'.init = ev.init \ {p} /\ ev'.delete = ev.delete
  BY NoEventTypes DEF LeavesOf, handle_exit_ingame, handle_client_disconnect,
         handle_client_disconnect_without_persistence
<1>3. UNCHANGED <<pc, disc, threadVars>>
  BY DEF LeavesOf, handle_exit_ingame, handle_client_disconnect,
         handle_client_disconnect_without_persistence
<1>4. pending' = persist_entity(p) \/ pending' = pending
  BY DEF LeavesOf, handle_exit_ingame, handle_client_disconnect,
         handle_client_disconnect_without_persistence
<1>5. ASSUME NEW c \in Char
      PROVE  \/ persist_entity(p)[c] = pending[c]
             \/ /\ InGame(p) /\ c = character[p]
                /\ \/ persist_entity(p)[c] = New(Gone)
                   \/ pending[c] = NoAction /\ persist_entity(p)[c] = New(mem[c])
  <2>1. InGame(p) => Owner[character[p]] = p
    BY DEF SessionOK
  <2>. QED
    BY <2>1 DEF persist_entity, queue_character_deletion, add_pending_logout_update, TypeOK
<1>. QED
  BY <1>1, <1>2, <1>3, <1>4, <1>5

(* The other steps of the main thread and of clients leave alone what       *)
(* LoadOK and RowsOK are about, but for the pending actions they clear.     *)
LEMMA QuietSteps ==
  ASSUME TypeOK,
         \/ \E p \in Player : Connect(p) \/ RequestExit(p) \/ LoseClient(p)
         \/ \E p \in Player, c \in Char : RequestDelete(p, c)
         \/ \E c, d \in Char : Transfer(c, d)
         \/ \E c \in Char : Die(c)
         \/ disconnect_all_clients_if_requested \/ RequestDisconnectAll
  PROVE  /\ ev'.init = ev.init
         /\ UNCHANGED <<character, load, pending, updQ, completed, db>>
         /\ \A p \in Player : presence'[p] # presence[p] => presence[p] = "offline" /\ presence'[p] = "screen"
<1>1. CASE \E p \in Player : Connect(p) \/ RequestExit(p) \/ LoseClient(p)
  BY <1>1 DEF Connect, RequestExit, LoseClient, sessionVars, threadVars, TypeOK, Events
<1>2. CASE \E p \in Player, c \in Char : RequestDelete(p, c)
  BY <1>2 DEF RequestDelete, sessionVars, threadVars, TypeOK, Events
<1>3. CASE \E c, d \in Char : Transfer(c, d)
  BY <1>3 DEF Transfer, threadVars
<1>4. CASE \E c \in Char : Die(c)
  BY <1>4 DEF Die, threadVars
<1>5. CASE RequestDisconnectAll
  BY <1>5 DEF RequestDisconnectAll, sessionVars, threadVars
<1>6. CASE disconnect_all_clients_if_requested
  <2>1. \/ ev' = [ev EXCEPT !.discNP = Clients]
        \/ ev' = [ev EXCEPT !.disc = Clients]
        \/ ev' = ev
    BY <1>6 DEF disconnect_all_clients_if_requested
  <2>. QED
    BY <1>6, <2>1 DEF disconnect_all_clients_if_requested, sessionVars, threadVars, TypeOK, Events
<1>. QED
  BY <1>1, <1>2, <1>3, <1>4, <1>5, <1>6

----------------------------------------------------------------------------
(* One step keeps what is known of logins under way.                        *)
LEMMA NextLoadOK == IInv /\ LoadOK /\ [Next]_vars => LoadOK'
<1>. SUFFICES ASSUME IInv, LoadOK, [Next]_vars PROVE LoadOK'
  OBVIOUS
<1>. USE DEF IInv
<1>1. ASSUME NEW q \in Player, NEW c \in Char, RequestCharacter(q, c) PROVE LoadOK'
  <2>1. /\ character' = [character EXCEPT ![q] = c]
        /\ load' = [load EXCEPT ![q] = [stage |-> "asked", row |-> Gone]]
        /\ ev'.init = ev.init \cup {q}
        /\ presence[q] = "screen" /\ pending[c] = NoAction
        /\ UNCHANGED <<presence, pending>>
        /\ pc' = "systems"
    BY <1>1 DEF RequestCharacter, TypeOK, Events, has_pending_database_action
  <2>2. \A p \in Player \ {q} : NoEntry(p) => NoEntry(p)'
    BY <2>1 DEF NoEntry, IsNew, TypeOK
  <2>3. NoEntry(q)'
    BY <2>1 DEF NoEntry, IsNew, TypeOK
  <2>. QED
    BY <2>1, <2>2, <2>3 DEF LoadOK, TypeOK
<1>2. ASSUME NEW q \in Player, LoaderAnswers(q) PROVE LoadOK'
  BY <1>2 DEF LoaderAnswers, TypeOK, LoadOK, NoEntry, IsNew
<1>3. CASE batch_update
  <2>1. \A c \in Char : /\ pending[c] = NoAction => pending'[c] = NoAction
                        /\ ~IsNew(c)'
    BY <1>3, Actions DEF batch_update, IsNew
  <2>2. UNCHANGED <<pc, presence, character, load, ev>>
    BY <1>3 DEF batch_update, sessionVars
  <2>3. \A p \in Player : load[p].stage # "idle" => character[p] \in Char
    BY DEF SessionOK
  <2>. QED
    BY <2>1, <2>2, <2>3 DEF LoadOK, NoEntry
<1>4. CASE PollMessages
  <2>1. ev'.init = {} /\ ev.init = {} /\ UNCHANGED <<presence, character>> /\ pc' = "systems"
    BY <1>4 DEF PollMessages, TypeOK, Events, LoadOK, NoEvent
  <2>2. \A c \in Char : pending'[c] = pending[c] \/ (pending'[c] = NoAction /\ ~IsNew(c)')
    BY <1>4 DEF PollMessages, process_batch_completion, IsNew
  <2>3. \A p \in Player : load'[p].stage # "idle" => load[p].stage # "idle" /\ character[p] \in Char
    BY <1>4 DEF PollMessages, TypeOK, SessionOK, Idle
  <2>4. \A p \in Player : character[p] \in Char /\ NoEntry(p) => NoEntry(p)'
    BY <2>1, <2>2 DEF NoEntry, IsNew
  <2>5. \A p \in Player : load'[p].stage = "delivered" => presence[p] = "loading"
    BY <2>1, <2>3 DEF LoadOK
  <2>. QED
    BY <2>1, <2>3, <2>4, <2>5 DEF LoadOK
<1>5. ASSUME NEW q \in Player, NEW st \in {"screen", "offline"}, DeleteEntity(q, st),
             pc' = "handlers", ev'.init = ev.init \ {q},
             \A p \in Player \ {q} : load[p].stage # "idle" /\ Owner[character[p]] = p => NoEntry(p)'
      PROVE  LoadOK'
  <2>1. load'[q].stage = "idle"
    BY <1>5, DeleteEntitySession
  <2>2. ASSUME NEW p \in Player \ {q}
        PROVE  load'[p] = load[p] /\ character'[p] = character[p] /\ presence'[p] = presence[p]
    BY <1>5, DeleteEntitySession
  <2>. QED
    BY <1>5, <2>1, <2>2 DEF LoadOK
<1>6. ASSUME NEW q \in Player, handle_initialize_character(q) PROVE LoadOK'
  <2>1. pc' = "handlers" /\ UNCHANGED pending
    BY <1>6 DEF handle_initialize_character
  <2>2. CASE has_pending_database_action(character[q])
    <3>1. DeleteEntity(q, "screen") /\ ev'.init = ev.init \ {q}
      BY <1>6, <2>2, NoEventTypes DEF handle_initialize_character
    <3>2. \A p \in Player \ {q} : NoEntry(p) => NoEntry(p)'
      BY <2>1, <3>1, DeleteEntitySession DEF NoEntry, IsNew
    <3>. QED
      BY <1>5, <2>1, <3>1, <3>2 DEF LoadOK
  <2>3. CASE ~has_pending_database_action(character[q])
    <3>1. /\ presence' = [presence EXCEPT ![q] = "loading"]
          /\ ev'.init = ev.init \ {q}
          /\ UNCHANGED <<character, load>>
      BY <1>6, <2>3 DEF handle_initialize_character, TypeOK, Events
    <3>2. \A p \in Player : NoEntry(p) => NoEntry(p)'
      BY <2>1, <3>1 DEF NoEntry, IsNew
    <3>. QED
      BY <2>1, <3>1, <3>2 DEF LoadOK, TypeOK
  <2>. QED
    BY <2>2, <2>3
<1>13. ASSUME NEW q \in Player, handle_loaded_character_data(q) PROVE LoadOK'
  BY <1>13 DEF handle_loaded_character_data, LoadOK, TypeOK, Idle, NoEntry, IsNew
<1>7. ASSUME NEW q \in Player, NEW c \in Char, handle_character_delete(q, c) PROVE LoadOK'
  <2>1. pc' = "handlers" /\ ev.init = {} /\ (Owner[c] = q \/ q \in Custom)
    BY <1>7 DEF handle_character_delete, SessionOK
  <2>2. /\ \A d \in Char : d # c => pending'[d] = pending[d]
        /\ pending'[c] = New(IF Owner[c] = q THEN Gone ELSE Keep)
    BY <1>7 DEF handle_character_delete, queue_character_deletion, TypeOK
  <2>3. ASSUME NEW p \in Player \ {q}, load[p].stage # "idle", Owner[character[p]] = p,
               character'[p] = character[p]
        PROVE  NoEntry(p)'
    <3>1. character[p] \in Char /\ NoEntry(p)
      BY <2>3 DEF LoadOK, SessionOK
    <3>2. CASE character[p] = c
      <4>1. q \in Custom \ {p} /\ Owner[c] # q
        BY <2>1, <2>3, <3>2
      <4>2. pending'[character'[p]].row = Keep
        BY <2>2, <2>3, <3>2, <4>1, Actions
      <4>. QED
        BY <4>1, <4>2 DEF NoEntry
    <3>3. CASE character[p] # c
      BY <2>2, <2>3, <3>1, <3>3 DEF NoEntry, IsNew
    <3>. QED
      BY <3>2, <3>3
  <2>4. CASE HasPresence(q)
    <3>1. DeleteEntity(q, "screen") /\ ev' = [NoEventFor(q) EXCEPT !.delete = @ \ {<<q, c>>}]
      BY <1>7, <2>4 DEF handle_character_delete
    <3>2. ev'.init = ev.init \ {q}
      BY <3>1, NoEventTypes DEF Events
    <3>3. \A p \in Player \ {q} : character'[p] = character[p]
      BY <3>1, DeleteEntitySession
    <3>. QED
      BY <1>5, <2>1, <2>3, <3>1, <3>2, <3>3
  <2>5. CASE ~HasPresence(q)
    <3>1. UNCHANGED <<presence, character, load>>
      BY <1>7, <2>5 DEF handle_character_delete, sessionVars
    <3>2. \A p \in Player : load[p].stage # "idle" => presence[p] = "loading" /\ p # q
      BY <2>1, <2>5 DEF LoadOK, HasPresence
    <3>3. \A p \in Player : load[p].stage # "idle" /\ Owner[character[p]] = p => NoEntry(p)'
      BY <2>3, <3>1, <3>2
    <3>. QED
      BY <2>1, <3>1, <3>2, <3>3 DEF LoadOK
  <2>. QED
    BY <2>4, <2>5
<1>8. ASSUME NEW q \in Player, LeavesOf(q) PROVE LoadOK'
  <2>1. PICK st \in {"screen", "offline"} : DeleteEntity(q, st)
    BY <1>8, Leaving
  <2>2. /\ ev'.init = ev.init \ {q} /\ pc' = "handlers"
        /\ \A c \in Char : pending'[c] # pending[c] => InGame(q) /\ c = character[q]
    BY <1>8, Leaving DEF LeavesOf, handle_exit_ingame, handle_client_disconnect,
         handle_client_disconnect_without_persistence
  <2>3. ASSUME NEW p \in Player \ {q}, load[p].stage # "idle", Owner[character[p]] = p
        PROVE  NoEntry(p)'
    <3>1. character'[p] = character[p] /\ character[p] \in Char /\ NoEntry(p)
      BY <2>1, <2>3, DeleteEntitySession DEF LoadOK, SessionOK
    <3>2. pending'[character[p]] = pending[character[p]]
      BY <2>2, <2>3, <3>1 DEF SessionOK
    <3>. QED
      BY <3>1, <3>2 DEF NoEntry, IsNew
  <2>. QED
    BY <1>5, <2>1, <2>2, <2>3
<1>9. CASE disconnected_success
  BY <1>9 DEF disconnected_success, sessionVars, LoadOK, NoEntry, IsNew
<1>10. CASE Crash
  BY <1>10 DEF Crash, LoadOK, Idle
<1>11. CASE Updater \/ UNCHANGED vars
  <2>1. UNCHANGED <<pc, presence, character, load, ev, pending>>
    BY <1>11 DEF Updater, BatchCommits, BatchFails, BatchSkipped, ResumeBatches, vars, sessionVars
  <2>. QED
    BY <2>1 DEF LoadOK, NoEntry, IsNew
<1>12. ASSUME \/ \E p \in Player : Connect(p) \/ RequestExit(p) \/ LoseClient(p)
              \/ \E p \in Player, c \in Char : RequestDelete(p, c)
              \/ \E c, d \in Char : Transfer(c, d)
              \/ \E c \in Char : Die(c)
              \/ disconnect_all_clients_if_requested \/ RequestDisconnectAll
       PROVE  LoadOK'
  <2>1. /\ ev'.init = ev.init
        /\ UNCHANGED <<character, load, pending>>
        /\ \A p \in Player : presence'[p] # presence[p] => presence[p] = "offline"
    BY <1>12, QuietSteps
  <2>2. pc' # "poll"
    BY <1>12 DEF Connect, RequestExit, LoseClient, RequestDelete, Transfer, Die,
                 disconnect_all_clients_if_requested, RequestDisconnectAll
  <2>. QED
    BY <2>1, <2>2 DEF LoadOK, NoEntry, IsNew
<1>. QED
  BY <1>1, <1>2, <1>3, <1>4, <1>5, <1>6, <1>7, <1>8, <1>9, <1>10, <1>11, <1>12, <1>13
     DEF Next, Tick, Handlers, Client, LeavesOf

----------------------------------------------------------------------------
(* What the updater thread does: it takes the message at the head, writes   *)
(* what the batch holds, or nothing, and perhaps answers.                   *)
LEMMA UpdaterSteps ==
  ASSUME TypeOK, Updater
  PROVE  /\ updQ # <<>> /\ updQ' = Tail(updQ)
         /\ completed' \subseteq completed \cup (IF IsBatch(1) THEN {updQ[1].id} ELSE {})
         /\ \A c \in Char : db'[c] # db[c] =>
              IsBatch(1) /\ updQ[1].updates[c] # Keep /\ db'[c] = updQ[1].updates[c]
         /\ UNCHANGED <<pc, presence, character, load, ev, mem, dead, pending, disc>>
<1>1. updQ # <<>> /\ updQ' = Tail(updQ)
  BY DEF Updater, BatchCommits, BatchFails, BatchSkipped, ResumeBatches, HeadIsBatch
<1>2. UNCHANGED <<pc, presence, character, load, ev, mem, dead, pending, disc>>
  BY DEF Updater, BatchCommits, BatchFails, BatchSkipped, ResumeBatches, sessionVars
<1>3. Head(updQ) = updQ[1] /\ 1 \in DOMAIN updQ
  BY <1>1, Taken
<1>4. HeadIsBatch <=> IsBatch(1)
  BY <1>1, <1>3 DEF HeadIsBatch, IsBatch
<1>5. completed' \subseteq completed \cup (IF IsBatch(1) THEN {updQ[1].id} ELSE {})
  BY <1>3, <1>4 DEF Updater, BatchCommits, BatchFails, BatchSkipped, ResumeBatches
<1>6. ASSUME NEW c \in Char, db'[c] # db[c]
      PROVE  IsBatch(1) /\ updQ[1].updates[c] # Keep /\ db'[c] = updQ[1].updates[c]
  BY <1>3, <1>4, <1>6 DEF Updater, BatchCommits, BatchFails, BatchSkipped, ResumeBatches
<1>. QED
  BY <1>1, <1>2, <1>5, <1>6

(* What batch_update sends: the entries it has submitted, over which are    *)
(* the characters in the game.                                              *)
LEMMA BatchSent ==
  ASSUME IInv, batch_update
  PROVE  \E id \in BatchId \ UsedIds :
           /\ updQ' = Append(updQ, BatchUpdateMsg(id, [c \in Char |-> BatchRow(c)]))
           /\ pending' = [c \in Char |-> IF IsNew(c) THEN Submitted(id) ELSE pending[c]]
<1>1. (CHOOSE i \in BatchId : i \notin UsedIds) \in BatchId \ UsedIds
  BY DEF batch_update, batch_update_enabled
<1>. QED
  BY <1>1 DEF batch_update

(* Whoever is in the game is played by its owner, and no save or deletion   *)
(* of it is queued.                                                         *)
LEMMA OnlinePending ==
  ASSUME IInv, NEW c \in Online
  PROVE  /\ c \in Char /\ Owner[c] \in Player
         /\ InGame(Owner[c]) /\ character[Owner[c]] = c
         /\ Holds(Owner[c]) /\ NoEntry(Owner[c])
<1>1. PICK p \in Player : InGame(p) /\ character[p] = c
  BY DEF Online
<1>2. c \in Char /\ Owner[c] = p
  BY <1>1 DEF IInv, SessionOK, InGame, HasPresence
<1>. QED
  BY <1>1, <1>2 DEF IInv, EntriesOK, Plays, Holds, InGame, HasPresence

LEMMA NextIdsOK == IInv /\ IdsOK /\ [Next]_vars => IdsOK'
<1>. SUFFICES ASSUME IInv, IdsOK, [Next]_vars PROVE IdsOK'
  OBVIOUS
<1>. USE DEF IInv
<1>1. CASE batch_update
  <2>1. PICK id \in BatchId \ UsedIds :
             updQ' = Append(updQ, BatchUpdateMsg(id, [c \in Char |-> BatchRow(c)]))
    BY <1>1, BatchSent
  <2>2. completed' = completed
    BY <1>1 DEF batch_update
  <2>3. id \notin completed /\ \A j \in DOMAIN updQ : IsBatch(j) => updQ[j].id # id
    BY DEF UsedIds, IsBatch
  <2>4. BatchUpdateMsg(id, [c \in Char |-> BatchRow(c)]).id = id
    BY DEF BatchUpdateMsg
  <2>. QED
    BY <2>1, <2>2, <2>3, <2>4, Appended DEF IdsOK, IsBatch
<1>2. CASE disconnected_success /\ updQ' = Append(updQ, DisconnectedSuccess)
  <2>1. completed' = completed
    BY <1>2 DEF disconnected_success
  <2>2. DisconnectedSuccess.type # "batch"
    BY DEF DisconnectedSuccess
  <2>. QED
    BY <1>2, <2>1, <2>2, Appended DEF IdsOK, IsBatch
<1>3. CASE Updater
  <2>1. /\ updQ # <<>> /\ updQ' = Tail(updQ)
        /\ completed' \subseteq completed \cup (IF IsBatch(1) THEN {updQ[1].id} ELSE {})
    BY <1>3, UpdaterSteps
  <2>2. \A j \in DOMAIN updQ' : j + 1 \in DOMAIN updQ /\ updQ'[j] = updQ[j + 1] /\ 1 \in DOMAIN updQ
                                /\ j \in Nat \ {0}
    BY <2>1, Taken
  <2>. QED
    BY <2>1, <2>2 DEF IdsOK, IsBatch
<1>4. CASE completed' \subseteq completed /\ updQ' = updQ
  BY <1>4 DEF IdsOK, IsBatch
<1>5. CASE Crash
  BY <1>5 DEF Crash, IdsOK
<1>6. \/ batch_update \/ (disconnected_success /\ updQ' = Append(updQ, DisconnectedSuccess))
      \/ Updater \/ Crash \/ (completed' \subseteq completed /\ updQ' = updQ)
  <2>1. ASSUME NEW p \in Player, Client(p) \/ LoaderAnswers(p)
        PROVE  completed' \subseteq completed /\ updQ' = updQ
    BY <2>1 DEF Client, Connect, RequestCharacter, RequestDelete, RequestExit, LoseClient,
                LoaderAnswers, threadVars
  <2>2. ASSUME NEW p \in Player, LeavesOf(p) PROVE completed' \subseteq completed /\ updQ' = updQ
    BY <2>2, Leaving DEF threadVars
  <2>3. CASE Tick
    BY <2>2, <2>3 DEF Tick, Handlers, LeavesOf, disconnect_all_clients_if_requested, disconnected_success,
         PollMessages, handle_initialize_character, handle_loaded_character_data,
         handle_character_delete, threadVars
  <2>4. ASSUME \/ \E c, d \in Char : Transfer(c, d)
               \/ \E c \in Char : Die(c)
               \/ RequestDisconnectAll
        PROVE  completed' \subseteq completed /\ updQ' = updQ
    BY <2>4, QuietSteps
  <2>5. CASE UNCHANGED vars
    BY <2>5 DEF vars, threadVars
  <2>. QED
    BY <2>1, <2>3, <2>4, <2>5 DEF Next
<1>. QED
  BY <1>1, <1>2, <1>3, <1>4, <1>5, <1>6

----------------------------------------------------------------------------
(* One step keeps what is known of the rows.                                *)

(* A row is deleted only while its character has an entry: then nobody is   *)
(* in the game with it, nobody loads it, and no save of it is pending.      *)
LEMMA DeletingPending ==
  ASSUME RInv, NEW c \in Char, NEW j \in DOMAIN updQ, Deletes(j, c)
  PROVE  /\ pending[c] # NoAction
         /\ ~(IsNew(c) /\ pending[c].row \in Nat)
         /\ \A p \in Player : Holds(p) => character[p] # c
<1>. USE DEF RInv, IInv
<1>1. DeletionQueued(c) \/ Awaited(j, c)
  BY DEF RowsOK
<1>2. \A k \in DOMAIN updQ : IsBatch(k) => updQ[k].id \in BatchId
  BY DEF TypeOK, IsBatch, Message
<1>3. DeletionQueued(c) => pending[c] # NoAction /\ pending[c].row \notin Nat
  BY Actions, NoActionIsNone DEF DeletionQueued, Row, Gone, Keep
<1>4. Awaited(j, c) => pending[c] # NoAction /\ ~IsNew(c)
  BY <1>2, Actions, NoActionIsNone DEF Awaited, IsNew
<1>5. \A p \in Player : Holds(p) => character[p] # c
  BY DEF RowsOK, HeldOK
<1>. QED
  BY <1>1, <1>3, <1>4, <1>5

LEMMA DeletedRows ==
  ASSUME RInv, Updater, NEW c \in Char, db[c] # Gone, db'[c] = Gone
  PROVE  Deletes(1, c) /\ 1 \in DOMAIN updQ
<1>. USE DEF RInv, IInv
<1>1. IsBatch(1) /\ updQ[1].updates[c] = Gone
  BY UpdaterSteps
<1>. QED
  BY <1>1 DEF Deletes, IsBatch

LEMMA NextRowsOK == RInv /\ IInv' /\ [Next]_vars => RowsOK'
<1>. SUFFICES ASSUME RInv, IInv', [Next]_vars PROVE RowsOK'
  OBVIOUS
<1>. USE DEF RInv, IInv
<1>1. CASE batch_update
  <2>1. PICK id \in BatchId \ UsedIds :
          /\ updQ' = Append(updQ, BatchUpdateMsg(id, [c \in Char |-> BatchRow(c)]))
          /\ pending' = [c \in Char |-> IF IsNew(c) THEN Submitted(id) ELSE pending[c]]
    BY <1>1, BatchSent
  <2>11. PICK n \in Nat : n = Len(updQ)
    BY DEF TypeOK
  <2>12. PICK m : m = BatchUpdateMsg(id, [c \in Char |-> BatchRow(c)])
    OBVIOUS
  <2>2. m.type = "batch" /\ m.id = id /\ \A c \in Char : m.updates[c] = BatchRow(c)
    BY <2>12 DEF BatchUpdateMsg
  <2>3. UNCHANGED <<presence, character, load, mem, db>>
    BY <1>1 DEF batch_update, sessionVars
  <2>4. /\ n \in Nat /\ DOMAIN updQ = 1..n /\ DOMAIN updQ' = 1..(n + 1)
        /\ \A j \in 1..n : updQ'[j] = updQ[j]
        /\ updQ'[n + 1] = m
    BY <2>1, <2>11, <2>12, Appended
  <2>5. \A j \in 1..n, c \in Char : /\ IsBatch(j)' = IsBatch(j)
                                    /\ Deletes(j, c)' = Deletes(j, c)
                                    /\ UpdatesRow(j, c)' = UpdatesRow(j, c)
    BY <2>4 DEF IsBatch, Deletes, UpdatesRow
  <2>6. IsBatch(n + 1)' /\ \A c \in Char : /\ Deletes(n + 1, c)' <=> BatchRow(c) = Gone
                                           /\ UpdatesRow(n + 1, c)' <=> BatchRow(c) \in Nat
    BY <2>2, <2>4 DEF IsBatch, Deletes, UpdatesRow
  <2>7. ASSUME NEW c \in Char, NEW j \in DOMAIN updQ', Deletes(j, c)'
        PROVE  Awaited(j, c)'
    <3>1. CASE j \in 1..n
      <4>1. Deletes(j, c) /\ j \in DOMAIN updQ
        BY <2>4, <2>5, <2>7, <3>1
      <4>2. CASE DeletionQueued(c)
        <5>1. IsNew(c)
          BY <4>2, Actions, NoActionIsNone DEF DeletionQueued, IsNew, Row
        <5>. QED
          BY <2>1, <2>2, <2>4, <2>6, <3>1, <5>1 DEF Awaited
      <4>3. CASE Awaited(j, c)
        <5>1. PICK k \in 1..n : k >= j /\ IsBatch(k) /\ pending[c] = Submitted(updQ[k].id)
          BY <2>4, <4>3 DEF Awaited
        <5>2. ~IsNew(c)
          BY <5>1, Actions DEF IsNew
        <5>. QED
          BY <2>1, <2>4, <2>5, <5>1, <5>2 DEF Awaited
      <4>. QED
        BY <4>1, <4>2, <4>3 DEF RowsOK
    <3>2. CASE j = n + 1
      <4>1. BatchRow(c) = Gone
        BY <2>6, <2>7, <3>2
      <4>2. IsNew(c)
        BY <4>1 DEF BatchRow, TypeOK, Gone, Keep
      <4>. QED
        BY <2>1, <2>2, <2>4, <2>6, <3>2, <4>2 DEF Awaited
    <3>. QED
      BY <2>4, <3>1, <3>2
  <2>8. ASSUME NEW c \in Char, NEW j \in DOMAIN updQ', UpdatesRow(j, c)'
        PROVE  db[c] # Gone /\ \A i \in DOMAIN updQ' : i < j => ~Deletes(i, c)'
    <3>1. CASE j \in 1..n
      BY <2>4, <2>5, <2>8, <3>1 DEF RowsOK
    <3>2. CASE j = n + 1
      <4>1. BatchRow(c) \in Nat
        BY <2>6, <2>8, <3>2
      <4>2. c \in Online \/ (IsNew(c) /\ pending[c].row \in Nat)
        BY <4>1 DEF BatchRow, Gone, Keep
      <4>3. db[c] # Gone
        BY <4>2 DEF RowsOK
      <4>4. \A i \in 1..n : ~Deletes(i, c)
        BY <2>4, <4>2, DeletingPending, OnlinePending
      <4>. QED
        BY <2>4, <2>5, <3>2, <4>3, <4>4
    <3>. QED
      BY <2>4, <3>1, <3>2
  <2>9. Online' = Online
    BY <2>3 DEF Online, InGame
  <2>10. \A c \in Char : IsNew(c)' => IsNew(c) /\ FALSE
    BY <2>1, Actions DEF IsNew
  <2>13. HeldOK'
    <3>. SUFFICES ASSUME NEW p \in Player, Holds(p)', NEW j \in DOMAIN updQ', NEW c \in Char,
                         c = character'[p]
                  PROVE  ~Deletes(j, c)'
      BY <2>3 DEF HeldOK, Holds, HasPresence, SessionOK
    <3>1. Holds(p) /\ c = character[p]
      BY <2>3 DEF Holds, HasPresence
    <3>2. ~(IsNew(c) /\ pending[c].row # Keep)
      BY <3>1 DEF Holds, LoadOK, EntriesOK, Plays, NoEntry
    <3>3. BatchRow(c) # Gone
      BY <3>2 DEF BatchRow, TypeOK, Gone, Keep
    <3>4. j \in 1..n => ~Deletes(j, c)
      BY <2>4, <3>1 DEF RowsOK, HeldOK
    <3>. QED
      BY <2>4, <2>5, <2>6, <3>3, <3>4
  <2>. QED
    BY <2>3, <2>7, <2>8, <2>9, <2>10, <2>13 DEF RowsOK
<1>2. CASE Updater
  <2>1. /\ updQ # <<>> /\ updQ' = Tail(updQ)
        /\ \A c \in Char : db'[c] # db[c] =>
             IsBatch(1) /\ updQ[1].updates[c] # Keep /\ db'[c] = updQ[1].updates[c]
        /\ UNCHANGED <<presence, character, load, pending>>
    BY <1>2, UpdaterSteps
  <2>2. \A j \in DOMAIN updQ' : /\ j \in Nat \ {0} /\ j + 1 \in DOMAIN updQ /\ 1 \in DOMAIN updQ
                                /\ updQ'[j] = updQ[j + 1]
    BY <2>1, Taken
  <2>3. \A k \in DOMAIN updQ : k \in Nat \ {0} /\ (k # 1 => k - 1 \in DOMAIN updQ')
    BY <2>1, Taken
  <2>4. \A j \in DOMAIN updQ', c \in Char : /\ IsBatch(j)' <=> IsBatch(j + 1)
                                            /\ Deletes(j, c)' <=> Deletes(j + 1, c)
                                            /\ UpdatesRow(j, c)' <=> UpdatesRow(j + 1, c)
    BY <2>2 DEF IsBatch, Deletes, UpdatesRow
  <2>5. ASSUME NEW c \in Char, NEW j \in DOMAIN updQ', Deletes(j, c)'
        PROVE  DeletionQueued(c)' \/ Awaited(j, c)'
    <3>1. DeletionQueued(c) \/ Awaited(j + 1, c)
      BY <2>2, <2>4, <2>5 DEF RowsOK
    <3>2. ASSUME Awaited(j + 1, c) PROVE Awaited(j, c)'
      <4>1. PICK k \in DOMAIN updQ : k >= j + 1 /\ IsBatch(k) /\ pending[c] = Submitted(updQ[k].id)
        BY <3>2 DEF Awaited
      <4>2. k - 1 \in DOMAIN updQ' /\ k - 1 >= j /\ k = (k - 1) + 1
        BY <2>2, <2>3, <4>1
      <4>. QED
        BY <2>1, <2>2, <2>4, <4>1, <4>2 DEF Awaited, IsBatch
    <3>. QED
      BY <2>1, <3>1, <3>2 DEF DeletionQueued
  <2>6. \A c \in Char : db[c] # Gone /\ db'[c] = Gone =>
          /\ Deletes(1, c) /\ 1 \in DOMAIN updQ
          /\ ~(IsNew(c) /\ pending[c].row \in Nat)
          /\ \A p \in Player : Holds(p) => character[p] # c
    BY <1>2, DeletedRows, DeletingPending
  <2>7. ASSUME NEW c \in Char, NEW j \in DOMAIN updQ', UpdatesRow(j, c)'
        PROVE  db'[c] # Gone /\ \A i \in DOMAIN updQ' : i < j => ~Deletes(i, c)'
    <3>1. UpdatesRow(j + 1, c) /\ j + 1 \in DOMAIN updQ /\ j \in Nat \ {0}
      BY <2>2, <2>4, <2>7
    <3>2. db[c] # Gone /\ \A i \in DOMAIN updQ : i < j + 1 => ~Deletes(i, c)
      BY <3>1 DEF RowsOK
    <3>3. \A i \in DOMAIN updQ' : i < j => ~Deletes(i, c)'
      BY <2>2, <2>4, <3>1, <3>2
    <3>4. db'[c] # Gone
      BY <2>6, <3>1, <3>2
    <3>. QED
      BY <3>3, <3>4
  <2>8. \A c \in Online : db'[c] # Gone
    <3>1. \A c \in Online : /\ c \in Char /\ db[c] # Gone
                           /\ Owner[c] \in Player /\ Holds(Owner[c]) /\ character[Owner[c]] = c
      BY OnlinePending DEF RowsOK
    <3>. QED
      BY <2>6, <3>1
  <2>9. Online' = Online /\ \A c \in Char : IsNew(c)' = IsNew(c)
    BY <2>1 DEF Online, InGame, IsNew
  <2>10. ASSUME NEW p \in Player, load[p].stage \in {"answered", "delivered"}, load[p].row # Gone
         PROVE  db'[character[p]] # Gone
    <3>1. character[p] \in Char /\ Holds(p) /\ db[character[p]] # Gone
      BY <2>10 DEF RowsOK, Holds, SessionOK
    <3>. QED
      BY <2>6, <3>1
  <2>11. HeldOK'
    <3>. SUFFICES ASSUME NEW p \in Player, Holds(p)', NEW j \in DOMAIN updQ', NEW c \in Char,
                         c = character'[p]
                  PROVE  ~Deletes(j, c)'
      BY <2>1 DEF HeldOK, Holds, HasPresence, SessionOK
    <3>1. Holds(p) /\ c = character[p] /\ j + 1 \in DOMAIN updQ
      BY <2>1, <2>2 DEF Holds, HasPresence
    <3>2. ~Deletes(j + 1, c)
      BY <3>1 DEF RowsOK, HeldOK
    <3>. QED
      BY <2>4, <3>2
  <2>. QED
    BY <2>1, <2>5, <2>6, <2>7, <2>8, <2>9, <2>10, <2>11 DEF RowsOK
<1>3. CASE disconnected_success /\ updQ' = Append(updQ, DisconnectedSuccess)
  <2>1. UNCHANGED <<presence, character, load, pending, db>>
    BY <1>3 DEF disconnected_success, sessionVars
  <2>2. PICK n \in Nat : n = Len(updQ)
    BY DEF TypeOK
  <2>3. /\ DOMAIN updQ = 1..n /\ DOMAIN updQ' = 1..(n + 1)
        /\ \A j \in 1..n : updQ'[j] = updQ[j]
        /\ updQ'[n + 1].type # "batch"
    BY <1>3, <2>2, Appended DEF DisconnectedSuccess
  <2>4. \A j \in DOMAIN updQ', c \in Char :
          /\ IsBatch(j)' <=> j \in 1..n /\ IsBatch(j)
          /\ Deletes(j, c)' <=> j \in 1..n /\ Deletes(j, c)
          /\ UpdatesRow(j, c)' <=> j \in 1..n /\ UpdatesRow(j, c)
    BY <2>3 DEF IsBatch, Deletes, UpdatesRow
  <2>5. \A j \in 1..n, c \in Char : Awaited(j, c) => Awaited(j, c)'
    BY <2>1, <2>3, <2>4 DEF Awaited
  <2>6. Online' = Online /\ \A c \in Char : IsNew(c)' = IsNew(c)
    BY <2>1 DEF Online, InGame, IsNew
  <2>7. HeldOK'
    <3>1. \A p \in Player : Holds(p)' => Holds(p) /\ character'[p] = character[p] /\ character[p] \in Char
      BY <2>1 DEF Holds, HasPresence, SessionOK
    <3>. QED
      BY <2>3, <2>4, <3>1 DEF RowsOK, HeldOK
  <2>. QED
    BY <2>1, <2>3, <2>4, <2>5, <2>6, <2>7 DEF RowsOK, DeletionQueued
<1>. DEFINE SameQueue == UNCHANGED <<updQ, db>>
<1>4. ASSUME SameQueue
      PROVE  \A j \in DOMAIN updQ, c \in Char :
               /\ Deletes(j, c)' = Deletes(j, c) /\ UpdatesRow(j, c)' = UpdatesRow(j, c)
               /\ pending'[c] = pending[c] => Awaited(j, c)' = Awaited(j, c)
  BY <1>4 DEF Deletes, UpdatesRow, Awaited, IsBatch
<1>18. ASSUME SameQueue,
              \A p \in Player : Holds(p)' =>
                \/ Holds(p) /\ character'[p] = character[p]
                \/ character'[p] \in Char /\ pending[character'[p]] = NoAction
       PROVE  HeldOK'
  <2>1. \A p \in Player : Holds(p)' => character'[p] \in Char
    BY <1>18 DEF Holds, HasPresence, SessionOK
  <2>2. ASSUME NEW p \in Player, Holds(p)', NEW j \in DOMAIN updQ', NEW c \in Char, c = character'[p]
        PROVE  ~Deletes(j, c)'
    <3>1. j \in DOMAIN updQ
      BY <1>18
    <3>2. ~Deletes(j, c)
      BY <1>18, <2>2, <3>1, DeletingPending DEF RowsOK, HeldOK
    <3>. QED
      BY <1>4, <1>18, <3>1, <3>2
  <2>. QED
    BY <2>1, <2>2 DEF HeldOK
<1>5. ASSUME SameQueue, UNCHANGED pending, Online' \subseteq Online,
             \A p \in Player : Holds(p)' =>
               \/ Holds(p) /\ character'[p] = character[p]
               \/ character'[p] \in Char /\ pending[character'[p]] = NoAction,
             \A p \in Player : load'[p].stage \in {"answered", "delivered"} /\ load'[p].row # Gone =>
               \/ load'[p] = load[p] /\ character'[p] = character[p]
               \/ load'[p].row = db[character'[p]]
      PROVE  RowsOK'
  <2>1. \A c \in Char : IsNew(c)' = IsNew(c)
    BY <1>5 DEF IsNew
  <2>. QED
    BY <1>4, <1>5, <1>18, <2>1 DEF RowsOK, DeletionQueued
<1>6. ASSUME NEW q \in Player, NEW c \in Char, RequestCharacter(q, c) PROVE RowsOK'
  <2>1. /\ load' = [load EXCEPT ![q] = [stage |-> "asked", row |-> Gone]]
        /\ character' = [character EXCEPT ![q] = c] /\ presence[q] = "screen"
        /\ pending[c] = NoAction
        /\ UNCHANGED <<presence, pending, updQ, db>>
    BY <1>6 DEF RequestCharacter, threadVars, has_pending_database_action
  <2>2. Online' \subseteq Online
    BY <2>1 DEF Online, InGame, TypeOK
  <2>3. \A p \in Player : Holds(p)' => \/ Holds(p) /\ character'[p] = character[p]
                                       \/ character'[p] \in Char /\ pending[character'[p]] = NoAction
    BY <2>1 DEF Holds, HasPresence, TypeOK
  <2>. QED
    BY <1>5, <2>1, <2>2, <2>3 DEF TypeOK
<1>7. ASSUME NEW q \in Player, LoaderAnswers(q) PROVE RowsOK'
  <2>1. /\ load' = [load EXCEPT ![q] = [stage |-> "answered", row |-> LoadedRow(q)]]
        /\ load[q].stage = "asked"
        /\ LoadedRow(q) # Gone => LoadedRow(q) = db[character[q]]
        /\ UNCHANGED <<presence, character, pending, updQ, db>>
    BY <1>7 DEF LoaderAnswers, LoadedRow, threadVars
  <2>2. Online' \subseteq Online
    BY <2>1 DEF Online, InGame
  <2>3. \A p \in Player : Holds(p)' => Holds(p) /\ character'[p] = character[p]
    BY <2>1 DEF Holds, HasPresence, TypeOK
  <2>. QED
    BY <1>5, <2>1, <2>2, <2>3 DEF TypeOK
<1>19. ASSUME NEW q \in Player, NEW st \in {"screen", "offline"}, DeleteEntity(q, st)
       PROVE  /\ Online' \subseteq Online
              /\ \A p \in Player :
                   /\ Holds(p)' => Holds(p) /\ character'[p] = character[p]
                   /\ load'[p].stage # "idle" => load'[p] = load[p] /\ character'[p] = character[p]
  <2>1. ~HasPresence(q)' /\ load'[q].stage = "idle"
    BY <1>19, DeleteEntitySession
  <2>2. ASSUME NEW p \in Player \ {q}
        PROVE  /\ HasPresence(p)' = HasPresence(p) /\ presence'[p] = presence[p]
               /\ character'[p] = character[p] /\ load'[p] = load[p]
    BY <1>19, DeleteEntitySession
  <2>3. Online' \subseteq Online
    BY <2>1, <2>2 DEF Online, InGame, HasPresence
  <2>. QED
    BY <2>1, <2>2, <2>3 DEF Holds
<1>8. ASSUME NEW q \in Player, handle_initialize_character(q) PROVE RowsOK'
  <2>1. UNCHANGED <<pending, updQ, db>>
    BY <1>8 DEF handle_initialize_character, threadVars
  <2>2. CASE has_pending_database_action(character[q])
    <3>1. DeleteEntity(q, "screen")
      BY <1>8, <2>2 DEF handle_initialize_character
    <3>. QED
      BY <1>5, <1>19, <2>1, <3>1
  <2>3. CASE ~has_pending_database_action(character[q])
    <3>1. presence' = [presence EXCEPT ![q] = "loading"] /\ UNCHANGED <<character, load>>
      BY <1>8, <2>3 DEF handle_initialize_character
    <3>2. Online' \subseteq Online
      BY <3>1 DEF Online, InGame, TypeOK
    <3>3. pending[character[q]] = NoAction /\ character[q] \in Char
      BY <1>8, <2>3 DEF handle_initialize_character, has_pending_database_action, SessionOK
    <3>4. \A p \in Player : Holds(p)' => \/ Holds(p) /\ character'[p] = character[p]
                                         \/ character'[p] \in Char /\ pending[character'[p]] = NoAction
      BY <3>1, <3>3 DEF Holds, HasPresence, TypeOK
    <3>. QED
      BY <1>5, <2>1, <3>1, <3>2, <3>4
  <2>. QED
    BY <2>2, <2>3
<1>9. ASSUME NEW q \in Player, handle_loaded_character_data(q) PROVE RowsOK'
  <2>1. /\ load[q].stage = "delivered" /\ load[q].row # Gone /\ character[q] \in Char
        /\ presence[q] = "loading"
        /\ presence' = [presence EXCEPT ![q] = "ingame"]
        /\ load' = [load EXCEPT ![q] = Idle]
        /\ UNCHANGED <<character, pending, updQ, db>>
    BY <1>9 DEF handle_loaded_character_data, Delivered, SessionOK, threadVars
  <2>2. db[character[q]] # Gone
    BY <2>1 DEF RowsOK
  <2>3. Online' \subseteq Online \cup {character[q]}
    BY <2>1 DEF Online, InGame, TypeOK
  <2>4. \A p \in Player : load'[p].stage # "idle" => load'[p] = load[p]
    BY <2>1 DEF TypeOK, Idle
  <2>5. \A c \in Char : IsNew(c)' = IsNew(c)
    BY <2>1 DEF IsNew
  <2>6. \A p \in Player : Holds(p)' => Holds(p) /\ character'[p] = character[p]
    BY <2>1, <2>4 DEF Holds, HasPresence, TypeOK
  <2>. QED
    BY <1>4, <1>18, <2>1, <2>2, <2>3, <2>4, <2>5, <2>6 DEF RowsOK, DeletionQueued
<1>10. CASE PollMessages
  <2>1. /\ pending' = process_batch_completion(completed)
        /\ UNCHANGED <<presence, character, updQ, db>>
    BY <1>10 DEF PollMessages
  <2>2. \A c \in Char : \/ pending'[c] = pending[c]
                        \/ pending'[c] = NoAction /\ \E id \in completed : pending[c] = Submitted(id)
    BY <2>1 DEF process_batch_completion
  <2>3. \A c \in Char, j \in DOMAIN updQ :
          (DeletionQueued(c) \/ Awaited(j, c)) => pending'[c] = pending[c]
    BY <2>2, Actions DEF Awaited, IdsOK, DeletionQueued
  <2>4. Online' = Online /\ \A c \in Char : IsNew(c)' => IsNew(c) /\ pending'[c] = pending[c]
    BY <2>1, <2>2 DEF Online, InGame, IsNew
  <2>5. \A p \in Player : load'[p].stage \in {"answered", "delivered"} =>
          load[p].stage \in {"answered", "delivered"} /\ load'[p].row = load[p].row
    BY <1>10 DEF PollMessages, TypeOK, Idle
  <2>6. \A p \in Player : load'[p].stage # "idle" => load[p].stage # "idle"
    BY <1>10 DEF PollMessages, TypeOK, Idle
  <2>7. \A p \in Player : Holds(p)' => Holds(p) /\ character'[p] = character[p]
    BY <2>1, <2>6 DEF Holds, HasPresence
  <2>. QED
    BY <1>4, <1>18, <2>1, <2>3, <2>4, <2>5, <2>7 DEF RowsOK, DeletionQueued
<1>11. ASSUME SameQueue, Online' \subseteq Online,
              \A p \in Player : load'[p].stage # "idle" =>
                load'[p] = load[p] /\ character'[p] = character[p],
              \A p \in Player : Holds(p)' => Holds(p) /\ character'[p] = character[p],
              \A c \in Char : \/ pending'[c] = pending[c]
                              \/ DeletionQueued(c)'
                              \/ pending[c] = NoAction /\ c \in Online
       PROVE  RowsOK'
  <2>1. \A c \in Char : pending[c] = NoAction => \A j \in DOMAIN updQ : ~Deletes(j, c)
    BY DeletingPending
  <2>2. \A c \in Char : IsNew(c)' /\ pending'[c].row \in Nat =>
          \/ IsNew(c) /\ pending'[c] = pending[c]
          \/ c \in Online
    BY <1>11, Actions DEF IsNew, DeletionQueued, Gone, Keep
  <2>3. \A c \in Char, j \in DOMAIN updQ :
          Deletes(j, c) => DeletionQueued(c)' \/ Awaited(j, c)'
    BY <1>4, <1>11, <2>1 DEF RowsOK, DeletionQueued
  <2>. QED
    BY <1>4, <1>11, <1>18, <2>2, <2>3 DEF RowsOK
<1>12. ASSUME NEW q \in Player, NEW c \in Char, handle_character_delete(q, c) PROVE RowsOK'
  <2>1. UNCHANGED <<updQ, db>> /\ pending' = queue_character_deletion(q, c)
    BY <1>12 DEF handle_character_delete, threadVars
  <2>2. \A d \in Char : pending'[d] = pending[d] \/ DeletionQueued(d)'
    BY <2>1 DEF queue_character_deletion, DeletionQueued, TypeOK
  <2>3. CASE HasPresence(q)
    <3>1. DeleteEntity(q, "screen")
      BY <1>12, <2>3 DEF handle_character_delete
    <3>. QED
      BY <1>11, <1>19, <2>1, <2>2, <3>1
  <2>4. CASE ~HasPresence(q)
    <3>1. UNCHANGED <<presence, character, load>>
      BY <1>12, <2>4 DEF handle_character_delete, sessionVars
    <3>2. Online' = Online
      BY <3>1 DEF Online, InGame
    <3>. QED
      BY <1>11, <2>1, <2>2, <3>1, <3>2 DEF Holds, HasPresence
  <2>. QED
    BY <2>3, <2>4
<1>13. ASSUME NEW q \in Player, LeavesOf(q) PROVE RowsOK'
  <2>1. PICK st \in {"screen", "offline"} : DeleteEntity(q, st)
    BY <1>13, Leaving
  <2>2. \A c \in Char : \/ pending'[c] = pending[c]
                        \/ DeletionQueued(c)'
                        \/ pending[c] = NoAction /\ c \in Online
    BY <1>13, Leaving DEF Online, DeletionQueued
  <2>3. UNCHANGED <<updQ, db>>
    BY <1>13, Leaving DEF threadVars
  <2>. QED
    BY <1>11, <1>19, <2>1, <2>2, <2>3
<1>14. CASE Crash
  BY <1>14 DEF Crash, RowsOK, HeldOK, Online, InGame, IsNew, Idle, Holds, HasPresence
<1>15. ASSUME \/ \E p \in Player : Connect(p) \/ RequestExit(p) \/ LoseClient(p)
              \/ \E p \in Player, c \in Char : RequestDelete(p, c)
              \/ \E c, d \in Char : Transfer(c, d)
              \/ \E c \in Char : Die(c)
              \/ disconnect_all_clients_if_requested \/ RequestDisconnectAll
       PROVE  RowsOK'
  <2>1. /\ UNCHANGED <<character, load, pending, updQ, db>>
        /\ \A p \in Player : presence'[p] # presence[p] => presence'[p] = "screen"
    BY <1>15, QuietSteps
  <2>2. Online' \subseteq Online
    BY <2>1 DEF Online, InGame
  <2>3. \A p \in Player : Holds(p)' => Holds(p) /\ character'[p] = character[p]
    BY <2>1 DEF Holds, HasPresence
  <2>. QED
    BY <1>5, <2>1, <2>2, <2>3
<1>16. CASE disconnected_success /\ UNCHANGED updQ
  BY <1>5, <1>16 DEF disconnected_success, sessionVars, Online, InGame, Holds, HasPresence
<1>17. CASE UNCHANGED vars
  BY <1>5, <1>17 DEF vars, sessionVars, threadVars, Online, InGame, Holds, HasPresence
<1>20. disconnected_success =>
         UNCHANGED updQ \/ updQ' = Append(updQ, DisconnectedSuccess)
  BY DEF disconnected_success
<1>. QED
  BY <1>1, <1>2, <1>3, <1>6, <1>7, <1>8, <1>9, <1>10, <1>12, <1>13, <1>14, <1>15, <1>16, <1>17, <1>20
     DEF Next, Tick, Handlers, Client, LeavesOf

----------------------------------------------------------------------------
(* The invariant holds in the initial state and is kept.                    *)
LEMMA InitRInv == Init => RInv
<1>. SUFFICES ASSUME Init PROVE RInv
  OBVIOUS
<1>1. updQ = <<>> /\ DOMAIN updQ = {}
  BY DEF Init
<1>2. Online = {} /\ \A c \in Char : ~IsNew(c)
  BY DEF Init, Online, InGame, IsNew
<1>3. IdsOK /\ LoadOK /\ RowsOK
  BY <1>1, <1>2, PersistenceAssumption
     DEF Init, IdsOK, LoadOK, RowsOK, HeldOK, Holds, HasPresence, Idle, NoEvent
<1>. QED
  BY <1>3, InitIInv DEF RInv

LEMMA NextRInv == RInv /\ [Next]_vars => RInv'
<1>1. IInv /\ [Next]_vars => IInv'
  BY NextTypeOK, NextSessionOK DEF IInv
<1>. QED
  BY <1>1, NextIdsOK, NextLoadOK, NextRowsOK DEF RInv

(* What is at the head of the channel can be written.                       *)
LEMMA HeadWritable == RInv => BatchesAreWritable
<1>. SUFFICES ASSUME RInv, HeadIsBatch PROVE Writable(Head(updQ).updates)
  BY DEF BatchesAreWritable
<1>1. 1 \in DOMAIN updQ /\ Head(updQ) = updQ[1]
  BY DEF HeadIsBatch, RInv, IInv, TypeOK
<1>2. \A c \in Char : updQ[1].updates[c] \in Nat => UpdatesRow(1, c)
  BY <1>1 DEF HeadIsBatch, UpdatesRow, IsBatch
<1>. QED
  BY <1>1, <1>2 DEF Writable, RInv, RowsOK

(* Only a batch takes away the entry of a deletion, and it deletes the row: *)
(* whoever is deleted is not in the game, so no save comes over it.  Or     *)
(* another account asks for the deletion.                                   *)
LEMMA DeletionStep ==
  ASSUME RInv, [Next]_vars, ~Crash, NEW c \in Char,
         pending[c] = New(Gone), pending'[c] # New(Gone)
  PROVE  \/ \E i \in DOMAIN updQ' : /\ updQ'[i].type = "batch"
                                    /\ pending'[c] = Submitted(updQ'[i].id)
                                    /\ updQ'[i].updates[c] = Gone
         \/ \E p \in Custom : Owner[c] # p /\ handle_character_delete(p, c)
<1>. USE DEF RInv, IInv
<1>1. IsNew(c) /\ pending[c].row = Gone /\ pending[c] # NoAction
  BY Actions, NoActionIsNone DEF IsNew, Row
<1>2. c \notin Online
  BY <1>1, OnlinePending DEF NoEntry, Gone, Keep
<1>3. CASE batch_update
  <2>1. PICK id \in BatchId \ UsedIds :
          /\ updQ' = Append(updQ, BatchUpdateMsg(id, [d \in Char |-> BatchRow(d)]))
          /\ pending' = [d \in Char |-> IF IsNew(d) THEN Submitted(id) ELSE pending[d]]
    BY <1>3, BatchSent
  <2>2. PICK m : m = BatchUpdateMsg(id, [d \in Char |-> BatchRow(d)])
    OBVIOUS
  <2>3. m.type = "batch" /\ m.id = id /\ m.updates[c] = Gone
    BY <1>1, <1>2, <2>2 DEF BatchUpdateMsg, BatchRow
  <2>4. Len(updQ) + 1 \in DOMAIN updQ' /\ updQ'[Len(updQ) + 1] = m
    BY <2>1, <2>2, Appended
  <2>. QED
    BY <1>1, <2>1, <2>3, <2>4
<1>4. CASE PollMessages
  BY <1>1, <1>4, Actions DEF PollMessages, process_batch_completion, IsNew
<1>5. ASSUME NEW q \in Player, NEW d \in Char, handle_character_delete(q, d)
      PROVE  \E p \in Custom : Owner[c] # p /\ handle_character_delete(p, c)
  <2>1. pending' = [pending EXCEPT ![d] = New(IF Owner[d] = q THEN Gone ELSE Keep)]
    BY <1>5 DEF handle_character_delete, queue_character_deletion
  <2>2. d = c /\ Owner[d] # q
    BY <2>1 DEF TypeOK
  <2>3. q \in Custom
    BY <1>5, <2>2 DEF handle_character_delete, SessionOK
  <2>. QED
    BY <1>5, <2>2, <2>3
<1>6. ASSUME NEW q \in Player, LeavesOf(q) PROVE FALSE
  BY <1>1, <1>6, Leaving
<1>7. ASSUME NEW q \in Player, Client(q) \/ LoaderAnswers(q) PROVE FALSE
  BY <1>7 DEF Client, Connect, RequestCharacter, RequestDelete, RequestExit, LoseClient, LoaderAnswers
<1>8. ASSUME NEW q \in Player, handle_initialize_character(q) \/ handle_loaded_character_data(q)
      PROVE  FALSE
  BY <1>8 DEF handle_initialize_character, handle_loaded_character_data
<1>9. ~(\/ \E d, e \in Char : Transfer(d, e)
        \/ \E d \in Char : Die(d)
        \/ disconnect_all_clients_if_requested \/ RequestDisconnectAll)
  BY QuietSteps
<1>10. ~(disconnected_success \/ Updater \/ UNCHANGED vars)
  BY DEF disconnected_success, Updater, BatchCommits, BatchFails, BatchSkipped, ResumeBatches, vars
<1>. QED
  BY <1>3, <1>4, <1>5, <1>6, <1>7, <1>8, <1>9, <1>10 DEF Next, Tick, Handlers, LeavesOf

(* No batch is ever refused for a row that is gone: with failures, crashes, *)
(* deletions and logins in any order, what one transaction updates no       *)
(* earlier one has deleted, so one character's deletion cannot take the     *)
(* saves of all the others with it.                                         *)
THEOREM NoBatchUpdatesDeletedRow == Spec => []BatchesAreWritable
  BY InitRInv, NextRInv, HeadWritable, PTL DEF Spec

(* Nobody plays, or is loading, a character whose save or deletion is       *)
(* pending: the gate of the login, checked once when the request arrives    *)
(* and again when the entity is initialised, is never too late.             *)
THEOREM PendingExcludes == Spec => []PendingExcludesPresence
<1>1. ASSUME RInv, NEW p \in Player, Plays(p)
      PROVE  /\ NoEntry(p)
             /\ \A n \in DOMAIN updQ :
                  updQ[n].type = "batch" => updQ[n].updates[character[p]] # Gone
  <2>1. NoEntry(p) /\ Holds(p)
    BY <1>1 DEF RInv, IInv, EntriesOK, Holds, Plays
  <2>2. \A n \in DOMAIN updQ : ~Deletes(n, character[p])
    BY <1>1, <2>1 DEF RInv, RowsOK, HeldOK
  <2>. QED
    BY <2>1, <2>2 DEF Deletes, IsBatch
<1>2. RInv => PendingExcludesPresence
  BY <1>1 DEF PendingExcludesPresence, NoEntry
<1>. QED
  BY <1>2, InitRInv, NextRInv, PTL DEF Spec

(* A deletion that the server has accepted from the owner stays queued      *)
(* until the batch that carries it is sent: no logout, second deletion of   *)
(* its own, late answer or other character's batch takes it away, only a    *)
(* request of an account that does not own the character.                   *)
THEOREM DeletionsAreSent == Spec => DeletionReachesBatch
<1>1. RInv /\ [Next]_vars =>
        [\A c \in Char :
           pending[c] = New(Gone) /\ pending'[c] # New(Gone) /\ ~Crash =>
             \/ \E i \in DOMAIN updQ' :
                  /\ updQ'[i].type = "batch"
                  /\ pending'[c] = Submitted(updQ'[i].id)
                  /\ updQ'[i].updates[c] = Gone
             \/ \E p \in Custom : Owner[c] # p /\ handle_character_delete(p, c)]_vars
  BY DeletionStep
<1>. QED
  BY <1>1, InitRInv, NextRInv, PTL DEF Spec, DeletionReachesBatch

----------------------------------------------------------------------------
(* When no transaction fails and clients are the shipped ones: what logins  *)
(* read, and the refinement.                                                *)

(* Nothing fails, so nobody is disconnected without being saved.            *)
Quiet ==
  /\ MayFail = FALSE /\ Custom = {}
  /\ flag = FALSE /\ disc.type # "without" /\ ev.discNP = {}
  /\ \A j \in DOMAIN updQ : IsBatch(j)

(* Who asks for a character, or for a deletion, is not in the game when it  *)
(* is handled, and the character is its own.                                *)
EventsOK ==
  /\ \A p \in ev.init : presence[p] = "screen"
  /\ \A p \in Player : /\ character[p] \in Char => Owner[character[p]] = p
                       /\ (\E c \in Char : <<p, c>> \in ev.delete) =>
                            ~InGame(p) /\ load[p].stage # "delivered"

(* A character that a batch under way writes is in the game, or has an      *)
(* entry that this batch or a later one, or none yet, carries.              *)
CoveredOK ==
  \A c \in Char : \A j \in DOMAIN updQ :
    Overwrites(j, c) => c \in Online \/ IsNew(c) \/ Awaited(j, c)

(* What the loader has read is what the database still holds.               *)
RowsCurrent ==
  \A p \in Player :
    load[p].stage \in {"answered", "delivered"} => load[p].row = db[character[p]]

QInv == RInv /\ Quiet /\ EventsOK /\ CoveredOK /\ RowsCurrent

----------------------------------------------------------------------------
(* Nobody asks for the deletion of another's character, so a character that *)
(* is played or asked for has no entry, and every entry writes its row.     *)
LEMMA NoEntries ==
  ASSUME QInv
  PROVE  /\ \A p \in Player : HasPresence(p) \/ load[p].stage # "idle" =>
              /\ character[p] \in Char /\ Owner[character[p]] = p
              /\ pending[character[p]] = NoAction
         /\ \A c \in Online : c \in Char /\ pending[c] = NoAction /\ ~IsNew(c)
         /\ \A c \in Char : IsNew(c) => pending[c].row \in Row
         /\ \A q \in Player, c \in Char : <<q, c>> \in ev.delete => Owner[c] = q
<1>. USE DEF QInv, RInv, IInv
<1>1. Custom = {}
  BY DEF Quiet
<1>2. ASSUME NEW p \in Player, HasPresence(p) \/ load[p].stage # "idle"
      PROVE  /\ character[p] \in Char /\ Owner[character[p]] = p
             /\ pending[character[p]] = NoAction
  <2>1. character[p] \in Char /\ Owner[character[p]] = p
    BY <1>2 DEF SessionOK, EventsOK
  <2>2. NoEntry(p)
    BY <1>2, <2>1 DEF LoadOK, EntriesOK, Plays
  <2>. QED
    BY <1>1, <2>1, <2>2 DEF NoEntry
<1>3. \A c \in Online : \E p \in Player : c = character[p] /\ HasPresence(p)
  BY DEF Online, InGame, HasPresence
<1>4. \A c \in Char : IsNew(c) => pending[c].row \in Row
  <2>1. \A c \in Char : IsNew(c) => pending[c].row \in Row \cup {Keep}
    BY DEF TypeOK, IsNew
  <2>. QED
    BY <1>1, <2>1 DEF EntriesOK
<1>5. \A q \in Player, c \in Char : <<q, c>> \in ev.delete => Owner[c] = q
  BY <1>1 DEF SessionOK
<1>. QED
  BY <1>2, <1>3, <1>4, <1>5 DEF IsNew

(* No batch under way writes a character that is being loaded.              *)
LEMMA LoadedNotWritten ==
  ASSUME QInv, NEW p \in Player, load[p].stage # "idle"
  PROVE  /\ character[p] \in Char
         /\ \A j \in DOMAIN updQ : ~Overwrites(j, character[p])
<1>. USE DEF QInv, RInv, IInv
<1>. DEFINE c == character[p]
<1>1. c \in Char /\ pending[c] = NoAction /\ Owner[c] = p /\ ~InGame(p)
  BY NoEntries DEF LoadOK, InGame
<1>2. c \notin Online /\ ~IsNew(c)
  BY <1>1, OnlinePending DEF IsNew
<1>3. \A k \in DOMAIN updQ : IsBatch(k) => Submitted(updQ[k].id) # NoAction
  BY NoActionIsNone DEF TypeOK, IsBatch, Message
<1>4. \A j \in DOMAIN updQ : ~Awaited(j, c)
  BY <1>1, <1>3 DEF Awaited
<1>. QED
  BY <1>1, <1>2, <1>4 DEF CoveredOK

(* The only step of the updater thread is to commit, and it changes the     *)
(* rows that the first batch writes.                                        *)
LEMMA OnlyCommits ==
  ASSUME QInv, Updater
  PROVE  BatchCommits
<1>1. HeadIsBatch => Writable(Head(updQ).updates)
  BY HeadWritable DEF QInv, BatchesAreWritable
<1>2. ~ResumeBatches
  <2>1. updQ # <<>> => Head(updQ).type = "batch"
    BY DEF QInv, Quiet, RInv, IInv, TypeOK, IsBatch
  <2>. QED
    BY <2>1 DEF ResumeBatches, DisconnectedSuccess
<1>. QED
  BY <1>1, <1>2 DEF Updater, BatchFails, BatchSkipped, QInv, Quiet

(* Who leaves the game is persisted: a dead hardcore character is deleted,  *)
(* any other one saved.                                                     *)
LEMMA LeavingPersists ==
  ASSUME QInv, NEW p \in Player, LeavesOf(p)
  PROVE  /\ InGame(p) => pending' = [pending EXCEPT ![character[p]] =
                                       New(IF character[p] \in dead THEN Gone ELSE mem[character[p]])]
         /\ ~InGame(p) => UNCHANGED pending
<1>. USE DEF QInv, RInv, IInv
<1>1. ~handle_client_disconnect_without_persistence(p)
  BY DEF handle_client_disconnect_without_persistence, Quiet
<1>2. pending' = persist_entity(p)
  BY <1>1 DEF LeavesOf, handle_exit_ingame, handle_client_disconnect
<1>3. InGame(p) => pending[character[p]] = NoAction /\ Owner[character[p]] = p
  BY NoEntries DEF InGame, HasPresence
<1>. QED
  BY <1>2, <1>3 DEF persist_entity, queue_character_deletion, add_pending_logout_update, Quiet

----------------------------------------------------------------------------
LEMMA InitQInv == MayFail = FALSE /\ Custom = {} /\ Init => QInv
<1>. SUFFICES ASSUME MayFail = FALSE, Custom = {}, Init PROVE QInv
  OBVIOUS
<1>1. DOMAIN updQ = {}
  BY DEF Init
<1>. QED
  BY <1>1, InitRInv, PersistenceAssumption DEF Init, QInv, Quiet, EventsOK, CoveredOK, RowsCurrent, NoEvent, Idle

LEMMA NextQuiet == QInv /\ [Next]_vars => Quiet'
<1>. SUFFICES ASSUME QInv, [Next]_vars PROVE Quiet'
  OBVIOUS
<1>. USE DEF QInv, RInv, IInv
<1>1. CASE batch_update
  <2>1. PICK id \in BatchId \ UsedIds :
          updQ' = Append(updQ, BatchUpdateMsg(id, [c \in Char |-> BatchRow(c)]))
    BY <1>1, BatchSent
  <2>2. BatchUpdateMsg(id, [c \in Char |-> BatchRow(c)]).type = "batch"
    BY DEF BatchUpdateMsg
  <2>3. UNCHANGED <<flag, disc, ev>>
    BY <1>1 DEF batch_update
  <2>4. \A j \in DOMAIN updQ' : updQ'[j].type = "batch"
    BY <2>1, <2>2, Appended DEF Quiet, IsBatch
  <2>. QED
    BY <2>3, <2>4 DEF Quiet, IsBatch
<1>2. CASE Updater
  <2>1. BatchCommits
    BY <1>2, OnlyCommits
  <2>2. updQ # <<>> /\ updQ' = Tail(updQ) /\ UNCHANGED <<flag, disc, ev>>
    BY <2>1 DEF BatchCommits, HeadIsBatch
  <2>. QED
    BY <2>2, Taken DEF Quiet, IsBatch
<1>3. CASE Crash
  BY <1>3 DEF Crash, Quiet, NoEvent
<1>4. ASSUME UNCHANGED <<flag, updQ>>, disc'.type # "without", ev'.discNP = {}
      PROVE  Quiet'
  BY <1>4 DEF Quiet, IsBatch
<1>5. CASE disconnect_all_clients_if_requested
  <2>1. /\ ev' = [ev EXCEPT !.disc = Clients] \/ ev' = ev
        /\ \/ disc' = [requested |-> FALSE, type |-> "with"]
           \/ disc' = [disc EXCEPT !.type = "none"]
    BY <1>5 DEF disconnect_all_clients_if_requested, Quiet
  <2>2. /\ ev \in Events /\ ev.discNP = {}
        /\ disc \in [requested : BOOLEAN, type : {"none", "with", "without"}]
    BY DEF TypeOK, Quiet
  <2>3. disc'.type # "without"
    BY <2>1, <2>2
  <2>4. ev'.discNP = {}
    BY <2>1, <2>2 DEF Events
  <2>. QED
    BY <1>4, <1>5, <2>3, <2>4 DEF disconnect_all_clients_if_requested, threadVars
<1>6. CASE RequestDisconnectAll
  <2>1. disc'.type = disc.type
    BY <1>6 DEF RequestDisconnectAll, TypeOK
  <2>. QED
    BY <1>4, <1>6, <2>1 DEF RequestDisconnectAll, threadVars, Quiet
<1>7. CASE disconnected_success
  <2>1. disc'.type = "none"
    BY <1>7 DEF disconnected_success, TypeOK
  <2>. QED
    BY <1>4, <1>7, <2>1 DEF disconnected_success, Quiet
<1>8. ASSUME UNCHANGED <<flag, updQ, disc>>, ev' \in Events, ev'.discNP \subseteq ev.discNP
      PROVE  Quiet'
  BY <1>4, <1>8 DEF Quiet
<1>9. \A p \in Player : NoEventFor(p) \in Events /\ NoEventFor(p).discNP \subseteq ev.discNP
  BY DEF NoEventFor, TypeOK, Events
<1>10. ASSUME NEW p \in Player, Client(p) \/ LoaderAnswers(p) PROVE Quiet'
  BY <1>4, <1>10 DEF Client, Connect, RequestCharacter, RequestDelete, RequestExit, LoseClient,
         LoaderAnswers, threadVars, TypeOK, Events, Quiet
<1>11. ASSUME NEW p \in Player, LeavesOf(p) PROVE Quiet'
  BY <1>8, <1>9, <1>11 DEF LeavesOf, handle_exit_ingame, handle_client_disconnect,
         handle_client_disconnect_without_persistence, threadVars
<1>12. ASSUME NEW p \in Player, handle_initialize_character(p) PROVE Quiet'
  <2>1. ev' = [ev EXCEPT !.init = @ \ {p}] \/ ev' = NoEventFor(p)
    BY <1>12 DEF handle_initialize_character
  <2>2. ev'.discNP \subseteq ev.discNP
    BY <1>9, <2>1 DEF TypeOK, Events
  <2>3. UNCHANGED <<flag, updQ, disc>>
    BY <1>12 DEF handle_initialize_character, threadVars
  <2>. QED
    BY <1>4, <2>2, <2>3 DEF Quiet
<1>13. ASSUME NEW p \in Player, handle_loaded_character_data(p) PROVE Quiet'
  BY <1>4, <1>13 DEF handle_loaded_character_data, threadVars, Quiet
<1>14. ASSUME NEW p \in Player, NEW c \in Char, handle_character_delete(p, c) PROVE Quiet'
  <2>1. \/ ev' = [NoEventFor(p) EXCEPT !.delete = @ \ {<<p, c>>}]
        \/ ev' = [ev EXCEPT !.delete = @ \ {<<p, c>>}]
    BY <1>14 DEF handle_character_delete
  <2>3. ev'.discNP \subseteq ev.discNP
    BY <1>9, <2>1 DEF TypeOK, Events
  <2>. QED
    BY <1>4, <1>14, <2>3 DEF handle_character_delete, threadVars, Quiet
<1>15. CASE PollMessages
  BY <1>4, <1>15 DEF PollMessages, TypeOK, Events, Quiet
<1>16. ASSUME NEW c \in Char, NEW d \in Char, Transfer(c, d) \/ Die(c) PROVE Quiet'
  BY <1>4, <1>16 DEF Transfer, Die, threadVars, Quiet
<1>17. CASE UNCHANGED vars
  BY <1>4, <1>17 DEF vars, threadVars, Quiet
<1>. QED
  BY <1>1, <1>2, <1>3, <1>5, <1>6, <1>7, <1>10, <1>11, <1>12, <1>13, <1>14, <1>15, <1>16, <1>17
     DEF Next, Tick, Handlers, LeavesOf

LEMMA NextEventsOK == QInv /\ [Next]_vars => EventsOK'
<1>. SUFFICES ASSUME QInv, [Next]_vars PROVE EventsOK'
  OBVIOUS
<1>. USE DEF QInv, RInv, IInv
<1>2. ASSUME ev'.init \subseteq ev.init, ev'.delete \subseteq ev.delete,
             \A p \in ev'.init : presence'[p] = presence[p],
             \A p \in Player : /\ InGame(p)' => InGame(p)
                               /\ load'[p].stage = "delivered" => load[p].stage = "delivered"
                               /\ character'[p] = character[p] \/ character'[p] = NoChar
      PROVE  EventsOK'
  BY <1>2, PersistenceAssumption DEF EventsOK, InGame
<1>3. ASSUME NEW p \in Player, NEW st \in {"screen", "offline"}, DeleteEntity(p, st),
             ev'.delete \subseteq ev.delete, ev'.init \subseteq ev.init \ {p}
      PROVE  EventsOK'
  <2>1. ev.init \subseteq Player
    BY DEF TypeOK, Events
  <2>2. \A q \in Player : character'[q] = character[q] \/ character'[q] = NoChar
    BY <1>3 DEF DeleteEntity, TypeOK
  <2>. QED
    BY <1>2, <1>3, <2>1, <2>2, DeleteEntitySession DEF InGame, HasPresence
<1>4. ASSUME NEW p \in Player, NEW c \in Char, RequestDelete(p, c) PROVE EventsOK'
  <2>1. /\ ev'.delete = ev.delete \cup {<<p, c>>} /\ ev'.init = ev.init
        /\ presence[p] = "screen"
        /\ UNCHANGED <<presence, character, load>>
    BY <1>4 DEF RequestDelete, sessionVars, TypeOK, Events, Quiet
  <2>. QED
    BY <2>1 DEF EventsOK, InGame, LoadOK
<1>5. ASSUME NEW p \in Player, NEW c \in Char, RequestCharacter(p, c) PROVE EventsOK'
  <2>1. /\ ev'.init = ev.init \cup {p} /\ ev'.delete = ev.delete
        /\ load' = [load EXCEPT ![p] = [stage |-> "asked", row |-> Gone]]
        /\ character' = [character EXCEPT ![p] = c] /\ Owner[c] = p
        /\ presence' = presence /\ presence[p] = "screen"
    BY <1>5 DEF RequestCharacter, TypeOK, Events, Quiet
  <2>2. \A q \in Player : /\ InGame(q)' = InGame(q)
                          /\ load'[q].stage = "delivered" => load[q].stage = "delivered"
                          /\ character'[q] = character[q] \/ (q = p /\ character'[q] = c)
    BY <2>1 DEF TypeOK, InGame
  <2>. QED
    BY <2>1, <2>2 DEF EventsOK
<1>6. ASSUME NEW p \in Player, Connect(p) \/ RequestExit(p) \/ LoseClient(p) PROVE EventsOK'
  <2>1. /\ ev'.init = ev.init /\ ev'.delete = ev.delete /\ UNCHANGED <<load, character>>
        /\ \A q \in Player : presence'[q] # presence[q] => presence[q] = "offline" /\ presence'[q] = "screen"
    BY <1>6, QuietSteps DEF Connect, RequestExit, LoseClient, TypeOK, Events, sessionVars
  <2>2. ev.init \subseteq Player
    BY DEF TypeOK, Events
  <2>. QED
    BY <1>2, <2>1, <2>2 DEF EventsOK, InGame
<1>7. ASSUME NEW p \in Player, LoaderAnswers(p) PROVE EventsOK'
  BY <1>2, <1>7 DEF LoaderAnswers, TypeOK, InGame
<1>8. CASE disconnect_all_clients_if_requested
  <2>1. ev'.init = ev.init /\ ev'.delete = ev.delete
    BY <1>8 DEF disconnect_all_clients_if_requested, Quiet, TypeOK, Events
  <2>. QED
    BY <1>2, <1>8, <2>1 DEF disconnect_all_clients_if_requested, sessionVars, InGame
<1>9. CASE PollMessages
  <2>1. ev'.init = {} /\ ev'.delete = {} /\ character' = character
    BY <1>9 DEF PollMessages, LoadOK, NoEvent
  <2>. QED
    BY <2>1 DEF EventsOK
<1>10. ASSUME NEW p \in Player, handle_initialize_character(p) PROVE EventsOK'
  <2>1. ev'.delete = ev.delete /\ ev'.init = ev.init \ {p}
    BY <1>10, NoEventTypes DEF handle_initialize_character, TypeOK, Events
  <2>2. CASE has_pending_database_action(character[p])
    BY <1>3, <1>10, <2>1, <2>2 DEF handle_initialize_character
  <2>3. CASE ~has_pending_database_action(character[p])
    BY <1>2, <1>10, <2>1, <2>3 DEF handle_initialize_character, TypeOK, Events, InGame
  <2>. QED
    BY <2>2, <2>3
<1>11. ASSUME NEW p \in Player, handle_loaded_character_data(p) PROVE EventsOK'
  <2>1. /\ ev' = ev /\ ev.init = {} /\ load[p].stage = "delivered"
        /\ presence' = [presence EXCEPT ![p] = "ingame"]
        /\ load' = [load EXCEPT ![p] = Idle]
        /\ character' = character
    BY <1>11 DEF handle_loaded_character_data, Delivered
  <2>. QED
    BY <2>1 DEF EventsOK, TypeOK, InGame, Idle
<1>12. ASSUME NEW p \in Player, NEW c \in Char, handle_character_delete(p, c) PROVE EventsOK'
  <2>2. \/ ev' = [NoEventFor(p) EXCEPT !.delete = @ \ {<<p, c>>}]
        \/ ev' = [ev EXCEPT !.delete = @ \ {<<p, c>>}]
    BY <1>12 DEF handle_character_delete
  <2>3. ev.init = {}
    BY <1>12 DEF handle_character_delete
  <2>4. ev'.delete \subseteq ev.delete /\ ev'.init = {}
    <3>1. /\ NoEventFor(p) \in Events /\ ev \in Events
          /\ NoEventFor(p).delete = ev.delete /\ NoEventFor(p).init = {}
      BY <2>3, NoEventTypes DEF TypeOK
    <3>2. PICK e \in {NoEventFor(p), ev} : ev' = [e EXCEPT !.delete = @ \ {<<p, c>>}]
      BY <2>2
    <3>3. ev'.delete = e.delete \ {<<p, c>>} /\ ev'.init = e.init
      BY <3>1, <3>2 DEF Events
    <3>. QED
      BY <2>3, <3>1, <3>2, <3>3
  <2>. QED
    BY <1>2, <1>3, <1>12, <2>3, <2>4 DEF handle_character_delete, sessionVars, InGame
<1>13. ASSUME NEW p \in Player, LeavesOf(p) PROVE EventsOK'
  BY <1>3, <1>13, Leaving
<1>14. CASE Crash
  BY <1>14, PersistenceAssumption DEF Crash, NoEvent, EventsOK
<1>15. ASSUME UNCHANGED <<presence, character, load, ev>> PROVE EventsOK'
  BY <1>2, <1>15 DEF InGame
<1>16. \/ batch_update \/ RequestDisconnectAll \/ disconnected_success \/ Updater
       \/ UNCHANGED vars
       \/ \E c, d \in Char : Transfer(c, d)
       \/ \E c \in Char : Die(c)
       => UNCHANGED <<presence, character, load, ev>>
  BY DEF batch_update, RequestDisconnectAll, disconnected_success, Updater, BatchCommits,
         BatchFails, BatchSkipped, ResumeBatches, Transfer, Die, vars, sessionVars
<1>. QED
  BY <1>4, <1>5, <1>6, <1>7, <1>8, <1>9, <1>10, <1>11, <1>12, <1>13, <1>14, <1>15, <1>16
     DEF Next, Tick, Handlers, Client, LeavesOf

(* A character stays in the game, or its entry is kept, until the batches   *)
(* that write it are done.                                                  *)
LEMMA NextCoveredOK == QInv /\ [Next]_vars => CoveredOK'
<1>. SUFFICES ASSUME QInv, [Next]_vars PROVE CoveredOK'
  OBVIOUS
<1>. USE DEF QInv, RInv, IInv
<1>1. CASE batch_update
  <2>1. PICK id \in BatchId \ UsedIds :
          /\ updQ' = Append(updQ, BatchUpdateMsg(id, [c \in Char |-> BatchRow(c)]))
          /\ pending' = [c \in Char |-> IF IsNew(c) THEN Submitted(id) ELSE pending[c]]
    BY <1>1, BatchSent
  <2>2. PICK n \in Nat : n = Len(updQ)
    BY DEF TypeOK
  <2>3. PICK m : m = BatchUpdateMsg(id, [c \in Char |-> BatchRow(c)])
    OBVIOUS
  <2>4. m.type = "batch" /\ m.id = id /\ \A c \in Char : m.updates[c] = BatchRow(c)
    BY <2>3 DEF BatchUpdateMsg
  <2>5. /\ DOMAIN updQ = 1..n /\ DOMAIN updQ' = 1..(n + 1)
        /\ \A j \in 1..n : updQ'[j] = updQ[j]
        /\ updQ'[n + 1] = m
    BY <2>1, <2>2, <2>3, Appended
  <2>6. Online' = Online
    BY <1>1 DEF batch_update, sessionVars, Online, InGame
  <2>7. \A c \in Char, j \in 1..(n + 1) : IsNew(c) => Awaited(j, c)'
    BY <2>1, <2>4, <2>5 DEF Awaited, IsBatch
  <2>8. \A c \in Char, j \in 1..n : Overwrites(j, c)' => Overwrites(j, c)
    BY <2>5 DEF Overwrites, IsBatch
  <2>9. \A c \in Char, j \in 1..n : Awaited(j, c) => Awaited(j, c)'
    BY <2>1, <2>5, Actions DEF Awaited, IsBatch, IsNew
  <2>10. \A c \in Char : Overwrites(n + 1, c)' => c \in Online \/ IsNew(c)
    BY <2>4, <2>5 DEF Overwrites, IsBatch, BatchRow
  <2>. QED
    BY <2>5, <2>6, <2>7, <2>8, <2>9, <2>10 DEF CoveredOK
<1>2. CASE Updater
  <2>1. updQ # <<>> /\ updQ' = Tail(updQ) /\ UNCHANGED <<presence, character, pending>>
    BY <1>2, UpdaterSteps
  <2>2. \A j \in DOMAIN updQ' : j \in Nat \ {0} /\ j + 1 \in DOMAIN updQ /\ updQ'[j] = updQ[j + 1]
    BY <2>1, Taken
  <2>3. \A k \in DOMAIN updQ : k \in Nat \ {0} /\ (k # 1 => k - 1 \in DOMAIN updQ')
    BY <2>1, Taken
  <2>4. ASSUME NEW c \in Char, NEW j \in DOMAIN updQ', Awaited(j + 1, c) PROVE Awaited(j, c)'
    <3>1. PICK k \in DOMAIN updQ : k >= j + 1 /\ IsBatch(k) /\ pending[c] = Submitted(updQ[k].id)
      BY <2>4 DEF Awaited
    <3>2. k - 1 \in DOMAIN updQ' /\ k - 1 >= j /\ k = (k - 1) + 1
      BY <2>2, <2>3, <3>1
    <3>. QED
      BY <2>1, <2>2, <3>1, <3>2 DEF Awaited, IsBatch
  <2>5. \A c \in Char, j \in DOMAIN updQ' : Overwrites(j, c)' => Overwrites(j + 1, c)
    BY <2>2 DEF Overwrites, IsBatch
  <2>6. Online' = Online /\ \A c \in Char : IsNew(c)' = IsNew(c)
    BY <2>1 DEF Online, InGame, IsNew
  <2>. QED
    BY <2>2, <2>4, <2>5, <2>6 DEF CoveredOK
<1>3. CASE Crash
  BY <1>3 DEF Crash, CoveredOK
<1>4. ASSUME updQ' = updQ,
             \A c \in Char : \/ pending'[c] = pending[c]
                             \/ IsNew(c)'
                             \/ ~IsNew(c) /\ \A j \in DOMAIN updQ : ~Awaited(j, c),
             \A c \in Char : c \in Online /\ c \notin Online' => IsNew(c)'
      PROVE  CoveredOK'
  BY <1>4 DEF CoveredOK, Overwrites, Awaited, IsBatch, IsNew
<1>5. ASSUME UNCHANGED <<updQ, pending>>, Online \subseteq Online' PROVE CoveredOK'
  BY <1>4, <1>5
<1>6. CASE disconnected_success
  BY <1>5, <1>6 DEF disconnected_success, Quiet, sessionVars, Online, InGame
<1>7. CASE PollMessages
  <2>1. \A c \in Char : \/ pending'[c] = pending[c]
                        \/ \E id \in completed : pending[c] = Submitted(id)
    BY <1>7 DEF PollMessages, process_batch_completion
  <2>2. ASSUME NEW c \in Char, NEW id \in completed, pending[c] = Submitted(id)
        PROVE  ~IsNew(c) /\ \A j \in DOMAIN updQ : ~Awaited(j, c)
    BY <2>2, Actions DEF IsNew, Awaited, IdsOK
  <2>3. Online' = Online /\ updQ' = updQ
    BY <1>7 DEF PollMessages, Online, InGame
  <2>. QED
    BY <1>4, <2>1, <2>2, <2>3
<1>8. ASSUME NEW p \in Player, NEW st \in {"screen", "offline"}, DeleteEntity(p, st), ~InGame(p)
      PROVE  Online' = Online
  <2>1. \A q \in Player : InGame(q)' <=> InGame(q)
    BY <1>8, DeleteEntitySession DEF InGame, HasPresence
  <2>2. \A q \in Player : InGame(q) => character'[q] = character[q]
    BY <1>8, DeleteEntitySession
  <2>. QED
    BY <2>1, <2>2 DEF Online
<1>9. ASSUME NEW p \in Player, handle_initialize_character(p) PROVE CoveredOK'
  <2>1. ~InGame(p) /\ UNCHANGED <<updQ, pending>>
    BY <1>9 DEF handle_initialize_character, EventsOK, InGame, threadVars
  <2>2. CASE has_pending_database_action(character[p])
    BY <1>5, <1>8, <1>9, <2>1, <2>2 DEF handle_initialize_character
  <2>3. CASE ~has_pending_database_action(character[p])
    BY <1>5, <1>9, <2>1, <2>3 DEF handle_initialize_character, TypeOK, Online, InGame
  <2>. QED
    BY <2>2, <2>3
<1>10. ASSUME NEW p \in Player, handle_loaded_character_data(p) PROVE CoveredOK'
  BY <1>5, <1>10 DEF handle_loaded_character_data, TypeOK, Online, InGame, threadVars
<1>11. ASSUME NEW p \in Player, NEW c \in Char, handle_character_delete(p, c) PROVE CoveredOK'
  <2>1. ~InGame(p) /\ Owner[c] = p
    BY <1>11, NoEntries DEF handle_character_delete, EventsOK
  <2>2. pending' = [pending EXCEPT ![c] = New(Gone)] /\ updQ' = updQ
    BY <1>11, <2>1 DEF handle_character_delete, queue_character_deletion, threadVars
  <2>3. IsNew(c)'
    BY <2>2, Actions, NoActionIsNone DEF IsNew, Row, TypeOK
  <2>4. Online' = Online
    BY <1>8, <1>11, <2>1 DEF handle_character_delete, sessionVars, Online, InGame
  <2>. QED
    BY <1>4, <2>2, <2>3, <2>4 DEF TypeOK
<1>12. ASSUME NEW p \in Player, LeavesOf(p) PROVE CoveredOK'
  <2>1. PICK st \in {"screen", "offline"} : DeleteEntity(p, st)
    BY <1>12, Leaving
  <2>2. updQ' = updQ
    BY <1>12, Leaving DEF threadVars
  <2>3. CASE ~InGame(p)
    BY <1>5, <1>8, <1>12, <2>1, <2>2, <2>3, LeavingPersists
  <2>4. CASE InGame(p)
    <3>1. PICK c \in Char : c = character[p]
      BY <2>4 DEF SessionOK, InGame, HasPresence
    <3>2. \E r \in Row : pending' = [pending EXCEPT ![c] = New(r)]
      <4>1. Gone \in Row /\ mem[c] \in Row
        BY DEF TypeOK, Row, Gone
      <4>. QED
        BY <1>12, <2>4, <3>1, <4>1, LeavingPersists
    <3>3. PICK r \in Row : pending' = [pending EXCEPT ![c] = New(r)]
      BY <3>2
    <3>4. pending'[c] = New(r) /\ \A d \in Char : d # c => pending'[d] = pending[d]
      BY <3>1, <3>3 DEF TypeOK
    <3>5. IsNew(c)'
      BY <3>4, Actions, NoActionIsNone DEF IsNew
    <3>6. Online \subseteq Online' \cup {c}
      <4>1. \A q \in Player \ {p} : InGame(q) => InGame(q)' /\ character'[q] = character[q]
        BY <2>1, DeleteEntitySession DEF InGame
      <4>. QED
        BY <3>1, <4>1 DEF Online
    <3>. QED
      <4>1. \A d \in Char : pending'[d] = pending[d] \/ IsNew(d)'
        BY <3>4, <3>5
      <4>2. \A d \in Char : d \in Online /\ d \notin Online' => IsNew(d)'
        BY <3>5, <3>6
      <4>. QED
        BY <1>4, <2>2, <4>1, <4>2
  <2>. QED
    BY <2>3, <2>4
<1>13. ASSUME \/ \E p \in Player : Connect(p) \/ RequestExit(p) \/ LoseClient(p)
              \/ \E p \in Player, c \in Char : RequestDelete(p, c)
              \/ \E c, d \in Char : Transfer(c, d)
              \/ \E c \in Char : Die(c)
              \/ disconnect_all_clients_if_requested \/ RequestDisconnectAll
       PROVE  CoveredOK'
  BY <1>5, <1>13, QuietSteps DEF Online, InGame
<1>14. ASSUME NEW p \in Player, NEW c \in Char, RequestCharacter(p, c) PROVE CoveredOK'
  BY <1>5, <1>14 DEF RequestCharacter, threadVars, Online, InGame, TypeOK
<1>15. ASSUME NEW p \in Player, LoaderAnswers(p) PROVE CoveredOK'
  BY <1>5, <1>15 DEF LoaderAnswers, threadVars, Online, InGame
<1>16. CASE UNCHANGED vars
  BY <1>5, <1>16 DEF vars, sessionVars, threadVars, Online, InGame
<1>. QED
  BY <1>1, <1>2, <1>3, <1>6, <1>7, <1>9, <1>10, <1>11, <1>12, <1>13, <1>14, <1>15, <1>16
     DEF Next, Tick, Handlers, Client, LeavesOf

LEMMA NextRowsCurrent == QInv /\ [Next]_vars => RowsCurrent'
<1>. SUFFICES ASSUME QInv, [Next]_vars, NEW p \in Player, load'[p].stage \in {"answered", "delivered"}
              PROVE  load'[p].row = db'[character'[p]]
  BY DEF RowsCurrent
<1>. USE DEF QInv, RInv, IInv
<1>1. CASE Updater
  <2>1. /\ \A c \in Char : db'[c] # db[c] => IsBatch(1) /\ updQ[1].updates[c] # Keep
        /\ UNCHANGED <<character, load>>
    BY <1>1, UpdaterSteps
  <2>2. db'[character[p]] = db[character[p]]
    BY <2>1, LoadedNotWritten DEF Overwrites, IsBatch
  <2>. QED
    BY <2>1, <2>2 DEF RowsCurrent
<1>2. CASE Crash
  BY <1>2 DEF Crash, Idle
<1>3. ASSUME db' = db, load'[p] = load[p], character'[p] = character[p] PROVE load'[p].row = db'[character'[p]]
  BY <1>3 DEF RowsCurrent
<1>4. CASE PollMessages
  BY <1>4 DEF PollMessages, TypeOK, Idle, RowsCurrent
<1>5. ASSUME NEW q \in Player, NEW c \in Char, RequestCharacter(q, c)
      PROVE  load'[p].row = db'[character'[p]]
  BY <1>3, <1>5 DEF RequestCharacter, TypeOK, threadVars
<1>6. ASSUME NEW q \in Player, LoaderAnswers(q) PROVE load'[p].row = db'[character'[p]]
  <2>1. load[q].stage = "asked" /\ load' = [load EXCEPT ![q] = [stage |-> "answered", row |-> LoadedRow(q)]]
    BY <1>6 DEF LoaderAnswers
  <2>2. LoadedRow(q) = db[character[q]]
    BY <2>1, NoEntries DEF LoadedRow
  <2>. QED
    BY <1>3, <1>6, <2>1, <2>2 DEF LoaderAnswers, TypeOK, threadVars
<1>7. ASSUME NEW q \in Player, NEW st \in {"screen", "offline"}, DeleteEntity(q, st), db' = db
      PROVE  load'[p].row = db'[character'[p]]
  BY <1>3, <1>7, DeleteEntitySession
<1>8. ASSUME NEW q \in Player, handle_initialize_character(q) PROVE load'[p].row = db'[character'[p]]
  BY <1>3, <1>7, <1>8 DEF handle_initialize_character, threadVars
<1>9. ASSUME NEW q \in Player, handle_loaded_character_data(q) PROVE load'[p].row = db'[character'[p]]
  BY <1>3, <1>9 DEF handle_loaded_character_data, threadVars, TypeOK, Idle
<1>10. ASSUME NEW q \in Player, NEW c \in Char, handle_character_delete(q, c) PROVE load'[p].row = db'[character'[p]]
  BY <1>3, <1>7, <1>10 DEF handle_character_delete, threadVars, sessionVars
<1>11. ASSUME NEW q \in Player, LeavesOf(q) PROVE load'[p].row = db'[character'[p]]
  BY <1>7, <1>11, Leaving DEF threadVars
<1>12. ASSUME \/ \E q \in Player : Connect(q) \/ RequestExit(q) \/ LoseClient(q)
              \/ \E q \in Player, c \in Char : RequestDelete(q, c)
              \/ \E c, d \in Char : Transfer(c, d)
              \/ \E c \in Char : Die(c)
              \/ disconnect_all_clients_if_requested \/ RequestDisconnectAll
       PROVE  load'[p].row = db'[character'[p]]
  BY <1>3, <1>12, QuietSteps
<1>13. CASE batch_update \/ disconnected_success \/ UNCHANGED vars
  BY <1>3, <1>13 DEF batch_update, disconnected_success, vars, sessionVars, threadVars
<1>. QED
  BY <1>1, <1>2, <1>4, <1>5, <1>6, <1>8, <1>9, <1>10, <1>11, <1>12, <1>13
     DEF Next, Tick, Handlers, Client, LeavesOf

LEMMA NextQInv == QInv /\ [Next]_vars => QInv'
  BY NextRInv, NextQuiet, NextEventsOK, NextCoveredOK, NextRowsCurrent DEF QInv

(* Without failures, and with the shipped clients, the database never       *)
(* changes under a login: from the request until the data is applied no     *)
(* batch under way writes the character, and the data is what the database  *)
(* holds.                                                                   *)
THEOREM LoadsAreCurrent == MayFail = FALSE /\ Custom = {} /\ Spec => []LoadedRowIsCurrent
<1>1. QInv => LoadedRowIsCurrent
  <2>1. QInv => \A p \in Player : load[p].stage \in {"idle", "asked", "answered", "delivered"}
    BY DEF QInv, RInv, IInv, TypeOK
  <2>. QED
    BY <2>1, LoadedNotWritten DEF QInv, RowsCurrent, LoadedRowIsCurrent, Overwrites, IsBatch
<1>. QED
  BY <1>1, InitQInv, NextQInv, PTL DEF Spec

----------------------------------------------------------------------------
(* RowAfter, for any channel q and any rows d: what is written last counts. *)
WritesIn(q, j, c)  == q[j].type = "batch" /\ q[j].updates[c] # Keep
LastIn(q, i, c, j) == WritesIn(q, j, c) /\ \A k \in (j + 1)..i : ~WritesIn(q, k, c)

RowOf(q, d, i, c) ==
  IF \E j \in 1..i : WritesIn(q, j, c)
  THEN q[CHOOSE j \in 1..i : LastIn(q, i, c, j)].updates[c] ELSE d[c]

(* A set of numbers up to n that is not empty has a greatest one.           *)
LEMMA GreatestExists ==
  ASSUME NEW n \in Nat, NEW S \in SUBSET (1..n), S # {}
  PROVE  \E k \in S : \A m \in S : m <= k
<1>. DEFINE D == {n - k : k \in S}
<1>1. \A k \in S : n - k \in Nat
  OBVIOUS
<1>2. D \subseteq Nat /\ D # {}
  BY <1>1, Zenon
<1>3. PICK d \in D : \A e \in D : <<e, d>> \notin OpToRel(<, Nat)
  BY <1>2, WFMin, NatLessThanWellFounded, Zenon
<1>4. \A e \in D : ~(e < d)
  BY <1>2, <1>3 DEF OpToRel
<1>5. PICK k \in S : d = n - k
  BY <1>2
<1>6. ASSUME NEW m \in S PROVE m <= k
  <2>1. ~(n - m < n - k)
    BY <1>4, <1>5
  <2>. QED
    BY <2>1
<1>. QED
  BY <1>6

LEMMA LastIs ==
  ASSUME NEW q, NEW d, NEW i \in Nat, NEW c, NEW j \in 1..i, LastIn(q, i, c, j)
  PROVE  RowOf(q, d, i, c) = q[j].updates[c]
<1>1. ASSUME NEW k \in 1..i, LastIn(q, i, c, k) PROVE k = j
  <2>1. ~(k < j) /\ ~(j < k)
    BY <1>1 DEF LastIn
  <2>. QED
    BY <2>1
<1>2. (CHOOSE k \in 1..i : LastIn(q, i, c, k)) = j
  BY <1>1
<1>3. \E k \in 1..i : WritesIn(q, k, c)
  BY DEF LastIn
<1>. QED
  BY <1>2, <1>3 DEF RowOf

LEMMA RowCases ==
  ASSUME NEW q, NEW d, NEW i \in Nat, NEW c
  PROVE  \/ /\ \A j \in 1..i : ~WritesIn(q, j, c)
            /\ RowOf(q, d, i, c) = d[c]
         \/ \E j \in 1..i : /\ LastIn(q, i, c, j)
                            /\ RowOf(q, d, i, c) = q[j].updates[c]
<1>. DEFINE S == {j \in 1..i : WritesIn(q, j, c)}
<1>1. CASE S = {}
  BY <1>1 DEF RowOf
<1>2. CASE S # {}
  <2>1. PICK k \in S : \A m \in S : m <= k
    BY <1>2, GreatestExists
  <2>2. \A m \in (k + 1)..i : m \notin S /\ m \in 1..i
    BY <2>1
  <2>3. LastIn(q, i, c, k)
    BY <2>2 DEF LastIn
  <2>. QED
    BY <2>3, LastIs
<1>. QED
  BY <1>1, <1>2

(* The first i messages alone decide.                                       *)
LEMMA RowOfPrefix ==
  ASSUME NEW q, NEW r, NEW d, NEW i \in Nat, NEW c, \A j \in 1..i : r[j] = q[j]
  PROVE  RowOf(r, d, i, c) = RowOf(q, d, i, c)
<1>1. \A j \in 1..i : WritesIn(r, j, c) <=> WritesIn(q, j, c)
  BY DEF WritesIn
<1>2. CASE \A j \in 1..i : ~WritesIn(q, j, c)
  BY <1>1, <1>2 DEF RowOf
<1>3. ASSUME NEW j \in 1..i, LastIn(q, i, c, j) PROVE RowOf(r, d, i, c) = RowOf(q, d, i, c)
  <2>1. LastIn(r, i, c, j)
    BY <1>1, <1>3 DEF LastIn
  <2>. QED
    BY <1>3, <2>1, LastIs
<1>. QED
  BY <1>2, <1>3, RowCases

(* One message more.                                                        *)
LEMMA RowOfNext ==
  ASSUME NEW q, NEW d, NEW i \in Nat, NEW c
  PROVE  RowOf(q, d, i + 1, c) = IF WritesIn(q, i + 1, c) THEN q[i + 1].updates[c]
                                 ELSE RowOf(q, d, i, c)
<1>1. CASE WritesIn(q, i + 1, c)
  <2>1. LastIn(q, i + 1, c, i + 1)
    BY <1>1 DEF LastIn
  <2>. QED
    BY <1>1, <2>1, LastIs
<1>2. CASE ~WritesIn(q, i + 1, c)
  <2>1. CASE \A j \in 1..i : ~WritesIn(q, j, c)
    BY <1>2, <2>1 DEF RowOf
  <2>2. ASSUME NEW j \in 1..i, LastIn(q, i, c, j)
        PROVE  RowOf(q, d, i + 1, c) = RowOf(q, d, i, c)
    <3>1. LastIn(q, i + 1, c, j) /\ j \in 1..(i + 1)
      BY <1>2, <2>2 DEF LastIn
    <3>2. RowOf(q, d, i + 1, c) = q[j].updates[c] /\ RowOf(q, d, i, c) = q[j].updates[c]
      BY <2>2, <3>1, LastIs
    <3>. QED
      BY <3>2
  <2>. QED
    BY <1>2, <2>1, <2>2, RowCases
<1>. QED
  BY <1>1, <1>2

(* The first message of q is executed, on the rows d, and r is what is left *)
(* up to message i.                                                         *)
Executed(q, d, r, e, i, c) ==
  /\ \A j \in 1..i : r[j] = q[j + 1]
  /\ e[c] = IF WritesIn(q, 1, c) THEN q[1].updates[c] ELSE d[c]

LEMMA RowOfTail ==
  ASSUME NEW q, NEW r, NEW d, NEW e, NEW i \in Nat, NEW c, Executed(q, d, r, e, i, c)
  PROVE  RowOf(r, e, i, c) = RowOf(q, d, i + 1, c)
<1>. USE DEF Executed
<1>1. \A j \in 1..i : WritesIn(r, j, c) <=> WritesIn(q, j + 1, c)
  BY DEF WritesIn
<1>2. CASE \A j \in 1..i : ~WritesIn(r, j, c)
  <2>1. \A j \in 2..(i + 1) : ~WritesIn(q, j, c)
    <3>1. ASSUME NEW j \in 2..(i + 1) PROVE ~WritesIn(q, j, c)
      <4>1. j - 1 \in 1..i /\ (j - 1) + 1 = j
        OBVIOUS
      <4>. QED
        BY <1>1, <1>2, <4>1
    <3>. QED
      BY <3>1
  <2>2. RowOf(r, e, i, c) = e[c]
    BY <1>2 DEF RowOf
  <2>3. CASE WritesIn(q, 1, c)
    <3>1. LastIn(q, i + 1, c, 1) /\ 1 \in 1..(i + 1)
      BY <2>1, <2>3 DEF LastIn
    <3>. QED
      BY <2>2, <2>3, <3>1, LastIs
  <2>4. CASE ~WritesIn(q, 1, c)
    <3>1. \A j \in 1..(i + 1) : ~WritesIn(q, j, c)
      BY <2>1, <2>4
    <3>. QED
      BY <2>2, <2>4, <3>1 DEF RowOf
  <2>. QED
    BY <2>3, <2>4
<1>3. ASSUME NEW j \in 1..i, LastIn(r, i, c, j)
      PROVE  LastIn(q, i + 1, c, j + 1) /\ j + 1 \in 1..(i + 1)
  <2>1. WritesIn(q, j + 1, c)
    BY <1>1, <1>3 DEF LastIn
  <2>2. ASSUME NEW k \in ((j + 1) + 1)..(i + 1) PROVE ~WritesIn(q, k, c)
    <3>1. k - 1 \in (j + 1)..i /\ k - 1 \in 1..i /\ (k - 1) + 1 = k
      OBVIOUS
    <3>. QED
      BY <1>1, <1>3, <3>1 DEF LastIn
  <2>. QED
    BY <2>1, <2>2 DEF LastIn
<1>4. ASSUME NEW j \in 1..i, LastIn(r, i, c, j) PROVE RowOf(r, e, i, c) = RowOf(q, d, i + 1, c)
  <2>1. RowOf(r, e, i, c) = r[j].updates[c]
    BY <1>4, LastIs
  <2>2. RowOf(q, d, i + 1, c) = q[j + 1].updates[c]
    BY <1>3, <1>4, LastIs
  <2>. QED
    BY <2>1, <2>2
<1>. QED
  BY <1>2, <1>4, RowCases

(* Sequences as functions.                                                  *)
LEMMA AppendFcn ==
  ASSUME NEW n \in Nat, NEW s, NEW e, s = [i \in 1..n |-> s[i]]
  PROVE  Append(s, e) = [i \in 1..(n + 1) |-> IF i = n + 1 THEN e ELSE s[i]]
<1>. DEFINE S == {s[i] : i \in 1..n} \cup {e}
<1>1. s \in [1..n -> S]
  OBVIOUS
<1>2. s \in Seq(S) /\ Len(s) = n
  BY <1>1
<1>3. /\ Append(s, e) \in Seq(S) /\ Len(Append(s, e)) = n + 1
      /\ \A i \in 1..(n + 1) : Append(s, e)[i] = IF i = n + 1 THEN e ELSE s[i]
  BY <1>2
<1>. QED
  BY <1>2, <1>3

LEMMA TailFcn ==
  ASSUME NEW n \in Nat \ {0}, NEW s, s = [i \in 1..n |-> s[i]]
  PROVE  /\ Tail(s) = [i \in 1..(n - 1) |-> s[i + 1]]
         /\ Head(s) = s[1] /\ s # <<>>
<1>. DEFINE S == {s[i] : i \in 1..n}
<1>1. s \in [1..n -> S]
  OBVIOUS
<1>2. s \in Seq(S) /\ Len(s) = n
  BY <1>1
<1>. QED
  BY <1>2

----------------------------------------------------------------------------
(* The refinement mapping, in terms of RowOf.                               *)
Live(q, d, c) ==
  IF c \in Online THEN mem[c]
  ELSE IF IsNew(c) /\ pending[c].row # Keep THEN pending[c].row
  ELSE RowOf(q, d, Len(q), c)

LEMMA Mapping ==
  /\ LiveCoins = [c \in Char |-> Live(updQ, db, c)]
  /\ Snapshots = [i \in 1..Len(updQ) |-> [c \in Char |-> RowOf(updQ, db, i, c)]]
<1>1. \A i, c : RowAfter(i, c) = RowOf(updQ, db, i, c)
  BY DEF RowAfter, RowOf, Writes, WritesIn, LastWrite, LastIn
<1>. QED
  BY <1>1 DEF LiveCoins, Live, Snapshots

LEMMA MappingNext ==
  /\ LiveCoins' = [c \in Char |-> Live(updQ, db, c)']
  /\ Snapshots' = [i \in 1..Len(updQ') |-> [c \in Char |-> RowOf(updQ', db', i, c)]]
<1>1. \A i, c : RowAfter(i, c)' = RowOf(updQ', db', i, c)
  BY DEF RowAfter, RowOf, Writes, WritesIn, LastWrite, LastIn
<1>2. LiveCoins' = [c \in Char |-> Live(updQ, db, c)']
  BY DEF LiveCoins, Live, RowAfter, RowOf, Writes, WritesIn, LastWrite, LastIn
<1>. QED
  BY <1>1, <1>2 DEF Snapshots


(* Steps that leave the channel and the rows alone change what a character  *)
(* owns only through its entity or its entry.                               *)
LEMMA SameRows ==
  ASSUME UNCHANGED <<updQ, db>>
  PROVE  /\ Snapshots' = Snapshots
         /\ \A c \in Char : (c \in Online' <=> c \in Online) /\ (c \in Online => mem'[c] = mem[c])
                            /\ pending'[c] = pending[c]
                            => LiveCoins'[c] = LiveCoins[c]
  BY Mapping, MappingNext DEF Live, IsNew

LEMMA LiveFunction == DOMAIN LiveCoins = Char /\ DOMAIN LiveCoins' = Char
                      /\ LiveCoins = [c \in Char |-> LiveCoins[c]]
                      /\ LiveCoins' = [c \in Char |-> LiveCoins'[c]]
  BY DEF LiveCoins

(* A transfer between two characters in the game is a payment.              *)
LEMMA TransferPays ==
  ASSUME QInv, NEW c \in Char, NEW d \in Char, Transfer(c, d)
  PROVE  Store!Pay(c, d)
<1>. USE DEF QInv, RInv, IInv
<1>1. /\ c # d /\ c \in Online /\ d \in Online /\ mem[c] > 0
      /\ mem' = [mem EXCEPT ![c] = mem[c] - 1, ![d] = mem[d] + 1]
      /\ UNCHANGED <<presence, character, pending, updQ, db>>
  BY DEF Transfer, threadVars
<1>2. LiveCoins[c] = mem[c] /\ LiveCoins[d] = mem[d] /\ mem[d] \in Nat /\ mem[c] \in Nat
  BY <1>1 DEF LiveCoins, TypeOK
<1>3. Online' = Online
  BY <1>1 DEF Online, InGame
<1>4. LiveCoins'[c] = mem[c] - 1 /\ LiveCoins'[d] = mem[d] + 1
  BY <1>1, <1>3 DEF LiveCoins, TypeOK
<1>5. \A e \in Char : e # c /\ e # d => LiveCoins'[e] = LiveCoins[e]
  BY <1>1, <1>3, SameRows DEF TypeOK
<1>6. LiveCoins' = [LiveCoins EXCEPT ![c] = LiveCoins[c] - 1, ![d] = LiveCoins[d] + 1]
  BY <1>1, <1>2, <1>4, <1>5, LiveFunction
<1>. QED
  BY <1>1, <1>2, <1>6, SameRows DEF Store!Pay, Store!Gone

(* A batch is a snapshot of the live world.                                 *)
LEMMA BatchIsSnapshot ==
  ASSUME QInv, batch_update
  PROVE  Store!TakeSnapshot
<1>. USE DEF QInv, RInv, IInv
<1>1. PICK id \in BatchId \ UsedIds :
        /\ updQ' = Append(updQ, BatchUpdateMsg(id, [c \in Char |-> BatchRow(c)]))
        /\ pending' = [c \in Char |-> IF IsNew(c) THEN Submitted(id) ELSE pending[c]]
  BY BatchSent
<1>2. PICK n \in Nat : n = Len(updQ)
  BY DEF TypeOK
<1>3. PICK m : m = BatchUpdateMsg(id, [c \in Char |-> BatchRow(c)])
  OBVIOUS
<1>4. m.type = "batch" /\ \A c \in Char : m.updates[c] = BatchRow(c)
  BY <1>3 DEF BatchUpdateMsg
<1>5. /\ Len(updQ') = n + 1
      /\ \A j \in 1..n : updQ'[j] = updQ[j]
      /\ updQ'[n + 1] = m
  BY <1>1, <1>2, <1>3, Appended DEF TypeOK
<1>6. Online' = Online /\ UNCHANGED <<mem, db>> /\ \A c \in Char : ~IsNew(c)'
  BY <1>1, Actions DEF batch_update, sessionVars, Online, InGame, IsNew
<1>7. \A i \in 1..n, c \in Char : RowOf(updQ', db', i, c) = RowOf(updQ, db, i, c)
  <2>1. \A i \in 1..n : i \in Nat /\ \A j \in 1..i : updQ'[j] = updQ[j]
    BY <1>5
  <2>. QED
    BY <1>6, <2>1, RowOfPrefix
<1>8. ASSUME NEW c \in Char PROVE RowOf(updQ', db', n + 1, c) = LiveCoins[c]
  <2>1. RowOf(updQ', db', n, c) = RowOf(updQ, db, n, c)
    BY <1>5, <1>6, RowOfPrefix
  <2>2. RowOf(updQ', db', n + 1, c) =
          IF BatchRow(c) # Keep THEN BatchRow(c) ELSE RowOf(updQ, db, n, c)
    BY <1>4, <1>5, <2>1, RowOfNext DEF WritesIn
  <2>3. mem[c] # Keep /\ (IsNew(c) => pending[c].row # Keep)
    <3>1. mem[c] \in Nat /\ (IsNew(c) => pending[c].row \in Row)
      BY NoEntries DEF TypeOK
    <3>. QED
      BY <3>1 DEF Keep, Gone
  <2>4. LiveCoins[c] = IF c \in Online THEN mem[c] ELSE IF IsNew(c) THEN pending[c].row
                       ELSE RowOf(updQ, db, n, c)
    BY <1>2, <2>3, Mapping DEF Live
  <2>5. LiveCoins[c] = IF BatchRow(c) # Keep THEN BatchRow(c) ELSE RowOf(updQ, db, n, c)
    BY <2>3, <2>4 DEF BatchRow
  <2>. QED
    BY <2>2, <2>5
<1>9. \A c \in Char : LiveCoins'[c] = LiveCoins[c]
  <2>1. \A c \in Online : c \in Char
    BY OnlinePending
  <2>2. \A c \in Char : LiveCoins'[c] = IF c \in Online THEN mem[c] ELSE RowOf(updQ', db', n + 1, c)
    BY <1>5, <1>6, MappingNext DEF Live
  <2>. QED
    BY <1>8, <2>2 DEF LiveCoins
<1>10. Snapshots' = Append(Snapshots, LiveCoins)
  <2>1. Snapshots = [i \in 1..n |-> [c \in Char |-> RowOf(updQ, db, i, c)]]
    BY <1>2, Mapping
  <2>2. Snapshots' = [i \in 1..(n + 1) |-> [c \in Char |-> RowOf(updQ', db', i, c)]]
    BY <1>5, MappingNext
  <2>3. Snapshots = [i \in 1..n |-> Snapshots[i]]
    BY <2>1
  <2>4. Append(Snapshots, LiveCoins) = [i \in 1..(n + 1) |-> IF i = n + 1 THEN LiveCoins ELSE Snapshots[i]]
    BY <2>3, AppendFcn
  <2>5. [c \in Char |-> RowOf(updQ', db', n + 1, c)] = LiveCoins
    BY <1>8, LiveFunction
  <2>6. ASSUME NEW i \in 1..n PROVE [c \in Char |-> RowOf(updQ', db', i, c)] = Snapshots[i]
    BY <1>7, <2>1
  <2>. QED
    BY <2>2, <2>4, <2>5, <2>6
<1>. QED
  BY <1>6, <1>9, <1>10, LiveFunction DEF Store!TakeSnapshot

(* The updater thread commits the oldest snapshot.                          *)
LEMMA CommitCommits ==
  ASSUME QInv, Updater
  PROVE  Store!Commit
<1>. USE DEF QInv, RInv, IInv
<1>1. BatchCommits
  BY OnlyCommits
<1>2. PICK n \in Nat \ {0} : n = Len(updQ)
  BY <1>1 DEF BatchCommits, HeadIsBatch, TypeOK
<1>3. /\ updQ' = Tail(updQ) /\ Head(updQ) = updQ[1] /\ updQ[1].type = "batch"
      /\ \A j \in 1..(n - 1) : updQ'[j] = updQ[j + 1]
      /\ Len(updQ') = n - 1
  BY <1>1, <1>2, Taken DEF BatchCommits, HeadIsBatch, TypeOK
<1>4. \A c \in Char : db'[c] = IF WritesIn(updQ, 1, c) THEN updQ[1].updates[c] ELSE db[c]
  BY <1>1, <1>3 DEF BatchCommits, WritesIn
<1>5. ASSUME NEW i \in 0..(n - 1), NEW c \in Char
      PROVE  RowOf(updQ', db', i, c) = RowOf(updQ, db, i + 1, c)
  <2>1. i \in Nat /\ \A j \in 1..i : updQ'[j] = updQ[j + 1]
    BY <1>3
  <2>2. db'[c] = IF WritesIn(updQ, 1, c) THEN updQ[1].updates[c] ELSE db[c]
    BY <1>4
  <2>3. Executed(updQ, db, updQ', db', i, c)
    BY <2>1, <2>2 DEF Executed
  <2>. QED
    BY <2>1, <2>3, RowOfTail
<1>6. UNCHANGED <<presence, character, mem, pending>>
  BY <1>1 DEF BatchCommits, sessionVars
<1>7. \A c \in Char : LiveCoins'[c] = LiveCoins[c]
  <2>1. \A c \in Char : RowOf(updQ', db', n - 1, c) = RowOf(updQ, db, n, c)
    BY <1>5
  <2>. QED
    BY <1>2, <1>3, <1>6, <2>1, Mapping, MappingNext DEF Live, Online, InGame, IsNew
<1>8. Snapshots = [i \in 1..n |-> [c \in Char |-> RowOf(updQ, db, i, c)]]
  BY <1>2, Mapping
<1>9. /\ Snapshots # <<>> /\ Head(Snapshots) = [c \in Char |-> RowOf(updQ, db, 1, c)]
      /\ Tail(Snapshots) = [i \in 1..(n - 1) |-> Snapshots[i + 1]]
  <2>1. Snapshots[1] = [c \in Char |-> RowOf(updQ, db, 1, c)]
    BY <1>8
  <2>2. Snapshots = [i \in 1..n |-> Snapshots[i]]
    BY <1>8
  <2>. QED
    BY <2>1, <2>2, TailFcn
<1>10. db' = Head(Snapshots)
  <2>1. \A c \in Char : RowOf(updQ, db, 1, c) = db'[c]
    <3>1. \A c \in Char : RowOf(updQ, db, 0, c) = db[c]
      BY DEF RowOf
    <3>2. \A c \in Char : RowOf(updQ, db, 0 + 1, c) =
            IF WritesIn(updQ, 0 + 1, c) THEN updQ[0 + 1].updates[c] ELSE RowOf(updQ, db, 0, c)
      BY RowOfNext
    <3>. QED
      BY <1>4, <3>1, <3>2
  <2>2. db' = [c \in Char |-> db'[c]]
    BY <1>1 DEF BatchCommits
  <2>. QED
    BY <1>9, <2>1, <2>2
<1>11. Snapshots' = Tail(Snapshots)
  <2>1. Snapshots' = [i \in 1..(n - 1) |-> [c \in Char |-> RowOf(updQ', db', i, c)]]
    BY <1>3, MappingNext
  <2>2. ASSUME NEW i \in 1..(n - 1) PROVE [c \in Char |-> RowOf(updQ', db', i, c)] = Snapshots[i + 1]
    BY <1>5, <1>8
  <2>. QED
    BY <1>9, <2>1, <2>2
<1>. QED
  BY <1>7, <1>9, <1>10, <1>11, LiveFunction DEF Store!Commit

(* A crash takes the world back to the rows.                                *)
LEMMA CrashCrashes ==
  ASSUME TypeOK, Crash
  PROVE  Store!Crash
<1>1. /\ \A p \in Player : presence'[p] = "offline"
      /\ updQ' = <<>> /\ db' = db /\ \A c \in Char : pending'[c] = NoAction
  BY DEF Crash
<1>2. Online' = {} /\ \A c \in Char : ~IsNew(c)'
  BY <1>1 DEF Online, InGame, IsNew
<1>3. Len(updQ') = 0 /\ \A c \in Char : RowOf(updQ', db', 0, c) = db[c]
  BY <1>1 DEF RowOf
<1>4. LiveCoins' = [c \in Char |-> db[c]]
  BY <1>2, <1>3, MappingNext DEF Live
<1>5. Snapshots' = <<>>
  <2>1. Snapshots' = [i \in 1..0 |-> [c \in Char |-> RowOf(updQ', db', i, c)]]
    BY <1>3, MappingNext
  <2>. QED
    BY <2>1
<1>6. db = [c \in Char |-> db[c]]
  BY DEF TypeOK
<1>. QED
  BY <1>1, <1>4, <1>5, <1>6 DEF Store!Crash

(* An entity that is deleted, when its player is not in the game, does not  *)
(* take what anybody owns.                                                  *)
LEMMA ScreenEntity ==
  ASSUME QInv, NEW p \in Player, NEW st \in {"screen", "offline"}, DeleteEntity(p, st), ~InGame(p)
  PROVE  /\ Online' = Online
         /\ \A c \in Online : mem'[c] = mem[c]
<1>. USE DEF QInv, RInv, IInv
<1>1. \A q \in Player : InGame(q)' <=> InGame(q)
  BY DeleteEntitySession DEF InGame, HasPresence
<1>2. \A q \in Player : InGame(q) => character'[q] = character[q]
  BY DeleteEntitySession
<1>3. ASSUME NEW c \in Online PROVE c \in Char /\ c # character[p]
  <2>1. c \in Char /\ InGame(Owner[c])
    BY OnlinePending
  <2>2. character[p] \in Char => Owner[character[p]] = p
    BY DEF EventsOK
  <2>. QED
    BY <2>1, <2>2
<1>. QED
  BY <1>1, <1>2, <1>3 DEF Online, DeleteEntity

Stutter == UNCHANGED <<LiveCoins, Snapshots, db>>

(* Who leaves takes nothing along, but a dead hardcore character is gone.   *)
LEMMA LeavingRetires ==
  ASSUME QInv, NEW p \in Player, LeavesOf(p)
  PROVE  Stutter \/ Store!Retire(character[p])
<1>. USE DEF QInv, RInv, IInv
<1>1. PICK st \in {"screen", "offline"} : DeleteEntity(p, st)
  BY Leaving
<1>2. UNCHANGED <<updQ, db>>
  BY Leaving DEF threadVars
<1>3. CASE ~InGame(p)
  <2>1. Online' = Online /\ (\A c \in Online : mem'[c] = mem[c]) /\ UNCHANGED pending
    BY <1>1, <1>3, ScreenEntity, LeavingPersists
  <2>. QED
    BY <1>2, <2>1, SameRows, LiveFunction DEF Stutter
<1>4. CASE InGame(p)
  <2>1. PICK c \in Char : c = character[p]
    BY <1>4 DEF SessionOK, InGame, HasPresence
  <2>2. PICK r : r = IF c \in dead THEN Gone ELSE mem[c]
    OBVIOUS
  <2>3. r \in Row /\ c \in Online /\ LiveCoins[c] = mem[c]
    BY <1>4, <2>1, <2>2 DEF TypeOK, Row, Gone, Online, LiveCoins
  <2>4. /\ pending'[c] = New(r) /\ \A d \in Char : d # c => pending'[d] = pending[d]
    BY <1>4, <2>1, <2>2, LeavingPersists DEF TypeOK
  <2>5. \A q \in Player : q # p => /\ InGame(q)' <=> InGame(q)
                                   /\ character'[q] = character[q]
    BY <1>1, DeleteEntitySession DEF InGame
  <2>6. ~InGame(p)'
    BY <1>1, DeleteEntitySession DEF InGame, HasPresence
  <2>7. \A q \in Player : q # p /\ InGame(q) => character[q] # c
    BY <1>4, <2>1 DEF SessionOK
  <2>8. c \notin Online' /\ \A d \in Char : d # c => (d \in Online' <=> d \in Online)
    BY <2>1, <2>5, <2>6, <2>7 DEF Online
  <2>9. \A d \in Char : d # c => mem'[d] = mem[d]
    BY <1>1, <2>1 DEF DeleteEntity
  <2>10. \A d \in Char : d # c => LiveCoins'[d] = LiveCoins[d]
    BY <1>2, <2>4, <2>8, <2>9, SameRows
  <2>11. LiveCoins'[c] = r
    <3>1. r # Keep /\ New(r) # NoAction
      BY <2>3, NoActionIsNone DEF Row, Gone, Keep
    <3>. QED
      BY <2>4, <2>8, <3>1, Actions DEF LiveCoins, IsNew
  <2>12. LiveCoins' = [LiveCoins EXCEPT ![c] = r]
    BY <2>10, <2>11, LiveFunction
  <2>13. Snapshots' = Snapshots
    BY <1>2, SameRows
  <2>. QED
    BY <1>2, <2>1, <2>2, <2>3, <2>12, <2>13, LiveFunction DEF Stutter, Store!Retire, Store!Gone, Gone
<1>. QED
  BY <1>3, <1>4

(* A deletion that is handled retires the character.                        *)
LEMMA DeletionRetires ==
  ASSUME QInv, NEW p \in Player, NEW c \in Char, handle_character_delete(p, c)
  PROVE  Store!Retire(c)
<1>. USE DEF QInv, RInv, IInv
<1>1. Owner[c] = p
  BY NoEntries DEF handle_character_delete
<1>2. ~InGame(p) /\ c \notin Online
  <2>1. ~InGame(p)
    BY <1>1 DEF handle_character_delete, EventsOK
  <2>. QED
    BY <1>1, <2>1, OnlinePending
<1>3. UNCHANGED <<updQ, db>> /\ pending' = [pending EXCEPT ![c] = New(Gone)]
  BY <1>1 DEF handle_character_delete, queue_character_deletion, threadVars
<1>4. Online' = Online /\ \A d \in Online : mem'[d] = mem[d]
  <2>1. CASE HasPresence(p)
    BY <1>1, <1>2, <2>1, ScreenEntity DEF handle_character_delete
  <2>2. CASE ~HasPresence(p)
    BY <1>1, <2>2 DEF handle_character_delete, sessionVars, Online, InGame
  <2>. QED
    BY <2>1, <2>2
<1>5. pending'[c] = New(Gone) /\ \A d \in Char : d # c => pending'[d] = pending[d]
  BY <1>3 DEF TypeOK
<1>6. LiveCoins'[c] = Gone
  <2>1. New(Gone) # NoAction /\ Gone # Keep
    BY NoActionIsNone DEF Gone, Keep
  <2>. QED
    BY <1>2, <1>4, <1>5, <2>1, Actions DEF LiveCoins, IsNew
<1>7. \A d \in Char : d # c => LiveCoins'[d] = LiveCoins[d]
  BY <1>3, <1>4, <1>5, SameRows
<1>8. LiveCoins' = [LiveCoins EXCEPT ![c] = Gone]
  BY <1>6, <1>7, LiveFunction
<1>. QED
  BY <1>3, <1>8, SameRows DEF Store!Retire, Store!Gone, Gone

(* A character enters the game with what the database holds, which is what  *)
(* it owned.                                                                *)
LEMMA EnteringStutters ==
  ASSUME QInv, NEW p \in Player, handle_loaded_character_data(p)
  PROVE  Stutter
<1>. USE DEF QInv, RInv, IInv
<1>1. /\ load[p].stage = "delivered" /\ presence[p] = "loading"
      /\ presence' = [presence EXCEPT ![p] = "ingame"]
      /\ mem' = [mem EXCEPT ![character[p]] = load[p].row]
      /\ UNCHANGED <<character, pending, updQ, db>>
  BY DEF handle_loaded_character_data, Delivered, threadVars
<1>2. PICK c \in Char : c = character[p]
  BY <1>1, LoadedNotWritten
<1>3. /\ \A j \in DOMAIN updQ : ~Overwrites(j, c)
      /\ load[p].row = db[c] /\ pending[c] = NoAction /\ Owner[c] = p /\ ~InGame(p)
  BY <1>1, <1>2, LoadedNotWritten, NoEntries DEF RowsCurrent, InGame
<1>4. c \notin Online /\ ~IsNew(c)
  BY <1>3, OnlinePending DEF IsNew
<1>5. LiveCoins[c] = db[c]
  <2>1. DOMAIN updQ = 1..Len(updQ)
    BY DEF TypeOK
  <2>2. \A j \in 1..Len(updQ) : ~WritesIn(updQ, j, c)
    BY <1>3, <2>1 DEF WritesIn, Overwrites, IsBatch
  <2>3. RowOf(updQ, db, Len(updQ), c) = db[c]
    BY <2>2 DEF RowOf
  <2>. QED
    BY <1>4, <2>3, Mapping DEF Live
<1>6. Online' = Online \cup {c}
  BY <1>1, <1>2 DEF Online, InGame, TypeOK
<1>7. LiveCoins'[c] = db[c]
  BY <1>1, <1>2, <1>3, <1>6 DEF LiveCoins, TypeOK
<1>8. \A d \in Char : d # c => LiveCoins'[d] = LiveCoins[d]
  BY <1>1, <1>2, <1>6, SameRows DEF TypeOK
<1>. QED
  BY <1>1, <1>5, <1>7, <1>8, SameRows, LiveFunction DEF Stutter

(* What changes neither the channel nor the rows, nor an entry that is new, *)
(* nor who is in the game, changes nothing that anybody owns.               *)
LEMMA StutterStep ==
  ASSUME UNCHANGED <<updQ, db>>, Online' = Online, \A c \in Online : mem'[c] = mem[c],
         \A c \in Char : pending'[c] = pending[c] \/ (~IsNew(c) /\ ~IsNew(c)')
  PROVE  Stutter
<1>1. \A c \in Char : LiveCoins'[c] = LiveCoins[c]
  BY Mapping, MappingNext DEF Live, IsNew
<1>. QED
  BY <1>1, SameRows, LiveFunction DEF Stutter

(* Every step is one of DurableStore or none.                               *)
LEMMA StepRefines == QInv /\ [Next]_vars => [Store!Next]_(Store!storeVars)
<1>. SUFFICES ASSUME QInv, [Next]_vars PROVE Store!Next \/ Stutter
  BY DEF Stutter, Store!storeVars
<1>. USE DEF QInv, RInv, IInv
<1>1. ASSUME NEW c \in Char, NEW d \in Char, Transfer(c, d) PROVE Store!Next
  BY <1>1, TransferPays DEF Store!Next
<1>2. CASE batch_update
  BY <1>2, BatchIsSnapshot DEF Store!Next
<1>3. CASE Updater
  BY <1>3, CommitCommits DEF Store!Next
<1>4. CASE Crash
  BY <1>4, CrashCrashes DEF Store!Next
<1>5. ASSUME NEW p \in Player, NEW c \in Char, handle_character_delete(p, c) PROVE Store!Next
  BY <1>5, DeletionRetires DEF Store!Next
<1>6. ASSUME NEW p \in Player, LeavesOf(p) PROVE Store!Next \/ Stutter
  <2>1. InGame(p) => character[p] \in Char
    BY DEF SessionOK, InGame, HasPresence
  <2>2. CASE InGame(p)
    BY <1>6, <2>1, <2>2, LeavingRetires DEF Store!Next
  <2>3. CASE ~InGame(p)
    <3>1. PICK st \in {"screen", "offline"} : DeleteEntity(p, st)
      BY <1>6, Leaving
    <3>. QED
      BY <1>6, <2>3, <3>1, Leaving, LeavingPersists, ScreenEntity, StutterStep DEF threadVars
  <2>. QED
    BY <2>2, <2>3
<1>7. ASSUME NEW p \in Player, handle_loaded_character_data(p) PROVE Stutter
  BY <1>7, EnteringStutters
<1>8. ASSUME NEW p \in Player, handle_initialize_character(p) PROVE Stutter
  <2>1. ~InGame(p) /\ UNCHANGED <<updQ, db, pending>>
    BY <1>8 DEF handle_initialize_character, EventsOK, InGame, threadVars
  <2>2. CASE has_pending_database_action(character[p])
    BY <1>8, <2>1, <2>2, ScreenEntity, StutterStep DEF handle_initialize_character
  <2>3. CASE ~has_pending_database_action(character[p])
    <3>1. Online' = Online /\ mem' = mem
      BY <1>8, <2>1, <2>3 DEF handle_initialize_character, Online, InGame, TypeOK
    <3>. QED
      BY <2>1, <3>1, StutterStep
  <2>. QED
    BY <2>2, <2>3
<1>9. CASE PollMessages
  <2>1. \A c \in Char : pending'[c] = pending[c] \/ (~IsNew(c) /\ ~IsNew(c)')
    BY <1>9, Actions DEF PollMessages, process_batch_completion, IsNew
  <2>2. Online' = Online /\ UNCHANGED <<updQ, db, mem>>
    BY <1>9 DEF PollMessages, Online, InGame
  <2>. QED
    BY <2>1, <2>2, StutterStep
<1>10. ASSUME UNCHANGED <<updQ, db, mem, pending, character>>,
              \A p \in Player : InGame(p)' <=> InGame(p)
       PROVE  Stutter
  <2>1. Online' = Online
    BY <1>10 DEF Online
  <2>. QED
    BY <1>10, <2>1, StutterStep
<1>11. ASSUME NEW p \in Player, NEW c \in Char, RequestCharacter(p, c) PROVE Stutter
  <2>1. /\ presence[p] = "screen" /\ character' = [character EXCEPT ![p] = c]
        /\ UNCHANGED <<presence, mem, pending, updQ, db>>
    BY <1>11 DEF RequestCharacter, threadVars
  <2>2. Online' = Online
    BY <2>1 DEF Online, InGame, TypeOK
  <2>. QED
    BY <2>1, <2>2, StutterStep
<1>12. ASSUME \/ \E p \in Player : Connect(p) \/ RequestExit(p) \/ LoseClient(p)
              \/ \E p \in Player, c \in Char : RequestDelete(p, c)
              \/ \E c \in Char : Die(c)
              \/ disconnect_all_clients_if_requested \/ RequestDisconnectAll
       PROVE  Stutter
  <2>1. /\ UNCHANGED <<character, pending, updQ, db>>
        /\ \A p \in Player : presence'[p] # presence[p] => presence[p] = "offline" /\ presence'[p] = "screen"
    BY <1>12, QuietSteps
  <2>2. mem' = mem
    BY <1>12 DEF Connect, RequestExit, LoseClient, RequestDelete, Die,
         disconnect_all_clients_if_requested, RequestDisconnectAll, sessionVars
  <2>3. \A p \in Player : InGame(p)' <=> InGame(p)
    BY <2>1 DEF InGame
  <2>. QED
    BY <1>10, <2>1, <2>2, <2>3
<1>13. CASE disconnected_success
  BY <1>10, <1>13 DEF disconnected_success, Quiet, sessionVars, InGame
<1>14. ASSUME NEW p \in Player, LoaderAnswers(p) PROVE Stutter
  BY <1>10, <1>14 DEF LoaderAnswers, threadVars, InGame
<1>15. CASE UNCHANGED vars
  BY <1>10, <1>15 DEF vars, sessionVars, threadVars, InGame
<1>. QED
  BY <1>1, <1>2, <1>3, <1>4, <1>5, <1>6, <1>7, <1>8, <1>9, <1>11, <1>12, <1>13, <1>14, <1>15
     DEF Next, Tick, Handlers, Client, LeavesOf

LEMMA InitRefines == Init => Store!Init
<1>. SUFFICES ASSUME Init PROVE Store!Init
  OBVIOUS
<1>1. Len(updQ) = 0 /\ Online = {} /\ \A c \in Char : ~IsNew(c)
  BY DEF Init, Online, InGame, IsNew
<1>2. \A c \in Char : RowOf(updQ, db, 0, c) = Coins[c]
  BY DEF RowOf, Init
<1>3. LiveCoins = [c \in Char |-> Coins[c]]
  BY <1>1, <1>2, Mapping DEF Live
<1>4. Snapshots = [i \in 1..0 |-> [c \in Char |-> RowOf(updQ, db, i, c)]]
  BY <1>1, Mapping
<1>. QED
  BY <1>3, <1>4, PersistenceAssumption DEF Store!Init, Init

(* As long as no transaction fails and nobody asks for the deletion of      *)
(* another's character or from within the game (clients are the shipped     *)
(* ones), the three threads, with partial batches written late, logins,     *)
(* logouts, deletions, trades and crashes between any two steps, implement  *)
(* a store whose content is at any time one past state of the whole world:  *)
(* nothing is half saved, lost or duplicated.                               *)
THEOREM Refinement == MayFail = FALSE /\ Custom = {} /\ Spec => ImplementsStore
  BY InitRefines, StepRefines, InitQInv, NextQInv, PTL DEF Spec, ImplementsStore, Store!Spec
=============================================================================
