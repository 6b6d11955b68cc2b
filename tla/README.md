# Xindeler: New Horizon - formal models of the server

TLA+ models, TLC configurations and TLAPS proofs for the core logic of the Xindeler game server
(a Rust multiplayer role-playing game, `src/`). This directory is read together with the code:
`PROJECT.json` maps every definition to the lines it models.

## 1. Inventory: the parts of the system

The server is one process. `Server::tick` (src/server/src/lib.rs) runs about 30 times a second on
the main thread: the ECS systems run in parallel on a pool and emit *events*, the event handlers
then change the world, the region map and the clients are synchronised, and finally the answers of
the background threads (two persistence threads, chunk generation, pathfinding, the Oracle) are
polled. Clients speak to the server through the `network` crate, each message kind on its own
stream; a client's action is therefore always handled later than it was made, and its view of the
world lags behind.

| part | state | operations | interacts with | what is hard |
| --- | --- | --- | --- | --- |
| Character persistence (`server/src/persistence`, `sys/persistence.rs`, `events/player.rs`) | pending actions per character, batch channel, completion channel, disconnect flag, database rows | load, logout save, delete, periodic batch, batch completion, disconnect everybody | character screen, session lifecycle, updater and loader threads | three threads, partial batches, late answers, failing transactions, crashes |
| Trade (`common/src/trade.rs`, `server/src/events/trade.rs`) | open trades, trade of every entity, offers by inventory slot, phase and accept flags | begin, add, remove, accept, decline, commit | invites, inventories, deaths, exits | both parties act on a lagging view, inventories change under the offer, capacity arithmetic |
| Invites (`server/src/events/invite.rs`, `sys/invite_timeout.rs`) | one `Invite` per invitee, `PendingInvites` per inviter | invite, accept, decline, time out | groups, trades, entity deletion | two halves of one fact on two entities that may vanish separately |
| Groups (`common/src/comp/group.rs`, `server/src/events/group_manip.rs`) | `Group` id per entity, slab of group infos with leader and size | add, leave, kick, assign leader, pets, entity deletion | invites, exits to the character screen | reused slab ids, size counter, leader without entity |
| Login and registration (`sys/msg/register.rs`, `login_provider.rs`, `connection_handler.rs`) | pending logins, players by uuid, bans, every client's player list | connect, authenticate, retry, newer login replaces older one, disconnect, ban | network, session lifecycle | logins of one tick checked in parallel; a login racing the removal of the older session |
| Network protocol (`network/`) | streams of each participant, queues by priority, frames | open and close streams, send, disconnect | every client | four managers per side, two hand-overs per send, close frames held back by data, shutdown with data in flight |
| Slow jobs (`common/src/slowjob.rs`) | queues and limits per job kind | queue, start, finish | chunk generation and serialisation | fair distribution of a bounded pool |
| Chunks (`chunk_generator.rs`, `sys/terrain.rs`, `terrain_persistence.rs`) | pending chunks, loaded chunks, remembered blocks with cache and files | request, generate, cancel, insert, change a block, serialize, unload | slow jobs, presence, every client | answers to cancelled jobs, snapshots older than the block changes sent beside them |
| Entity mirroring (`common/src/region.rs`, `sys/subscription.rs`, `sys/entity_sync.rs`, `common/net/src/sync`) | regions, subscriptions, component trackers | move, enter, leave, delete | every client | entity seen exactly by who subscribes |
| Entity ids (`common/src/uid.rs`) | maps uid, character, rtsim id to entity | add, remove, remap | everything | several maps that must agree |
| Links (`common/src/link.rs`, `mounting.rs`, `tether.rs`) | rider and mount, leader and follower | link, persist, unlink | entity deletion | two components and a handle that must agree |
| Pacts, banishment (`pact.rs`, `banishment.rs`) | favour, contracts, parked creatures with deadlines | summon, dismiss, banish, return | real time, save file, deletion | deadlines across restarts |
| Moderation (`settings/`, `automod.rs`, `character_suspension.rs`) | bans, roles, suspensions, message rates | ban, unban, expire, promote | login, chat | precedence of records, expiry |
| Shutdown (`server-cli/src/shutdown_coordinator.rs`) | deadline, reason, announcements | initiate, abort, check | console, signals | commands racing the deadline |
| Oracle (`server/src/oracle`) | policies, chronicle writes, triggers | observe, decide, write | database thread | bounded queue, drain at exit |
| Query server (`query_server/`) | rate limits | answer a request | none | windows of the limiter |
| rtsim, world generation, weather, agents, combat, inventory content, skills | simulation data | simulate | all | numeric code and content, little control |
| Client and user interface (`client/`, `voxygen/`), assets, tools | the view of the world | render, input | server | rendering, not protocol |


`PROJECT.json` lists each part as a component with its status, and under `hazards` what can go
wrong in each modelled part at the line where it bites.

## 2. Modules

| module | models | composes |
| --- | --- | --- |
| `Persistence` | character screen, session lifecycle, `CharacterUpdater` with its thread, `CharacterLoader` with its thread | - |
| `DurableStore` | what persistence promises | - |
| `PersistenceStore` | the refinement mapping | `Persistence`, `DurableStore` |
| `PersistenceProofs` | theorems: who may play; what the batches do to rows; what logins read; the refinement | `PersistenceStore` |
| `TradeCommit` | `commit_trade` and the inventory arithmetic below it | - |
| `CommitOnce` | one call of `commit_trade`, on any two inventories and offers | `TradeCommit` |
| `CommitProofs` | theorems: what the checks let through fits, and moves the terms | `CommitOnce`, `FoldLemmas` |
| `Trade` | invites to trade, `Trades`, every handler that reads or ends a trade | `TradeCommit` |
| `ConsentedExchange` | what trading promises | - |
| `TradeConsent` | the refinement mapping | `Trade`, `ConsentedExchange` |
| `TradeClients` | the trade on the clients' screens, and the streams to and from them | `Trade` |
| `TradeProofs` | theorems about trades and invites, and about the clients' screens; the refinement | `TradeClients`, `TradeConsent`, `CommitProofs` |
| `Groups` | `GroupManager`, group invites, pets, the character screen, the clients' view | - |
| `FoldLemmas` | what `FoldLeft` and sums over finite sets return; used by the proofs about loops | - |
| `GroupsProofs` | theorems about groups of players and of their pets | `Groups`, `FoldLemmas` |
| `OrderedStreams` | what the network crate promises of a stream | - |
| `Channels` | two participants with one TCP channel: the API, `send_mgr`, `recv_mgr`, the shutdown, the priority queue, the frames | `OrderedStreams` |
| `ChannelsProofs` | theorems | `Channels`, `FoldLemmas` |
| `Sessions` | the register system, `LoginProvider`, disconnections, bans, player lists | - |
| `SessionsProofs` | theorems | `Sessions` |
| `SlowJobs` | the pool: queues, limits, order of starting | - |
| `Chunks` | one chunk of terrain from request to unloading, its blocks' persistence, what clients show | `SlowJobs` |
| `ChunksProofs` | theorems about the pool's operations and about the chunk | `Chunks`, `FoldLemmas` |
| `MC*` | the values of constants that a cfg cannot write, and symmetry | the module of that name |

Operators and actions keep the names of the functions they model (`remove_from_group`,
`commit_trade` as `commit_result`, `InviteTimeout` for the system of that name). Definitions
commented *slip* are mistakes somebody could make in that function; no behaviour uses them. Each is
put in place of the definition below it to see that the property listed with it in `PROJECT.json`
("mutants") notices.

### Persistence

`pc` is where `Server::tick` is: the ECS systems (client requests, `batch_update`), then
`handle_serial_events` in its fixed order of event kinds, then the poll of the answers of both
threads. `ev` are the event buses between systems and handlers, `updQ` the channel to the updater
thread, `completed` the answers back, `flag` the atomic that both threads write. A request checks
its precondition when it arrives and the handler acts later in the tick, as in the code, so that
the window between the two is in the model. The updater takes one message per step: a batch
commits (`BatchCommits`), fails (`BatchFails`, raising the flag) or is skipped while the flag is up
(`BatchSkipped`); `ResumeBatches` is `DisconnectedSuccess`. `Crash` ends the process and
starts another on the committed rows.

The server takes `DeleteCharacter` from whoever is registered, for any character id and also from within the
game (`character_screen.rs:335-343`): `handle_character_delete` puts the requester back to the screen without a save,
and `queue_character_deletion` puts its entry in the place of any other. Who owns the character is asked only in SQL
(`persistence/character/mod.rs:983-999`), where the deletion of another's succeeds without effect; such an entry is
`New(Keep)`. The client in this repository asks only for characters of its own list, at the character screen, and
waits for the answer of a selection. `Custom` is the set of accounts with a client that does not. What holds for any `Custom` is stated so
(`BatchesAreWritable`, `DeletionReachesBatch`, `PendingExcludesPresence` and the liveness); `ImplementsStore` and
`LoadedRowIsCurrent` need `Custom = {}`, and the table in section 3 shows why. Not modelled is a second
`Character` request that arrives before the first is handled.

A character is abstracted to the coins it owns. That keeps what matters of the row: whether it
exists, how old it is, and whether it agrees with the rows of characters it exchanged something
with. Not in the model: the contents of rows, the SQL, the battle-mode buffer, pets' rows, editing
and creating characters.

`DurableStore` says it without threads: the database is always one past state of the whole world.
`LiveCoins` and `Snapshots` in `PersistenceStore` map every message in the channel to the snapshot
of the world it stands for, although it holds only the characters in the game and those pending.

### Trade

Each action is one event from its first check to its last write. Events of one tick are handled per
kind, and who sends what when is not ordered, so any of them may come next. `inv` maps slots to
stacks; an offer is a map from slot to quantity, as in the code, so it changes its meaning when the
slot does. `InventoryManip` stands for all manipulations, as the gate before it and the reset after
it (`inventory_manip.rs`) do not depend on which it is. The commit is a
function of both inventories, both offers and the iteration order of the `HashMap`s: `TradeCommit` defines whether
it may go on (`commit_result`) and what comes of it (`Exchange`). The action `Commit` uses both and takes any
`Orders`. `CommitOnce` is that function as a system of one step, whose initial states are all inventories and offers.
An entity that leaves is gone; who returns is another entity.

`ConsentedExchange` is the promise: two parties seal terms, nobody's holdings move while sealed
except by closing to exactly these terms on both sides. `TradeConsent` maps a trade in `Review` to a
sealed deal, whose terms are the items that the offered slots hold.

`TradeClients` adds what each player sees (`pending_trade`) and two ordered queues per client. A
pressed Accept carries the phase on the screen; `InformedConsent` needs that phase, and its mutant
drops the check.

### Groups

The functions of `GroupManager` take the state of the groups (a record: the `Group` component of
each entity, the slab, its vacant ids, the clients' view) and return the next, so
`add_group_member` calls `leave_group` as the code does. `members` passes over entities without
`Alignment`, that is players at the character screen, exactly as the join in the code.
`shown` applies each `ChangeNotification` when it is sent: group messages travel on one ordered stream
and nothing a client does depends on when it gets them, so only the settled view is of interest.
`stale` counts entries of `PendingInvites` whose invitee's entity is gone. `scope`, chosen once,
says which players there are (`crew`), what they do besides joining and leaving (`may`), which pets they tame (`pets`) and,
as bounds, how many each may have (`each`; the code allows three, `MAX_PETS` in `inventory_manip.rs:780`) and how many
invites of each may be open to somebody who is gone (`gone`); the operations are the same in every scope.
`AssignLeader` takes any member of the group, a pet too, as `group_manip.rs:271-319` does (only `Kick` asks, at 175);
`may` says whether anybody makes a pet the leader (`"bequests"`). Who does gives up what `remove_from_group` relies on, and the properties about leaders,
pets and clients exclude it (`PlainPets`); the table in section 3 shows what happens then.

### Channels

A message is a header frame and some data frames; bandwidth is counted in frames, and the widths
that matter (`u64` to `i64` in `grab`) are a constant. `user`, `sent`, `closed` and `streams` are the API's
`Stream`s with the `BParticipant`'s map of them, `send[s]` is `send_mgr` with its `TcpSendProtocol` and the
`PrioManager` inside, `wire` the TCP connection, `incoming` and `got` belong to `recv_mgr`. An iteration of
`send_mgr`'s `select!` loop is one action, as nothing it awaits lets another manager look at what it
keeps: what `recv_mgr` told it of opened streams, then the messages, then what it told of closed ones,
then the event that woke it, then the flush. `Stream::send` takes two steps, the look at the flag and
the hand-over, because a remote `CloseStream` may come between. `Break` loses a suffix of what is on the
wire. `OpenStream` is possible as long as `send_mgr` runs, also when it has been told to remove the
protocol and `recv_mgr` has closed all streams there were: such a stream nobody closes (`AllStreamsEnd` in section 3),
so `DropsAreNoticed` is about streams of a side whose `recv_mgr` still runs.

`OrderedStreams` knows neither frames nor priorities: a side receives the messages in order, without
gaps, none twice, and learns that the other has dropped the stream only after the last of them.

Not modelled: QUIC and the in-process transport, the handshake, several channels of one
participant, messages without content, `listen` and `connect` of the scheduler. A `Participant` lives until its managers have
ended, as `disconnect` and `Drop` wait for them, and who asks for a stream waits for it: with a `disconnect` or `open` that is
given up half-way, the unwraps at `participant.rs:535` and 311 would panic.

### Sessions

A tick is `BeginRegister` (what the pending logins and players are then), one `login` for each pending
login in any order (the code handles them on several threads, but everything from counting the
players to claiming the place under one lock), `EndRegister` (components are removed, retries
inserted, players inserted and announced, in this order) and `handle_client_disconnect`. The authentication server is
`Verified`, at any time and with either result. `ConnectionEnds` stands for every other cause of a
`ClientDisconnectEvent`. `login_ok` is `LoginProvider::login` with its order of checks left out (only the wording of the
refusal depends on it). `Role` is what the admins file says. `handle_ban` is a command from the chat or over
HTTP, by whoever has a role: the ban keeps the role of who gave it, and applies to lower ones only.

Not modelled: the end of a ban, bans of addresses, roles for a session only (`/adminify`), the handshake before the
first message, battle mode and the description that is sent to the client. A connection sends `ClientRegister`
once, as the client does; `register.rs:137` would take it again at any time.

### SlowJobs and Chunks

The pool's operations take its state and return the next (their callers hold its lock). Only the kinds
that work on chunks are configured: the jobs of one kind do not delay those of another, since
`spawn_queued` hands out the whole `global_limit` whatever runs (`GlobalLimitHolds` below). `calc_queued_order`
is the code's, with its rates as multiples of a common denominator.

`Chunks` looks at one chunk and, of its blocks, at one. `Terrain` is the system of that name with
`msg::terrain`, which runs before it; `Sync` is the end of the tick (block changes, `terrain_sync`). `store` is
the chunk's entry in `TerrainPersistence`: its blocks while loaded, the LRU cache and the file. What a
chunk job generates depends on the version of the world index it was given (`Generated`). A client is close
(the server asks for the chunk by itself), in view (the client may ask) or far. Its turn to be checked for
unloading, one tick of 16, and `chunk_serialize`, one tick of 15, come when they like, under fairness.

Not modelled: the band between the distances at which a client may ask and at which the server
unloads; anchors and presences without a client; jobs that write or drop chunks; clearing all terrain
when the index changes without clients; files that cannot be read or written; a
restart; blocks that change without being persisted.

## 3. Runs

Bounds are named in the modules (`\* bound:`) and set in the cfgs.

| run | question | result |
| --- | --- | --- |
| `pers_store` | Do partial, delayed batches and two threads implement `DurableStore`? Does a login ever read a row that a pending save will change? | yes, with crashes, if no transaction fails and clients are the shipped ones; no |
| `pers_live` | With failing transactions, restarts and two accounts that ask for one character and its deletion at any time: can one play a character whose save or deletion is pending, can a batch update a deleted row, can a deletion get lost before its batch? Does every pending action (as long as no transaction fails and the deletion is not asked for again and again), login and administrator's eviction end? | no, but for deletions that another account's request replaces; yes |
| `pers_f2` | `character_updater.rs:167`: does disconnecting everybody after a failure avoid loss of integrity? | **no**: queued logout saves survive it, and coins are duplicated |
| `trade_core` | Do the maps of `Trades`, and both halves of an invite, agree after anything? | yes |
| `trade_consent` | Does trading implement `ConsentedExchange`; are terms frozen in review, accepts fresh? Does every invite end while its inviter is in the world? | yes, without dialogues and transcriptions |
| `trade_commit` | For all small inventories and offers: no panic, stacks within limits, exactly the terms? | yes |
| `clients` | Is a trade only carried out on what both had on the screen? | yes |
| `groups` | After any order of operations: are sizes, ids, the limit and clients' views right? Is the leader in the group, across character screens and hand-overs? Is a pet, one of three players' or one of each of two, left among strangers? | yes, each in the scopes its definition names (for leaders, clients and pets: nobody has two pets or makes one the leader); no |
| `groups_f_dead` | `group.rs:498`: is the last one left the leader? | **no**: who is at the screen is not counted, and keeps a freed id |
| `channels` | Do frames, bandwidth rounds and held-back close frames implement `OrderedStreams`? Does everything sent arrive, does a side that still receives notice a dropped stream or the end of the connection, do both sides end after a disconnection or a lost connection, is `send_mgr` right that opened streams are known before their messages come? | yes |
| `sessions` | One player per account, nobody banned who stays or comes in, no more players than places, current player lists, however the logins of a tick are interleaved? Is every login answered? | yes, among players that are announced, and but for moderators with a silent spectator (table below); yes |
| `chunks` | Is a pending chunk always answered, does what was built survive, does the chunk come to who is near and go when nobody is, do jobs wait only while their kind's limit is reached? | yes, if the world index generates the block that was replaced as before |

The two runs that end in a counterexample are the `findings` of `PROJECT.json`.

### Statements of the sources that do not hold

While the models were written TLC refuted these as well. They are kept as definitions and can be
repeated with the change of a cfg that is given; runs avoid these cases or state something weaker.

| statement | property | what happens | to repeat |
| --- | --- | --- | --- |
| `player.rs:336`: the login is blocked temporarily | `LoginBlockedOnlyTemporarily` | a batch skipped while the flag is up is never answered, its entries block the characters until the next start. (Without the premise `DeletionsStop` also because each request for a deletion makes the entry anew.) | `pers_live`, `Custom = {}`, as a PROPERTY |
| `character_updater.rs:388-391`: a deletion may replace a queued save, "as the user has actively chosen to delete the character" | `SavesGiveWayByChoice` | nobody has asked whose character it is: an entry that deletes nothing takes the place of the save of who has just left, which is lost | `pers_store`, `Custom = {p2}`, as a PROPERTY |
| `player.rs:24`: a player in the game is "kicked out" before the deletion | `ImplementsStore`, `NoDuplication` | without a save, although the deletion may be of another character than the one played: one side of an exchange is forgotten and the other committed | `pers_store`, `Custom = {p2}` |
| `player.rs:336`: a login waits for the character's saves | `LoadedRowIsCurrent` | who was kicked out by its own request for a deletion has no save queued, so a login is accepted while a batch with its last periodic save is still under way | `pers_store`, `Custom = {p2}`, as the only INVARIANT |
| `character_updater.rs:229`: the flag is reset once all are disconnected | `FailureDisconnectsAll` | a second confirmation, sent before the first is read, cancels a later request | `pers_live`, `Player = {p1}`, `Char = {a, b}`, `Owner <- OwnerBoth`, `Custom = {}`, `Hardcore = {}`, `MaxBacklog = 3`, `MaxEvents = 1` |
| `trade.rs:147`: an offer is never more than is owned | `OffersOwned` | the slot is emptied or swapped in the first phase; the commit then declines | `trade_core` |
| `trade.rs:148`: offers of zero are removed | `NoZeroOffers` | adding from an empty slot makes one | `trade_core` |
| `trade.rs:64`: what is in review cannot change | `TermsFrozen` | `TranscribeSpellEvent` and `DialogueEvent` take items without asking `Trades` | `trade_consent`, `Ungated = TRUE`, `Gifts <- Coin` |
| `invite_timeout.rs:10`: timed-out invites are removed | `InvitesExpire` | an `Invite` whose inviter is gone is passed over | `trade_consent` |
| the same, from the inviter's side | `PlacesAreFreed` | an entry of `PendingInvites` whose invitee is gone is passed over, and takes a place in the group | `groups`, `SPECIFICATION TimelySpec`, `Player = {a, b}`, no `SYMMETRY` |
| `trade.rs:72`: the reset makes the change visible | `ShownFlagsAreCurrent` | no message is sent for it | `clients` |
| `group.rs:111`: `members` are the members | `ClientsKnowGroup` | players at the screen are passed over, and newcomers do not learn of them | `groups`, without the property's premise |
| `group_manip.rs:49`: the maximum size is kept | `SizeLimit` | an invite of a member counts against a group of one; it is accepted when the member leads | `groups`, `{"transfers"}` as `may` of `Plain` |
| `group.rs:36`: `num_members` is the number of members | `SizeIsRight` | joining with a pet leaves a new, empty group behind for good | `groups` |
| `group.rs:499`: the last one left is the leader | `LeadersKeepTheirGroups` | a member with two pets (three are allowed, `inventory_manip.rs:780`) invites: the pets stay in a new group, which the player leads, and the player gets another; when one of the two dies, the other is the last one left, and `groups.remove(leader)` takes the player out of the group that has members | `groups_f_dead`, `Pet = {x, y}`, `Scopes <- MC_TwoPets` |
| the same | `LeadersKeepTheirGroups` | a group may be handed to a pet (`group_manip.rs:271-319`), and the owner leaves: the pet goes too, and the others are in a group led by nobody in it | `groups_f_dead`, `Scopes <- MC_Heirs`, `INVARIANTS LeadersKeepTheirGroups` |
| `group.rs:498`: if the leader is the last one left, the group is disbanded | `NobodyInDeadGroup` | the same, with three: when one of the others leaves, the last one keeps the freed id (`groups.remove(leader)` is for the pet) and is never sent `NoGroup`; a pet tamed then is put into the dead group | `groups_f_dead`, `Scopes <- MC_Heirs` |
| `group.rs:367`: the owner is in the pet's group | `PetsWithOwners` | a member with a pet invites: the pet stays in one new group, the player gets another | `groups` |
| `participant.rs:339`: the stream of a message is known (`unwrap`) | `NothingFails` | the remote closes the stream between the two steps of `send`; the panic ends all managers of the participant | `channels` |
| `participant.rs:581`: all streams are closed when receiving is no longer possible | `AllStreamsEnd` | `select!` takes an open request first although the removal of the protocol waits (`participant.rs:267-273`): `create_stream` inserts a stream when `recv_mgr` has drained the others, and its flag stays unset until the user disconnects | `channels`, as the only INVARIANT, no PROPERTIES, `SPECIFICATION Spec` |
| `api.rs:695`: `disconnect` waits for all messages to be sent | `DisconnectSendsEverything` | the last flush is given `u64::MAX`, of which the share of a stream is -1 as `i64`, so one frame goes out (`prio.rs:127`) | `channels`, as an INVARIANT, `SPECIFICATION Spec`, `MayBreak = FALSE` |
| `register.rs:83`: there is just one player per UUID | `OneSessionPerUuid` | silent spectators are filtered out of `old_players_by_uuid`, so an account may play beside them; `find_uuid` (`cmd.rs:488`) then takes any of the two | `sessions` |
| `cmd.rs:6575`: a player who is banned while online is kicked | `BannedAllLeave` | a moderator who plays and has a silent spectator beside, banned by an administrator, loses the session that `find_uuid` (`cmd.rs:488`) finds first and plays on with the other | `sessions` |
| `slowjob.rs:38`: a job runs if the global limit is not hit | `GlobalLimitHolds` | `spawn_queued` gives the whole limit to `calc_queued_order`, whatever runs; a waiting kind of which nothing runs starts | `chunks` |
| `lib.rs:1446`: all chunks are generated again | `ChunksAreRegenerated` | the answer of a job that was cancelled, with the old index, is taken for that of the new one | `chunks`, `Generated <- Changing`, `Block = {dirt, sand, wood}`, `Placeable = {dirt, wood}` |
| `terrain_persistence.rs:82`: resetting unchanged blocks is an optimisation only | `EditsSurvive` | a block placed where the index generates the same is forgotten, and replaced when a later index generates another | the same |
| `player.rs:336`: a login waits for the character's saves | `LoadedRowIsCurrent` | when transactions may fail: a `DisconnectedSuccess` that was sent while the flag was up resets it after a later failure, so a login is accepted while a batch behind it writes that character | `pers_store`, `MayFail = TRUE`, `BatchId = {1, 2, 3}`, `MaxBacklog = 3`, `MaxEvents = 1`, `Player = {p1}`, `Owner <- OwnerBoth` |
| `terrain_sync.rs:16`: clients get modified chunks and block changes | `ClientsAreCurrent` | a snapshot serialized before a block change is sent after it and stays on the screen | `chunks` |

### Why the bounds are enough

- *Persistence.* Two accounts with a character each are the least between which coins move (`pers_store`);
  one character with its owner and another account, both with clients that ask for anything at any time, is the least in which
  deletions, selections and saves of two accounts meet (`pers_live`; the same with a second character, as to safety only, has 4.6 million
  states and was also checked). Two
  messages in the channel let a batch be in flight while the next one, and a `DisconnectedSuccess`,
  wait; two client requests per tick give every pair of events in one tick. Batch ids are reused
  once nothing refers to them: with two, the next batch is sent while one is in the channel or
  answered. What more of them might do is settled by the proofs, which know no bound, but for
  liveness; `pers_f2`, which needs a third batch, has three.
- *Trade.* Three entities give competing invites and a third party who takes part in a trade while
  invited; a trade itself has two. One or two slots with stacks of up to two are enough for partial
  stacks, merging and swapping; `trade_commit` enumerates all pairs of inventories of two slots, with an item
  that stacks up to three and one that does not, and all offers of at most three of a slot. `MaxTrades = 2` in `trade_core` lets a
  trade follow another, with messages and invites of the first still about. `trade_core` disturbs (attacks,
  kills, removes) two of the three, of which one may invite and the other be invited; the third is
  the NPC. In `clients` Alice may have two actions under way, so an Accept may be pressed twice before
  the first is answered; one message is under way to each client, one trade is begun, and it is Bob who invites
  (`OneInvite`). Longer streams and trades that follow each other are left to the proofs.
- *Groups.* Four players give two groups of two, or a full group of three with somebody outside who
  is invited (`Plain`); three are enough where the screen (`Screens`) or a pet (`Pets`) is involved, and two of
  them where players go to the screen and hand over groups (`Pairs`), have a pet each (`Owners`) or may make one the leader
  (`Heirs`; every owner who leaves after that leaves an empty group in the slab, which `MaxGroups` ends). All but
  `Plain` set `gone` to 0: nobody to whom an invite of another is open leaves there; `Plain` covers that
  case. No player has two pets in `groups`: then leaders and their members part, as the table above says,
  so nothing more is claimed for two, nor for a pet as leader. More players and pets, of one each, are left to the proofs.
- *Channels.* Every property is about one stream, and streams meet only in the bandwidth of a flush,
  which is any number of frames from none to two. A message has a header and one frame of data, and is cut
  between them; two messages give one behind another in the queue, one in the middle when the stream is
  closed, and one that comes after the close frame was held back. The receiver opens the stream, so that the
  sender first hears of it from the wire. `Width` is 16 bits: no more frames than that are ever queued,
  and the cast of the largest value is the same as at 64.
- *Sessions.* Three connections, four accounts that log in and that of an administrator, who bans: `a` uses the first
  account, `b` the first or the moderator's, `c` any but the first, so that a session, a login that takes over and one more meet; with one place two logins of
  a tick compete for it. `c` may be a silent spectator, so that a moderator's session of that type is beside another
  session of the same account, or refused for its role; the last account is refused for its alias. Both roles ban
  (also over an earlier ban, and also who is not outranked); one account is banned at a time, as no ban looks at another account's.
- *Chunks.* The client may be near and gone again while two generator jobs, the cancelled one and the
  one that follows, are unanswered. One edit, one reload and one change of the index can each come before,
  between and after the others. What is placed is another block than what is generated: with one edit, placing the
  same leaves nothing to lose as long as the index generates it. A pool of one thread gives each kind its least limit, one job. Two clients
  would share the chunk; what differs between them is only to whom a snapshot goes. Except for liveness,
  other clients, pools and numbers of jobs are left to the proofs.

`CHECK_DEADLOCK FALSE` in trade, group, channel and session runs: there nothing needs to happen once
invites, trades, messages or connections, which are bounded, are used up. The persistence runs and `chunks` check for
deadlock.

### Fairness

Most conditions are written out, as what `WF` and `SF` of the action come to once what enables it is put in:
always again, the action is taken or there is nothing for it to do.

- `FairSpec` of persistence: weak fairness of the tick, of the updater and of the loader thread (each
  is an endless loop over a channel; the operating system schedules them), and strong fairness of
  `batch_update`, which runs on every tick once its interval has passed; the model leaves the interval
  open. Clients, failures and crashes are under no fairness. That no transaction fails and that the
  deletion of the character is not asked for for ever (`DeletionsStop`) are premises of `PendingActionsEnd`: an entry of a
  failed batch may stay (table above), and each request for a deletion, by whoever, makes the entry anew.
- `TimelySpec` of trade and groups: weak fairness of `InviteTimeout`, which the dispatcher runs in every tick;
  time passes. Answers, departures and presses are under none. (No group run needs it; the property
  that does is among those that do not hold.)
- `FairSpec` of channels: `send_mgr` loops while it has messages, streams to close or its protocol to remove
  (an async task is polled while it is ready, `select!` chooses at random, and 10 ms ticks come while
  data is left); `recv_mgr` reads while there is something to read; a call of `send` that has begun ends.
  Opening,
  sending, dropping, disconnecting and the loss of the connection are under none.
- `FairSpec` of sessions: the server ticks, and the authentication server answers, if only with an error
  (a lost answer closes the `oneshot` channel, which is one).
- `FairSpec` of chunks: it is the chunk's turn again and again (every sixteenth tick), what asks for the
  chunk is serialized (every fifteenth), threads finish their jobs, requests and messages arrive,
  clients tick. Moving, editing and reloading are under none.

## 4. Proofs

| theorem | for every value of the constants | argument |
| --- | --- | --- |
| `PersistenceProofs!TypeCorrect` | `[]TypeOK`, the first part of `PersistenceConsistent` | `IInv` below |
| `PersistenceProofs!PendingExcludes` | `[]PendingExcludesPresence`: nobody is loading or playing a character whose save or deletion is queued or under way, whatever clients ask for, also when transactions fail and the server restarts | `RInv` below |
| `PersistenceProofs!NoBatchUpdatesDeletedRow` | `[]BatchesAreWritable`, also with failures and restarts | `RInv == IInv /\ IdsOK /\ LoadOK /\ RowsOK`, where `IInv == TypeOK /\ SessionOK /\ EntriesOK` |
| `PersistenceProofs!DeletionsAreSent` | `DeletionReachesBatch`: an accepted deletion leaves the queue only with the batch that carries it, or for the request of an account that does not own the character | same |
| `PersistenceProofs!LoadsAreCurrent` | `[]LoadedRowIsCurrent`, if `MayFail = FALSE` and `Custom = {}` | `QInv == RInv /\ Quiet /\ EventsOK /\ CoveredOK /\ RowsCurrent` |
| `PersistenceProofs!Refinement` | `ImplementsStore`, if `MayFail = FALSE` and `Custom = {}` | `QInv`, and for each action the step of `DurableStore` it is |
| `CommitProofs!CommitNeverPanics` | `[]EverythingFits`, for inventories of any size, any items and stack sizes | `OInv`, `CommitWorks` |
| `CommitProofs!CommitMovesTheTerms` | `ExactlyTheTerms` | same |
| `TradeProofs!TradesStayConsistent` | `[]TradesConsistent` | `IInv == TradesOK /\ InvitesOK` |
| `TradeProofs!InvitesStayConsistent` | `[]InvitesConsistent` | same |
| `TradeProofs!ReviewIsFrozen` | `[][..]` of `TermsFrozen`, if `Ungated = FALSE` | a lemma on what one step does to the terms of an open trade |
| `TradeProofs!AcceptanceStaysFresh` | `AcceptanceIsFresh`, if `Ungated = FALSE` | same |
| `TradeProofs!TradeIsTyped` | `[]TypeOK`: stacks within their limits and offers of slots, whatever moves items | `TInv == IInv /\ InvOK /\ BooksTyped /\ ...` |
| `TradeProofs!TradeImplementsConsent` | `TradesAreConsented`, if `Ungated = FALSE` | `RInv == TInv /\ PhasesOK`, and for each action the step of `ConsentedExchange` it is |
| `TradeProofs!ShownTermsStayCurrent` | `[]ShownTermsAreCurrent`, for streams and presses of any length | `SInv == IInv /\ ScreensOK` |
| `TradeProofs!ConsentIsInformed` | `InformedConsent` | same |
| `GroupsProofs!GroupsStayConsistent` | `[](Calm => GroupsConsistent)`, and that sizes are right, ids alive and no group lonely, also where groups are handed over | `IInv`: `NoPets /\ GroupsOK /\ InvitesOK` |
| `GroupsProofs!GroupsAreKnown` | `[](Calm => ClientsKnowGroup)` | same |
| `GroupsProofs!GroupsStaySmall` | `[](PlayersOnly => SizeLimit)`: no group outgrows `max_player_group_size` | `IInv` with `LoadsOK` |
| `GroupsProofs!PetsStayWithOwners` | `[]NoStrayPets`, for any players and pets | `PetInv`: `Kept == Owners(owner) /\ Single(owner) /\ InvitesOK /\ IsTidy(groups) /\ ...` in worlds without screens where nobody has two pets or makes one the leader (`Homely`) |
| `GroupsProofs!LeadersStay` | `[]("screens" \notin scope.may => LeadersAreMembers)` | same |
| `GroupsProofs!NobodyIsLost` | `[](Homely => NobodyInDeadGroup)` | same |
| `ChannelsProofs!UnknownStreamsWereClosed` | `[]OnlyClosedStreamsFail`, for any streams, messages, bandwidth and priorities | `IInv == Typed /\ HeardOK /\ WaitingOK /\ WiresOK /\ OpenOK /\ OnlyClosedStreamsFail` |
| `SessionsProofs!UniquePlayers` | `[]SessionsConsistent`: types, and one announced player per account (`OnePlayerPerUuid`) | `IInv == TypeOK /\ RegOK /\ ClaimsOK /\ OnePlayerPerUuid /\ BannedAreLeaving /\ ListsOK` |
| `SessionsProofs!NoBannedPlayers` | `[]BannedAreLeaving`: a ban that applies ends the session, or one of them if a silent spectator is beside it | same |
| `SessionsProofs!BannedAreRefused` | `BannedStayOut`: nobody is admitted under a ban that applies, whatever the roles | same |
| `SessionsProofs!PlayerListsAgree` | `[]ListsAreCurrent` | same |
| `SessionsProofs!PlacesSuffice` | `[]PlayersFit`, for any number of connections and places | `IInv /\ CountOK` |
| `ChunksProofs!NewPoolWorks`, `SpawnWorks`, `FinishWorks` | for any kinds, limits and threads: no kind waits while one of its jobs may run, jobs start in order, none is lost or started twice | what `spawn` and `finish` make of a pool that `Works` |
| `ChunksProofs!ChunksAgree` | `[](ChunksConsistent /\ StoreOK(store))`, for any clients, places, pool and number of jobs; `StoreOK`: a chunk is not both loaded and cached, and what is cached or not marked to be written is what the file says | `CInv` |
| `ChunksProofs!PlacedBlocksStay` | `[]EditsSurvive`, if all versions of the index generate the same block | `EInv` |

`PendingExcludesPresence` is not inductive: the handler of a logout enters the pending action of the
character its entity holds, so one must know that no other entity holds that character, that an
entity with an answer of the loader holds some character, and that a delivered answer is a row.
That is `SessionOK`: an account may select another's character and even be `loading` it, but the loader finds no row, so who
is in the game owns what it plays, and who asks for another's deletion is in `Custom`. `EntriesOK` says what entry a played character can have
at most, the one of a deletion that deletes nothing; `HeldOK` in `RowsOK`, that no batch under way deletes it. `handle_initialize_character` checks the pending action a second time; in reachable states
this never refuses anybody, for logins are handled before deletions, but the invariant does not say so and
the proof uses the check.

`BatchesAreWritable` needs more, since it speaks of the head of the channel only. `RowsOK` says of every message
under way what it will find: a batch updates a row only if it exists now and no batch before it
deletes it, and while a deletion is in the channel its entry stays pending, so that nobody saves the character
again. `LoadOK` keeps a login away from that: nothing of a character being loaded is pending, and it was asked
for by the account that owns it. `IdsOK` says that an answer belongs to one batch, so that an early answer
does not clear an entry that a later batch carries.

`QInv` adds what holds without failures. `CoveredOK` is the reason why a login reads what is going to
stay: a character that a batch under way writes is in the game or still has an entry, of this batch or a later one.
(A batch that is only skipped keeps its entries too, but `DisconnectedSuccess` then opens the window listed in
section 3; that is why `MayFail = FALSE` is a premise. Who leaves the game without a save, by a deletion, leaves no entry either; hence `Custom = {}`,
of which `NoEntries` says what it comes to.) `EventsOK` carries this across a tick: who asked for a character
or a deletion is not in the game when it is handled. For the refinement, `LiveCoins` and `Snapshots` are
compared before and after each action: `Transfer` pays, a batch is a snapshot, `BatchCommits` commits the oldest one, leaving and
deleting retire a character whose entry carries the coins on, and everything else leaves the mapping
alone. A row after a message is what the last write up to it says; that there is a last one, for a channel of any length,
is a lemma from the well-foundedness of `<` on `Nat`, and with it neither taking the head nor adding at the end changes
the other snapshots.

`TradesConsistent` speaks of the two maps; `TradesOK` adds their types, that ids lie below `next_id`
(so `begin_trade` cannot reuse one) and that parties differ. The proofs about steps take `TradesOK`
and go through the handlers one by one: for each, either the trade is gone afterwards, or it is
not in the phase in question, or neither its offers nor the slots of its parties changed.
That `Ungated = FALSE` is necessary is in the table of section 3.

`EverythingFits` compares an estimate with a loop: `commit_trade` counts the slots it needs item by item before anything moves, and
then pushes the stacks one by one into what is there. `Fits` is what the loop keeps: there are numbers `K[i]` of slots, adding up to
no more than the free slots, such that what is still to come of each item is at most the room in its stacks plus `K[i] * MaxAmount[i]`.
`EnoughSpaceFits` gets it from the estimate: taking out the offer leaves exactly the `party_capacity` that was computed (`TakenOutRoom`),
and as many more free slots as stacks were full (`TakenOutFree`, where the sum over items of the full stacks is their number). A push
uses no slot that the items still to come need (`PushFits`): it fills the stacks in slot order, and what remains takes one slot, whose own
room counts from then on. This holds in any order of the stacks, so the iteration order of the `HashMap`s
does not matter. `TakenSums` relates what is pushed, in whichever order, to what was sold, and `PushAllFits` gives the counts. Sums
are `MapThenSumSet`, which is recursive; what they are is proved as for folds, by induction on a finite set in the form of a lemma
about sets (`SetInduction`), and with it that a sum splits, compares and can be indexed otherwise.

`TypeOK` of `Trade` follows for every source of items: the commit, `remove_item_amount` and the gift it makes, swaps and drops. In
the refinement a decline, an attack, a departure, a commit that is refused and a new invite call off at most one deal (`StepQuiet`); the accept
that ends the first phase seals one (`StepSeals`: its parties are in no other, as both maps of `Trades` agree); a commit that
completes closes it (`StepCloses`, from `CommitWorks` and that nobody sells more of an item than there is); managing
an inventory is personal (`StepPersonal`: the gate refuses who is in a sealed deal). A deal that stays sealed stays what it is, by the lemma
on terms above. With `Ungated = TRUE` it does not hold.

`InformedConsent` relates a commit on the server to what a player saw when pressing, with two streams of any length
between. `ScreensOK` describes everything that a screen shows or will show, message by message. A view of an open trade in
review still holds, whatever is under way, since review ends only with the trade (`ViewOK`); views
come in the order of trades (`InOrder`); the last one is the trade as it is but for its flags (`LastOK`, from
which `ShownTermsAreCurrent` follows). So an Accept of the review phase, when pressed, names the offers the server has
now, and whoever has accepted, on the server or in the stream to it, agreed to them (`VotesOK`). A step of the server either
keeps what an open trade says, or tells both parties as its last message, or takes the trade out; that is proved
handler by handler (`OthersKeep`, `DeclineTold`, `ProcessTold`) and then used once for all screens (`ServerKeeps`).
Nothing here needs `Ungated = FALSE`: an inventory that changes under an offer changes no offer.

The theorems about `Groups` are of two kinds. Those about sizes, the limit and the clients are about worlds of players only
(`Calm`: nobody goes to the character screen or tames pets; handing
over a group is allowed but for the size limit). The table in section 3 shows that screens,
pets and, for the limit, hand-overs each break what is claimed there. `Good` describes `GroupManager` and the clients by parts:
types, groups that are `Whole` (led by a member, counted right, of two or more, nobody in one that is gone), the ids of the slab and
its vacant list (`Ids`: together an initial segment, disjoint, none twice, so that `NextId` is always free), and what each client shows
(`Seen`). `Left` says in closed form what `remove_from_group` comes to, whether the leader leaves (`Disband` is a fold over the members,
and its result is found as those of the pool below), the last but one, or anybody else; and that `entity_deleted` comes to the same. `LeaveWorks`, `FoundWorks`,
`JoinGood` and `AssignWorks` then show that each result is `Good`, and the last clause of each bounds what the groups of others weigh. `LoadsOK` is
`can_invite`'s sum as an invariant: size of the group one leads, or one, and all invites sent. An accepted invite moves one from
the invites to the size; that a member's invite counts against a group of one is harmless as long as a member becomes a leader only by
founding another group.

The others are about worlds with pets (`Homely`: nobody has two, or makes one the leader), where groups of one and groups with nobody in them are normal: joining
with a pet leaves an empty one behind, and a pet whose owner invites may stay in one alone. So sizes say nothing here, and
`remove_from_group`, which takes whoever is left for the leader, is right for another reason. `Tidy` says which: where there
are players their leader is one of them, and every pet there belongs to one of them; where there are none there is at most one pet. When a pet
dies and one entity is left, there was a player in the group, so it is the leader who is left; in a group without players none is left.
Two pets of one owner break the last clause, a pet as leader the first, and section 3 lists what follows. `NoStrayPets` is not inductive without the clauses about
leaders: a group is dissolved as a whole only if who leads it is known to be in it. The id of a
dissolved group is free at once and may be given to the first of its own members who founds another (`DisbandTidy`): until the loop reaches
them, the rest carry an id that now is somebody else's. The proof therefore follows the fold on the state in which those the
loop has not reached have no group, and `FoundTidy` and `OnwardTidy` add them one by one. `Alone` and `Apart` carry what
`add_group_member` needs between its two departures: who has left is still with nobody but their own pet after somebody else has left as well.

`OnlyClosedStreamsFail` is about a lookup in one manager of what another told it, while the stream may be closed from either side.
`OpenOK` is the heart of it: a stream of a side that is not closed is known to `send_mgr`, or told to it and not yet read. `WaitingOK`
says that nothing that waits to be closed is known again later; `HeardOK` and `WiresOK`, that a stream is opened by one `open`
frame, by its opener, ahead of any close, and that as long as the connection is there the other side has the stream or will read that frame.
One iteration of `send_mgr` is five loops over queues of any length with a flush (two more loops, and the two bandwidth rounds) in between.
For each, `FoldExists` takes what is known of the value after some of the elements (`Box`: which streams are looked up,
which may still be closed, and which kinds of frames were written) and gives a function that the fold follows, and `FoldUnique` says the fold is that one.
`IterationDoes` sums this up, and the invariant needs no more of it.

The invariants of `Sessions` hold between ticks because of what holds inside the register system.
`RegOK` says which logins it still has to look at and what it has decided of the others; `ClaimsOK`, that a
place claimed in this tick belongs to an account that no announced player and no other claim has,
and that only accounts with a role come as something else than the game (so that every player who needs a
place is announced, and counted; and that only with a role one has two sessions). `CountOK` bounds the players who need a place together with
the claims: `Admit` adds one to a set that the check has just found smaller than `max_players`, and
`EndRegister` turns claims into players without changing the set.

The pool `Works` if a kind that waits runs as many jobs as it may. After a job has ended or was added, at most one can
start, and `calc_queued_order` finds it: all rates but that of one kind are zero, so its order is of length one at
most. What the folds return is proved from their recursive definition: two functions that follow it agree
(`FoldUnique`, from the well-foundedness of the strict subsets of a finite set), so it is enough to write the result down. `CInv` then says that the generator's jobs in the pool are each there once and have not answered,
that those in `answers` have, that the pending job is one of them and was not cancelled, and that a job is free when none is pending; and of
`TerrainPersistence`, that what it would not write is as in the file. `EInv` adds that the store remembers what was built, or
forgot it as it is what is generated. If versions of the index differ, that is not enough, as the table of section 3 shows;
hence the premise `SameTerrain`.

The proofs use the named assumptions on constants (`PersistenceAssumption`, `TradeAssumption`, `TradeClientsAssumption`,
`TradeCommitAssumption`, `CommitOnceAssumption`,
`GroupsAssumption`, `ChannelsAssumption`, `SessionsAssumption`, `SlowJobsAssumption`, `ChunksAssumption`), and TLC evaluates these in every run.

Only model-checked:

- liveness, which is out of the prover's reach: `PendingActionsEnd`, `LoadingEnds`,
  `DisconnectAllEndsSessions`, `ListedInvitesExpire`, `MessagesArrive`, `DropsAreNoticed`,
  `DroppedStreamsAreFreed`, `BothSidesEnd`, `LoginsAreAnswered`, `ChunksFollowClients`;
- the refinement `StreamsAreOrdered`;
- `Groups` where there are character screens or a pet is made leader, and `ClientsKnowGroup` where there are pets (what is shown would have to be carried through every
  lemma on `Tidy`).

## 5. Not modelled

Character creation and editing, the contents of a row; administrator commands that change
inventories; prices an NPC merchant asks; NPC groups; what the subsections of section 2 leave out; and every part of section 1 without a module.
Of these, rtsim, world generation, weather, agents, combat, skills, item content, user interface,
assets and tools are simulation, rendering or data and will stay out: they have little control to
check and much numeric code. They are also most of the repository, which is why the mapped lines are a
small share of it.

Entity mirroring, entity ids, links, pacts, banishment, the expiry of bans, shutdown, the Oracle's
writes and the query server do have control to check. The most important of them come first in the plan.

## 6. Plan

Proofs first:

1. `StreamsAreOrdered`, step by step: what is queued, on the wire and received is, in this order, what was sent.
2. `Groups` with character screens (`LeadersAreMembers`), and `ClientsKnowGroup` with pets.

Modules that may follow: `Regions` (every client knows exactly the entities of the regions it
subscribes to), `EntityIds` and `Links` (maps that agree, two components and a handle that agree),
`Shutdown` and `Bans` (deadlines, precedence, expiry).
