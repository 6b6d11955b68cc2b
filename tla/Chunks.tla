-------------------------------- MODULE Chunks --------------------------------
(***************************************************************************)
(* One chunk of terrain: requested by clients and by the server for them,   *)
(* generated by a slow job that may be cancelled, inserted with the blocks  *)
(* that terrain persistence remembers, serialized by another slow job and   *)
(* sent to who is near, changed block by block, and unloaded when all are   *)
(* far.  Of its blocks, one is looked at.                                   *)
(***************************************************************************)
EXTENDS SlowJobs

CONSTANTS
  Client,
  Places,          \* [Client -> SUBSET Place] where each client may go
  Block,
  Generated,       \* sequence: the block as each version of the world index generates it
  None,
  MaxJobs,         \* bound: generator jobs that have not been answered
  MaxSerial,       \* bound: snapshots serialized or to be sent
  MaxOut,          \* bound: terrain messages on their way to a client when another is sent
  Placeable,       \* bound: the blocks that editors place
  MaxEdits,        \* bound: blocks placed
  MaxReloads       \* bound: chunks reloaded and regenerated

\* Within MIN_VD of the chunk; within the client's view distance; where neither client nor server
\* want the chunk.
Place == {"close", "view", "far"}
Job   == 1..MaxJobs

(* A chunk's entry in TerrainPersistence: not loaded, or the block it sets  *)
(* ("nothing": no block).  Cache and file alike.                            *)
Nothing == "nothing"
Absent  == "absent"

ASSUME ChunksAssumption ==
  /\ {"CHUNK_GENERATOR", "CHUNK_SERIALIZER"} \subseteq Kind
  /\ IsFiniteSet(Client)
  /\ Places \in [Client -> SUBSET Place]
  /\ Generated \in Seq(Block) \ {<<>>}
  /\ None \notin Client \cup Block \cup Nat
  /\ {Nothing, Absent} \cap Block = {}
  /\ Placeable \subseteq Block
  /\ MaxJobs \in Nat \ {0}
  /\ {MaxSerial, MaxOut, MaxEdits, MaxReloads} \subseteq Nat

VARIABLES
  pc,             \* the part of the tick that comes: "dispatch" (of the systems) or "sync"
  place,          \* where the clients are
  has,            \* the chunk on each client's screen: its block, or None
  asked,          \* clients with the chunk in their pending_chunks
  requests,       \* clients with a TerrainChunkRequest under way (bound: one each)
  out,            \* terrain messages under way to each client
  pending,        \* ChunkGenerator::pending_chunks: the job, or None
  job,            \* the generator jobs, [to, index, cancel, is]
  answers,        \* chunk_rx: jobs that have answered
  terrain,        \* TerrainGrid: the block in the loaded chunk, or None
  bus,            \* EventBus<ChunkSendEntry>: who is to get the chunk
  modified,       \* TerrainChanges::modified_chunks of this tick has the chunk
  block_change,   \* BlockChange of this tick: the block, or None
  store,          \* TerrainPersistence, [chunk, modified, cached, file]
  built,          \* the block last set by an editor, None before (the model's memory)
  index,          \* version of the world index
  edits, reloads  \* bounds: made so far

generator == <<pending, job, answers>>
editing   == <<store, block_change, built, edits, reloads>>
screens   == <<has, asked>>
vars == <<pc, place, screens, requests, out, generator, terrain, bus,
          modified, editing, index, pool>>

Idle == [to |-> None, index |-> 1, cancel |-> FALSE, is |-> "none"]

Init ==
  /\ pc = "dispatch"
  /\ place \in [Client -> Place] /\ \A c \in Client : place[c] \in Places[c]
  /\ has = [c \in Client |-> None]
  /\ asked = {}
  /\ requests = {}
  /\ out = [c \in Client |-> <<>>]
  /\ pending = None
  /\ job = [j \in Job |-> Idle]
  /\ answers = <<>>
  /\ terrain = None
  /\ bus = {}
  /\ modified = FALSE
  /\ block_change = None
  /\ store = [chunk |-> Absent, modified |-> FALSE, cached |-> Absent, file |-> Absent]
  /\ built = None
  /\ index = 1
  /\ edits = 0 /\ reloads = 0
  /\ pool = NewPool

Near == {c \in Client : place[c] # "far"}

----------------------------------------------------------------------------
(* TerrainPersistence                                                       *)

load_chunk(st) ==
  IF st.chunk # Absent THEN st
  ELSE [st EXCEPT !.chunk = IF st.cached # Absent THEN st.cached
                            ELSE IF st.file # Absent THEN st.file ELSE Nothing,
                  !.cached = Absent, !.modified = FALSE]

(* Slip: a chunk that is loaded is not marked as modified.                  *)
set_only(st, b) == [load_chunk(st) EXCEPT !.chunk = b]

set_block(st, b) ==
  LET loaded == load_chunk(st)
  IN  [loaded EXCEPT !.chunk = b, !.modified = @ \/ loaded.chunk # b]

(* apply_changes: the block of the chunk, and the store: what is as         *)
(* generated is forgotten.                                                  *)
Applied(st, b) ==
  LET loaded == load_chunk(st)
  IN  IF loaded.chunk = Nothing THEN [block |-> b, store |-> loaded]
      ELSE [block |-> loaded.chunk,
            store |-> IF loaded.chunk = b
                      THEN [loaded EXCEPT !.chunk = Nothing, !.modified = TRUE] ELSE loaded]

(* The cache may be full (no room for the blocks) and then takes nothing.   *)
unload_chunk(st, room) ==
  IF st.chunk = Absent THEN st
  ELSE [chunk    |-> Absent,
        modified |-> FALSE,
        cached   |-> IF room THEN st.chunk ELSE st.cached,
        file     |-> IF ~st.modified THEN st.file
                     ELSE IF st.chunk = Nothing THEN Absent ELSE st.chunk]

clear_chunk(st) == [st EXCEPT !.cached = Absent, !.chunk = Nothing, !.modified = TRUE]

----------------------------------------------------------------------------
(* ChunkGenerator.  g is [pending, job, answers, pool].                     *)

Gen == [pending |-> pending, job |-> job, answers |-> answers, pool |-> pool]

FreeJobs(g) == {j \in Job : g.job[j].is = "none"}

generate_chunk(g, c, v) ==
  IF g.pending # None THEN g
  ELSE LET j == CHOOSE j \in FreeJobs(g) : \A k \in FreeJobs(g) : j <= k
       IN  [g EXCEPT !.pending = j,
                     !.job[j] = [to |-> c, index |-> v, cancel |-> FALSE, is |-> "spawned"],
                     !.pool = spawn(@, "CHUNK_GENERATOR", j)]

(* Slip: the chunk stays among those pending.                               *)
cancel_only(g) == IF g.pending = None THEN g ELSE [g EXCEPT !.job[g.pending].cancel = TRUE]

cancel_if_pending(g) ==
  IF g.pending = None THEN g
  ELSE [g EXCEPT !.pending = None, !.job[g.pending].cancel = TRUE]

(* recv_new_chunk until there is nothing more: the first answer is taken if *)
(* the chunk is pending, whichever job it is of; the others are dropped.    *)
Taken(g) == IF g.pending = None \/ g.answers = <<>> THEN None ELSE Head(g.answers)

Drained(g) ==
  [g EXCEPT !.pending = IF g.answers = <<>> THEN @ ELSE None,
            !.answers = <<>>,
            !.job = [j \in Job |-> IF Contains(g.answers, j) THEN Idle ELSE @[j]]]

Becomes(g) ==
  /\ pending' = g.pending
  /\ job' = g.job
  /\ answers' = g.answers
  /\ pool' = g.pool

----------------------------------------------------------------------------
(* The tick: messages of clients, the terrain system, then block changes    *)
(* and synchronization                                                      *)

Send(to, m) == out' = [c \in Client |-> IF c \in to THEN Append(out[c], m) ELSE out[c]]

ChunkMsg(b) == [kind |-> "chunk", block |-> b]
ErrMsg      == [kind |-> "err", block |-> None]
BlockMsg(b) == [kind |-> "block", block |-> b]

(* msg::terrain and then terrain.  Requests of clients in range are for a   *)
(* loaded chunk sent on, else for generation like the surroundings of all;  *)
(* of who asks any comes first; all answers are taken.  It may be the       *)
(* chunk's turn to be checked (one of 16 ticks), and the cache of terrain   *)
(* persistence have room.                                                   *)
Requested(arrived) == (arrived \cap Near) \cup {c \in Client : place[c] = "close"}

Terrain(arrived, turn) ==
  \E asks \in IF terrain = None /\ Requested(arrived) # {} THEN Requested(arrived) ELSE {None} :
  LET g == IF asks = None THEN Gen ELSE generate_chunk(Gen, asks, index)
      t == Taken(g)
      h == Drained(g)
      b == Applied(store, Generated[g.job[t].index])
      inserts == t # None /\ g.job[t].is = "ok"
      unloads == turn /\ Near = {} /\ (inserts \/ terrain # None \/ h.pending # None)
      after   == IF inserts THEN b.store ELSE store
  IN
  /\ pc = "dispatch" /\ pc' = "sync"
  /\ requests' = requests \ arrived
  /\ unloads /\ h.pending # None => FreeJobs(h) # {}
  /\ terrain' = IF unloads THEN None ELSE IF inserts THEN b.block ELSE terrain
  /\ IF unloads THEN \E room \in BOOLEAN : store' = unload_chunk(after, room) ELSE store' = after
  /\ modified' = (inserts /\ terrain # None)
  /\ bus' = bus \cup (IF inserts THEN Near ELSE {})
                 \cup (IF terrain # None THEN arrived \cap Near ELSE {})
  /\ IF t # None /\ g.job[t].is = "err" /\ g.job[t].to # None
     THEN Send({g.job[t].to}, ErrMsg) /\ Len(out[g.job[t].to]) < MaxOut ELSE UNCHANGED out
  /\ Becomes(IF unloads THEN cancel_if_pending(h) ELSE h)
  /\ UNCHANGED <<place, screens, block_change, built, edits, reloads, index>>

(* The end of the tick: block changes take effect where the chunk is        *)
(* loaded, and all clients are told; a chunk inserted over another is sent. *)
Sync ==
  LET applies == block_change # None /\ terrain # None
  IN
  /\ pc = "sync" /\ pc' = "dispatch"
  /\ terrain' = IF applies THEN block_change ELSE terrain
  /\ block_change' = None
  /\ bus' = IF modified THEN bus \cup Near ELSE bus
  /\ modified' = FALSE
  /\ IF applies THEN Send(Client, BlockMsg(block_change)) ELSE UNCHANGED out
  /\ UNCHANGED <<place, screens, requests, generator, store, built,
                 edits, reloads, index, pool>>

----------------------------------------------------------------------------
(* What other systems, commands and assets do meanwhile                     *)

(* in_game: BreakBlock and PlaceBlock; one change of a block in a tick.     *)
Edit(b) ==
  /\ b \in Placeable
  /\ edits < MaxEdits /\ edits' = edits + 1
  /\ block_change = None
  /\ block_change' = b
  /\ store' = set_block(store, b)
  /\ built' = b
  /\ UNCHANGED <<pc, place, screens, requests, out, generator, terrain, bus,
                 modified, reloads, index, pool>>

(* reload_chunks and clear_persisted_terrain: the chunk is taken out, not   *)
(* cancelled.                                                               *)
Reload(clear, room) ==
  /\ pc = "sync"
  /\ reloads < MaxReloads /\ reloads' = reloads + 1
  /\ store' = unload_chunk(IF clear THEN clear_chunk(store) ELSE store, room)
  /\ built' = IF clear THEN None ELSE built
  /\ terrain' = None
  /\ UNCHANGED <<pc, place, screens, requests, out, generator, bus,
                 modified, block_change, edits, index, pool>>

(* The world index has changed: all chunks are generated again.             *)
Regenerate ==
  LET g == cancel_if_pending(Gen)
  IN
  /\ pc = "dispatch"
  /\ reloads < MaxReloads /\ reloads' = reloads + 1
  /\ index' = IF index < Len(Generated) THEN index + 1 ELSE index
  /\ FreeJobs(g) # {}
  /\ Becomes(IF terrain = None THEN g ELSE generate_chunk(g, None, index'))
  /\ UNCHANGED <<pc, place, screens, requests, out, terrain, bus,
                 modified, store, block_change, built, edits>>

(* chunk_serialize, every 15th tick: one job for all who asked; nothing if  *)
(* the chunk is gone.                                                       *)
ChunkSerialize ==
  /\ bus # {} /\ bus' = {}
  /\ Len(pool.queue["CHUNK_SERIALIZER"]) + Len(pool.running["CHUNK_SERIALIZER"]) < MaxSerial
  /\ pool' = IF terrain = None THEN pool
             ELSE spawn(pool, "CHUNK_SERIALIZER", [to |-> bus, block |-> terrain])
  /\ UNCHANGED <<pc, place, screens, requests, out, generator, terrain,
                 modified, editing, index>>

----------------------------------------------------------------------------
(* Slow jobs end                                                            *)

(* A cancelled job may be past the last time it looks at the flag.          *)
Generates(k, is) ==
  LET j == pool.running["CHUNK_GENERATOR"][k]
  IN
  /\ is = "err" => job[j].cancel
  /\ job' = [job EXCEPT ![j].is = is]
  /\ answers' = Append(answers, j)
  /\ pool' = finish(pool, "CHUNK_GENERATOR", k)
  /\ UNCHANGED <<pc, place, screens, requests, out, pending, terrain, bus,
                 modified, editing, index>>

(* With chunk_send, which in the next tick sends what the job has made.     *)
Serializes(k) ==
  LET made == pool.running["CHUNK_SERIALIZER"][k]
  IN
  /\ \A c \in made.to : Len(out[c]) < MaxOut
  /\ Send(made.to, ChunkMsg(made.block))
  /\ pool' = finish(pool, "CHUNK_SERIALIZER", k)
  /\ UNCHANGED <<pc, place, screens, requests, generator, terrain, bus, modified, editing, index>>

----------------------------------------------------------------------------
(* Clients                                                                  *)

Move(c, p) ==
  /\ p \in Places[c] \ {place[c]}
  /\ place' = [place EXCEPT ![c] = p]
  /\ UNCHANGED <<pc, screens, requests, out, generator, terrain, bus,
                 modified, editing, index, pool>>

(* tick_terrain                                                             *)
DropFar(c) ==
  /\ place[c] = "far" /\ has[c] # None
  /\ has' = [has EXCEPT ![c] = None]
  /\ UNCHANGED <<asked, requests>>

Request(c) ==
  /\ place[c] # "far" /\ has[c] = None /\ c \notin asked
  /\ c \notin requests
  /\ asked' = asked \cup {c}
  /\ requests' = requests \cup {c}
  /\ UNCHANGED has

(* Slip: only requests that were answered are forgotten.                    *)
GiveUpAnswered(c) ==
  /\ c \in asked /\ has[c] # None
  /\ asked' = asked \ {c}
  /\ UNCHANGED <<has, requests>>

(* After three seconds the request is taken for lost.                       *)
GiveUp(c) ==
  /\ c \in asked
  /\ asked' = asked \ {c}
  /\ UNCHANGED <<has, requests>>

ClientTick(c) ==
  /\ DropFar(c) \/ Request(c) \/ GiveUp(c)
  /\ UNCHANGED <<pc, place, out, generator, terrain, bus, modified,
                 editing, index, pool>>

(* handle_server_terrain_msg                                                *)
Receive(c) ==
  LET m == Head(out[c])
  IN
  /\ out[c] # <<>>
  /\ out' = [out EXCEPT ![c] = Tail(@)]
  /\ has' = IF m.kind = "chunk" \/ (m.kind = "block" /\ has[c] # None)
            THEN [has EXCEPT ![c] = m.block] ELSE has
  /\ asked' = IF m.kind = "block" THEN asked ELSE asked \ {c}
  /\ UNCHANGED <<pc, place, requests, generator, terrain, bus,
                 modified, editing, index, pool>>

----------------------------------------------------------------------------
ServerTick == (\E arrived \in SUBSET requests, turn \in BOOLEAN : Terrain(arrived, turn)) \/ Sync

JobStep ==
  \/ \E k \in DOMAIN pool.running["CHUNK_GENERATOR"] : Generates(k, "ok") \/ Generates(k, "err")
  \/ \E k \in DOMAIN pool.running["CHUNK_SERIALIZER"] : Serializes(k)

Next ==
  \/ ServerTick
  \/ (\E b \in Block : Edit(b)) \/ (\E clear, room \in BOOLEAN : Reload(clear, room)) \/ Regenerate
  \/ ChunkSerialize \/ JobStep
  \/ \E c \in Client : (\E p \in Place : Move(c, p)) \/ ClientTick(c) \/ Receive(c)

Spec == Init /\ [][Next]_vars

(* The server ticks, every sixteenth tick it is the chunk's turn, and every *)
(* fifteenth what asks for the chunk is serialized; requests arrive;        *)
(* threads finish their jobs; clients tick and receive.  (What enables the  *)
(* actions is written out.)                                                 *)
Serializing == pool.running["CHUNK_SERIALIZER"] # <<>>
Generating  == pool.running["CHUNK_GENERATOR"] # <<>>

FairSpec ==
  /\ Spec
  /\ []<><<\E arrived \in SUBSET requests : Terrain(arrived, TRUE)>>_vars
  /\ []<><<bus = {} \/ Serializing \/ ChunkSerialize>>_vars
  /\ []<><<Serializing => Serializes(1)>>_vars
  /\ []<><<Generating => Generates(1, "ok") \/ Generates(1, "err")>>_vars
  /\ \A c \in Client :
       /\ []<>(c \notin requests)
       /\ WF_vars(ClientTick(c))
       /\ []<><<out[c] # <<>> => Receive(c)>>_vars

----------------------------------------------------------------------------
TypeOK ==
  /\ pc \in {"dispatch", "sync"}
  /\ place \in [Client -> Place]
  /\ has \in [Client -> Block \cup {None}]
  /\ asked \subseteq Client /\ requests \subseteq Client
  /\ DOMAIN out = Client
  /\ pending \in Job \cup {None}
  /\ job \in [Job -> [to : Client \cup {None}, index : DOMAIN Generated, cancel : BOOLEAN,
                      is : {"none", "spawned", "ok", "err"}]]
  /\ answers \in Seq(Job)
  /\ terrain \in Block \cup {None}
  /\ bus \subseteq Client
  /\ modified \in BOOLEAN
  /\ block_change \in Block \cup {None} /\ built \in Block \cup {None}
  /\ store \in [chunk : Block \cup {Nothing, Absent}, modified : BOOLEAN,
                cached : Block \cup {Nothing, Absent}, file : Block \cup {Absent}]
  /\ index \in DOMAIN Generated
  /\ edits \in 0..MaxEdits /\ reloads \in 0..MaxReloads

(* A pending chunk is never forgotten: its own job is under way, not        *)
(* cancelled, or has answered; whatever answers of cancelled jobs come in   *)
(* between. And what is loaded is pending only to be generated again.       *)
PendingIsAnswered ==
  pending # None =>
    /\ job[pending].is # "none" /\ ~job[pending].cancel
    /\ terrain # None => job[pending].to = None

(* The chunk, its jobs and the pool agree, whatever is cancelled when.      *)
ChunksConsistent == TypeOK /\ PendingIsAnswered /\ PoolWorks

(* A block that was placed is there whenever the chunk is, however often it *)
(* is unloaded, generated again, cached, or written back.                   *)
EditsSurvive ==
  terrain # None /\ block_change = None =>
    IF built = None THEN \E v \in 1..index : terrain = Generated[v] ELSE terrain = built

(* A client that stays in range gets the chunk, although its request may    *)
(* find the chunk loaded and then gone, may be answered by the answer to a  *)
(* cancelled job, or dropped; and once all are far, the chunk and the work  *)
(* on it go.                                                                *)
ChunksFollowClients ==
  /\ \A c \in Client : []<>(place[c] # "far" => has[c] # None)
  /\ []<>(Near = {} => terrain = None /\ pending = None)

----------------------------------------------------------------------------
(* Statements of the sources that do not hold: the README says when.        *)

(* terrain_sync "sends modified chunks ... to clients as well as block      *)
(* modifications": when nothing is under way, clients show the block there  *)
(* is.                                                                      *)
Quiet ==
  /\ pc = "dispatch" /\ bus = {} /\ block_change = None /\ ~modified
  /\ pool.running["CHUNK_SERIALIZER"] = <<>>
  /\ \A c \in Client : out[c] = <<>>
ClientsAreCurrent ==
  Quiet /\ terrain # None => \A c \in Near : has[c] \in {None, terrain}

(* "There's at least one client, so regenerate all chunks": when nothing is *)
(* pending, chunks are as the current index generates them.                 *)
ChunksAreRegenerated ==
  pending = None /\ terrain # None /\ built = None /\ block_change = None /\ pc = "dispatch" =>
    terrain = Generated[index]
=============================================================================
