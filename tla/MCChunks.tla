------------------------------- MODULE MCChunks -------------------------------
(* A client that comes close and leaves, one edit, one reload or change of   *)
(* the index, a pool of one thread; two generator jobs unanswered, one      *)
(* snapshot in work and one message sent at a time.  Stable is an index     *)
(* whose versions generate the same block, Changing one whose do not.       *)
EXTENDS Chunks, TLC
CONSTANTS c1, dirt, sand, wood

MC_Places == c1 :> {"close", "far"}

(* ServerState and Server::new, for n threads.                              *)
Configured(n) == <<[name |-> "CHUNK_GENERATOR", limit |-> n \div 2 + n \div 4],
                   [name |-> "CHUNK_SERIALIZER", limit |-> n \div 2]>>
MC_Configs == Configured(1)
Stable   == <<dirt>>
Changing == <<dirt, sand>>
=============================================================================
