--------------------------- MODULE PersistenceStore ---------------------------
(***************************************************************************)
(* Persistence implements DurableStore as long as no transaction fails.     *)
(* The batches are partial, each holds only the characters in the game and  *)
(* the pending actions, and they are written late, by another thread; yet   *)
(* every batch, laid over the rows and the batches before it, is a snapshot *)
(* of the whole live world at the moment batch_update ran.                  *)
(***************************************************************************)
EXTENDS Persistence

(* The row of c once the first i messages to the updater are executed.      *)
Writes(j, c)       == updQ[j].type = "batch" /\ updQ[j].updates[c] # Keep
LastWrite(i, c, j) == Writes(j, c) /\ \A k \in (j + 1)..i : ~Writes(k, c)

RowAfter(i, c) ==
  IF \E j \in 1..i : Writes(j, c)
  THEN updQ[CHOOSE j \in 1..i : LastWrite(i, c, j)].updates[c] ELSE db[c]

(* What c owns: its entity's coins, else what the action writes that is not *)
(* yet in a batch, else the last word the updater was sent.                 *)
LiveCoins ==
  [c \in Char |-> IF c \in Online THEN mem[c]
                  ELSE IF IsNew(c) /\ pending[c].row # Keep THEN pending[c].row
                  ELSE RowAfter(Len(updQ), c)]

Snapshots == [i \in 1..Len(updQ) |-> [c \in Char |-> RowAfter(i, c)]]

Store == INSTANCE DurableStore
         WITH live <- LiveCoins, snapshots <- Snapshots, durable <- db

(* The database is always one past state of the world, lagging behind it by *)
(* whole snapshots: logins, logouts, deletions, exchanges of coins and      *)
(* crashes, interleaved with both threads, refine DurableStore.             *)
ImplementsStore == Store!Spec

=============================================================================
