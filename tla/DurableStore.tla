----------------------------- MODULE DurableStore -----------------------------
(***************************************************************************)
(* What character persistence promises, without threads, batches or ticks.  *)
(* There is one live world: the coins every character owns now, whether it  *)
(* is being played or not.  From time to time a snapshot of the whole live  *)
(* world is taken, and snapshots become durable one after the other.  So    *)
(* what is durable is always one state the live world was in: nothing is    *)
(* half saved.  A crash takes the world back to that state.                 *)
(***************************************************************************)
EXTENDS Integers, Sequences

CONSTANTS Char, Coins

VARIABLES live, snapshots, durable

storeVars == <<live, snapshots, durable>>

Gone == -1

Init ==
  /\ live = Coins
  /\ snapshots = <<>>
  /\ durable = Coins

(* A coin changes hands.                                                    *)
Pay(c, d) ==
  /\ c # d
  /\ live[c] > 0 /\ live[d] # Gone
  /\ live' = [live EXCEPT ![c] = @ - 1, ![d] = @ + 1]
  /\ UNCHANGED <<snapshots, durable>>

(* A character is deleted.                                                  *)
Retire(c) ==
  /\ live' = [live EXCEPT ![c] = Gone]
  /\ UNCHANGED <<snapshots, durable>>

TakeSnapshot ==
  /\ snapshots' = Append(snapshots, live)
  /\ UNCHANGED <<live, durable>>

Commit ==
  /\ snapshots # <<>>
  /\ durable' = Head(snapshots)
  /\ snapshots' = Tail(snapshots)
  /\ UNCHANGED live

Crash ==
  /\ live' = durable
  /\ snapshots' = <<>>
  /\ UNCHANGED durable

Next ==
  \/ \E c, d \in Char : Pay(c, d)
  \/ \E c \in Char : Retire(c)
  \/ TakeSnapshot
  \/ Commit
  \/ Crash

Spec == Init /\ [][Next]_storeVars

=============================================================================
