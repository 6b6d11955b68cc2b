---------------------------- MODULE MCTradeCommit ----------------------------
(* Small inventories for CommitOnce: one item that stacks and one that does not. *)
EXTENDS CommitOnce, TLC
CONSTANTS x, y

MaxBoth == x :> 3 @@ y :> 1
=============================================================================
