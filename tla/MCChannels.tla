------------------------------ MODULE MCChannels ------------------------------
(* An instance of Channels: one stream, opened by the side that receives,    *)
(* and up to two messages on it.                                             *)
EXTENDS Channels

CONSTANTS left, right, i1

MC_Opener == i1 :> right
MC_Prio == i1 :> 0
MC_Guaranteed == i1 :> 0
MC_MaxSent == (left :> 2) @@ (right :> 0)
=============================================================================
