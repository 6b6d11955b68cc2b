------------------------------- MODULE MCGroups -------------------------------
(* Small instances of Groups: four players who only join and leave; three   *)
(* who also go to the character screen; two who go there and hand over      *)
(* their groups; three with a pet, and two with one each, who hand over     *)
(* theirs; two who may hand them over to a pet.  Nothing tells apart the    *)
(* three, or the pets.                                                      *)
EXTENDS Groups, TLC

Trio  == Player \ {CHOOSE p \in Player : TRUE}
Duos  == kSubset(2, Trio)
Alike == Permutations(Trio) \cup Permutations(Pet)

World(crew, may, tame, each, gone) ==
  [crew |-> crew, may |-> may, pets |-> tame, each |-> each, gone |-> gone]

Plain   == World(Player, {}, {}, 0, 1)
Screens == World(Trio, {"screens"}, {}, 0, 0)
Pairs   == {World(P, {"screens", "transfers"}, {}, 0, 0) : P \in Duos}
Pets    == {World(Trio, {"transfers"}, {x}, 1, 0) : x \in Pet}
Owners  == {World(P, {"transfers"}, Pet, 1, 0) : P \in Duos}
Heirs   == {World(P, {"transfers", "bequests"}, {x}, 1, 0) : P \in Duos, x \in Pet}

MC_Scopes  == {Plain, Screens} \cup Pairs \cup Pets \cup Owners \cup Heirs
MC_Screens == {Screens}
(* Where LeadersKeepTheirGroups and NobodyInDeadGroup fail (see the README).*)
MC_TwoPets == {World(Trio, {}, Pet, 2, 0)}
MC_Heirs   == {World(Trio, {"bequests"}, {x}, 1, 0) : x \in Pet}
=============================================================================
