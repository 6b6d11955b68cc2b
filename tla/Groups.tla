-------------------------------- MODULE Groups --------------------------------
(***************************************************************************)
(* Groups of players and their pets: the Group component of each entity,    *)
(* GroupManager's slab of group infos, invites into a group, and what each  *)
(* client has been told about the group it is in.                           *)
(*                                                                          *)
(* The operations of GroupManager take a state of the groups (a record with *)
(* the fields group, slab, vacant and shown) and return the next, so that   *)
(* one can call another as the code does.  An entity is known by its Uid:   *)
(* a player who goes back to the character screen gets a new entity that    *)
(* keeps Uid and Group, but has no Alignment before the next session.       *)
(***************************************************************************)
EXTENDS Integers, Sequences, FiniteSetsExt, SequencesExt

CONSTANTS
  Player, Pet, None,
  Gone,             \* an entity that no longer exists
  MaxSize,          \* settings.max_player_group_size
  Scopes,           \* the worlds to look at (see scope)
  MaxGroups         \* bound: groups in the slab when an invite is accepted or a pet made leader

Entity  == Player \cup Pet
GroupId == 0..(MaxGroups + Cardinality(Entity))

ASSUME GroupsAssumption ==
  /\ IsFiniteSet(Player) /\ IsFiniteSet(Pet) /\ Player \cap Pet = {}
  /\ None \notin Entity \cup Nat /\ Gone \notin Entity /\ Gone # None
  /\ MaxSize \in Nat \ {0} /\ MaxGroups \in Nat
  /\ \A s \in Scopes : /\ s.crew \subseteq Player
                       /\ s.may \subseteq {"screens", "transfers", "bequests"}
                       /\ s.pets \subseteq Pet /\ s.each \in Nat /\ s.gone \in Nat

VARIABLES
  groups,    \* [group: Group component of each entity, slab: GroupManager::groups,
             \*  vacant: freed ids, the last one first, shown: the clients' view]
  owner,     \* Alignment::Owned of pets: a player, Gone, or None: no such pet now
  ingame,    \* players that play; the others are at the character screen
  invites,   \* Invite component: who has invited this player
  pending,   \* PendingInvites components: pairs <<inviter, invitee>>
  stale,     \* number of entries in PendingInvites whose invitee is gone
  scope      \* chosen once.  crew: the players there are; may: what they do besides joining
             \* and leaving: go to the character screen ("screens"), hand over their groups
             \* to players ("transfers") or to pets ("bequests"); pets: those they may tame;
             \* each: bound, the pets of one player (MAX_PETS); gone: bound, the invites of each to entities that are gone

vars == <<groups, owner, ingame, invites, pending, stale, scope>>
inviteVars == <<invites, pending, stale>>

NoGroup == [leader |-> None, members |-> {}]

Init ==
  /\ groups = [group |-> [e \in Entity |-> None], slab |-> <<>>, vacant |-> <<>>,
               shown |-> [p \in Player |-> NoGroup]]
  /\ owner = [x \in Pet |-> None]
  /\ invites = [p \in Player |-> None]
  /\ pending = {}
  /\ stale = [p \in Player |-> 0]
  /\ scope \in Scopes
  /\ ingame = scope.crew

----------------------------------------------------------------------------
(* Helpers of GroupManager                                                  *)

pets(e) == {x \in Pet : owner[x] = e}

(* group_info(group).leader == e, for the group e is in.                    *)
group_info_exists(g, e) == g.group[e] # None /\ g.group[e] \in DOMAIN g.slab
leads(g, e) == group_info_exists(g, e) /\ g.slab[g.group[e]].leader = e

(* The join asks for an Alignment: it passes over who is at the screen.     *)
members(g, id) == {e \in ingame \cup Pet : g.group[e] = id}

put(f, k, v) == [x \in DOMAIN f \cup {k} |-> IF x = k THEN v ELSE f[x]]

PutAll(g, S, id) == [g EXCEPT !.group = [e \in Entity |-> IF e \in S THEN id ELSE @[e]]]

(* Slab::insert takes the vacant id that was freed last.                    *)
NextId(g) == IF g.vacant # <<>> THEN Head(g.vacant) ELSE Cardinality(DOMAIN g.slab)

create_group(g, leader, num_members) ==
  [g EXCEPT !.slab = put(@, NextId(g), [leader |-> leader, num_members |-> num_members]),
            !.vacant = IF @ # <<>> THEN Tail(@) ELSE @]

remove_group(g, id) ==
  [g EXCEPT !.slab = [x \in DOMAIN @ \ {id} |-> @[x]], !.vacant = <<id>> \o @]

----------------------------------------------------------------------------
(* ChangeNotification, and what the client makes of it                      *)

Show(g, to, view(_)) ==
  [g EXCEPT !.shown = [p \in Player |-> IF p \in to THEN view(@[p]) ELSE @[p]]]

Added(g, to, who)   == Show(g, to, LAMBDA v : [v EXCEPT !.members = @ \cup who])
Removed(g, to, who) == Show(g, to, LAMBDA v : [v EXCEPT !.members = @ \ who])
NewLeader(g, to, l) == Show(g, to, LAMBDA v : [v EXCEPT !.leader = l])
NewGroup(g, p)      == Show(g, {p}, LAMBDA v : [leader |-> p, members |-> pets(p)])
NoGroupAnyMore(g, to) == Show(g, to, LAMBDA v : NoGroup)

----------------------------------------------------------------------------
(* GroupManager::remove_from_group                                          *)

(* A player alone with their pets gets a new group; without pets, none.     *)
OnTheirOwn(g, p) ==
  IF pets(p) # {}
  THEN NewGroup(PutAll(create_group(g, p, 1), {p} \cup pets(p), NextId(g)), p)
  ELSE NoGroupAnyMore(PutAll(g, {p}, None), {p})

(* The leader leaves: the group is dissolved.  The HashMap's order decides  *)
(* only who gets which new id.  Pets without an owner here lose the group.  *)
Disband(g, leader, to_be_deleted) ==
  LET id   == g.group[leader]
      left == {e \in Entity : g.group[e] = id} \ (IF to_be_deleted THEN {leader} ELSE {})
      freed == PutAll(remove_group(g, id), left \cap Pet, None)
      WithPets(h, p) ==
        IF pets(p) \cap left = {} THEN NoGroupAnyMore(PutAll(h, {p}, None), {p})
        ELSE NewGroup(PutAll(create_group(h, p, 1), {p} \cup (pets(p) \cap left), NextId(h)), p)
  IN  PutAll(FoldLeft(WithPets, freed, SetToSeq(left \cap Player)),
             IF to_be_deleted THEN {leader} ELSE {}, None)

OneLess(g, id, e) ==
  IF e \in Player /\ g.slab[id].num_members > 0 THEN [g EXCEPT !.slab[id].num_members = @ - 1] ELSE g

Told(g, id, e) == Removed(g, members(g, id), {e} \cup pets(e))

(* If the leader is the last one left, the group is dissolved.              *)
Dissolved(g, id) ==
  LET last == g.slab[id].leader
  IN  NoGroupAnyMore(PutAll(remove_group(g, id), {last}, None), {last})

LastKeepsGroup(g, id, e) ==                                    \* slip: last one's Group kept
  LET told == Told(OneLess(g, id, e), id, e)
  IN  IF Cardinality(members(g, id)) # 1 THEN told ELSE remove_group(told, id)
(* Who stays is told, the group shrinks, and is dissolved if it has shrunk  *)
(* to one.                                                                  *)
Shrink(g, id, e) ==
  LET told == Told(OneLess(g, id, e), id, e)
  IN  IF Cardinality(members(g, id)) # 1 THEN told ELSE Dissolved(told, id)

PetsStay(g, e, to_be_deleted) ==                               \* slip: pets stay in the group
  LET id  == g.group[e]
      out == NoGroupAnyMore(PutAll(g, {e}, None), {e})
  IN  IF id \in DOMAIN out.slab THEN Shrink(out, id, e) ELSE out

Depart(g, e, to_be_deleted) ==
  LET id  == g.group[e]
      out == IF to_be_deleted \/ e \in Pet
             THEN NoGroupAnyMore(PutAll(g, {e} \cup pets(e), None), {e}) ELSE OnTheirOwn(g, e)
  IN  IF id \in DOMAIN out.slab THEN Shrink(out, id, e) ELSE out

remove_from_group(g, e, to_be_deleted) ==
  IF g.group[e] = None THEN g
  ELSE IF leads(g, e) THEN Disband(g, e, to_be_deleted)
  ELSE Depart(g, e, to_be_deleted)

leave_group(g, p)    == remove_from_group(g, p, FALSE)
entity_deleted(g, e) == remove_from_group(g, e, TRUE)

----------------------------------------------------------------------------
(* GroupManager::add_group_member, new_pet and assign_leader                *)

KeepOldGroup(g, new) == g                                      \* slip: not left first

LeaveOldGroup(g, new) == IF group_info_exists(g, new) THEN leave_group(g, new) ELSE g

(* The leader's group, grown by one; or a new group, once the leader has    *)
(* left the one of another leader.                                          *)
GroupLedBy(g, leader) ==
  LET free == IF g.group[leader] = None THEN g ELSE leave_group(g, leader)
  IN  IF leads(g, leader) THEN [g EXCEPT !.slab[g.group[leader]].num_members = @ + 1]
      ELSE NewLeader(PutAll(create_group(free, leader, 2), {leader}, NextId(free)), {leader}, leader)

add_group_member(g, leader, new) ==
  LET led  == GroupLedBy(LeaveOldGroup(g, new), leader)
      id   == led.group[leader]
      told == Added(Added(led, members(led, id), {new} \cup pets(new)), {new}, members(led, id))
  IN  PutAll(NewLeader(told, {new}, leader), {new} \cup pets(new), id)

new_pet(g, x, p) ==
  LET led == IF g.group[p] # None THEN g
             ELSE NewLeader(PutAll(create_group(g, p, 1), {p}, NextId(g)), {p}, p)
      id  == led.group[p]
  IN  PutAll(Added(led, members(led, id), {x}), {x}, id)

OnlyTheyKnow(g, new_leader) ==                                 \* slip: others not told
  NewLeader([g EXCEPT !.slab[g.group[new_leader]].leader = new_leader], {new_leader}, new_leader)

assign_leader(g, new_leader) ==
  LET id == g.group[new_leader]
  IN  NewLeader([g EXCEPT !.slab[id].leader = new_leader], members(g, id), new_leader)

----------------------------------------------------------------------------
(* Invites into a group                                                     *)

PendingIgnored(p, q) ==                                        \* slip: invites not counted
  /\ ~(leads(groups, p) /\ groups.group[q] = groups.group[p])
  /\ (IF leads(groups, p) THEN groups.slab[groups.group[p]].num_members ELSE 1) < MaxSize

can_invite(p, q) ==
  /\ ~(leads(groups, p) /\ groups.group[q] = groups.group[p])
  /\ (IF leads(groups, p) THEN groups.slab[groups.group[p]].num_members ELSE 1)
       + Cardinality({pq \in pending : pq[1] = p}) + stale[p] < MaxSize

(* InitiateInviteEvent, kind Group; without effect if q has an invite.  Who  *)
(* is at the screen can be invited, but answers only when back in game.      *)
InitiateInvite(p, q) ==
  /\ p # q /\ p \in ingame
  /\ can_invite(p, q)
  /\ invites[q] = None
  /\ invites' = [invites EXCEPT ![q] = p]
  /\ pending' = pending \cup {<<p, q>>}
  /\ UNCHANGED <<groups, owner, ingame, stale>>

(* get_inviter_and_kind                                                     *)
TakeInvite(q) ==
  /\ invites[q] # None
  /\ invites' = [invites EXCEPT ![q] = None]
  /\ pending' = pending \ {<<invites[q], q>>}
  /\ UNCHANGED <<owner, ingame, stale>>

handle_invite_accept(q) ==
  /\ q \in ingame
  /\ TakeInvite(q)
  /\ Cardinality(DOMAIN groups.slab) <= MaxGroups
  /\ groups' = IF <<invites[q], q>> \in pending
               THEN add_group_member(groups, invites[q], q) ELSE groups

handle_invite_decline(q) == q \in ingame /\ TakeInvite(q) /\ UNCHANGED groups

(* invite_timeout looks at invites that the inviter still lists.            *)
InviteTimeout(q) == <<invites[q], q>> \in pending /\ TakeInvite(q) /\ UNCHANGED groups

(* The entity of p is deleted with its Invite and PendingInvites; what      *)
(* others hold that names it stays.                                         *)
ForgetInvites(p) ==
  /\ invites' = [q \in Player |-> IF q = p THEN None ELSE IF invites[q] = p THEN Gone ELSE invites[q]]
  /\ pending' = {pq \in pending : p \notin {pq[1], pq[2]}}
  /\ stale' = [q \in Player |-> IF q = p THEN 0
                                ELSE stale[q] + Cardinality(pending \cap {<<q, p>>})]
  /\ \A q \in Player : stale'[q] <= scope.gone

----------------------------------------------------------------------------
(* GroupManipEvent                                                          *)

LeaveGroup(p) ==
  /\ p \in ingame
  /\ groups.group[p] # None
  /\ groups' = leave_group(groups, p)
  /\ UNCHANGED <<owner, ingame>> /\ UNCHANGED inviteVars

LedBy(p, t) == group_info_exists(groups, t) /\ groups.slab[groups.group[t]].leader = p

Kick(p, t) ==
  /\ p \in ingame /\ p # t /\ LedBy(p, t)
  /\ groups' = leave_group(groups, t)
  /\ UNCHANGED <<owner, ingame>> /\ UNCHANGED inviteVars

(* Unlike Kick, this does not ask whether t is a pet.                       *)
AssignLeader(p, t) ==
  /\ IF t \in Pet THEN "bequests" \in scope.may /\ Cardinality(DOMAIN groups.slab) <= MaxGroups
     ELSE "transfers" \in scope.may
  /\ p \in ingame /\ LedBy(p, t)
  /\ groups' = assign_leader(groups, t)
  /\ UNCHANGED <<owner, ingame>> /\ UNCHANGED inviteVars

----------------------------------------------------------------------------
(* What happens to entities                                                 *)

(* What is left of the entity e in the slab, outside the groups kept.       *)
Bury(g, e, kept) ==
  [g EXCEPT !.slab = [id \in DOMAIN @ |->
     IF @[id].leader = e /\ id \notin kept THEN [@[id] EXCEPT !.leader = Gone] ELSE @[id]]]

(* exit_ingame: a new entity takes over Uid, Client and Group; who leads     *)
(* that group stays its leader.                                             *)
ExitIngame(p) ==
  /\ "screens" \in scope.may /\ p \in ingame
  /\ ingame' = ingame \ {p}
  /\ groups' = Bury(groups, p, {groups.group[p]})
  /\ ForgetInvites(p)
  /\ UNCHANGED owner

EnterGame(p) ==
  /\ p \notin ingame
  /\ ingame' = ingame \cup {p}
  /\ UNCHANGED <<groups, owner>> /\ UNCHANGED inviteVars

(* delete_entity_recorded of a client; the next connection is a new client. *)
Disconnect(p) ==
  /\ groups' = Bury(NoGroupAnyMore(entity_deleted(groups, p), {p}), p, {})
  /\ owner' = [x \in Pet |-> IF owner[x] = p THEN Gone ELSE owner[x]]
  /\ ingame' = ingame \ {p}
  /\ ForgetInvites(p)

NewPet(x, p) ==
  /\ x \in scope.pets /\ owner[x] = None /\ p \in ingame
  /\ Cardinality(pets(p)) < scope.each
  /\ owner' = [owner EXCEPT ![x] = p]
  /\ groups' = new_pet(groups, x, p)
  /\ UNCHANGED ingame /\ UNCHANGED inviteVars

PetDies(x) ==
  /\ owner[x] # None
  /\ owner' = [owner EXCEPT ![x] = None]
  /\ groups' = Bury(entity_deleted(groups, x), x, {})
  /\ UNCHANGED ingame /\ UNCHANGED inviteVars

----------------------------------------------------------------------------
InviteStep ==
  \E p, q \in scope.crew : InitiateInvite(p, q)
    \/ handle_invite_accept(q) \/ handle_invite_decline(q) \/ InviteTimeout(q)

GroupStep ==
  \E p \in scope.crew :
    \/ LeaveGroup(p)
    \/ \E t \in scope.crew : Kick(p, t)
    \/ \E t \in scope.crew \cup Pet : AssignLeader(p, t)

EntityStep ==
  \E p \in scope.crew :
    ExitIngame(p) \/ EnterGame(p) \/ Disconnect(p) \/ \E x \in Pet : NewPet(x, p) \/ PetDies(x)

Next == (InviteStep \/ GroupStep \/ EntityStep) /\ UNCHANGED scope

Spec == Init /\ [][Next]_vars

(* The server runs the invite_timeout system on every tick, and time passes.*)
TimelySpec == Spec /\ \A q \in Player : WF_vars(InviteTimeout(q) /\ UNCHANGED scope)

----------------------------------------------------------------------------
(* Properties                                                               *)

(* Every variable has its type; group ids do not run away.                  *)
TypeOK ==
  /\ groups.group \in [Entity -> GroupId \cup {None}]
  /\ DOMAIN groups.slab \subseteq GroupId
  /\ \A id \in DOMAIN groups.slab :
       groups.slab[id].leader \in Entity \cup {Gone} /\ groups.slab[id].num_members \in Nat
  /\ Range(groups.vacant) \subseteq GroupId \ DOMAIN groups.slab
  /\ groups.shown \in [Player -> [leader : Entity \cup {None}, members : SUBSET Entity]]
  /\ owner \in [Pet -> Player \cup {Gone, None}]
  /\ ingame \subseteq Player
  /\ invites \in [Player -> Player \cup {Gone, None}]
  /\ pending \subseteq Player \X Player
  /\ stale \in [Player -> 0..scope.gone]

Party(id) == {p \in Player : groups.group[p] = id}

(* Nobody is in a group that no longer exists: its id will be given to the  *)
(* next group, and whoever still has it will be in that one uninvited       *)
(* (remove_from_group frees the id when it thinks only the leader is left). *)
NobodyInDeadGroup ==
  \A e \in Entity : groups.group[e] # None => groups.group[e] \in DOMAIN groups.slab

(* GroupInfo::num_members is the number of members without pets, whatever   *)
(* mix of joining, leaving, kicking and disconnecting has gone before.      *)
SizeIsRight ==
  \A id \in DOMAIN groups.slab : groups.slab[id].num_members = Cardinality(Party(id))

(* The worlds for which what is said of leaders and of pets holds: nobody   *)
(* has two pets, or makes a pet the leader.                                 *)
PlainPets == "bequests" \notin scope.may /\ (scope.pets = {} \/ scope.each <= 1)

Led(id) == Party(id) # {} => groups.slab[id].leader \in Party(id)

(* A group's leader is in it, also after going to the character screen and  *)
(* back: a group whose leader is elsewhere can never be dissolved.  (Where  *)
(* nobody has two pets or makes one the leader.)                            *)
LeadersAreMembers == PlainPets => \A id \in DOMAIN groups.slab : Led(id)

(* can_invite's check: no group of players is larger than the server        *)
(* allows, as each invite takes its place when it is sent.                  *)
SizeLimit == \A id \in DOMAIN groups.slab : Cardinality(Party(id)) <= MaxSize

(* Once a client has handled its GroupUpdates it shows the group it is in:  *)
(* the leader, and all other players in it, also where pets come and go.    *)
(* (Where nobody goes to the character screen, has two pets or makes one    *)
(* the leader.)                                                             *)
ClientsKnowGroup ==
  "screens" \notin scope.may /\ PlainPets => \A p \in ingame :
    [groups.shown[p] EXCEPT !.members = @ \cap Player] =
      IF group_info_exists(groups, p)
      THEN [leader  |-> groups.slab[groups.group[p]].leader,
            members |-> Party(groups.group[p]) \ {p}]
      ELSE NoGroup

(* No pet is in a group of strangers or in one that is gone: when its owner *)
(* leaves, is kicked or disconnects, or the group is dissolved, it goes     *)
(* too.  (Where nobody goes to the character screen, has two pets or makes  *)
(* one the leader.)                                                         *)
NoStrayPets ==
  "screens" \notin scope.may /\ PlainPets => \A x \in Pet : groups.group[x] # None =>
    /\ groups.group[x] \in DOMAIN groups.slab
    /\ Party(groups.group[x]) # {} => owner[x] \in Party(groups.group[x])

(* remove_from_group's promise to dissolve what has shrunk to its leader:   *)
(* without pets no group is left with a single member.                      *)
NoLonelyGroups == \A id \in DOMAIN groups.slab : Cardinality(Party(id)) > 1

(* Nobody does more than join and leave, and there are no pets.             *)
PlayersOnly == scope.may = {} /\ scope.pets = {}

(* All variables have their types; and what GroupManager keeps of groups    *)
(* without pets is right, whatever mix of joining, leaving, kicking and     *)
(* disconnecting has gone before: their sizes are right, none is left with  *)
(* one member, and nobody is in one that is gone.                           *)
GroupsConsistent ==
  TypeOK /\ (PlayersOnly => NobodyInDeadGroup /\ SizeIsRight /\ NoLonelyGroups)

----------------------------------------------------------------------------
(* Statements of the sources that do not hold: the README says when.        *)

(* remove_from_group's assumption: who is the last one left in a group is   *)
(* its leader, so a leader never loses a group that has other members.      *)
LeadersKeepTheirGroups == \A id \in DOMAIN groups.slab : Led(id)

(* remove_from_group's assumption: a pet is in the group of its owner.      *)
PetsWithOwners ==
  \A x \in Pet : owner[x] \in Player => groups.group[x] = groups.group[owner[x]]

(* invite_timeout's doc: timed out invites are removed, so a place taken by *)
(* an invite is free again in the end.                                      *)
PlacesAreFreed == \A p \in Player : stale[p] > 0 ~> stale[p] = 0
=============================================================================
