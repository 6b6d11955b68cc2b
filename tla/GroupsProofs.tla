----------------------------- MODULE GroupsProofs -----------------------------
(***************************************************************************)
(* Theorems about groups for any number of players, any size limit and any  *)
(* number of groups: of players who join, leave, kick, hand over their      *)
(* groups and disconnect (Calm), and of players who also have a pet each,   *)
(* which is never made the leader (Homely, in the second half).             *)
(***************************************************************************)
EXTENDS Groups, FoldLemmas, SequenceTheorems

(* Worlds without pets, in which nobody goes to the character screen.       *)
Calm == scope.may \subseteq {"transfers"} /\ scope.pets = {}

(* The groups' state, from its parts.                                       *)
St(a, b, c, d) == [group |-> a, slab |-> b, vacant |-> c, shown |-> d]

PartyOf(a, id) == {p \in Player : a[p] = id}

----------------------------------------------------------------------------
(* The helpers of GroupManager on a state given by its parts.               *)

Now(a, S, id)      == [e \in Entity |-> IF e \in S THEN id ELSE a[e]]
NewId(b, c)        == IF c # <<>> THEN Head(c) ELSE Cardinality(DOMAIN b)
WithSlot(b, id, l, n) == put(b, id, [leader |-> l, num_members |-> n])
WithoutSlot(b, id) == [x \in DOMAIN b \ {id} |-> b[x]]
Rest(c)            == IF c # <<>> THEN Tail(c) ELSE c
Gaining(d, to, who) == [p \in Player |-> IF p \in to THEN [d[p] EXCEPT !.members = @ \cup who] ELSE d[p]]
Losing(d, to, who) == [p \in Player |-> IF p \in to THEN [d[p] EXCEPT !.members = @ \ who] ELSE d[p]]
Following(d, to, l) == [p \in Player |-> IF p \in to THEN [d[p] EXCEPT !.leader = l] ELSE d[p]]
Blank(d, to)       == [p \in Player |-> IF p \in to THEN NoGroup ELSE d[p]]

LEMMA PutAllIs ==
  ASSUME NEW a, NEW b, NEW c, NEW d, NEW S, NEW id
  PROVE  PutAll(St(a, b, c, d), S, id) = St(Now(a, S, id), b, c, d)
BY DEF PutAll, St, Now

(* Of an EXCEPT with two parts, one after the other.                        *)
TwoParts(s, x, y) == [s EXCEPT !.slab = x, !.vacant = y]

LEMMA TwoPartsIs ==
  ASSUME NEW a, NEW b, NEW c, NEW d, NEW x, NEW y
  PROVE  TwoParts(St(a, b, c, d), x, y) = St(a, x, y, d)
<1>1. TwoParts(St(a, b, c, d), x, y) = [[St(a, b, c, d) EXCEPT !.slab = x] EXCEPT !.vacant = y]
  BY DEF St, TwoParts
<1>2. [St(a, b, c, d) EXCEPT !.slab = x] = St(a, x, c, d)
  BY DEF St
<1>3. [St(a, x, c, d) EXCEPT !.vacant = y] = St(a, x, y, d)
  BY DEF St
<1>. QED
  BY <1>1, <1>2, <1>3, Zenon

LEMMA CreateIs ==
  ASSUME NEW a, NEW b, NEW c, NEW d, NEW l, NEW n
  PROVE  /\ NextId(St(a, b, c, d)) = NewId(b, c)
         /\ create_group(St(a, b, c, d), l, n) = St(a, WithSlot(b, NewId(b, c), l, n), Rest(c), d)
<1>. DEFINE s == St(a, b, c, d)
            x == put(s.slab, NextId(s), [leader |-> l, num_members |-> n])
            y == IF s.vacant # <<>> THEN Tail(s.vacant) ELSE s.vacant
<1>1. s.slab = b /\ s.vacant = c /\ NextId(s) = NewId(b, c)
  BY DEF St, NextId, NewId
<1>2. create_group(s, l, n) = TwoParts(s, x, y)
  BY Zenon DEF create_group, TwoParts
<1>3. x = WithSlot(b, NewId(b, c), l, n) /\ y = Rest(c)
  BY <1>1 DEF WithSlot, Rest
<1>. HIDE DEF x, y
<1>. QED
  BY <1>1, <1>2, <1>3, TwoPartsIs

LEMMA RemoveIs ==
  ASSUME NEW a, NEW b, NEW c, NEW d, NEW id
  PROVE  remove_group(St(a, b, c, d), id) = St(a, WithoutSlot(b, id), <<id>> \o c, d)
<1>. DEFINE s == St(a, b, c, d)
            x == [k \in DOMAIN s.slab \ {id} |-> s.slab[k]]
            y == <<id>> \o s.vacant
<1>1. s.slab = b /\ s.vacant = c
  BY DEF St
<1>2. remove_group(s, id) = TwoParts(s, x, y)
  BY Zenon DEF remove_group, TwoParts
<1>3. x = WithoutSlot(b, id) /\ y = <<id>> \o c
  BY <1>1 DEF WithoutSlot
<1>. HIDE DEF x, y
<1>. QED
  BY <1>2, <1>3, TwoPartsIs

LEMMA AddedIs ==
  ASSUME NEW a, NEW b, NEW c, NEW d, NEW to, NEW who
  PROVE  Added(St(a, b, c, d), to, who) = St(a, b, c, Gaining(d, to, who))
<1>1. St(a, b, c, d).shown = d
  BY DEF St
<1>2. \A x : [St(a, b, c, d) EXCEPT !.shown = x] = St(a, b, c, x)
  BY DEF St
<1>. QED
  BY <1>1, <1>2, Zenon DEF Added, Show, Gaining

LEMMA RemovedIs ==
  ASSUME NEW a, NEW b, NEW c, NEW d, NEW to, NEW who
  PROVE  Removed(St(a, b, c, d), to, who) = St(a, b, c, Losing(d, to, who))
<1>1. St(a, b, c, d).shown = d
  BY DEF St
<1>2. \A x : [St(a, b, c, d) EXCEPT !.shown = x] = St(a, b, c, x)
  BY DEF St
<1>. QED
  BY <1>1, <1>2, Zenon DEF Removed, Show, Losing

LEMMA LeaderIs ==
  ASSUME NEW a, NEW b, NEW c, NEW d, NEW to, NEW l
  PROVE  NewLeader(St(a, b, c, d), to, l) = St(a, b, c, Following(d, to, l))
<1>1. St(a, b, c, d).shown = d
  BY DEF St
<1>2. \A x : [St(a, b, c, d) EXCEPT !.shown = x] = St(a, b, c, x)
  BY DEF St
<1>. QED
  BY <1>1, <1>2, Zenon DEF NewLeader, Show, Following

LEMMA BlankIs ==
  ASSUME NEW a, NEW b, NEW c, NEW d, NEW to
  PROVE  NoGroupAnyMore(St(a, b, c, d), to) = St(a, b, c, Blank(d, to))
<1>1. St(a, b, c, d).shown = d
  BY DEF St
<1>2. \A x : [St(a, b, c, d) EXCEPT !.shown = x] = St(a, b, c, x)
  BY DEF St
<1>. QED
  BY <1>1, <1>2, Zenon DEF NoGroupAnyMore, Show, Blank

----------------------------------------------------------------------------
(* Without pets, leave_group and entity_deleted have one of two results.    *)

NoPets == owner = [x \in Pet |-> None]

LEMMA NobodysPets == NoPets => \A p \in Player : pets(p) = {}
BY GroupsAssumption DEF NoPets, pets, Entity

(* Players in a group play, pets are in none.                               *)
Playing(a) ==
  /\ ingame \subseteq Player
  /\ \A x \in Pet : a[x] = None
  /\ \A p \in Player : a[p] # None => p \in ingame

Typed(a, b, c, d) ==
  /\ a \in [Entity -> GroupId \cup {None}]
  /\ b \in [DOMAIN b -> [leader : Player, num_members : Nat]]
  /\ c \in Seq(GroupId)
  /\ d \in [Player -> [leader : Player \cup {None}, members : SUBSET Player]]
  /\ Playing(a)

LEMMA SeqOfSet ==
  ASSUME NEW S, IsFiniteSet(S)
  PROVE  /\ Cardinality(S) \in Nat
         /\ SetToSeq(S) \in [1..Cardinality(S) -> S] /\ IsInjective(SetToSeq(S))
         /\ \A x \in S : \E k \in 1..Cardinality(S) : SetToSeq(S)[k] = x
<1>. DEFINE n == Cardinality(S)
<1>1. n \in Nat /\ ExistsBijection(1..n, S)
  BY FS_CardinalityType
<1>2. PICK f \in [1..n -> S] : IsInjective(f)
  BY <1>1 DEF ExistsBijection, Bijection, Injection, IsInjective
<1>3. SetToSeq(S) \in [1..n -> S] /\ IsInjective(SetToSeq(S))
  BY <1>2, Zenon DEF SetToSeq
<1>4. IsFiniteSet(1..n) /\ Cardinality(1..n) = n
  BY <1>1, FS_Interval
<1>5. SetToSeq(S) \in Injection(1..n, S)
  BY <1>3 DEF Injection, IsInjective
<1>6. SetToSeq(S) \in Surjection(1..n, S)
  BY <1>4, <1>5, FS_Injection
<1>. QED
  BY <1>1, <1>3, <1>6 DEF Surjection

LEMMA DisbandIs ==
  ASSUME NoPets, NEW a, NEW b, NEW c, NEW d, Typed(a, b, c, d),
         NEW p \in Player, a[p] # None, NEW gone \in BOOLEAN
  PROVE  Disband(St(a, b, c, d), p, gone) =
           St(Now(a, PartyOf(a, a[p]), None), WithoutSlot(b, a[p]), <<a[p]>> \o c,
              Blank(d, PartyOf(a, a[p]) \ (IF gone THEN {p} ELSE {})))
<1>. DEFINE id == a[p]
            del == IF gone THEN {p} ELSE {}
            left == {e \in Entity : a[e] = id} \ del
            L == left \cap Player
            seq == SetToSeq(L)
            S == DOMAIN seq
            b2 == WithoutSlot(b, id)
            c2 == <<id>> \o c
            base == PutAll(remove_group(St(a, b, c, d), id), left \cap Pet, None)
            with(h, q) ==
              IF pets(q) \cap left = {} THEN NoGroupAnyMore(PutAll(h, {q}, None), {q})
              ELSE NewGroup(PutAll(create_group(h, q, 1), {q} \cup (pets(q) \cap left), NextId(h)), q)
            Rec(H) == [s \in SUBSET S |->
                         IF s = {} THEN base ELSE with(H[s \ {Max(s)}], seq[Max(s)])]
            F == CHOOSE H : H = Rec(H)
            Done(s) == {seq[k] : k \in s}
            Left(s) == St(Now(a, Done(s), None), b2, c2, Blank(d, Done(s)))
            G == [s \in SUBSET S |-> Left(s)]
<1>1. Disband(St(a, b, c, d), p, gone) = PutAll(F[S], del, None)
  <2>1. St(a, b, c, d).group = a
    BY DEF St
  <2>. QED
    BY <2>1 DEF Disband, FoldLeft, MapThenFoldSet
<1>2. /\ L = PartyOf(a, id) \ del /\ L \subseteq Player /\ IsFiniteSet(L)
      /\ left \cap Pet = {} /\ left \subseteq Player
  BY GroupsAssumption, FS_Subset DEF PartyOf, Typed, Playing, Entity
<1>3. /\ S = 1..Cardinality(L) /\ Cardinality(L) \in Nat
      /\ \A k \in S : seq[k] \in L
      /\ Done(S) = L
  <2>. HIDE DEF L
  <2>1. seq \in [1..Cardinality(L) -> L] /\ Cardinality(L) \in Nat
        /\ \A x \in L : \E k \in 1..Cardinality(L) : seq[k] = x
    BY <1>2, SeqOfSet
  <2>2. S = 1..Cardinality(L)
    BY <2>1
  <2>. HIDE DEF seq, S
  <2>. QED
    BY <2>1, <2>2
<1>4. base = St(a, b2, c2, d)
  <2>1. Now(a, {}, None) = a
    BY DEF Now, Typed
  <2>2. remove_group(St(a, b, c, d), id) = St(a, b2, c2, d)
    BY RemoveIs
  <2>3. PutAll(St(a, b2, c2, d), {}, None) = St(a, b2, c2, d)
    BY <2>1, PutAllIs
  <2>4. base = PutAll(remove_group(St(a, b, c, d), id), {}, None)
    BY <1>2
  <2>. HIDE DEF b2, c2, base, id
  <2>. QED
    BY <2>2, <2>3, <2>4
<1>5. ASSUME NEW q \in Player, NEW aa, NEW dd
      PROVE  with(St(aa, b2, c2, dd), q) = St(Now(aa, {q}, None), b2, c2, Blank(dd, {q}))
  <2>1. pets(q) \cap left = {}
    BY NobodysPets
  <2>2. with(St(aa, b2, c2, dd), q) = NoGroupAnyMore(PutAll(St(aa, b2, c2, dd), {q}, None), {q})
    BY <2>1
  <2>3. PutAll(St(aa, b2, c2, dd), {q}, None) = St(Now(aa, {q}, None), b2, c2, dd)
    BY PutAllIs
  <2>. HIDE DEF with, b2, c2
  <2>. QED
    BY <2>2, <2>3, BlankIs
<1>. HIDE DEF L, left, seq, base, with, b2, c2
<1>6. ASSUME NEW s \in SUBSET S, s # {}
      PROVE  G[s] = with(G[s \ {Max(s)}], seq[Max(s)])
  <2>. DEFINE x == Max(s)
              r == s \ {x}
  <2>1. x \in s /\ seq[x] \in Player
    BY <1>2, <1>3, <1>6, LastPosition
  <2>. HIDE DEF x
  <2>2. Done(s) = Done(r) \cup {seq[x]}
    BY <2>1
  <2>3. G[r] = Left(r) /\ G[s] = Left(s)
    OBVIOUS
  <2>. HIDE DEF G, Done
  <2>4. Now(Now(a, Done(r), None), {seq[x]}, None) = Now(a, Done(s), None)
    BY <2>2 DEF Now
  <2>5. Blank(Blank(d, Done(r)), {seq[x]}) = Blank(d, Done(s))
    BY <2>2 DEF Blank
  <2>6. with(Left(r), seq[x]) = Left(s)
    BY <1>5, <2>1, <2>4, <2>5
  <2>. QED
    BY <2>3, <2>6 DEF x
<1>7. G[{}] = base /\ G[S] = St(Now(a, L, None), b2, c2, Blank(d, L))
  <2>1. Done({}) = {}
    OBVIOUS
  <2>2. Now(a, {}, None) = a /\ Blank(d, {}) = d
    BY DEF Now, Blank, Typed
  <2>3. G[{}] = Left({}) /\ G[S] = Left(S)
    OBVIOUS
  <2>. HIDE DEF G, Done
  <2>. QED
    BY <1>3, <1>4, <2>1, <2>2, <2>3
<1>8. G = Rec(G)
  <2>1. \A s \in SUBSET S : G[s] = IF s = {} THEN base ELSE with(G[s \ {Max(s)}], seq[Max(s)])
    BY <1>6, <1>7
  <2>2. G = [s \in SUBSET S |-> G[s]]
    OBVIOUS
  <2>. HIDE DEF G
  <2>. QED
    BY <2>1, <2>2
<1>9. F = Rec(F)
  <2>. HIDE DEF G
  <2>. QED
    BY <1>8
<1>. HIDE DEF F
<1>10. F[{}] = G[{}] /\ Follows(F, G, S)
  <2>. HIDE DEF G
  <2>1. ASSUME NEW s \in SUBSET S, s # {}, F[s \ {Max(s)}] = G[s \ {Max(s)}]
        PROVE  F[s] = G[s]
    <3>1. F[s] = with(F[s \ {Max(s)}], seq[Max(s)])
      BY <1>9, <2>1
    <3>. QED
      BY <1>6, <2>1, <3>1
  <2>2. \A s \in SUBSET S : s # {} => Max(s) \in s
    BY <1>3, LastPosition
  <2>3. F[{}] = base
    BY <1>9
  <2>. QED
    BY <1>7, <2>1, <2>2, <2>3 DEF Follows
<1>11. F[S] = G[S]
  <2>1. IsFiniteSet(S)
    BY <1>3, FS_Interval
  <2>. HIDE DEF G
  <2>. QED
    BY <1>10, <2>1, FoldUnique
<1>12. Now(Now(a, L, None), del, None) = Now(a, PartyOf(a, id), None)
  BY <1>2 DEF Now, PartyOf, Typed, Playing, Entity
<1>. QED
  <2>. HIDE DEF G
  <2>1. Disband(St(a, b, c, d), p, gone) =
          St(Now(a, PartyOf(a, id), None), b2, c2, Blank(d, L))
    BY <1>1, <1>7, <1>11, <1>12, PutAllIs
  <2>. QED
    BY <1>2, <2>1 DEF b2, c2

(* Groups are the size that is written, of two or more, led by a member;    *)
(* nobody is in a group that is gone.                                       *)
Whole(a, b) ==
  /\ \A id \in DOMAIN b :
       /\ b[id].leader \in PartyOf(a, id)
       /\ b[id].num_members = Cardinality(PartyOf(a, id))
       /\ Cardinality(PartyOf(a, id)) > 1
  /\ \A p \in Player : a[p] # None => a[p] \in DOMAIN b

Fewer(b, id) == [b EXCEPT ![id].num_members = @ - 1]

(* All members of a group are set free, and its id too.                     *)
Freed(a, b, c, d, id) ==
  St(Now(a, PartyOf(a, id), None), WithoutSlot(b, id), <<id>> \o c, Blank(d, PartyOf(a, id)))

(* p leaves a group that goes on.                                           *)
Without(a, b, c, d, p) ==
  St(Now(a, {p}, None), Fewer(b, a[p]), c,
     Losing(Blank(d, {p}), PartyOf(a, a[p]) \ {p}, {p}))

Left(a, b, c, d, p) ==
  IF b[a[p]].leader = p \/ Cardinality(PartyOf(a, a[p])) = 2
  THEN Freed(a, b, c, d, a[p]) ELSE Without(a, b, c, d, p)

LEMMA PartyFinite ==
  ASSUME NEW a, NEW id
  PROVE  IsFiniteSet(PartyOf(a, id)) /\ Cardinality(PartyOf(a, id)) \in Nat
BY GroupsAssumption, FS_Subset, FS_CardinalityType DEF PartyOf

LEMMA MembersAre ==
  ASSUME NEW a, NEW b, NEW c, NEW d, Playing(a), NEW id, id # None
  PROVE  members(St(a, b, c, d), id) = PartyOf(a, id)
<1>1. St(a, b, c, d).group = a
  BY DEF St
<1>2. members(St(a, b, c, d), id) = {e \in ingame \cup Pet : a[e] = id}
  BY <1>1, Zenon DEF members
<1>. QED
  BY <1>2 DEF PartyOf, Playing

LEMMA TwoMembers ==
  ASSUME NEW S, IsFiniteSet(S), NEW x \in S
  PROVE  /\ Cardinality(S) = 2 <=> Cardinality(S \ {x}) = 1
         /\ Cardinality(S) = 2 => \E y : S \ {x} = {y}
<1>1. IsFiniteSet(S \ {x}) /\ Cardinality(S \ {x}) = Cardinality(S) - 1 /\ Cardinality(S) \in Nat
  BY FS_RemoveElement, FS_CardinalityType
<1>2. Cardinality(S) = 2 <=> Cardinality(S \ {x}) = 1
  BY <1>1
<1>3. Cardinality(S \ {x}) = 1 <=> \E y : S \ {x} = {y}
  BY <1>1, FS_Singleton
<1>. QED
  BY <1>2, <1>3

(* A member who does not lead leaves.                                       *)
LEMMA ShrinkIs ==
  ASSUME NoPets, NEW a, NEW b, NEW c, NEW d, Typed(a, b, c, d), Whole(a, b),
         NEW p \in Player, a[p] # None, b[a[p]].leader # p
  PROVE  Shrink(St(Now(a, {p}, None), b, c, Blank(d, {p})), a[p], p) = Left(a, b, c, d, p)
<1>. DEFINE id == a[p]
            P == PartyOf(a, id)
            a2 == Now(a, {p}, None)
            b2 == Fewer(b, id)
            d1 == Blank(d, {p})
            d2 == Losing(d1, P \ {p}, {p})
            out == St(a2, b, c, d1)
            told == Told(OneLess(out, id, p), id, p)
<1>1. /\ id \in DOMAIN b /\ b[id].leader \in P \ {p} /\ p \in P
      /\ b[id].num_members \in Nat /\ b[id].num_members > 1 /\ id # None
  BY PartyFinite DEF Whole, PartyOf, Typed
<1>2. Playing(a2) /\ PartyOf(a2, id) = P \ {p}
  BY <1>1, GroupsAssumption DEF Playing, Typed, Now, PartyOf, Entity
<1>3. OneLess(out, id, p) = St(a2, b2, c, d1)
  <2>1. out.slab = b
    BY DEF St
  <2>. HIDE DEF a2, d1
  <2>2. [out EXCEPT !.slab[id].num_members = @ - 1] = St(a2, b2, c, d1)
    BY <2>1 DEF St, Fewer
  <2>. HIDE DEF out
  <2>. QED
    BY <1>1, <2>1, <2>2 DEF OneLess
<1>4. \A x, y : members(St(a2, x, c, y), id) = P \ {p}
  BY <1>1, <1>2, MembersAre
<1>5. told = St(a2, b2, c, d2)
  <2>1. pets(p) = {}
    BY NobodysPets
  <2>2. told = Removed(St(a2, b2, c, d1), P \ {p}, {p})
    BY <1>3, <1>4, <2>1 DEF Told
  <2>. HIDE DEF told, a2, b2, d1, P
  <2>. QED
    BY <2>2, RemovedIs
<1>6. Shrink(out, id, p) = IF Cardinality(P \ {p}) # 1 THEN told ELSE Dissolved(told, id)
  <2>. HIDE DEF P, a2, b2, d1
  <2>. QED
    BY <1>4, Zenon DEF Shrink
<1>7. CASE Cardinality(P) # 2
  <2>1. Cardinality(P \ {p}) # 1
    BY <1>1, <1>7, PartyFinite, TwoMembers
  <2>. QED
    BY <1>5, <1>6, <1>7, <2>1 DEF Left, Without
<1>8. CASE Cardinality(P) = 2
  <2>. DEFINE l == b[id].leader
  <2>1. Cardinality(P \ {p}) = 1 /\ P \ {p} = {l} /\ P = {p, l}
    BY <1>1, <1>8, PartyFinite, TwoMembers
  <2>2. told.slab[id].leader = l
    BY <1>1, <1>5 DEF St, Fewer, Typed
  <2>3. Dissolved(told, id) =
          St(Now(a2, {l}, None), WithoutSlot(b2, id), <<id>> \o c, Blank(d2, {l}))
    <3>1. remove_group(told, id) = St(a2, WithoutSlot(b2, id), <<id>> \o c, d2)
      <4>. HIDE DEF told, a2, b2, d2, id
      <4>. QED
        BY <1>5, RemoveIs
    <3>2. Dissolved(told, id) = NoGroupAnyMore(PutAll(remove_group(told, id), {l}, None), {l})
      <4>. HIDE DEF told, l
      <4>. QED
        BY <2>2 DEF Dissolved
    <3>. HIDE DEF told, a2, b2, d2, id, l
    <3>. QED
      BY <3>1, <3>2, PutAllIs, BlankIs
  <2>4. Now(a2, {l}, None) = Now(a, P, None)
    BY <2>1 DEF Now
  <2>5. WithoutSlot(b2, id) = WithoutSlot(b, id)
    BY DEF WithoutSlot, Fewer, Typed
  <2>6. Blank(d2, {l}) = Blank(d, P)
    <3>1. d2[p] = NoGroup /\ \A q \in Player : q \notin {p, l} => d2[q] = d[q]
      BY <2>1 DEF Losing, Blank
    <3>. HIDE DEF d2, P
    <3>. QED
      BY <2>1, <3>1, <1>1 DEF Blank, NoGroup
  <2>. QED
    BY <1>6, <1>8, <2>1, <2>3, <2>4, <2>5, <2>6 DEF Left, Freed
<1>. QED
  BY <1>7, <1>8

----------------------------------------------------------------------------
(* leave_group; and entity_deleted, whose client is gone.                   *)

LEMMA LeadsIs ==
  ASSUME NEW a, NEW b, NEW c, NEW d, NEW p
  PROVE  /\ group_info_exists(St(a, b, c, d), p) <=> a[p] # None /\ a[p] \in DOMAIN b
         /\ leads(St(a, b, c, d), p) <=> a[p] # None /\ a[p] \in DOMAIN b /\ b[a[p]].leader = p
BY DEF group_info_exists, leads, St

LEMMA LeaveIs ==
  ASSUME NoPets, NEW a, NEW b, NEW c, NEW d, Typed(a, b, c, d), Whole(a, b),
         NEW p \in Player, a[p] # None
  PROVE  /\ leave_group(St(a, b, c, d), p) = Left(a, b, c, d, p)
         /\ NoGroupAnyMore(entity_deleted(St(a, b, c, d), p), {p}) = Left(a, b, c, d, p)
<1>. DEFINE id == a[p]
            P == PartyOf(a, id)
            g == St(a, b, c, d)
            out == St(Now(a, {p}, None), b, c, Blank(d, {p}))
<1>1. id \in DOMAIN b /\ p \in P /\ p \notin Pet /\ pets(p) = {}
  BY NobodysPets, GroupsAssumption DEF Whole, PartyOf
<1>2. g.group = a /\ out.slab = b /\ (leads(g, p) <=> b[id].leader = p)
  BY <1>1, LeadsIs DEF St
<1>3. \A x : Blank(Blank(x, {p}), {p}) = Blank(x, {p})
  BY DEF Blank
<1>4. CASE b[id].leader = p
  <2>1. remove_from_group(g, p, FALSE) = Disband(g, p, FALSE)
    BY <1>2, <1>4 DEF remove_from_group
  <2>2. remove_from_group(g, p, TRUE) = Disband(g, p, TRUE)
    BY <1>2, <1>4 DEF remove_from_group
  <2>3. \A gone \in BOOLEAN : Disband(g, p, gone) =
          St(Now(a, P, None), WithoutSlot(b, id), <<id>> \o c, Blank(d, P \ (IF gone THEN {p} ELSE {})))
    BY DisbandIs
  <2>. HIDE DEF P, g
  <2>4. Left(a, b, c, d, p) = Freed(a, b, c, d, id)
    BY <1>4 DEF Left
  <2>5. leave_group(g, p) = Left(a, b, c, d, p)
    <3>1. P \ (IF FALSE THEN {p} ELSE {}) = P
      OBVIOUS
    <3>2. leave_group(g, p) = St(Now(a, P, None), WithoutSlot(b, id), <<id>> \o c, Blank(d, P))
      BY <2>1, <2>3, <3>1 DEF leave_group
    <3>. QED
      BY <2>4, <3>2 DEF Freed, P
  <2>6. entity_deleted(g, p) =
          St(Now(a, P, None), WithoutSlot(b, id), <<id>> \o c, Blank(d, P \ {p}))
    <3>1. P \ (IF TRUE THEN {p} ELSE {}) = P \ {p}
      OBVIOUS
    <3>. QED
      BY <2>2, <2>3, <3>1 DEF entity_deleted
  <2>7. Blank(Blank(d, P \ {p}), {p}) = Blank(d, P)
    BY <1>1 DEF Blank, P
  <2>. HIDE DEF id
  <2>8. NoGroupAnyMore(entity_deleted(g, p), {p}) =
          St(Now(a, P, None), WithoutSlot(b, id), <<id>> \o c, Blank(d, P))
    BY <2>6, <2>7, BlankIs
  <2>. QED
    BY <2>4, <2>5, <2>8 DEF Freed, P, g, id
<1>5. CASE b[id].leader # p
  <2>1. NoGroupAnyMore(PutAll(g, {p}, None), {p}) = out
    BY PutAllIs, BlankIs
  <2>2. OnTheirOwn(g, p) = out
    BY <1>1, <2>1 DEF OnTheirOwn
  <2>3. Depart(g, p, FALSE) = Shrink(out, id, p)
    BY <1>1, <1>2, <2>2 DEF Depart
  <2>4. {p} \cup pets(p) = {p}
    BY <1>1
  <2>5. Depart(g, p, TRUE) = Shrink(out, id, p)
    BY <1>1, <1>2, <2>1, <2>4 DEF Depart
  <2>6. Shrink(out, id, p) = Left(a, b, c, d, p)
    BY <1>5, ShrinkIs
  <2>7. leave_group(g, p) = Left(a, b, c, d, p) /\ entity_deleted(g, p) = Left(a, b, c, d, p)
    BY <1>2, <1>5, <2>3, <2>5, <2>6 DEF leave_group, entity_deleted, remove_from_group
  <2>8. NoGroupAnyMore(Left(a, b, c, d, p), {p}) = Left(a, b, c, d, p)
    <3>1. Blank(Blank(d, P), {p}) = Blank(d, P)
      BY <1>1 DEF Blank
    <3>2. Blank(Losing(Blank(d, {p}), P \ {p}, {p}), {p}) = Losing(Blank(d, {p}), P \ {p}, {p})
      BY DEF Blank, Losing
    <3>. QED
      BY <3>1, <3>2, BlankIs DEF Left, Freed, Without
  <2>. QED
    BY <2>7, <2>8
<1>. QED
  BY <1>4, <1>5

----------------------------------------------------------------------------
(* What GroupManager keeps, and what clients show, stays right.             *)

(* The ids in use and those to be given again are all up to some number.    *)
Ids(b, c) ==
  /\ \E k \in 0..(MaxGroups + 1) : DOMAIN b \cup Range(c) = 0..(k - 1)
  /\ DOMAIN b \cap Range(c) = {}
  /\ IsInjective(c)

View(a, b, p) ==
  IF a[p] = None THEN NoGroup
  ELSE [leader |-> b[a[p]].leader, members |-> PartyOf(a, a[p]) \ {p}]

Seen(a, b, d) == \A p \in Player : d[p] = View(a, b, p)

Good(a, b, c, d) == Typed(a, b, c, d) /\ Whole(a, b) /\ Ids(b, c) /\ Seen(a, b, d)

(* What a player's group counts against the size limit.                     *)
Weight(a, b, p) ==
  IF a[p] # None /\ b[a[p]].leader = p THEN b[a[p]].num_members ELSE 1

LEMMA GroupIdsAre ==
  /\ None \notin Entity /\ None \notin GroupId
  /\ \A k \in 0..MaxGroups : k \in GroupId
<1>1. IsFiniteSet(Entity)
  BY GroupsAssumption, FS_Union DEF Entity
<1>2. Cardinality(Entity) \in Nat
  BY <1>1, FS_CardinalityType
<1>. QED
  BY <1>2, GroupsAssumption DEF GroupId

LEMMA ConsRange ==
  ASSUME NEW S, NEW c \in Seq(S), NEW x
  PROVE  /\ Range(<<x>> \o c) = {x} \cup Range(c)
         /\ IsInjective(c) /\ x \notin Range(c) => IsInjective(<<x>> \o c)
<1>. DEFINE e == <<x>> \o c
<1>1. Len(e) = Len(c) + 1 /\ Len(c) \in Nat /\ DOMAIN c = 1..Len(c) /\ DOMAIN e = 1..(Len(c) + 1)
  BY ConcatProperties, LenProperties
<1>2. e[1] = x /\ \A k \in 1..Len(c) : e[k + 1] = c[k]
  OBVIOUS
<1>. HIDE DEF e
<1>3. \A k \in DOMAIN e : k = 1 \/ (k - 1 \in DOMAIN c /\ e[k] = c[k - 1])
  BY <1>1, <1>2
<1>4. Range(e) = {x} \cup Range(c)
  BY <1>1, <1>2, <1>3 DEF Range
<1>5. ASSUME IsInjective(c), x \notin Range(c) PROVE IsInjective(e)
  BY <1>1, <1>2, <1>3, <1>5 DEF IsInjective, Range
<1>. QED
  BY <1>4, <1>5 DEF e

LEMMA TailRange ==
  ASSUME NEW S, NEW c \in Seq(S), c # <<>>
  PROVE  /\ Range(c) = {Head(c)} \cup Range(Tail(c))
         /\ IsInjective(c) => IsInjective(Tail(c)) /\ Head(c) \notin Range(Tail(c))
<1>. DEFINE e == Tail(c)
<1>1. Len(c) \in Nat \ {0} /\ DOMAIN c = 1..Len(c) /\ DOMAIN e = 1..(Len(c) - 1)
  BY HeadTailProperties, LenProperties, EmptySeq
<1>2. c[1] = Head(c) /\ \A k \in 1..(Len(c) - 1) : e[k] = c[k + 1]
  BY <1>1
<1>. HIDE DEF e
<1>3. \A k \in DOMAIN c : k = 1 \/ (k - 1 \in DOMAIN e /\ e[k - 1] = c[k])
  BY <1>1, <1>2
<1>4. \A k \in DOMAIN e : k + 1 \in DOMAIN c /\ e[k] = c[k + 1] /\ k \in Nat /\ k > 0
  BY <1>1, <1>2
<1>5. Range(c) = {Head(c)} \cup Range(e)
  <2>1. Range(c) \subseteq {Head(c)} \cup Range(e)
    <3>1. \A k \in DOMAIN c : c[k] \in {Head(c)} \cup {e[m] : m \in DOMAIN e}
      BY <1>2, <1>3
    <3>. QED
      BY <3>1 DEF Range
  <2>2. 1 \in DOMAIN c
    BY <1>1
  <2>3. {Head(c)} \cup Range(e) \subseteq Range(c)
    BY <1>2, <1>4, <2>2, Zenon DEF Range
  <2>. QED
    BY <2>1, <2>3
<1>6. ASSUME IsInjective(c) PROVE IsInjective(e) /\ Head(c) \notin Range(e)
  <2>1. IsInjective(e)
    BY <1>4, <1>6 DEF IsInjective
  <2>2. \A k \in DOMAIN e : e[k] # c[1]
    BY <1>1, <1>4, <1>6 DEF IsInjective
  <2>. QED
    BY <1>2, <2>1, <2>2 DEF Range
<1>. QED
  BY <1>5, <1>6 DEF e

(* A group is dissolved.                                                    *)
LEMMA FreedGood ==
  ASSUME NEW a, NEW b, NEW c, NEW d, Good(a, b, c, d), NEW id \in DOMAIN b
  PROVE  LET P == PartyOf(a, id)
         IN  Good(Now(a, P, None), WithoutSlot(b, id), <<id>> \o c, Blank(d, P))
<1>. DEFINE P == PartyOf(a, id)
            a2 == Now(a, P, None)
            b2 == WithoutSlot(b, id)
            c2 == <<id>> \o c
            d2 == Blank(d, P)
<1>0. /\ Typed(a, b, c, d) /\ Whole(a, b) /\ Ids(b, c) /\ Seen(a, b, d)
  BY DEF Good
<1>1. id \in GroupId /\ id # None
  <2>1. PICK p \in Player : a[p] = id
    BY <1>0 DEF Whole, PartyOf
  <2>2. a[p] \in GroupId \cup {None}
    BY <1>0 DEF Typed, Entity
  <2>3. DOMAIN b \subseteq 0..MaxGroups
    BY <1>0, GroupsAssumption DEF Ids
  <2>. QED
    BY <2>3, GroupIdsAre
<1>2. /\ DOMAIN b2 = DOMAIN b \ {id}
      /\ \A x \in DOMAIN b2 : b2[x] = b[x]
  BY DEF WithoutSlot
<1>3. /\ \A p \in Player : a2[p] = IF a[p] = id THEN None ELSE a[p]
      /\ \A p \in Player : d2[p] = IF a[p] = id THEN NoGroup ELSE d[p]
  BY DEF Now, Blank, PartyOf, Entity
<1>4. \A x \in DOMAIN b2 : PartyOf(a2, x) = PartyOf(a, x) /\ x # None
  <2>1. DOMAIN b \subseteq 0..MaxGroups
    BY <1>0, GroupsAssumption DEF Ids
  <2>2. \A x \in DOMAIN b : x # None
    BY <2>1, GroupIdsAre
  <2>. HIDE DEF a2, b2
  <2>. QED
    BY <1>2, <1>3, <2>2 DEF PartyOf
<1>5. Typed(a2, b2, c2, d2)
  <2>1. a2 \in [Entity -> GroupId \cup {None}]
    BY <1>0 DEF Typed, Now
  <2>2. b2 \in [DOMAIN b2 -> [leader : Player, num_members : Nat]]
    BY <1>0 DEF Typed, WithoutSlot
  <2>3. c2 \in Seq(GroupId)
    BY <1>0, <1>1 DEF Typed
  <2>4. d2 \in [Player -> [leader : Player \cup {None}, members : SUBSET Player]]
    BY <1>0 DEF Typed, Blank, NoGroup
  <2>5. Playing(a2)
    BY <1>0 DEF Typed, Playing, Now, Entity
  <2>. QED
    BY <2>1, <2>2, <2>3, <2>4, <2>5 DEF Typed
<1>6. Whole(a2, b2)
  <2>. HIDE DEF a2, b2
  <2>. QED
    BY <1>0, <1>2, <1>3, <1>4 DEF Whole
<1>7. Ids(b2, c2)
  <2>1. Range(c2) = {id} \cup Range(c) /\ IsInjective(c2)
    BY <1>0, ConsRange DEF Typed, Ids
  <2>. HIDE DEF b2, c2
  <2>2. DOMAIN b2 \cup Range(c2) = DOMAIN b \cup Range(c)
    BY <1>2, <2>1
  <2>. QED
    BY <1>0, <1>2, <2>1, <2>2 DEF Ids
<1>8. Seen(a2, b2, d2)
  <2>. SUFFICES ASSUME NEW p \in Player PROVE d2[p] = View(a2, b2, p)
    BY DEF Seen
  <2>. HIDE DEF a2, b2, d2
  <2>1. d[p] = View(a, b, p)
    BY <1>0 DEF Seen
  <2>2. CASE a[p] = id \/ a[p] = None
    BY <1>1, <1>3, <2>1, <2>2 DEF View
  <2>3. CASE a[p] # id /\ a[p] # None
    <3>1. a[p] \in DOMAIN b2 /\ a2[p] = a[p]
      BY <1>0, <1>2, <1>3, <2>3 DEF Whole
    <3>. QED
      BY <1>2, <1>3, <1>4, <2>1, <2>3, <3>1 DEF View
  <2>. QED
    BY <2>2, <2>3
<1>. QED
  BY <1>5, <1>6, <1>7, <1>8 DEF Good

(* A member leaves a group that goes on.                                    *)
LEMMA WithoutGood ==
  ASSUME NEW a, NEW b, NEW c, NEW d, Good(a, b, c, d), NEW p \in Player, a[p] # None,
         b[a[p]].leader # p, Cardinality(PartyOf(a, a[p])) # 2
  PROVE  Good(Now(a, {p}, None), Fewer(b, a[p]), c,
              Losing(Blank(d, {p}), PartyOf(a, a[p]) \ {p}, {p}))
<1>. DEFINE id == a[p]
            P == PartyOf(a, id)
            a2 == Now(a, {p}, None)
            b2 == Fewer(b, id)
            d2 == Losing(Blank(d, {p}), P \ {p}, {p})
<1>0. /\ Typed(a, b, c, d) /\ Whole(a, b) /\ Ids(b, c) /\ Seen(a, b, d)
  BY DEF Good
<1>1. id \in DOMAIN b /\ p \in P /\ \A x \in DOMAIN b : x # None
  <2>1. DOMAIN b \subseteq 0..MaxGroups
    BY <1>0, GroupsAssumption DEF Ids
  <2>. QED
    BY <1>0, <2>1, GroupIdsAre DEF Whole, PartyOf
<1>2. /\ DOMAIN b2 = DOMAIN b
      /\ \A x \in DOMAIN b : /\ b2[x].leader = b[x].leader
                             /\ b2[x].num_members = IF x = id THEN b[x].num_members - 1 ELSE b[x].num_members
  BY <1>0, <1>1 DEF Fewer, Typed
<1>3. \A q \in Player : a2[q] = IF q = p THEN None ELSE a[q]
  BY DEF Now, Entity
<1>4. \A x \in DOMAIN b : PartyOf(a2, x) = PartyOf(a, x) \ {p}
  BY <1>1, <1>3 DEF PartyOf
<1>5. /\ Cardinality(P) \in Nat /\ Cardinality(P) > 2
      /\ Cardinality(P \ {p}) = Cardinality(P) - 1
  <2>1. IsFiniteSet(P) /\ Cardinality(P) \in Nat
    BY PartyFinite
  <2>2. Cardinality(P \ {p}) = Cardinality(P) - 1
    BY <1>1, <2>1, FS_RemoveElement
  <2>3. Cardinality(P) > 1
    BY <1>0, <1>1 DEF Whole
  <2>. QED
    BY <2>1, <2>2, <2>3
<1>6. Typed(a2, b2, c, d2)
  <2>1. a2 \in [Entity -> GroupId \cup {None}]
    BY <1>0 DEF Typed, Now
  <2>2. b2 \in [DOMAIN b2 -> [leader : Player, num_members : Nat]]
    <3>1. b[id].num_members \in Nat /\ b[id].num_members - 1 \in Nat
      BY <1>0, <1>1, <1>5 DEF Whole
    <3>. QED
      BY <1>0, <1>1, <3>1 DEF Typed, Fewer
  <2>3. d2 \in [Player -> [leader : Player \cup {None}, members : SUBSET Player]]
    <3>1. Blank(d, {p}) \in [Player -> [leader : Player \cup {None}, members : SUBSET Player]]
      BY <1>0 DEF Typed, Blank, NoGroup
    <3>. DEFINE d1 == Blank(d, {p})
    <3>2. \A q \in Player : [d1[q] EXCEPT !.members = @ \ {p}] \in [leader : Player \cup {None}, members : SUBSET Player]
      <4>. HIDE DEF d1
      <4>. QED
        BY <3>1 DEF d1
    <3>. HIDE DEF d1
    <3>. QED
      BY <3>1, <3>2 DEF Losing, d1
  <2>4. Playing(a2)
    BY <1>0 DEF Typed, Playing, Now, Entity
  <2>. QED
    BY <1>0, <2>1, <2>2, <2>3, <2>4 DEF Typed
<1>7. Whole(a2, b2)
  <2>1. ASSUME NEW x \in DOMAIN b2
        PROVE  /\ b2[x].leader \in PartyOf(a2, x)
               /\ b2[x].num_members = Cardinality(PartyOf(a2, x))
               /\ Cardinality(PartyOf(a2, x)) > 1
    <3>. HIDE DEF a2, b2
    <3>0. /\ b[x].leader \in PartyOf(a, x)
          /\ b[x].num_members = Cardinality(PartyOf(a, x))
          /\ Cardinality(PartyOf(a, x)) > 1
      BY <1>0, <1>2, <2>1 DEF Whole
    <3>1. CASE x = id
      <4>1. PartyOf(a2, x) = P \ {p} /\ PartyOf(a, x) = P
        BY <1>2, <1>4, <2>1, <3>1
      <4>2. b[x].leader \in P \ {p}
        BY <3>0, <3>1, <4>1
      <4>. HIDE DEF P
      <4>. QED
        BY <1>2, <1>5, <2>1, <3>0, <3>1, <4>1, <4>2
    <3>2. CASE x # id
      <4>1. PartyOf(a2, x) = PartyOf(a, x)
        BY <1>2, <1>4, <2>1, <3>2 DEF PartyOf
      <4>. QED
        BY <1>2, <2>1, <3>0, <3>2, <4>1
    <3>. QED
      BY <3>1, <3>2
  <2>2. \A q \in Player : a2[q] # None => a2[q] \in DOMAIN b2
    BY <1>0, <1>2, <1>3 DEF Whole
  <2>. QED
    BY <2>1, <2>2 DEF Whole
<1>8. Ids(b2, c)
  BY <1>0, <1>2 DEF Ids
<1>9. Seen(a2, b2, d2)
  <2>. SUFFICES ASSUME NEW q \in Player PROVE d2[q] = View(a2, b2, q)
    BY DEF Seen
  <2>0. d2[q] = IF q = p THEN NoGroup ELSE IF a[q] = id THEN [d[q] EXCEPT !.members = @ \ {p}] ELSE d[q]
    BY DEF Losing, Blank, PartyOf
  <2>1. d[q] = View(a, b, q)
    BY <1>0 DEF Seen
  <2>. HIDE DEF a2, b2, d2
  <2>2. CASE q = p \/ a[q] = None
    BY <1>1, <1>3, <2>0, <2>1, <2>2 DEF View
  <2>3. CASE q # p /\ a[q] # None
    <3>1. a[q] \in DOMAIN b /\ a2[q] = a[q]
      BY <1>0, <1>3, <2>3 DEF Whole
    <3>2. View(a2, b2, q) = [leader |-> b[a[q]].leader, members |-> (PartyOf(a, a[q]) \ {p}) \ {q}]
      BY <1>2, <1>4, <2>3, <3>1 DEF View
    <3>3. d[q] = [leader |-> b[a[q]].leader, members |-> PartyOf(a, a[q]) \ {q}]
      BY <2>1, <2>3 DEF View
    <3>4. CASE a[q] = id
      <4>1. d2[q] = [d[q] EXCEPT !.members = @ \ {p}]
        BY <2>0, <2>3, <3>4
      <4>2. d2[q] = [leader |-> b[a[q]].leader, members |-> (PartyOf(a, a[q]) \ {q}) \ {p}]
        BY <3>3, <4>1
      <4>3. (PartyOf(a, a[q]) \ {q}) \ {p} = (PartyOf(a, a[q]) \ {p}) \ {q}
        OBVIOUS
      <4>. QED
        BY <3>2, <4>2, <4>3
    <3>5. CASE a[q] # id
      <4>1. PartyOf(a, a[q]) \ {p} = PartyOf(a, a[q])
        BY <3>5 DEF PartyOf
      <4>. QED
        BY <2>0, <2>3, <3>2, <3>3, <3>5, <4>1
    <3>. QED
      BY <3>4, <3>5
  <2>. QED
    BY <2>2, <2>3
<1>. QED
  BY <1>6, <1>7, <1>8, <1>9 DEF Good

(* What has changed once p has left their group: nobody else has joined     *)
(* one, and nobody's group counts for more.                                 *)
Shrunk(a, b, a2, b2, p) ==
  /\ a2[p] = None
  /\ \A q \in Player : a2[q] \in {a[q], None}
  /\ \A q \in Player : Weight(a2, b2, q) <= Weight(a, b, q)
  /\ DOMAIN b2 \subseteq DOMAIN b

LEMMA WeightPositive ==
  ASSUME NEW a, NEW b, Whole(a, b), NEW p \in Player
  PROVE  Weight(a, b, p) \in Nat /\ Weight(a, b, p) >= 1
<1>1. CASE a[p] # None /\ b[a[p]].leader = p
  <2>1. Weight(a, b, p) = Cardinality(PartyOf(a, a[p])) /\ Cardinality(PartyOf(a, a[p])) > 1
    BY <1>1 DEF Weight, Whole
  <2>. QED
    BY <2>1, PartyFinite
<1>. QED
  BY <1>1 DEF Weight

LEMMA LeaveWorks ==
  ASSUME NEW a, NEW b, NEW c, NEW d, Good(a, b, c, d), NEW p \in Player, a[p] # None
  PROVE  \E a2, b2, c2, d2 : /\ Left(a, b, c, d, p) = St(a2, b2, c2, d2)
                            /\ Good(a2, b2, c2, d2)
                            /\ Shrunk(a, b, a2, b2, p)
<1>. DEFINE id == a[p]
            P == PartyOf(a, id)
<1>1. Whole(a, b) /\ id \in DOMAIN b /\ p \in P /\ Typed(a, b, c, d)
  BY DEF Good, Whole, PartyOf
<1>2. CASE b[id].leader = p \/ Cardinality(P) = 2
  <2>. DEFINE a2 == Now(a, P, None)
              b2 == WithoutSlot(b, id)
              c2 == <<id>> \o c
              d2 == Blank(d, P)
  <2>1. Left(a, b, c, d, p) = St(a2, b2, c2, d2)
    BY <1>2 DEF Left, Freed
  <2>2. Good(a2, b2, c2, d2)
    BY <1>1, FreedGood
  <2>3. \A q \in Player : a2[q] = IF a[q] = id THEN None ELSE a[q]
    BY DEF Now, PartyOf, Entity
  <2>4. DOMAIN b2 = DOMAIN b \ {id} /\ \A x \in DOMAIN b2 : b2[x] = b[x]
    BY DEF WithoutSlot
  <2>. HIDE DEF a2, b2, c2, d2
  <2>5. ASSUME NEW q \in Player PROVE Weight(a2, b2, q) <= Weight(a, b, q)
    <3>1. CASE a[q] = id \/ a[q] = None
      <4>1. Weight(a2, b2, q) = 1
        BY <2>3, <3>1 DEF Weight
      <4>. QED
        BY <1>1, <4>1, WeightPositive
    <3>2. CASE a[q] # id /\ a[q] # None
      <4>1. a2[q] = a[q] /\ b2[a[q]] = b[a[q]]
        BY <1>1, <2>3, <2>4, <3>2 DEF Whole
      <4>2. Weight(a2, b2, q) = Weight(a, b, q)
        BY <4>1 DEF Weight
      <4>. QED
        BY <1>1, <4>2, WeightPositive
    <3>. QED
      BY <3>1, <3>2
  <2>6. Shrunk(a, b, a2, b2, p)
    BY <2>3, <2>4, <2>5 DEF Shrunk
  <2>. QED
    BY <2>1, <2>2, <2>6
<1>3. CASE b[id].leader # p /\ Cardinality(P) # 2
  <2>. DEFINE a2 == Now(a, {p}, None)
              b2 == Fewer(b, id)
              d2 == Losing(Blank(d, {p}), P \ {p}, {p})
  <2>1. Left(a, b, c, d, p) = St(a2, b2, c, d2)
    BY <1>3 DEF Left, Without
  <2>2. Good(a2, b2, c, d2)
    BY <1>1, <1>3, WithoutGood
  <2>3. \A q \in Player : a2[q] = IF q = p THEN None ELSE a[q]
    BY DEF Now, Entity
  <2>4. /\ DOMAIN b2 = DOMAIN b
        /\ \A x \in DOMAIN b : /\ b2[x].leader = b[x].leader
                               /\ b[x].num_members \in Nat
                               /\ b2[x].num_members \in {b[x].num_members, b[x].num_members - 1}
    BY <1>1 DEF Fewer, Typed
  <2>. HIDE DEF a2, b2, d2
  <2>5. ASSUME NEW q \in Player PROVE Weight(a2, b2, q) <= Weight(a, b, q)
    <3>1. CASE q = p \/ a[q] = None
      <4>1. Weight(a2, b2, q) = 1
        BY <2>3, <3>1 DEF Weight
      <4>. QED
        BY <1>1, <4>1, WeightPositive
    <3>2. CASE q # p /\ a[q] # None
      <4>1. a2[q] = a[q] /\ a[q] \in DOMAIN b
        BY <1>1, <2>3, <3>2 DEF Whole
      <4>. QED
        BY <2>4, <4>1 DEF Weight
    <3>. QED
      BY <3>1, <3>2
  <2>6. Shrunk(a, b, a2, b2, p)
    BY <2>3, <2>4, <2>5 DEF Shrunk
  <2>. QED
    BY <2>1, <2>2, <2>6
<1>. QED
  BY <1>2, <1>3

----------------------------------------------------------------------------
(* add_group_member: the group of the leader, before the new member is in.  *)

Awaits(a, b, c, d, l) ==
  /\ Typed(a, b, c, d) /\ Ids(b, c) /\ Seen(a, b, d)
  /\ a[l] # None
  /\ \A p \in Player : a[p] # None => a[p] \in DOMAIN b
  /\ b[a[l]].leader = l /\ b[a[l]].num_members = Cardinality(PartyOf(a, a[l])) + 1
  /\ \A id \in DOMAIN b \ {a[l]} :
       /\ b[id].leader \in PartyOf(a, id)
       /\ b[id].num_members = Cardinality(PartyOf(a, id))
       /\ Cardinality(PartyOf(a, id)) > 1

Offered(a, b, a2, b2, l) ==
  /\ \A q \in Player \ {l} : a2[q] \in {a[q], None} /\ Weight(a2, b2, q) <= Weight(a, b, q)
  /\ Weight(a2, b2, l) <= Weight(a, b, l) + 1

LEMMA NewIdWorks ==
  ASSUME NEW b, NEW c \in Seq(GroupId), Ids(b, c), Cardinality(DOMAIN b) <= MaxGroups,
         NEW l, NEW n
  PROVE  LET id == NewId(b, c)
         IN  /\ id \notin DOMAIN b /\ id \in GroupId /\ id # None
             /\ Ids(WithSlot(b, id, l, n), Rest(c))
             /\ Rest(c) \in Seq(GroupId)
<1>. DEFINE id == NewId(b, c)
            b2 == WithSlot(b, id, l, n)
            c2 == Rest(c)
<1>1. PICK k \in 0..(MaxGroups + 1) : DOMAIN b \cup Range(c) = 0..(k - 1)
  BY DEF Ids
<1>2. DOMAIN b \cap Range(c) = {} /\ IsInjective(c) /\ MaxGroups \in Nat
  BY GroupsAssumption DEF Ids
<1>3. DOMAIN b2 = DOMAIN b \cup {id}
  BY DEF WithSlot, put
<1>4. CASE c = <<>>
  <2>1. Range(c) = {} /\ c2 = c /\ id = Cardinality(DOMAIN b)
    BY <1>4 DEF Range, Rest, NewId
  <2>2. DOMAIN b = 0..(k - 1)
    BY <1>1, <2>1
  <2>3. Cardinality(DOMAIN b) = k
    BY <2>2, FS_Interval
  <2>. HIDE DEF b2, c2, id
  <2>4. DOMAIN b2 \cup Range(c2) = 0..k /\ k \in 0..MaxGroups
    BY <1>2, <1>3, <2>1, <2>2, <2>3
  <2>5. k + 1 \in 0..(MaxGroups + 1) /\ (k + 1) - 1 = k
    BY <1>2, <2>4
  <2>6. Ids(b2, c2)
    BY <1>2, <2>1, <2>4, <2>5 DEF Ids
  <2>7. id \notin DOMAIN b /\ id \in GroupId
    BY <2>1, <2>2, <2>3, <2>4, GroupIdsAre
  <2>. QED
    BY <2>1, <2>6, <2>7, GroupIdsAre DEF id, b2, c2
<1>5. CASE c # <<>>
  <2>1. c2 = Tail(c) /\ id = Head(c) /\ c2 \in Seq(GroupId) /\ id \in GroupId
    BY <1>5 DEF Rest, NewId
  <2>2. Range(c) = {id} \cup Range(c2) /\ IsInjective(c2) /\ id \notin Range(c2)
    BY <1>2, <1>5, <2>1, TailRange
  <2>. HIDE DEF b2, c2, id
  <2>3. id \notin DOMAIN b /\ DOMAIN b2 \cup Range(c2) = 0..(k - 1) /\ DOMAIN b2 \cap Range(c2) = {}
    BY <1>1, <1>2, <1>3, <2>2
  <2>4. Ids(b2, c2)
    BY <2>2, <2>3 DEF Ids
  <2>. QED
    BY <2>1, <2>3, <2>4, GroupIdsAre DEF id, b2, c2
<1>. QED
  BY <1>4, <1>5

(* A leader without a group gets a new one.                                 *)
LEMMA FoundWorks ==
  ASSUME NEW a, NEW b, NEW c, NEW d, Good(a, b, c, d), NEW l \in Player, l \in ingame,
         a[l] = None, Cardinality(DOMAIN b) <= MaxGroups
  PROVE  LET id == NewId(b, c)
             a2 == Now(a, {l}, id)
             b2 == WithSlot(b, id, l, 2)
             c2 == Rest(c)
             d2 == Following(d, {l}, l)
             g  == St(a, b, c, d)
         IN  /\ NewLeader(PutAll(create_group(g, l, 2), {l}, NextId(g)), {l}, l) = St(a2, b2, c2, d2)
             /\ Awaits(a2, b2, c2, d2, l)
             /\ Offered(a, b, a2, b2, l)
<1>. DEFINE id == NewId(b, c)
            a2 == Now(a, {l}, id)
            b2 == WithSlot(b, id, l, 2)
            c2 == Rest(c)
            d2 == Following(d, {l}, l)
            g  == St(a, b, c, d)
<1>0. Typed(a, b, c, d) /\ Whole(a, b) /\ Ids(b, c) /\ Seen(a, b, d)
  BY DEF Good
<1>1. NewLeader(PutAll(create_group(g, l, 2), {l}, NextId(g)), {l}, l) = St(a2, b2, c2, d2)
  <2>1. create_group(g, l, 2) = St(a, b2, c2, d) /\ NextId(g) = id
    BY CreateIs
  <2>2. PutAll(St(a, b2, c2, d), {l}, id) = St(a2, b2, c2, d)
    BY PutAllIs
  <2>3. NewLeader(St(a2, b2, c2, d), {l}, l) = St(a2, b2, c2, d2)
    BY LeaderIs
  <2>. QED
    BY <2>1, <2>2, <2>3, Zenon
<1>2. /\ id \notin DOMAIN b /\ id \in GroupId /\ id # None
      /\ Ids(b2, c2) /\ c2 \in Seq(GroupId)
  BY <1>0, NewIdWorks DEF Typed
<1>3. /\ DOMAIN b2 = DOMAIN b \cup {id}
      /\ b2[id] = [leader |-> l, num_members |-> 2]
      /\ \A x \in DOMAIN b : b2[x] = b[x]
  BY <1>2 DEF WithSlot, put
<1>4. \A q \in Player : a2[q] = IF q = l THEN id ELSE a[q]
  BY DEF Now, Entity
<1>5. \A q \in Player : a[q] # id
  BY <1>0, <1>2 DEF Whole
<1>6. /\ PartyOf(a2, id) = {l}
      /\ \A x \in DOMAIN b : x # None /\ PartyOf(a2, x) = PartyOf(a, x)
  <2>1. DOMAIN b \subseteq 0..MaxGroups
    BY <1>0, GroupsAssumption DEF Ids
  <2>2. \A x \in DOMAIN b : x # None /\ x # id
    BY <1>2, <2>1, GroupIdsAre
  <2>. HIDE DEF a2, id
  <2>. QED
    BY <1>4, <1>5, <2>2 DEF PartyOf
<1>7. d[l] = NoGroup /\ d2[l] = [leader |-> l, members |-> {}] /\ \A q \in Player \ {l} : d2[q] = d[q]
  <2>1. d[l] = NoGroup
    BY <1>0 DEF Seen, View
  <2>. QED
    BY <2>1 DEF Following, NoGroup
<1>8. Typed(a2, b2, c2, d2)
  <2>1. a2 \in [Entity -> GroupId \cup {None}]
    BY <1>0, <1>2 DEF Typed, Now
  <2>2. b2 \in [DOMAIN b2 -> [leader : Player, num_members : Nat]]
    BY <1>0, <1>2 DEF Typed, WithSlot, put
  <2>3. d2 \in [Player -> [leader : Player \cup {None}, members : SUBSET Player]]
    <3>1. \A q \in Player : d2[q] \in [leader : Player \cup {None}, members : SUBSET Player]
      <4>. HIDE DEF d2
      <4>. QED
        BY <1>0, <1>7 DEF Typed
    <3>. QED
      BY <3>1 DEF Following
  <2>4. Playing(a2)
    BY <1>0, GroupsAssumption DEF Typed, Playing, Now, Entity
  <2>. QED
    BY <1>2, <2>1, <2>2, <2>3, <2>4 DEF Typed
<1>. HIDE DEF id, a2, b2, c2, d2
<1>9. Seen(a2, b2, d2)
  <2>. SUFFICES ASSUME NEW q \in Player PROVE d2[q] = View(a2, b2, q)
    BY DEF Seen
  <2>1. CASE q = l
    <3>1. PartyOf(a2, id) \ {l} = {} /\ b2[id].leader = l /\ a2[l] = id
      BY <1>3, <1>4, <1>6
    <3>2. View(a2, b2, l) = [leader |-> l, members |-> {}]
      BY <1>2, <3>1 DEF View
    <3>. QED
      BY <1>7, <2>1, <3>2
  <2>2. CASE q # l
    <3>1. d2[q] = View(a, b, q)
      BY <1>0, <1>7, <2>2 DEF Seen
    <3>2. a2[q] = a[q] /\ (a[q] # None => a[q] \in DOMAIN b)
      BY <1>0, <1>4, <2>2 DEF Whole
    <3>3. CASE a[q] = None
      BY <3>1, <3>2, <3>3 DEF View
    <3>4. CASE a[q] # None
      <4>1. b2[a[q]] = b[a[q]] /\ PartyOf(a2, a[q]) = PartyOf(a, a[q])
        BY <1>3, <1>6, <3>2, <3>4
      <4>. QED
        BY <3>1, <3>2, <3>4, <4>1 DEF View
    <3>. QED
      BY <3>3, <3>4
  <2>. QED
    BY <2>1, <2>2
<1>10. Awaits(a2, b2, c2, d2, l)
  <2>1. a2[l] = id
    BY <1>4
  <2>2. b2[id].leader = l /\ b2[id].num_members = Cardinality(PartyOf(a2, id)) + 1
    BY <1>3, <1>6, FS_Singleton
  <2>3. \A x \in DOMAIN b2 \ {id} :
          /\ b2[x].leader \in PartyOf(a2, x)
          /\ b2[x].num_members = Cardinality(PartyOf(a2, x))
          /\ Cardinality(PartyOf(a2, x)) > 1
    BY <1>0, <1>3, <1>6 DEF Whole
  <2>4. \A q \in Player : a2[q] # None => a2[q] \in DOMAIN b2
    BY <1>0, <1>3, <1>4 DEF Whole
  <2>. QED
    BY <1>2, <1>8, <1>9, <2>1, <2>2, <2>3, <2>4 DEF Awaits
<1>11. Offered(a, b, a2, b2, l)
  <2>1. ASSUME NEW q \in Player \ {l}
        PROVE  a2[q] \in {a[q], None} /\ Weight(a2, b2, q) <= Weight(a, b, q)
    <3>1. a2[q] = a[q] /\ (a[q] # None => a[q] \in DOMAIN b)
      BY <1>0, <1>4 DEF Whole
    <3>2. Weight(a2, b2, q) = Weight(a, b, q)
      BY <1>3, <3>1 DEF Weight
    <3>. QED
      BY <1>0, <3>1, <3>2, WeightPositive
  <2>2. Weight(a2, b2, l) = 2 /\ Weight(a, b, l) = 1
    BY <1>2, <1>3, <1>4 DEF Weight
  <2>. QED
    BY <2>1, <2>2 DEF Offered
<1>. QED
  BY <1>1, <1>10, <1>11 DEF id, a2, b2, c2, d2

LEMMA GroupLedByWorks ==
  ASSUME NoPets, NEW a, NEW b, NEW c, NEW d, Good(a, b, c, d), NEW l \in Player, l \in ingame,
         Cardinality(DOMAIN b) <= MaxGroups
  PROVE  \E a2, b2, c2, d2 : /\ GroupLedBy(St(a, b, c, d), l) = St(a2, b2, c2, d2)
                            /\ Awaits(a2, b2, c2, d2, l)
                            /\ Offered(a, b, a2, b2, l)
<1>. DEFINE g == St(a, b, c, d)
<1>0. Typed(a, b, c, d) /\ Whole(a, b) /\ Ids(b, c) /\ Seen(a, b, d)
  BY DEF Good
<1>1. (leads(g, l) <=> a[l] # None /\ b[a[l]].leader = l) /\ g.group = a /\ g.slab = b
  BY <1>0, LeadsIs DEF St, Whole
<1>2. CASE a[l] # None /\ b[a[l]].leader = l
  <2>. DEFINE id == a[l]
              b2 == [b EXCEPT ![id].num_members = @ + 1]
  <2>1. GroupLedBy(g, l) = St(a, b2, c, d)
    <3>1. [g EXCEPT !.slab[g.group[l]].num_members = @ + 1] = St(a, b2, c, d)
      BY <1>1 DEF St
    <3>. HIDE DEF g, b2
    <3>. QED
      BY <1>1, <1>2, <3>1 DEF GroupLedBy
  <2>2. id \in DOMAIN b
    BY <1>0, <1>2 DEF Whole
  <2>3. /\ DOMAIN b2 = DOMAIN b
        /\ \A x \in DOMAIN b : /\ b2[x].leader = b[x].leader
                               /\ b[x].num_members \in Nat
                               /\ b2[x].num_members = b[x].num_members + (IF x = id THEN 1 ELSE 0)
    BY <1>0 DEF Typed
  <2>4. Typed(a, b2, c, d)
    BY <1>0, <2>2 DEF Typed
  <2>. HIDE DEF b2
  <2>5. Ids(b2, c) /\ Seen(a, b2, d)
    <3>1. \A q \in Player : View(a, b2, q) = View(a, b, q)
      BY <1>0, <2>3 DEF View, Whole
    <3>. QED
      BY <1>0, <2>3, <3>1 DEF Ids, Seen
  <2>6. Awaits(a, b2, c, d, l)
    BY <1>0, <1>2, <2>2, <2>3, <2>4, <2>5 DEF Awaits, Whole
  <2>7. Offered(a, b, a, b2, l)
    <3>1. Weight(a, b2, l) = Weight(a, b, l) + 1
      BY <1>2, <2>2, <2>3 DEF Weight
    <3>2. ASSUME NEW q \in Player \ {l} PROVE Weight(a, b2, q) = Weight(a, b, q)
      BY <1>0, <1>2, <2>3 DEF Weight, Whole
    <3>3. \A q \in Player : Weight(a, b, q) \in Nat
      BY <1>0, WeightPositive
    <3>. QED
      BY <3>1, <3>2, <3>3 DEF Offered
  <2>. QED
    BY <2>1, <2>6, <2>7
<1>3. CASE a[l] = None
  <2>1. GroupLedBy(g, l) = NewLeader(PutAll(create_group(g, l, 2), {l}, NextId(g)), {l}, l)
    BY <1>1, <1>3 DEF GroupLedBy
  <2>. QED
    BY <1>3, <2>1, FoundWorks
<1>4. CASE a[l] # None /\ b[a[l]].leader # l
  <2>1. leave_group(g, l) = Left(a, b, c, d, l)
    BY <1>0, <1>4, LeaveIs
  <2>2. PICK a1, b1, c1, d1 : /\ Left(a, b, c, d, l) = St(a1, b1, c1, d1)
                              /\ Good(a1, b1, c1, d1)
                              /\ Shrunk(a, b, a1, b1, l)
    BY <1>4, LeaveWorks
  <2>. DEFINE f == St(a1, b1, c1, d1)
  <2>3. GroupLedBy(g, l) = NewLeader(PutAll(create_group(f, l, 2), {l}, NextId(f)), {l}, l)
    <3>1. leave_group(g, l) = f
      BY <2>1, <2>2
    <3>. HIDE DEF f
    <3>. QED
      BY <1>1, <1>4, <3>1 DEF GroupLedBy
  <2>4. Cardinality(DOMAIN b1) <= MaxGroups
    <3>1. DOMAIN b \subseteq 0..MaxGroups
      BY <1>0, GroupsAssumption DEF Ids
    <3>2. IsFiniteSet(DOMAIN b)
      <4>1. IsFiniteSet(0..MaxGroups)
        BY GroupsAssumption, FS_Interval
      <4>. QED
        BY <3>1, <4>1, FS_Subset
    <3>3. Cardinality(DOMAIN b1) <= Cardinality(DOMAIN b)
          /\ Cardinality(DOMAIN b1) \in Nat /\ Cardinality(DOMAIN b) \in Nat
      BY <2>2, <3>2, FS_Subset, FS_CardinalityType DEF Shrunk
    <3>. QED
      BY <3>3, GroupsAssumption
  <2>5. PICK a2, b2, c2, d2 : /\ GroupLedBy(g, l) = St(a2, b2, c2, d2)
                              /\ Awaits(a2, b2, c2, d2, l)
                              /\ Offered(a1, b1, a2, b2, l)
    <3>1. a1[l] = None
      BY <2>2 DEF Shrunk
    <3>. QED
      BY <2>2, <2>3, <2>4, <3>1, FoundWorks
  <2>6. Offered(a, b, a2, b2, l)
    <3>1. \A q \in Player : Weight(a, b, q) \in Nat /\ Weight(a1, b1, q) \in Nat
      BY <1>0, <2>2, WeightPositive DEF Good
    <3>2. \A q \in Player : Weight(a2, b2, q) \in Nat
      BY <2>5 DEF Awaits, Typed, Weight
    <3>3. \A q \in Player \ {l} : a2[q] \in {a[q], None}
      BY <2>2, <2>5 DEF Offered, Shrunk
    <3>4. /\ \A q \in Player \ {l} : Weight(a2, b2, q) <= Weight(a1, b1, q)
          /\ \A q \in Player : Weight(a1, b1, q) <= Weight(a, b, q)
          /\ Weight(a2, b2, l) <= Weight(a1, b1, l) + 1
      BY <2>2, <2>5 DEF Offered, Shrunk
    <3>. QED
      BY <3>1, <3>2, <3>3, <3>4 DEF Offered
  <2>. QED
    BY <2>5, <2>6
<1>. QED
  BY <1>2, <1>3, <1>4

(* The new member is in.                                                    *)
LEMMA JoinGood ==
  ASSUME NEW a, NEW b, NEW c, NEW d, NEW l \in Player, NEW n \in Player, l # n,
         Awaits(a, b, c, d, l), a[n] = None, n \in ingame
  PROVE  LET M  == PartyOf(a, a[l])
             a2 == Now(a, {n}, a[l])
             d2 == Following(Gaining(Gaining(d, M, {n}), {n}, M), {n}, l)
         IN  /\ Good(a2, b, c, d2)
             /\ \A q \in Player : Weight(a2, b, q) = Weight(a, b, q)
<1>. DEFINE id == a[l]
            M  == PartyOf(a, id)
            a2 == Now(a, {n}, id)
            d2 == Following(Gaining(Gaining(d, M, {n}), {n}, M), {n}, l)
<1>1. /\ Typed(a, b, c, d) /\ Ids(b, c) /\ Seen(a, b, d)
      /\ id # None /\ id \in DOMAIN b /\ l \in M /\ n \notin M /\ M \subseteq Player
      /\ \A q \in Player : a[q] # None => a[q] \in DOMAIN b
      /\ b[id].leader = l
  BY DEF Awaits, PartyOf
<1>2. \A q \in Player : a2[q] = IF q = n THEN id ELSE a[q]
  BY DEF Now, Entity
<1>3. \A x \in DOMAIN b : x # None /\ PartyOf(a2, x) = IF x = id THEN M \cup {n} ELSE PartyOf(a, x)
  <2>1. DOMAIN b \subseteq 0..MaxGroups
    BY <1>1, GroupsAssumption DEF Ids
  <2>2. \A x \in DOMAIN b : x # None
    BY <2>1, GroupIdsAre
  <2>. HIDE DEF a2
  <2>. QED
    BY <1>2, <2>2 DEF PartyOf
<1>4. /\ d[n] = NoGroup
      /\ \A q \in M : d[q] = [leader |-> l, members |-> M \ {q}]
  <2>1. \A q \in M : q \in Player /\ a[q] = id
    BY DEF PartyOf
  <2>. HIDE DEF id, M
  <2>. QED
    BY <1>1, <2>1 DEF Seen, View, M, id
<1>. DEFINE d1 == Gaining(d, M, {n})
<1>5. d2[n] = [leader |-> l, members |-> M]
  <2>1. Gaining(d1, {n}, M)[n] = [leader |-> None, members |-> M]
    BY <1>1, <1>4 DEF Gaining, NoGroup
  <2>. HIDE DEF d1
  <2>. QED
    BY <2>1 DEF Following, d1
<1>6. \A q \in Player \ {n} :
        d2[q] = IF q \in M THEN [leader |-> l, members |-> (M \ {q}) \cup {n}] ELSE d[q]
  <2>. SUFFICES ASSUME NEW q \in Player \ {n}
                PROVE  d2[q] = IF q \in M THEN [leader |-> l, members |-> (M \ {q}) \cup {n}] ELSE d[q]
    OBVIOUS
  <2>1. d2[q] = d1[q]
    <3>. HIDE DEF d1
    <3>. QED
      BY DEF Gaining, Following, d1
  <2>2. d1[q] = IF q \in M THEN [d[q] EXCEPT !.members = @ \cup {n}] ELSE d[q]
    BY DEF Gaining
  <2>3. q \in M => d[q] = [leader |-> l, members |-> M \ {q}]
    BY <1>4
  <2>. HIDE DEF d1, d2, M
  <2>. QED
    BY <2>1, <2>2, <2>3
<1>. HIDE DEF d1
<1>7. Typed(a2, b, c, d2)
  <2>1. a2 \in [Entity -> GroupId \cup {None}]
    BY <1>1 DEF Typed, Now, Entity
  <2>2. d2 \in [Player -> [leader : Player \cup {None}, members : SUBSET Player]]
    <3>1. \A q \in Player : d2[q] \in [leader : Player \cup {None}, members : SUBSET Player]
      <4>. SUFFICES ASSUME NEW q \in Player
                    PROVE  d2[q] \in [leader : Player \cup {None}, members : SUBSET Player]
        OBVIOUS
      <4>. HIDE DEF d2, M
      <4>1. d[q] \in [leader : Player \cup {None}, members : SUBSET Player]
        BY <1>1 DEF Typed
      <4>2. CASE q = n
        BY <1>1, <1>5, <4>2
      <4>3. CASE q # n /\ q \in M
        <5>1. (M \ {q}) \cup {n} \in SUBSET Player
          BY <1>1
        <5>2. d2[q] = [leader |-> l, members |-> (M \ {q}) \cup {n}]
          BY <1>6, <4>3
        <5>. QED
          BY <5>1, <5>2
      <4>. QED
        BY <1>6, <4>1, <4>2, <4>3
    <3>. QED
      BY <3>1 DEF Following
  <2>3. Playing(a2)
    BY <1>1, GroupsAssumption DEF Typed, Playing, Now, Entity
  <2>. QED
    BY <1>1, <2>1, <2>2, <2>3 DEF Typed
<1>. HIDE DEF a2, d2
<1>8. Whole(a2, b)
  <2>1. Cardinality(M \cup {n}) = Cardinality(M) + 1 /\ Cardinality(M) \in Nat /\ Cardinality(M) # 0
    BY <1>1, PartyFinite, FS_AddElement, FS_EmptySet
  <2>2. ASSUME NEW x \in DOMAIN b
        PROVE  /\ b[x].leader \in PartyOf(a2, x)
               /\ b[x].num_members = Cardinality(PartyOf(a2, x))
               /\ Cardinality(PartyOf(a2, x)) > 1
    <3>1. CASE x = id
      <4>1. b[id].num_members = Cardinality(M) + 1
        BY DEF Awaits
      <4>2. PartyOf(a2, x) = M \cup {n}
        BY <1>3, <2>2, <3>1
      <4>3. b[x].leader \in PartyOf(a2, x)
        BY <1>1, <3>1, <4>2
      <4>. HIDE DEF M, id
      <4>. QED
        BY <2>1, <3>1, <4>1, <4>2, <4>3
    <3>2. CASE x # id
      <4>1. PartyOf(a2, x) = PartyOf(a, x)
        BY <1>3, <2>2, <3>2
      <4>. QED
        BY <2>2, <3>2, <4>1 DEF Awaits
    <3>. QED
      BY <3>1, <3>2
  <2>3. \A q \in Player : a2[q] # None => a2[q] \in DOMAIN b
    BY <1>1, <1>2
  <2>. QED
    BY <2>2, <2>3 DEF Whole
<1>9. Seen(a2, b, d2)
  <2>. SUFFICES ASSUME NEW q \in Player PROVE d2[q] = View(a2, b, q)
    BY DEF Seen
  <2>1. CASE q = n
    <3>1. (M \cup {n}) \ {n} = M
      BY <1>1
    <3>. QED
      BY <1>1, <1>2, <1>3, <1>5, <2>1, <3>1 DEF View
  <2>2. CASE q # n /\ q \in M
    <3>1. (M \cup {n}) \ {q} = (M \ {q}) \cup {n}
      BY <2>2
    <3>2. a2[q] = id
      BY <1>2, <2>2 DEF PartyOf
    <3>. QED
      BY <1>1, <1>3, <1>6, <2>2, <3>1, <3>2 DEF View
  <2>3. CASE q # n /\ q \notin M
    <3>1. d2[q] = View(a, b, q) /\ a2[q] = a[q] /\ a[q] # id
      BY <1>1, <1>2, <1>6, <2>3 DEF Seen, PartyOf
    <3>2. CASE a[q] = None
      BY <3>1, <3>2 DEF View
    <3>3. CASE a[q] # None
      <4>1. PartyOf(a2, a[q]) = PartyOf(a, a[q])
        BY <1>1, <1>3, <3>1, <3>3
      <4>. QED
        BY <3>1, <3>3, <4>1 DEF View
    <3>. QED
      BY <3>2, <3>3
  <2>. QED
    BY <2>1, <2>2, <2>3
<1>10. ASSUME NEW q \in Player PROVE Weight(a2, b, q) = Weight(a, b, q)
  BY <1>1, <1>2 DEF Weight
<1>. QED
  BY <1>1, <1>7, <1>8, <1>9, <1>10 DEF Good, a2, d2

LEMMA AddWorks ==
  ASSUME NoPets, NEW a, NEW b, NEW c, NEW d, Good(a, b, c, d),
         NEW l \in Player, NEW n \in Player, l # n, l \in ingame, n \in ingame,
         Cardinality(DOMAIN b) <= MaxGroups
  PROVE  \E a2, b2, c2, d2 : /\ add_group_member(St(a, b, c, d), l, n) = St(a2, b2, c2, d2)
                            /\ Good(a2, b2, c2, d2)
                            /\ \A q \in Player \ {l} : Weight(a2, b2, q) <= Weight(a, b, q)
                            /\ Weight(a2, b2, l) <= Weight(a, b, l) + 1
<1>. DEFINE g == St(a, b, c, d)
<1>0. Typed(a, b, c, d) /\ Whole(a, b) /\ Ids(b, c) /\ Seen(a, b, d)
  BY DEF Good
<1>1. group_info_exists(g, n) <=> a[n] # None
  BY <1>0, LeadsIs DEF Whole
<1>2. \E a1, b1, c1, d1 : /\ LeaveOldGroup(g, n) = St(a1, b1, c1, d1)
                          /\ Good(a1, b1, c1, d1)
                          /\ a1[n] = None
                          /\ \A q \in Player : Weight(a1, b1, q) <= Weight(a, b, q)
                          /\ DOMAIN b1 \subseteq DOMAIN b
  <2>1. CASE a[n] = None
    <3>1. LeaveOldGroup(g, n) = g
      BY <1>1, <2>1 DEF LeaveOldGroup
    <3>2. \A q \in Player : Weight(a, b, q) <= Weight(a, b, q)
      BY <1>0, WeightPositive
    <3>. QED
      BY <2>1, <3>1, <3>2
  <2>2. CASE a[n] # None
    <3>1. LeaveOldGroup(g, n) = Left(a, b, c, d, n)
      BY <1>0, <1>1, <2>2, LeaveIs DEF LeaveOldGroup
    <3>2. PICK a1, b1, c1, d1 : /\ Left(a, b, c, d, n) = St(a1, b1, c1, d1)
                                /\ Good(a1, b1, c1, d1)
                                /\ Shrunk(a, b, a1, b1, n)
      BY <2>2, LeaveWorks
    <3>. QED
      BY <3>1, <3>2 DEF Shrunk
  <2>. QED
    BY <2>1, <2>2
<1>3. PICK a1, b1, c1, d1 : /\ LeaveOldGroup(g, n) = St(a1, b1, c1, d1)
                            /\ Good(a1, b1, c1, d1)
                            /\ a1[n] = None
                            /\ \A q \in Player : Weight(a1, b1, q) <= Weight(a, b, q)
                            /\ DOMAIN b1 \subseteq DOMAIN b
  BY <1>2
<1>4. Cardinality(DOMAIN b1) <= MaxGroups
  <2>1. DOMAIN b \subseteq 0..MaxGroups
    BY <1>0, GroupsAssumption DEF Ids
  <2>2. IsFiniteSet(0..MaxGroups)
    BY GroupsAssumption, FS_Interval
  <2>3. IsFiniteSet(DOMAIN b)
    BY <2>1, <2>2, FS_Subset
  <2>4. Cardinality(DOMAIN b1) <= Cardinality(DOMAIN b)
        /\ Cardinality(DOMAIN b1) \in Nat /\ Cardinality(DOMAIN b) \in Nat
    BY <1>3, <2>3, FS_Subset, FS_CardinalityType
  <2>. QED
    BY <2>4, GroupsAssumption
<1>5. PICK a2, b2, c2, d2 : /\ GroupLedBy(LeaveOldGroup(g, n), l) = St(a2, b2, c2, d2)
                            /\ Awaits(a2, b2, c2, d2, l)
                            /\ Offered(a1, b1, a2, b2, l)
  BY <1>3, <1>4, GroupLedByWorks
<1>. DEFINE id == a2[l]
            M  == PartyOf(a2, id)
            a3 == Now(a2, {n}, id)
            d3 == Following(Gaining(Gaining(d2, M, {n}), {n}, M), {n}, l)
<1>6. a2[n] = None /\ id # None /\ Playing(a2)
  BY <1>3, <1>5 DEF Offered, Awaits, Typed
<1>7. add_group_member(g, l, n) = St(a3, b2, c2, d3)
  <2>. DEFINE led == GroupLedBy(LeaveOldGroup(g, n), l)
              told == Added(Added(led, members(led, id), {n} \cup pets(n)), {n}, members(led, id))
  <2>1. {n} \cup pets(n) = {n}
    BY NobodysPets
  <2>2. led.group[l] = id
    BY <1>5 DEF St
  <2>3. add_group_member(g, l, n) =
          PutAll(NewLeader(told, {n}, l), {n} \cup pets(n), id)
    BY <2>2 DEF add_group_member
  <2>4. members(led, id) = M
    BY <1>5, <1>6, MembersAre
  <2>5. told = St(a2, b2, c2, Gaining(Gaining(d2, M, {n}), {n}, M))
    <3>. HIDE DEF M, id
    <3>1. told = Added(Added(St(a2, b2, c2, d2), M, {n}), {n}, M)
      BY <1>5, <2>1, <2>4
    <3>2. Added(St(a2, b2, c2, d2), M, {n}) = St(a2, b2, c2, Gaining(d2, M, {n}))
      BY AddedIs
    <3>. HIDE DEF told, led
    <3>. QED
      BY <3>1, <3>2, AddedIs
  <2>. HIDE DEF told, led, M, id
  <2>6. NewLeader(told, {n}, l) = St(a2, b2, c2, d3)
    BY <2>5, LeaderIs
  <2>. HIDE DEF d3
  <2>. QED
    BY <2>1, <2>3, <2>6, PutAllIs
<1>8. Good(a3, b2, c2, d3) /\ \A q \in Player : Weight(a3, b2, q) = Weight(a2, b2, q)
  BY <1>5, <1>6, JoinGood
<1>. HIDE DEF a3, d3
<1>9. /\ \A q \in Player \ {l} : Weight(a3, b2, q) <= Weight(a, b, q)
      /\ Weight(a3, b2, l) <= Weight(a, b, l) + 1
  <2>1. \A q \in Player : /\ Weight(a, b, q) \in Nat
                          /\ Weight(a1, b1, q) \in Nat
                          /\ Weight(a3, b2, q) \in Nat
    BY <1>0, <1>3, <1>8, WeightPositive DEF Good
  <2>2. /\ \A q \in Player \ {l} : Weight(a2, b2, q) <= Weight(a1, b1, q)
        /\ Weight(a2, b2, l) <= Weight(a1, b1, l) + 1
    BY <1>5 DEF Offered
  <2>. QED
    BY <1>3, <1>8, <2>1, <2>2
<1>. QED
  BY <1>7, <1>8, <1>9

(* A leader hands over the group.                                           *)
LEMMA AssignWorks ==
  ASSUME NEW a, NEW b, NEW c, NEW d, Good(a, b, c, d), NEW t \in Player, a[t] # None
  PROVE  \E a2, b2, c2, d2 : /\ assign_leader(St(a, b, c, d), t) = St(a2, b2, c2, d2)
                            /\ Good(a2, b2, c2, d2)
<1>. DEFINE g == St(a, b, c, d)
            id == a[t]
            P == PartyOf(a, id)
            b2 == [b EXCEPT ![id].leader = t]
            d2 == Following(d, P, t)
<1>0. /\ Typed(a, b, c, d) /\ Whole(a, b) /\ Ids(b, c) /\ Seen(a, b, d)
      /\ id \in DOMAIN b /\ t \in P
  BY DEF Good, Whole, PartyOf
<1>1. assign_leader(g, t) = St(a, b2, c, d2)
  <2>1. members(g, id) = P /\ g.group = a
    BY <1>0, MembersAre DEF Typed, St
  <2>2. [g EXCEPT !.slab[id].leader = t] = St(a, b2, c, d)
    BY DEF St
  <2>3. assign_leader(g, t) = NewLeader([g EXCEPT !.slab[id].leader = t], P, t)
    BY <2>1 DEF assign_leader
  <2>. HIDE DEF b2
  <2>. QED
    BY <2>2, <2>3, LeaderIs
<1>2. /\ DOMAIN b2 = DOMAIN b
      /\ \A x \in DOMAIN b : /\ b2[x].leader = IF x = id THEN t ELSE b[x].leader
                             /\ b2[x].num_members = b[x].num_members
  BY <1>0 DEF Typed
<1>3. Typed(a, b2, c, d2)
  <2>1. b2 \in [DOMAIN b2 -> [leader : Player, num_members : Nat]]
    BY <1>0 DEF Typed
  <2>2. d2 \in [Player -> [leader : Player \cup {None}, members : SUBSET Player]]
    BY <1>0 DEF Typed, Following
  <2>. QED
    BY <1>0, <2>1, <2>2 DEF Typed
<1>. HIDE DEF b2
<1>4. Whole(a, b2) /\ Ids(b2, c)
  BY <1>0, <1>2 DEF Whole, Ids
<1>5. Seen(a, b2, d2)
  <2>. SUFFICES ASSUME NEW q \in Player PROVE d2[q] = View(a, b2, q)
    BY DEF Seen
  <2>1. d2[q] = IF a[q] = id THEN [d[q] EXCEPT !.leader = t] ELSE d[q]
    BY DEF Following, PartyOf
  <2>2. d[q] = View(a, b, q)
    BY <1>0 DEF Seen
  <2>. HIDE DEF d2
  <2>3. CASE a[q] = id
    <3>1. d[q] = [leader |-> b[id].leader, members |-> PartyOf(a, id) \ {q}]
      BY <2>2, <2>3 DEF View
    <3>2. d2[q] = [leader |-> t, members |-> PartyOf(a, id) \ {q}]
      BY <2>1, <2>3, <3>1
    <3>. QED
      BY <1>0, <1>2, <2>3, <3>2 DEF View
  <2>4. CASE a[q] # id
    BY <1>0, <1>2, <2>1, <2>2, <2>4 DEF View, Whole
  <2>. QED
    BY <2>3, <2>4
<1>. QED
  BY <1>1, <1>3, <1>4, <1>5 DEF Good

----------------------------------------------------------------------------
(* The inductive invariant.                                                 *)

Mine(pend, p) == {pq \in pend : pq[1] = p}

(* What can_invite adds up.                                                 *)
Load(g, pend, old, p) ==
  Weight(g.group, g.slab, p) + Cardinality(Mine(pend, p)) + old[p]

GroupsOK == \E a, b, c, d : groups = St(a, b, c, d) /\ Good(a, b, c, d)

InvitesOK ==
  /\ invites \in [Player -> Player \cup {Gone, None}]
  /\ pending \subseteq Player \X Player
  /\ stale \in [Player -> 0..scope.gone]
  /\ \A pq \in pending : pq[1] # pq[2] /\ pq[1] \in ingame

(* Places are taken when an invite is sent.                                 *)
LoadsOK == \A p \in Player : Load(groups, pending, stale, p) <= MaxSize

IInv ==
  /\ scope \in Scopes
  /\ Calm => NoPets /\ GroupsOK /\ InvitesOK
  /\ PlayersOnly => LoadsOK

LEMMA MineFinite ==
  ASSUME NEW pend, pend \subseteq Player \X Player, NEW p
  PROVE  IsFiniteSet(Mine(pend, p)) /\ Cardinality(Mine(pend, p)) \in Nat
<1>1. IsFiniteSet(Player \X Player)
  BY GroupsAssumption, FS_Product
<1>2. Mine(pend, p) \subseteq Player \X Player
  BY DEF Mine
<1>. QED
  BY <1>1, <1>2, FS_Subset, FS_CardinalityType

LEMMA MineAdded ==
  ASSUME NEW pend, pend \subseteq Player \X Player, NEW p \in Player, NEW q \in Player, NEW r \in Player
  PROVE  Cardinality(Mine(pend \cup {<<p, q>>}, r)) <=
           Cardinality(Mine(pend, r)) + (IF r = p THEN 1 ELSE 0)
<1>1. CASE r = p
  <2>1. Mine(pend \cup {<<p, q>>}, r) = Mine(pend, r) \cup {<<p, q>>}
    BY <1>1 DEF Mine
  <2>2. IsFiniteSet(Mine(pend, r)) /\ Cardinality(Mine(pend, r)) \in Nat
    BY MineFinite
  <2>3. Cardinality(Mine(pend, r) \cup {<<p, q>>}) \in {Cardinality(Mine(pend, r)), Cardinality(Mine(pend, r)) + 1}
    BY <2>2, FS_AddElement
  <2>. QED
    BY <1>1, <2>1, <2>2, <2>3
<1>2. CASE r # p
  <2>1. Mine(pend \cup {<<p, q>>}, r) = Mine(pend, r)
    BY <1>2 DEF Mine
  <2>. QED
    BY <1>2, <2>1, MineFinite
<1>. QED
  BY <1>1, <1>2

LEMMA MineTaken ==
  ASSUME NEW pend, pend \subseteq Player \X Player, NEW p, NEW q, NEW r \in Player
  PROVE  Cardinality(Mine(pend \ {<<p, q>>}, r)) =
           Cardinality(Mine(pend, r)) - (IF r = p /\ <<p, q>> \in pend THEN 1 ELSE 0)
<1>1. CASE r = p /\ <<p, q>> \in pend
  <2>1. Mine(pend \ {<<p, q>>}, r) = Mine(pend, r) \ {<<p, q>>} /\ <<p, q>> \in Mine(pend, r)
    BY <1>1 DEF Mine
  <2>. QED
    BY <1>1, <2>1, MineFinite, FS_RemoveElement
<1>2. CASE ~(r = p /\ <<p, q>> \in pend)
  <2>1. Mine(pend \ {<<p, q>>}, r) = Mine(pend, r)
    BY <1>2 DEF Mine
  <2>. QED
    BY <1>2, <2>1, MineFinite
<1>. QED
  BY <1>1, <1>2

LEMMA InitInv == Init => IInv
<1>. SUFFICES ASSUME Init PROVE IInv
  OBVIOUS
<1>. DEFINE a == [e \in Entity |-> None]
            b == <<>>
            d == [p \in Player |-> NoGroup]
<1>1. groups = St(a, b, <<>>, d) /\ NoPets
  BY DEF Init, St, NoPets
<1>2. scope \in Scopes /\ ingame \subseteq Player
  BY GroupsAssumption DEF Init
<1>3. DOMAIN b = {} /\ Range(b) = {}
  BY DEF Range
<1>4. Typed(a, b, <<>>, d)
  <2>1. Playing(a)
    BY <1>2, GroupsAssumption DEF Playing, Entity
  <2>2. b \in [DOMAIN b -> [leader : Player, num_members : Nat]]
    BY <1>3
  <2>3. d \in [Player -> [leader : Player \cup {None}, members : SUBSET Player]]
    BY DEF NoGroup
  <2>. QED
    BY <2>1, <2>2, <2>3 DEF Typed
<1>5. Whole(a, b) /\ Seen(a, b, d)
  BY <1>3 DEF Whole, Seen, View, Entity
<1>6. Ids(b, <<>>)
  <2>1. 0 \in 0..(MaxGroups + 1) /\ 0..(0 - 1) = {}
    BY GroupsAssumption
  <2>2. IsInjective(b)
    BY <1>3 DEF IsInjective
  <2>. QED
    BY <1>3, <2>1, <2>2 DEF Ids
<1>7. GroupsOK
  BY <1>1, <1>4, <1>5, <1>6 DEF GroupsOK, Good
<1>8. InvitesOK
  BY <1>2, GroupsAssumption DEF Init, InvitesOK
<1>9. LoadsOK
  <2>. SUFFICES ASSUME NEW p \in Player PROVE Load(groups, pending, stale, p) <= MaxSize
    BY DEF LoadsOK
  <2>1. groups.group[p] = None
    BY DEF Init, Entity
  <2>2. Mine(pending, p) = {} /\ stale[p] = 0
    BY DEF Init, Mine
  <2>3. Weight(groups.group, groups.slab, p) = 1
    BY <2>1 DEF Weight
  <2>. QED
    BY <2>2, <2>3, FS_EmptySet, GroupsAssumption DEF Load
<1>. QED
  BY <1>1, <1>2, <1>7, <1>8, <1>9 DEF IInv

----------------------------------------------------------------------------
(* The steps.                                                               *)

LEMMA StillGood ==
  ASSUME NEW a, NEW b, NEW c, NEW d, Good(a, b, c, d), Playing(a)'
  PROVE  Good(a, b, c, d)'
BY DEF Good, Typed, Whole, Ids, Seen, View, PartyOf

LEMMA GroupsKept ==
  ASSUME GroupsOK, UNCHANGED <<groups, ingame>>
  PROVE  GroupsOK'
<1>1. PICK a, b, c, d : groups = St(a, b, c, d) /\ Good(a, b, c, d)
  BY DEF GroupsOK
<1>2. Playing(a)'
  BY <1>1 DEF Good, Typed, Playing
<1>3. Good(a, b, c, d)'
  BY <1>1, <1>2, StillGood
<1>. QED
  BY <1>1, <1>3 DEF GroupsOK, St

LEMMA InitiateKeeps ==
  ASSUME NoPets, GroupsOK, InvitesOK, NEW p \in Player, NEW q \in Player,
         InitiateInvite(p, q), UNCHANGED scope
  PROVE  /\ NoPets' /\ GroupsOK' /\ InvitesOK'
         /\ LoadsOK => LoadsOK'
<1>1. PICK a, b, c, d : groups = St(a, b, c, d) /\ Good(a, b, c, d)
  BY DEF GroupsOK
<1>2. NoPets' /\ GroupsOK'
  BY GroupsKept DEF NoPets, InitiateInvite
<1>3. InvitesOK'
  <2>1. p # q /\ p \in ingame /\ invites' = [invites EXCEPT ![q] = p] /\ pending' = pending \cup {<<p, q>>}
        /\ stale' = stale /\ ingame' = ingame
    BY DEF InitiateInvite
  <2>. QED
    BY <2>1 DEF InvitesOK
<1>4. ASSUME LoadsOK PROVE LoadsOK'
  <2>. SUFFICES ASSUME NEW r \in Player PROVE Load(groups, pending, stale, r)' <= MaxSize
    BY DEF LoadsOK
  <2>. DEFINE w == Weight(a, b, r)
              m == Cardinality(Mine(pending, r))
  <2>1. Load(groups, pending, stale, r) = w + m + stale[r] /\ w + m + stale[r] <= MaxSize
    BY <1>1, <1>4 DEF LoadsOK, Load, St
  <2>2. Load(groups, pending, stale, r)' = w + Cardinality(Mine(pending \cup {<<p, q>>}, r)) + stale[r]
    BY <1>1 DEF InitiateInvite, Load, St, Weight, Mine
  <2>3. Cardinality(Mine(pending \cup {<<p, q>>}, r)) <= m + (IF r = p THEN 1 ELSE 0)
    BY MineAdded DEF InvitesOK
  <2>4. /\ w \in Nat /\ m \in Nat /\ stale[r] \in Int /\ MaxSize \in Nat
        /\ Cardinality(Mine(pending \cup {<<p, q>>}, r)) \in Nat
    <3>1. pending \cup {<<p, q>>} \subseteq Player \X Player
      BY DEF InvitesOK
    <3>2. stale[r] \in Int
      BY GroupsAssumption DEF InvitesOK
    <3>. QED
      BY <1>1, <3>1, <3>2, WeightPositive, MineFinite, GroupsAssumption DEF Good, InvitesOK
  <2>5. r = p => w + m + stale[r] < MaxSize
    <3>1. can_invite(p, q)
      BY DEF InitiateInvite
    <3>2. (IF leads(groups, p) THEN groups.slab[groups.group[p]].num_members ELSE 1) = Weight(a, b, p)
      BY <1>1, LeadsIs DEF Weight, Good, Whole, St
    <3>. QED
      BY <3>1, <3>2 DEF can_invite, Mine
  <2>. HIDE DEF w, m
  <2>. QED
    BY <2>1, <2>2, <2>3, <2>4, <2>5
<1>. QED
  BY <1>2, <1>3, <1>4

(* An invite is taken from the books; the groups may have changed.          *)
LEMMA TakeKeeps ==
  ASSUME NoPets, InvitesOK, NEW q \in Player, TakeInvite(q), UNCHANGED scope
  PROVE  NoPets' /\ InvitesOK'
<1>1. pending' \subseteq pending /\ invites' = [invites EXCEPT ![q] = None] /\ stale' = stale /\ ingame' = ingame
      /\ owner' = owner
  BY DEF TakeInvite
<1>. QED
  BY <1>1 DEF NoPets, InvitesOK

LEMMA DropKeeps ==
  ASSUME NoPets, GroupsOK, InvitesOK, NEW q \in Player, TakeInvite(q), UNCHANGED <<groups, scope>>
  PROVE  /\ NoPets' /\ GroupsOK' /\ InvitesOK'
         /\ LoadsOK => LoadsOK'
<1>1. PICK a, b, c, d : groups = St(a, b, c, d) /\ Good(a, b, c, d)
  BY DEF GroupsOK
<1>2. NoPets' /\ InvitesOK'
  BY TakeKeeps
<1>3. GroupsOK'
  BY GroupsKept DEF TakeInvite
<1>4. ASSUME LoadsOK PROVE LoadsOK'
  <2>. SUFFICES ASSUME NEW r \in Player PROVE Load(groups, pending, stale, r)' <= MaxSize
    BY DEF LoadsOK
  <2>. DEFINE w == Weight(a, b, r)
              m == Cardinality(Mine(pending, r))
              pend == pending \ {<<invites[q], q>>}
  <2>1. Load(groups, pending, stale, r) = w + m + stale[r] /\ w + m + stale[r] <= MaxSize
    BY <1>1, <1>4 DEF LoadsOK, Load, St
  <2>2. Load(groups, pending, stale, r)' = w + Cardinality(Mine(pend, r)) + stale[r]
    BY <1>1 DEF TakeInvite, Load, St, Weight, Mine
  <2>3. m \in Nat /\ Cardinality(Mine(pend, r)) \in {m, m - 1}
    BY MineTaken, MineFinite DEF InvitesOK
  <2>4. w \in Nat /\ stale[r] \in Int /\ MaxSize \in Nat
    <3>1. stale[r] \in Int
      BY GroupsAssumption DEF InvitesOK
    <3>. QED
      BY <1>1, <3>1, WeightPositive, GroupsAssumption DEF Good
  <2>. HIDE DEF w, m, pend
  <2>. QED
    BY <2>1, <2>2, <2>3, <2>4
<1>. QED
  BY <1>2, <1>3, <1>4

LEMMA AcceptKeeps ==
  ASSUME NoPets, GroupsOK, InvitesOK, NEW q \in Player, handle_invite_accept(q), UNCHANGED scope
  PROVE  /\ NoPets' /\ GroupsOK' /\ InvitesOK'
         /\ LoadsOK => LoadsOK'
<1>. DEFINE p == invites[q]
<1>1. CASE <<p, q>> \notin pending
  BY <1>1, DropKeeps DEF handle_invite_accept
<1>2. CASE <<p, q>> \in pending
  <2>1. PICK a, b, c, d : groups = St(a, b, c, d) /\ Good(a, b, c, d)
    BY DEF GroupsOK
  <2>2. NoPets' /\ InvitesOK'
    BY TakeKeeps DEF handle_invite_accept
  <2>3. /\ p \in Player /\ p # q /\ p \in ingame /\ q \in ingame
        /\ Cardinality(DOMAIN b) <= MaxGroups
        /\ groups' = add_group_member(groups, p, q)
        /\ ingame' = ingame /\ pending' = pending \ {<<p, q>>} /\ stale' = stale
    <3>1. <<p, q>>[1] = p /\ <<p, q>>[2] = q
      OBVIOUS
    <3>. QED
      BY <1>2, <2>1, <3>1 DEF handle_invite_accept, TakeInvite, InvitesOK, St
  <2>4. PICK a2, b2, c2, d2 : /\ groups' = St(a2, b2, c2, d2)
                              /\ Good(a2, b2, c2, d2)
                              /\ \A r \in Player \ {p} : Weight(a2, b2, r) <= Weight(a, b, r)
                              /\ Weight(a2, b2, p) <= Weight(a, b, p) + 1
    BY <2>1, <2>3, AddWorks
  <2>5. GroupsOK'
    <3>1. Playing(a2)'
      BY <2>3, <2>4 DEF Good, Typed, Playing
    <3>2. Good(a2, b2, c2, d2)'
      BY <2>4, <3>1, StillGood
    <3>. QED
      BY <2>4, <3>2 DEF GroupsOK, St
  <2>6. ASSUME LoadsOK PROVE LoadsOK'
    <3>. SUFFICES ASSUME NEW r \in Player PROVE Load(groups, pending, stale, r)' <= MaxSize
      BY DEF LoadsOK
    <3>. DEFINE w == Weight(a, b, r)
                v == Weight(a2, b2, r)
                m == Cardinality(Mine(pending, r))
    <3>1. Load(groups, pending, stale, r) = w + m + stale[r] /\ w + m + stale[r] <= MaxSize
      BY <2>1, <2>6 DEF LoadsOK, Load, St
    <3>2. Load(groups, pending, stale, r)' = v + Cardinality(Mine(pending \ {<<p, q>>}, r)) + stale[r]
      BY <2>3, <2>4 DEF Load, St, Weight, Mine
    <3>3. Cardinality(Mine(pending \ {<<p, q>>}, r)) = m - (IF r = p THEN 1 ELSE 0)
      BY <1>2, MineTaken DEF InvitesOK
    <3>4. w \in Nat /\ v \in Nat /\ m \in Nat /\ stale[r] \in Int /\ MaxSize \in Nat
      <4>1. stale[r] \in Int
        BY GroupsAssumption DEF InvitesOK
      <4>. QED
        BY <2>1, <2>4, <4>1, WeightPositive, MineFinite, GroupsAssumption DEF Good, InvitesOK
    <3>5. v <= w + (IF r = p THEN 1 ELSE 0)
      BY <2>4, <3>4
    <3>. HIDE DEF w, v, m
    <3>. QED
      BY <3>1, <3>2, <3>3, <3>4, <3>5
  <2>. QED
    BY <2>2, <2>5, <2>6
<1>. QED
  BY <1>1, <1>2

(* Somebody leaves, or is kicked.                                           *)
LEMMA LeaveKeeps ==
  ASSUME NoPets, GroupsOK, InvitesOK, NEW p \in Player, groups.group[p] # None,
         groups' = leave_group(groups, p), UNCHANGED <<owner, ingame, scope>>, UNCHANGED inviteVars
  PROVE  /\ NoPets' /\ GroupsOK' /\ InvitesOK'
         /\ LoadsOK => LoadsOK'
<1>1. PICK a, b, c, d : groups = St(a, b, c, d) /\ Good(a, b, c, d)
  BY DEF GroupsOK
<1>2. a[p] # None
  BY <1>1 DEF St
<1>3. leave_group(groups, p) = Left(a, b, c, d, p)
  BY <1>1, <1>2, LeaveIs DEF Good
<1>4. PICK a2, b2, c2, d2 : /\ groups' = St(a2, b2, c2, d2)
                            /\ Good(a2, b2, c2, d2)
                            /\ Shrunk(a, b, a2, b2, p)
  BY <1>1, <1>2, <1>3, LeaveWorks
<1>5. NoPets' /\ InvitesOK'
  BY DEF NoPets, InvitesOK, inviteVars
<1>6. GroupsOK'
  <2>1. Playing(a2)'
    BY <1>4 DEF Good, Typed, Playing
  <2>2. Good(a2, b2, c2, d2)'
    BY <1>4, <2>1, StillGood
  <2>. QED
    BY <1>4, <2>2 DEF GroupsOK, St
<1>7. ASSUME LoadsOK PROVE LoadsOK'
  <2>. SUFFICES ASSUME NEW r \in Player PROVE Load(groups, pending, stale, r)' <= MaxSize
    BY DEF LoadsOK
  <2>. DEFINE w == Weight(a, b, r)
              v == Weight(a2, b2, r)
              m == Cardinality(Mine(pending, r))
  <2>1. Load(groups, pending, stale, r) = w + m + stale[r] /\ w + m + stale[r] <= MaxSize
    BY <1>1, <1>7 DEF LoadsOK, Load, St
  <2>2. Load(groups, pending, stale, r)' = v + m + stale[r]
    BY <1>4 DEF Load, St, Weight, Mine, inviteVars
  <2>3. w \in Nat /\ v \in Nat /\ m \in Nat /\ stale[r] \in Int /\ MaxSize \in Nat
    <3>1. stale[r] \in Int
      BY GroupsAssumption DEF InvitesOK
    <3>. QED
      BY <1>1, <1>4, <3>1, WeightPositive, MineFinite, GroupsAssumption DEF Good, InvitesOK
  <2>4. v <= w
    BY <1>4 DEF Shrunk
  <2>. HIDE DEF w, v, m
  <2>. QED
    BY <2>1, <2>2, <2>3, <2>4
<1>. QED
  BY <1>5, <1>6, <1>7

LEMMA KickKeeps ==
  ASSUME NoPets, GroupsOK, InvitesOK, NEW p \in Player, NEW t \in Player, Kick(p, t), UNCHANGED scope
  PROVE  /\ NoPets' /\ GroupsOK' /\ InvitesOK'
         /\ LoadsOK => LoadsOK'
<1>1. groups.group[t] # None
  BY DEF Kick, LedBy, group_info_exists
<1>. QED
  BY <1>1, LeaveKeeps DEF Kick

LEMMA AssignKeeps ==
  ASSUME NoPets, GroupsOK, InvitesOK, NEW p \in Player, NEW t \in Player, AssignLeader(p, t), UNCHANGED scope
  PROVE  NoPets' /\ GroupsOK' /\ InvitesOK' /\ ~PlayersOnly
<1>1. PICK a, b, c, d : groups = St(a, b, c, d) /\ Good(a, b, c, d)
  BY DEF GroupsOK
<1>2. groups' = assign_leader(St(a, b, c, d), t) /\ a[t] # None /\ ingame' = ingame /\ ~PlayersOnly
  BY <1>1 DEF AssignLeader, LedBy, group_info_exists, St, PlayersOnly
<1>3. PICK a2, b2, c2, d2 : groups' = St(a2, b2, c2, d2) /\ Good(a2, b2, c2, d2)
  BY <1>1, <1>2, AssignWorks
<1>4. NoPets' /\ InvitesOK'
  BY DEF AssignLeader, NoPets, InvitesOK, inviteVars
<1>5. Playing(a2)'
  BY <1>2, <1>3 DEF Good, Typed, Playing
<1>6. Good(a2, b2, c2, d2)'
  BY <1>3, <1>5, StillGood
<1>. QED
  BY <1>2, <1>3, <1>4, <1>6 DEF GroupsOK, St

LEMMA EnterKeeps ==
  ASSUME NoPets, GroupsOK, InvitesOK, NEW p \in Player, EnterGame(p), UNCHANGED scope
  PROVE  /\ NoPets' /\ GroupsOK' /\ InvitesOK'
         /\ LoadsOK => LoadsOK'
<1>1. PICK a, b, c, d : groups = St(a, b, c, d) /\ Good(a, b, c, d)
  BY DEF GroupsOK
<1>2. groups' = groups /\ ingame' = ingame \cup {p} /\ owner' = owner /\ UNCHANGED inviteVars
  BY DEF EnterGame
<1>3. NoPets' /\ InvitesOK'
  BY <1>2 DEF NoPets, InvitesOK, inviteVars
<1>4. Playing(a)'
  BY <1>1, <1>2 DEF Good, Typed, Playing
<1>5. Good(a, b, c, d)'
  BY <1>1, <1>4, StillGood
<1>6. LoadsOK => LoadsOK'
  BY <1>2 DEF LoadsOK, Load, Weight, Mine, inviteVars
<1>. QED
  BY <1>1, <1>2, <1>3, <1>5, <1>6 DEF GroupsOK, St

----------------------------------------------------------------------------
(* A client disconnects.                                                    *)

LEMMA OneInvite ==
  ASSUME NEW pend, pend \subseteq Player \X Player, NEW p, NEW q \in Player, q # p
  PROVE  Cardinality(Mine({pq \in pend : p \notin {pq[1], pq[2]}}, q)) + Cardinality(pend \cap {<<q, p>>}) =
           Cardinality(Mine(pend, q))
<1>. DEFINE kept == {pq \in pend : p \notin {pq[1], pq[2]}}
<1>1. Mine(kept, q) = Mine(pend \ {<<q, p>>}, q)
  <2>1. \A pq \in pend : pq = <<pq[1], pq[2]>>
    OBVIOUS
  <2>. QED
    BY <2>1 DEF Mine
<1>2. Cardinality(pend \cap {<<q, p>>}) = IF <<q, p>> \in pend THEN 1 ELSE 0
  <2>1. CASE <<q, p>> \in pend
    <3>1. pend \cap {<<q, p>>} = {<<q, p>>}
      BY <2>1
    <3>. QED
      BY <2>1, <3>1, FS_Singleton
  <2>2. CASE <<q, p>> \notin pend
    <3>1. pend \cap {<<q, p>>} = {}
      BY <2>2
    <3>. QED
      BY <2>2, <3>1, FS_EmptySet
  <2>. QED
    BY <2>1, <2>2
<1>3. Cardinality(Mine(pend \ {<<q, p>>}, q)) = Cardinality(Mine(pend, q)) - (IF <<q, p>> \in pend THEN 1 ELSE 0)
  BY MineTaken
<1>. HIDE DEF kept
<1>4. Cardinality(Mine(pend, q)) \in Nat
  BY MineFinite
<1>. QED
  BY <1>1, <1>2, <1>3, <1>4 DEF kept

(* Nothing is buried of a player who leads no group.                        *)
LEMMA BuryIs ==
  ASSUME NEW a, NEW b, NEW c, NEW d, Good(a, b, c, d), NEW p \in Player, a[p] = None
  PROVE  Bury(St(a, b, c, d), p, {}) = St(a, b, c, d)
<1>1. \A id \in DOMAIN b : b[id].leader # p
  <2>. SUFFICES ASSUME NEW id \in DOMAIN b, b[id].leader = p PROVE FALSE
    OBVIOUS
  <2>1. a[p] = id
    BY DEF Good, Whole, PartyOf
  <2>2. id \in GroupId \cup {None} /\ id # None
    <3>1. PICK k \in 0..(MaxGroups + 1) : DOMAIN b \cup Range(c) = 0..(k - 1)
      BY DEF Good, Ids
    <3>2. id \in 0..MaxGroups
      BY <3>1, GroupsAssumption
    <3>. QED
      BY <3>2, GroupIdsAre
  <2>. QED
    BY <2>1, <2>2
<1>2. St(a, b, c, d).slab = b
  BY DEF St
<1>3. Bury(St(a, b, c, d), p, {}) =
        [St(a, b, c, d) EXCEPT !.slab = [id \in DOMAIN b |->
           IF b[id].leader = p /\ id \notin {} THEN [b[id] EXCEPT !.leader = Gone] ELSE b[id]]]
  BY <1>2 DEF Bury
<1>4. [id \in DOMAIN b |-> IF b[id].leader = p /\ id \notin {} THEN [b[id] EXCEPT !.leader = Gone] ELSE b[id]] = b
  BY <1>1 DEF Good, Typed
<1>5. [St(a, b, c, d) EXCEPT !.slab = b] = St(a, b, c, d)
  BY DEF St
<1>. QED
  BY <1>3, <1>4, <1>5

LEMMA GoneWorks ==
  ASSUME NoPets, NEW a, NEW b, NEW c, NEW d, Good(a, b, c, d), NEW p \in Player
  PROVE  \E a2, b2, c2, d2 :
           /\ Bury(NoGroupAnyMore(entity_deleted(St(a, b, c, d), p), {p}), p, {}) = St(a2, b2, c2, d2)
           /\ Good(a2, b2, c2, d2)
           /\ Shrunk(a, b, a2, b2, p)
<1>1. CASE a[p] = None
  <2>1. entity_deleted(St(a, b, c, d), p) = St(a, b, c, d)
    BY <1>1 DEF entity_deleted, remove_from_group, St
  <2>2. Blank(d, {p}) = d
    BY <1>1 DEF Good, Typed, Seen, View, Blank
  <2>3. NoGroupAnyMore(entity_deleted(St(a, b, c, d), p), {p}) = St(a, b, c, d)
    BY <2>1, <2>2, BlankIs
  <2>4. Shrunk(a, b, a, b, p)
    <3>1. \A q \in Player : Weight(a, b, q) \in Nat
      BY WeightPositive DEF Good
    <3>2. \A q \in Player : Weight(a, b, q) <= Weight(a, b, q)
      BY <3>1
    <3>. QED
      BY <1>1, <3>2 DEF Shrunk
  <2>. QED
    BY <1>1, <2>3, <2>4, BuryIs
<1>2. CASE a[p] # None
  <2>1. PICK a2, b2, c2, d2 : /\ Left(a, b, c, d, p) = St(a2, b2, c2, d2)
                              /\ Good(a2, b2, c2, d2)
                              /\ Shrunk(a, b, a2, b2, p)
    BY <1>2, LeaveWorks
  <2>2. NoGroupAnyMore(entity_deleted(St(a, b, c, d), p), {p}) = St(a2, b2, c2, d2)
    BY <1>2, <2>1, LeaveIs DEF Good
  <2>3. a2[p] = None
    BY <2>1 DEF Shrunk
  <2>. QED
    BY <2>1, <2>2, <2>3, BuryIs
<1>. QED
  BY <1>1, <1>2

LEMMA ForgetKeeps ==
  ASSUME scope \in Scopes, InvitesOK, NEW p \in Player, ForgetInvites(p), ingame' = ingame \ {p}, UNCHANGED scope
  PROVE  InvitesOK'
<1>1. invites' \in [Player -> Player \cup {Gone, None}]
  BY DEF ForgetInvites, InvitesOK
<1>2. /\ pending' \subseteq Player \X Player
      /\ \A pq \in pending' : pq[1] # pq[2] /\ pq[1] \in ingame'
  BY DEF ForgetInvites, InvitesOK
<1>3. stale' \in [Player -> 0..scope.gone]
  <2>1. /\ stale' = [q \in Player |-> IF q = p THEN 0 ELSE stale[q] + Cardinality(pending \cap {<<q, p>>})]
        /\ \A q \in Player : stale'[q] <= scope.gone
    BY DEF ForgetInvites
  <2>2. ASSUME NEW q \in Player PROVE stale'[q] \in Nat
    <3>1. IsFiniteSet(pending \cap {<<q, p>>})
      BY FS_Singleton, FS_Subset
    <3>2. Cardinality(pending \cap {<<q, p>>}) \in Nat
      BY <3>1, FS_CardinalityType
    <3>3. stale[q] \in Nat
      BY GroupsAssumption DEF InvitesOK
    <3>. QED
      BY <2>1, <3>2, <3>3
  <2>3. scope.gone \in Int
    BY GroupsAssumption
  <2>4. \A q \in Player : stale'[q] \in 0..scope.gone
    BY <2>1, <2>2, <2>3
  <2>. QED
    BY <2>1, <2>4
<1>. QED
  BY <1>1, <1>2, <1>3 DEF InvitesOK

LEMMA DisconnectKeeps ==
  ASSUME scope \in Scopes, NoPets, GroupsOK, InvitesOK, NEW p \in Player, Disconnect(p), UNCHANGED scope
  PROVE  /\ NoPets' /\ GroupsOK' /\ InvitesOK'
         /\ LoadsOK => LoadsOK'
<1>1. PICK a, b, c, d : groups = St(a, b, c, d) /\ Good(a, b, c, d)
  BY DEF GroupsOK
<1>2. PICK a2, b2, c2, d2 : /\ groups' = St(a2, b2, c2, d2)
                            /\ Good(a2, b2, c2, d2)
                            /\ Shrunk(a, b, a2, b2, p)
  BY <1>1, GoneWorks DEF Disconnect
<1>3. NoPets'
  BY GroupsAssumption DEF Disconnect, NoPets, Entity
<1>4. InvitesOK'
  BY ForgetKeeps DEF Disconnect
<1>5. GroupsOK'
  <2>1. Playing(a2)'
    BY <1>2 DEF Good, Typed, Playing, Shrunk, Disconnect
  <2>2. Good(a2, b2, c2, d2)'
    BY <1>2, <2>1, StillGood
  <2>. QED
    BY <1>2, <2>2 DEF GroupsOK, St
<1>6. ASSUME LoadsOK PROVE LoadsOK'
  <2>. SUFFICES ASSUME NEW r \in Player PROVE Load(groups, pending, stale, r)' <= MaxSize
    BY DEF LoadsOK
  <2>. DEFINE w == Weight(a, b, r)
              v == Weight(a2, b2, r)
              m == Cardinality(Mine(pending, r))
              kept == Cardinality(Mine({pq \in pending : p \notin {pq[1], pq[2]}}, r))
              lost == Cardinality(pending \cap {<<r, p>>})
  <2>1. Load(groups, pending, stale, r)' = v + kept + stale'[r]
    BY <1>2 DEF Disconnect, ForgetInvites, Load, St, Weight, Mine
  <2>2. stale'[r] = IF r = p THEN 0 ELSE stale[r] + lost
    BY DEF Disconnect, ForgetInvites
  <2>3. CASE r = p
    <3>1. v = 1
      BY <1>2, <2>3 DEF Weight, Shrunk
    <3>2. kept = 0
      <4>1. Mine({pq \in pending : p \notin {pq[1], pq[2]}}, r) = {}
        BY <2>3 DEF Mine
      <4>. QED
        BY <4>1, FS_EmptySet
    <3>. HIDE DEF v, kept, lost
    <3>. QED
      BY <2>1, <2>2, <2>3, <3>1, <3>2, GroupsAssumption
  <2>4. CASE r # p
    <3>1. Load(groups, pending, stale, r) = w + m + stale[r] /\ w + m + stale[r] <= MaxSize
      BY <1>1, <1>6 DEF LoadsOK, Load, St
    <3>2. kept + lost = m
      BY <2>4, OneInvite DEF InvitesOK
    <3>3. v <= w
      BY <1>2 DEF Shrunk
    <3>4. w \in Nat /\ v \in Nat /\ m \in Nat /\ stale[r] \in Int /\ MaxSize \in Nat
      <4>1. stale[r] \in Int
        BY GroupsAssumption DEF InvitesOK
      <4>. QED
        BY <1>1, <1>2, <4>1, WeightPositive, MineFinite, GroupsAssumption DEF Good, InvitesOK
    <3>5. kept \in Nat /\ lost \in Nat
      <4>1. {pq \in pending : p \notin {pq[1], pq[2]}} \subseteq Player \X Player
        BY DEF InvitesOK
      <4>2. IsFiniteSet(pending \cap {<<r, p>>})
        BY FS_Singleton, FS_Subset
      <4>. QED
        BY <4>1, <4>2, MineFinite, FS_CardinalityType
    <3>. HIDE DEF w, v, m, kept, lost
    <3>. QED
      BY <2>1, <2>2, <2>4, <3>1, <3>2, <3>3, <3>4, <3>5
  <2>. QED
    BY <2>3, <2>4
<1>. QED
  BY <1>3, <1>4, <1>5, <1>6

----------------------------------------------------------------------------
(* Where pets are not made leaders, all is between players.                 *)
LEMMA AmongPlayers ==
  ASSUME scope.crew \subseteq Player, GroupStep, ~\E x \in Pet, q \in Player : AssignLeader(q, x)
  PROVE  \E p \in Player, t \in Player : LeaveGroup(p) \/ Kick(p, t) \/ AssignLeader(p, t)
<1>1. PICK p \in scope.crew :
        LeaveGroup(p) \/ (\E t \in scope.crew : Kick(p, t)) \/ (\E t \in scope.crew \cup Pet : AssignLeader(p, t))
  BY Zenon DEF GroupStep
<1>. HIDE DEF LeaveGroup, Kick, AssignLeader
<1>. QED
  BY <1>1

LEMMA NextInv == IInv /\ [Next]_vars => IInv'
<1>. SUFFICES ASSUME IInv, [Next]_vars PROVE IInv'
  OBVIOUS
<1>1. scope' = scope /\ scope.crew \subseteq Player
  BY GroupsAssumption DEF IInv, Next, vars
<1>2. CASE ~Calm
  <2>1. ~PlayersOnly' /\ ~Calm'
    BY <1>1, <1>2 DEF Calm, PlayersOnly
  <2>. QED
    BY <1>1, <2>1 DEF IInv
<1>3. CASE Calm
  <2>. SUFFICES /\ NoPets' /\ GroupsOK' /\ InvitesOK'
                /\ PlayersOnly => LoadsOK'
    BY <1>1 DEF IInv, PlayersOnly
  <2>1. scope \in Scopes /\ NoPets /\ GroupsOK /\ InvitesOK /\ (PlayersOnly => LoadsOK)
    BY <1>3 DEF IInv
  <2>2. "screens" \notin scope.may /\ scope.pets = {}
    BY <1>3 DEF Calm
  <2>3. CASE UNCHANGED vars
    <3>1. GroupsOK'
      BY <2>1, <2>3, GroupsKept DEF vars
    <3>. QED
      BY <2>1, <2>3, <3>1 DEF vars, NoPets, InvitesOK, LoadsOK, Load, Mine, Weight
  <2>4. CASE InviteStep
    <3>1. PICK p \in Player, q \in Player :
            InitiateInvite(p, q) \/ handle_invite_accept(q) \/ handle_invite_decline(q) \/ InviteTimeout(q)
      BY <1>1, <2>4 DEF InviteStep
    <3>2. CASE InitiateInvite(p, q)
      BY <1>1, <2>1, <3>2, InitiateKeeps
    <3>3. CASE handle_invite_accept(q)
      BY <1>1, <2>1, <3>3, AcceptKeeps
    <3>4. CASE handle_invite_decline(q)
      BY <1>1, <2>1, <3>4, DropKeeps DEF handle_invite_decline
    <3>5. CASE InviteTimeout(q)
      BY <1>1, <2>1, <3>5, DropKeeps DEF InviteTimeout
    <3>. QED
      BY <3>1, <3>2, <3>3, <3>4, <3>5
  <2>5. CASE GroupStep
    <3>1. PICK p \in Player, t \in Player : LeaveGroup(p) \/ Kick(p, t) \/ AssignLeader(p, t)
      <4>1. ~\E x \in Pet, q \in Player : AssignLeader(q, x)
        BY <1>3 DEF AssignLeader, Calm
      <4>. QED
        BY <1>1, <2>5, <4>1, AmongPlayers
    <3>2. CASE LeaveGroup(p)
      BY <1>1, <2>1, <3>2, LeaveKeeps DEF LeaveGroup
    <3>3. CASE Kick(p, t)
      BY <1>1, <2>1, <3>3, KickKeeps
    <3>4. CASE AssignLeader(p, t)
      BY <1>1, <2>1, <3>4, AssignKeeps
    <3>. QED
      BY <3>1, <3>2, <3>3, <3>4
  <2>6. CASE EntityStep
    <3>1. PICK p \in Player :
            ExitIngame(p) \/ EnterGame(p) \/ Disconnect(p) \/ \E x \in Pet : NewPet(x, p) \/ PetDies(x)
      BY <1>1, <2>6 DEF EntityStep
    <3>2. ~ExitIngame(p) /\ \A x \in Pet : ~NewPet(x, p) /\ ~PetDies(x)
      BY <2>1, <2>2 DEF ExitIngame, NewPet, PetDies, NoPets
    <3>3. CASE EnterGame(p)
      BY <1>1, <2>1, <3>3, EnterKeeps
    <3>4. CASE Disconnect(p)
      BY <1>1, <2>1, <3>4, DisconnectKeeps
    <3>. QED
      BY <3>1, <3>2, <3>3, <3>4
  <2>. QED
    BY <2>3, <2>4, <2>5, <2>6 DEF Next
<1>. QED
  BY <1>2, <1>3

LEMMA Reachable == Spec => []IInv
<1>. QED
  BY InitInv, NextInv, PTL DEF Spec

----------------------------------------------------------------------------
(* What the invariant says.                                                 *)

LEMMA GoodIsConsistent ==
  ASSUME NEW a, NEW b, NEW c, NEW d, groups = St(a, b, c, d), Good(a, b, c, d), NoPets, InvitesOK
  PROVE  TypeOK /\ NobodyInDeadGroup /\ SizeIsRight /\ NoLonelyGroups
<1>1. groups.group = a /\ groups.slab = b /\ groups.vacant = c /\ groups.shown = d
  BY DEF St
<1>2. Typed(a, b, c, d) /\ Whole(a, b) /\ Ids(b, c)
  BY DEF Good
<1>3. \A id : Party(id) = PartyOf(a, id)
  BY <1>1 DEF Party, PartyOf
<1>4. TypeOK
  <2>1. DOMAIN b \cup Range(c) \subseteq GroupId
    <3>1. PICK k \in 0..(MaxGroups + 1) : DOMAIN b \cup Range(c) = 0..(k - 1)
      BY <1>2 DEF Ids
    <3>2. 0..(k - 1) \subseteq 0..MaxGroups
      BY <3>1, GroupsAssumption
    <3>. QED
      BY <3>1, <3>2, GroupIdsAre
  <2>2. Range(c) \subseteq GroupId \ DOMAIN b
    BY <1>2, <2>1 DEF Ids
  <2>3. d \in [Player -> [leader : Entity \cup {None}, members : SUBSET Entity]]
    BY <1>2 DEF Typed, Entity
  <2>4. owner \in [Pet -> Player \cup {Gone, None}] /\ ingame \subseteq Player
    BY <1>2 DEF NoPets, Typed, Playing
  <2>5. \A id \in DOMAIN b : b[id].leader \in Entity \cup {Gone} /\ b[id].num_members \in Nat
    BY <1>2 DEF Typed, Entity
  <2>. QED
    BY <1>1, <1>2, <2>1, <2>2, <2>3, <2>4, <2>5 DEF TypeOK, InvitesOK, Typed, Entity
<1>5. NobodyInDeadGroup
  BY <1>1, <1>2 DEF NobodyInDeadGroup, Whole, Typed, Playing, Entity
<1>. QED
  BY <1>1, <1>2, <1>3, <1>4, <1>5 DEF Whole, SizeIsRight, NoLonelyGroups

LEMMA GoodIsKnown ==
  ASSUME NEW a, NEW b, NEW c, NEW d, groups = St(a, b, c, d), Good(a, b, c, d)
  PROVE  ClientsKnowGroup
<1>1. groups.group = a /\ groups.slab = b /\ groups.shown = d
  BY DEF St
<1>2. \A id : Party(id) = PartyOf(a, id)
  BY <1>1 DEF Party, PartyOf
<1>3. ClientsKnowGroup
  <2>. SUFFICES ASSUME NEW p \in ingame
                PROVE  [groups.shown[p] EXCEPT !.members = @ \cap Player] =
                         IF group_info_exists(groups, p)
                         THEN [leader  |-> groups.slab[groups.group[p]].leader,
                               members |-> Party(groups.group[p]) \ {p}]
                         ELSE NoGroup
    BY DEF ClientsKnowGroup
  <2>1. p \in Player /\ d[p] = View(a, b, p)
    BY DEF Good, Typed, Playing, Seen
  <2>2. group_info_exists(groups, p) <=> a[p] # None
    BY <2>1, LeadsIs DEF Good, Whole
  <2>3. \A l, m : m \subseteq Player =>
          [[leader |-> l, members |-> m] EXCEPT !.members = @ \cap Player] = [leader |-> l, members |-> m]
    <3>. SUFFICES ASSUME NEW l, NEW m, m \subseteq Player
                  PROVE  [[leader |-> l, members |-> m] EXCEPT !.members = @ \cap Player] =
                           [leader |-> l, members |-> m]
      OBVIOUS
    <3>1. m \cap Player = m
      OBVIOUS
    <3>. QED
      BY <3>1
  <2>4. CASE a[p] # None
    <3>1. d[p] = [leader |-> b[a[p]].leader, members |-> PartyOf(a, a[p]) \ {p}]
      BY <2>1, <2>4 DEF View
    <3>2. PartyOf(a, a[p]) \ {p} \subseteq Player
      BY DEF PartyOf
    <3>3. [d[p] EXCEPT !.members = @ \cap Player] = d[p]
      BY <2>3, <3>1, <3>2
    <3>. QED
      BY <1>1, <1>2, <2>2, <2>4, <3>1, <3>3
  <2>5. CASE a[p] = None
    <3>1. d[p] = [leader |-> None, members |-> {}]
      BY <2>1, <2>5 DEF View, NoGroup
    <3>2. [d[p] EXCEPT !.members = @ \cap Player] = d[p]
      BY <2>3, <3>1
    <3>. QED
      BY <1>1, <2>2, <2>5, <3>1, <3>2 DEF NoGroup
  <2>. QED
    BY <2>4, <2>5
<1>. QED
  BY <1>3

LEMMA GoodIsSmall ==
  ASSUME NEW a, NEW b, NEW c, NEW d, groups = St(a, b, c, d), Good(a, b, c, d), InvitesOK, LoadsOK
  PROVE  SizeLimit
<1>. SUFFICES ASSUME NEW id \in DOMAIN groups.slab PROVE Cardinality(Party(id)) <= MaxSize
  BY DEF SizeLimit
<1>1. groups.group = a /\ groups.slab = b
  BY DEF St
<1>2. id \in DOMAIN b /\ Whole(a, b)
  BY <1>1 DEF Good
<1>. DEFINE l == b[id].leader
<1>3. l \in Player /\ a[l] = id
  BY <1>2 DEF Whole, PartyOf
<1>4. Weight(a, b, l) = Cardinality(Party(id)) \/ id = None
  BY <1>1, <1>2, <1>3 DEF Weight, Whole, Party, PartyOf
<1>5. id # None
  <2>1. PICK k \in 0..(MaxGroups + 1) : DOMAIN b \cup Range(c) = 0..(k - 1)
    BY DEF Good, Ids
  <2>2. id \in 0..MaxGroups
    BY <1>2, <2>1, GroupsAssumption
  <2>. QED
    BY <2>2, GroupIdsAre
<1>6. Weight(a, b, l) + Cardinality(Mine(pending, l)) + stale[l] <= MaxSize
  BY <1>1, <1>3 DEF LoadsOK, Load
<1>7. /\ Weight(a, b, l) \in Nat /\ Cardinality(Mine(pending, l)) \in Nat
      /\ stale[l] \in Nat /\ MaxSize \in Nat
  <2>1. stale[l] \in Nat
    BY <1>3, GroupsAssumption DEF InvitesOK
  <2>. QED
    BY <1>2, <1>3, <2>1, WeightPositive, MineFinite, GroupsAssumption DEF InvitesOK
<1>. QED
  BY <1>4, <1>5, <1>6, <1>7

(* Without pets and character screens, whatever mix of inviting, joining,   *)
(* leaving, kicking, handing over and disconnecting has gone before, all    *)
(* variables have their types, GroupManager's counts of members are right,  *)
(* no group is left with one member, and nobody is in a group that is gone, *)
(* whose id the next group will get.                                        *)
THEOREM GroupsStayConsistent ==
  Spec => [](Calm => GroupsConsistent /\ NobodyInDeadGroup /\ SizeIsRight /\ NoLonelyGroups)
<1>1. IInv => (Calm => GroupsConsistent /\ NobodyInDeadGroup /\ SizeIsRight /\ NoLonelyGroups)
  BY GoodIsConsistent DEF IInv, GroupsOK, GroupsConsistent
<1>. QED
  BY <1>1, Reachable, PTL

(* can_invite is enough: where nobody hands over a group, none becomes      *)
(* larger than settings.max_player_group_size, although an invite may be    *)
(* answered long after it was checked, by then into another group.          *)
THEOREM GroupsStaySmall == Spec => [](PlayersOnly => SizeLimit)
<1>1. IInv => (PlayersOnly => SizeLimit)
  BY GoodIsSmall DEF IInv, GroupsOK, Calm, PlayersOnly
<1>. QED
  BY <1>1, Reachable, PTL

(* The ChangeNotifications that GroupManager sends add up to the group:     *)
(* each client shows the leader and all other members, also while groups    *)
(* are handed over, dissolved, and their ids given to others.               *)
THEOREM GroupsAreKnown == Spec => [](Calm => ClientsKnowGroup)
<1>1. IInv => (Calm => ClientsKnowGroup)
  BY GoodIsKnown DEF IInv, GroupsOK
<1>. QED
  BY <1>1, Reachable, PTL

----------------------------------------------------------------------------
(* Worlds with pets, of owners w, where the players in n are in the game.   *)

OwnedBy(w, p) == {x \in Pet : w[x] = p}

Owners(w) == w \in [Pet -> Player \cup {Gone, None}]

(* Nobody has two.                                                          *)
Single(w) == \A x, y \in Pet : w[x] \in Player /\ w[x] = w[y] => x = y

Numbered(b, c) ==
  /\ c \in Seq(Nat)
  /\ \E k \in Nat : DOMAIN b \cup Range(c) = 0..(k - 1)
  /\ DOMAIN b \cap Range(c) = {}
  /\ IsInjective(c)

(* Where there are players, their leader is one of them, and pets are with  *)
(* their owners; where there are none, there is at most one pet.            *)
Tidy(w, n, a, b, c) ==
  /\ a \in [Entity -> Nat \cup {None}]
  /\ b \in [DOMAIN b -> [leader : Player \cup {Gone}, num_members : Int]]
  /\ Numbered(b, c)
  /\ \A e \in Entity : a[e] # None => a[e] \in DOMAIN b
  /\ \A p \in Player : a[p] # None => p \in n
  /\ \A p \in Player : a[p] # None => b[a[p]].leader \in Player /\ a[b[a[p]].leader] = a[p]
  /\ \A x \in Pet, p \in Player : a[x] # None /\ a[p] = a[x] => w[x] \in Player /\ a[w[x]] = a[x]
  /\ \A x, y \in Pet : a[x] # None /\ a[x] = a[y] /\ x # y => \E p \in Player : a[p] = a[x]

Alone(a, p) == a[p] = None \/ \A q \in Player : a[q] = a[p] => q = p

LEMMA Kinds ==
  /\ \A p \in Player : p \in Entity /\ p \notin Pet /\ p # None /\ p # Gone
  /\ \A x \in Pet : x \in Entity /\ x \notin Player /\ x # None /\ x # Gone
  /\ None \notin Nat
BY GroupsAssumption DEF Entity

LEMMA IdsAreNumbers ==
  ASSUME NEW w, NEW n, NEW a, NEW b, NEW c, Tidy(w, n, a, b, c)
  PROVE  \A id \in DOMAIN b : id \in Nat /\ id # None
<1>1. PICK k \in Nat : DOMAIN b \cup Range(c) = 0..(k - 1)
  BY DEF Tidy, Numbered
<1>2. \A id \in DOMAIN b : id \in Nat
  BY <1>1
<1>. QED
  BY <1>2, Kinds

(* Those in M lose their groups: with a leader all others, with an owner    *)
(* the pets that are in the same group.                                     *)
LEMMA LeavesTidy ==
  ASSUME NEW w, NEW n, NEW a, NEW b, NEW c, Tidy(w, n, a, b, c), NEW M,
         \A p \in Player : p \in M /\ a[p] # None /\ b[a[p]].leader = p =>
           \A q \in Player : a[q] = a[p] => q \in M,
         \A x \in Pet : a[x] # None /\ w[x] \in M /\ a[w[x]] = a[x] => x \in M
  PROVE  Tidy(w, n, Now(a, M, None), b, c)
<1>. DEFINE a2 == Now(a, M, None)
<1>1. /\ \A e \in Entity : a2[e] = IF e \in M THEN None ELSE a[e]
      /\ a2 \in [Entity -> Nat \cup {None}]
  BY DEF Now, Tidy
<1>. HIDE DEF a2
<1>2. \A e \in Entity : a2[e] # None => a2[e] = a[e] /\ e \notin M
  BY <1>1
<1>3. \A e \in Entity : a2[e] # None => a2[e] \in DOMAIN b
  BY <1>2 DEF Tidy
<1>4. \A p \in Player : a2[p] # None => p \in n
  BY <1>2, Kinds DEF Tidy
<1>5. ASSUME NEW p \in Player, a2[p] # None
      PROVE  b[a2[p]].leader \in Player /\ a2[b[a2[p]].leader] = a2[p]
  <2>1. a2[p] = a[p] /\ p \notin M /\ b[a[p]].leader \in Player /\ a[b[a[p]].leader] = a[p]
    BY <1>2, <1>5, Kinds DEF Tidy
  <2>2. b[a[p]].leader \notin M
    BY <1>5, <2>1
  <2>. QED
    BY <1>1, <2>1, <2>2, Kinds
<1>6. ASSUME NEW x \in Pet, NEW p \in Player, a2[x] # None, a2[p] = a2[x]
      PROVE  w[x] \in Player /\ a2[w[x]] = a2[x]
  <2>1. a2[x] = a[x] /\ x \notin M /\ a2[p] = a[p]
    BY <1>2, <1>6, Kinds
  <2>2. w[x] \in Player /\ a[w[x]] = a[x]
    BY <1>6, <2>1 DEF Tidy
  <2>3. w[x] \notin M
    BY <1>6, <2>1, <2>2
  <2>. QED
    BY <1>1, <2>1, <2>2, <2>3, Kinds
<1>7. ASSUME NEW x \in Pet, NEW y \in Pet, a2[x] # None, a2[x] = a2[y], x # y
      PROVE  \E p \in Player : a2[p] = a2[x]
  <2>1. a2[x] = a[x] /\ x \notin M /\ a2[y] = a[y]
    BY <1>2, <1>7, Kinds
  <2>2. PICK p \in Player : a[p] = a[x]
    BY <1>7, <2>1 DEF Tidy
  <2>3. w[x] \in Player /\ a[w[x]] = a[x]
    BY <1>7, <2>1, <2>2 DEF Tidy
  <2>4. w[x] \notin M
    BY <1>7, <2>1, <2>3
  <2>. QED
    BY <1>1, <2>1, <2>3, <2>4, Kinds
<1>8. Tidy(w, n, a2, b, c)
  BY <1>1, <1>3, <1>4, <1>5, <1>6, <1>7 DEF Tidy
<1>. QED
  BY <1>8 DEF a2

LEMMA NewIdNumbered ==
  ASSUME NEW b, NEW c, Numbered(b, c), NEW l, NEW n
  PROVE  LET id == NewId(b, c)
         IN  /\ id \notin DOMAIN b /\ id \in Nat /\ id # None
             /\ Numbered(WithSlot(b, id, l, n), Rest(c))
<1>. DEFINE id == NewId(b, c)
            b2 == WithSlot(b, id, l, n)
            c2 == Rest(c)
<1>1. PICK k \in Nat : DOMAIN b \cup Range(c) = 0..(k - 1)
  BY DEF Numbered
<1>2. DOMAIN b \cap Range(c) = {} /\ IsInjective(c) /\ c \in Seq(Nat)
  BY DEF Numbered
<1>3. DOMAIN b2 = DOMAIN b \cup {id}
  BY DEF WithSlot, put
<1>4. CASE c = <<>>
  <2>1. Range(c) = {} /\ c2 = c /\ id = Cardinality(DOMAIN b)
    BY <1>4 DEF Range, Rest, NewId
  <2>2. DOMAIN b = 0..(k - 1)
    BY <1>1, <2>1
  <2>3. Cardinality(DOMAIN b) = k
    BY <2>2, FS_Interval
  <2>. HIDE DEF b2, c2, id
  <2>4. DOMAIN b2 \cup Range(c2) = 0..k
    BY <1>3, <2>1, <2>2, <2>3
  <2>5. k + 1 \in Nat /\ (k + 1) - 1 = k
    OBVIOUS
  <2>6. Numbered(b2, c2)
    BY <1>2, <2>1, <2>4, <2>5 DEF Numbered
  <2>7. id \notin DOMAIN b /\ id \in Nat
    BY <2>1, <2>2, <2>3
  <2>. QED
    BY <2>1, <2>6, <2>7, Kinds DEF id, b2, c2
<1>5. CASE c # <<>>
  <2>1. c2 = Tail(c) /\ id = Head(c) /\ c2 \in Seq(Nat) /\ id \in Nat
    BY <1>2, <1>5 DEF Rest, NewId
  <2>2. Range(c) = {id} \cup Range(c2) /\ IsInjective(c2) /\ id \notin Range(c2)
    BY <1>2, <1>5, <2>1, TailRange
  <2>. HIDE DEF b2, c2, id
  <2>3. id \notin DOMAIN b /\ DOMAIN b2 \cup Range(c2) = 0..(k - 1) /\ DOMAIN b2 \cap Range(c2) = {}
    BY <1>1, <1>2, <1>3, <2>2
  <2>4. Numbered(b2, c2)
    BY <2>1, <2>2, <2>3 DEF Numbered
  <2>. QED
    BY <2>1, <2>3, <2>4, Kinds DEF id, b2, c2
<1>. QED
  BY <1>4, <1>5

(* p goes to a new group, with some of their pets; with all of them if      *)
(* there are others in the group that p leaves to its leader.               *)
Founds(w, n, a, b, c, p, X, m) ==
  LET id == NewId(b, c)
      a2 == Now(a, {p} \cup X, id)
  IN  /\ Tidy(w, n, a2, WithSlot(b, id, p, m), Rest(c))
      /\ id \notin DOMAIN b
      /\ \A q \in Player : a2[q] = IF q = p THEN id ELSE a[q]

LEMMA FoundTidy ==
  ASSUME NEW w, NEW n, NEW a, NEW b, NEW c, Tidy(w, n, a, b, c), Owners(w), Single(w),
         NEW p \in Player, p \in n, NEW X, X \subseteq OwnedBy(w, p), NEW m \in Int,
         \/ Alone(a, p)
         \/ X = OwnedBy(w, p) /\ b[a[p]].leader # p
  PROVE  Founds(w, n, a, b, c, p, X, m)
<1>. DEFINE id == NewId(b, c)
            M == {p} \cup X
            a2 == Now(a, M, id)
            b2 == WithSlot(b, id, p, m)
            c2 == Rest(c)
<1>1. id \notin DOMAIN b /\ id \in Nat /\ id # None /\ Numbered(b2, c2)
  BY NewIdNumbered DEF Tidy
<1>2. /\ \A e \in Entity : a2[e] = IF e \in M THEN id ELSE a[e]
      /\ a2 \in [Entity -> Nat \cup {None}]
  BY <1>1 DEF Now, Tidy
<1>3. /\ DOMAIN b2 = DOMAIN b \cup {id}
      /\ b2[id].leader = p
      /\ \A x \in DOMAIN b : b2[x] = b[x]
      /\ b2 \in [DOMAIN b2 -> [leader : Player \cup {Gone}, num_members : Int]]
  BY <1>1 DEF WithSlot, put, Tidy
<1>4. /\ p \in M
      /\ \A q \in Player : q # p => q \notin M
      /\ \A x \in Pet : x \in M => x \in X /\ w[x] = p
  BY Kinds DEF OwnedBy
<1>5. \A e \in Entity : a[e] # id
  BY <1>1 DEF Tidy
<1>. HIDE DEF a2, b2, c2, id, M
<1>6. /\ \A q \in Player : a2[q] = IF q = p THEN id ELSE a[q]
      /\ \A x \in Pet : a2[x] = IF x \in M THEN id ELSE a[x]
  BY <1>2, <1>4, Kinds
<1>7. \A e \in Entity : a2[e] # None => a2[e] \in DOMAIN b2
  BY <1>2, <1>3 DEF Tidy
<1>8. \A q \in Player : a2[q] # None => q \in n
  BY <1>6 DEF Tidy
<1>9. ASSUME NEW q \in Player, a2[q] # None
      PROVE  b2[a2[q]].leader \in Player /\ a2[b2[a2[q]].leader] = a2[q]
  <2>1. CASE q = p
    BY <1>3, <1>6, <2>1
  <2>2. CASE q # p
    <3>. DEFINE l == b[a[q]].leader
    <3>1. a2[q] = a[q] /\ a[q] \in DOMAIN b /\ l \in Player /\ a[l] = a[q]
      BY <1>6, <1>9, <2>2, Kinds DEF Tidy
    <3>2. l # p
      BY <1>9, <2>2, <3>1 DEF Alone
    <3>. QED
      BY <1>3, <1>6, <3>1, <3>2
  <2>. QED
    BY <2>1, <2>2
<1>10. ASSUME NEW x \in Pet, NEW q \in Player, a2[x] # None, a2[q] = a2[x]
       PROVE  w[x] \in Player /\ a2[w[x]] = a2[x]
  <2>1. CASE x \in M
    BY <1>4, <1>6, <2>1
  <2>2. CASE x \notin M
    <3>1. a2[x] = a[x] /\ q # p /\ a2[q] = a[q]
      BY <1>5, <1>6, <1>10, <2>2, Kinds
    <3>2. w[x] \in Player /\ a[w[x]] = a[x]
      BY <1>10, <3>1 DEF Tidy
    <3>3. w[x] # p
      <4>1. ASSUME w[x] = p PROVE FALSE
        <5>1. ~Alone(a, p)
          BY <1>10, <3>1, <3>2, <4>1 DEF Alone
        <5>2. x \in X
          BY <4>1, <5>1 DEF OwnedBy
        <5>. QED
          BY <2>2, <5>2 DEF M
      <4>. QED
        BY <4>1
    <3>. QED
      BY <1>6, <3>1, <3>2, <3>3
  <2>. QED
    BY <2>1, <2>2
<1>11. ASSUME NEW x \in Pet, NEW y \in Pet, a2[x] # None, a2[x] = a2[y], x # y
       PROVE  \E q \in Player : a2[q] = a2[x]
  <2>1. CASE a2[x] = id
    BY <1>6, <2>1
  <2>2. CASE a2[x] # id
    <3>1. a2[x] = a[x] /\ a2[y] = a[y]
      BY <1>6, <1>11, <2>2
    <3>2. PICK q \in Player : a[q] = a[x]
      BY <1>11, <3>1 DEF Tidy
    <3>3. w[x] \in Player /\ a[w[x]] = a[x] /\ w[y] \in Player /\ a[w[y]] = a[y]
      BY <1>11, <3>1, <3>2 DEF Tidy
    <3>4. w[x] # p \/ w[y] # p
      BY <1>11, <3>3 DEF Single
    <3>. QED
      BY <1>6, <1>11, <3>1, <3>3, <3>4
  <2>. QED
    BY <2>1, <2>2
<1>12. Tidy(w, n, a2, b2, c2)
  BY <1>1, <1>2, <1>3, <1>7, <1>8, <1>9, <1>10, <1>11 DEF Tidy
<1>. QED
  BY <1>1, <1>6, <1>12 DEF a2, b2, c2, id, M, Founds

(* p, who leaves no other player behind, and their pets go to l's group.    *)
LEMMA JoinTidy ==
  ASSUME NEW w, NEW n, NEW a, NEW b, NEW c, Tidy(w, n, a, b, c), Owners(w),
         NEW p \in Player, p \in n, Alone(a, p),
         NEW l \in Player, l # p, a[l] # None, b[a[l]].leader = l
  PROVE  Tidy(w, n, Now(a, {p} \cup OwnedBy(w, p), a[l]), b, c)
<1>. DEFINE id == a[l]
            M == {p} \cup OwnedBy(w, p)
            a2 == Now(a, M, id)
<1>1. id \in DOMAIN b /\ id \in Nat \cup {None} /\ id # None
  BY Kinds DEF Tidy
<1>2. /\ \A e \in Entity : a2[e] = IF e \in M THEN id ELSE a[e]
      /\ a2 \in [Entity -> Nat \cup {None}]
  BY <1>1 DEF Now, Tidy
<1>3. /\ p \in M
      /\ \A q \in Player : q # p => q \notin M
      /\ \A x \in Pet : x \in M <=> w[x] = p
  BY Kinds DEF OwnedBy
<1>. HIDE DEF a2, id, M
<1>4. /\ \A q \in Player : a2[q] = IF q = p THEN id ELSE a[q]
      /\ \A x \in Pet : a2[x] = IF w[x] = p THEN id ELSE a[x]
  BY <1>2, <1>3, Kinds
<1>5. a2[l] = id /\ a[l] = id /\ b[id].leader = l
  BY <1>4 DEF id
<1>6. \A e \in Entity : a2[e] # None => a2[e] \in DOMAIN b
  BY <1>1, <1>2 DEF Tidy
<1>7. \A q \in Player : a2[q] # None => q \in n
  BY <1>4 DEF Tidy
<1>8. ASSUME NEW q \in Player, a2[q] # None
      PROVE  b[a2[q]].leader \in Player /\ a2[b[a2[q]].leader] = a2[q]
  <2>1. CASE a2[q] = id
    BY <1>5, <2>1
  <2>2. CASE a2[q] # id
    <3>. DEFINE k == b[a[q]].leader
    <3>1. q # p /\ a2[q] = a[q] /\ k \in Player /\ a[k] = a[q]
      BY <1>4, <1>8, <2>2 DEF Tidy
    <3>2. k # p
      BY <1>8, <3>1 DEF Alone
    <3>. QED
      BY <1>4, <3>1, <3>2
  <2>. QED
    BY <2>1, <2>2
<1>9. ASSUME NEW x \in Pet, NEW q \in Player, a2[x] # None, a2[q] = a2[x]
      PROVE  w[x] \in Player /\ a2[w[x]] = a2[x]
  <2>1. CASE w[x] = p
    BY <1>4, <2>1
  <2>2. CASE w[x] # p
    <3>1. a2[x] = a[x]
      BY <1>4, <2>2
    <3>2. \E r \in Player : a[r] = a[x]
      BY <1>4, <1>5, <1>9, <3>1
    <3>3. w[x] \in Player /\ a[w[x]] = a[x]
      BY <1>9, <3>1, <3>2 DEF Tidy
    <3>. QED
      BY <1>4, <2>2, <3>1, <3>3
  <2>. QED
    BY <2>1, <2>2
<1>10. ASSUME NEW x \in Pet, NEW y \in Pet, a2[x] # None, a2[x] = a2[y], x # y
       PROVE  \E q \in Player : a2[q] = a2[x]
  <2>1. CASE a2[x] = id
    BY <1>5, <2>1
  <2>2. CASE a2[x] # id
    <3>1. a2[x] = a[x] /\ a2[y] = a[y] /\ w[x] # p
      BY <1>4, <1>10, <2>2
    <3>2. PICK q \in Player : a[q] = a[x]
      BY <1>10, <3>1 DEF Tidy
    <3>3. w[x] \in Player /\ a[w[x]] = a[x]
      BY <1>10, <3>1, <3>2 DEF Tidy
    <3>. QED
      BY <1>4, <3>1, <3>3
  <2>. QED
    BY <2>1, <2>2
<1>11. Tidy(w, n, a2, b, c)
  BY <1>2, <1>6, <1>7, <1>8, <1>9, <1>10 DEF Tidy
<1>. QED
  BY <1>11 DEF a2, id, M

(* The slab changes, but who leads where there are players is there.        *)
LEMMA SlabTidy ==
  ASSUME NEW w, NEW n, NEW a, NEW b, NEW c, Tidy(w, n, a, b, c), NEW b2,
         DOMAIN b2 = DOMAIN b,
         \A id \in DOMAIN b : b2[id] \in [leader : Player \cup {Gone}, num_members : Int],
         b2 = [id \in DOMAIN b2 |-> b2[id]],
         \A p \in Player : a[p] # None => b2[a[p]].leader \in Player /\ a[b2[a[p]].leader] = a[p]
  PROVE  Tidy(w, n, a, b2, c)
<1>1. b2 \in [DOMAIN b2 -> [leader : Player \cup {Gone}, num_members : Int]]
  OBVIOUS
<1>2. Numbered(b2, c)
  BY DEF Tidy, Numbered
<1>. QED
  BY <1>1, <1>2 DEF Tidy

LEMMA RemovedTidy ==
  ASSUME NEW w, NEW n, NEW a, NEW b, NEW c, Tidy(w, n, a, b, c),
         NEW id \in DOMAIN b, \A e \in Entity : a[e] # id
  PROVE  Tidy(w, n, a, WithoutSlot(b, id), <<id>> \o c)
<1>. DEFINE b2 == WithoutSlot(b, id)
            c2 == <<id>> \o c
<1>1. PICK k \in Nat : DOMAIN b \cup Range(c) = 0..(k - 1)
  BY DEF Tidy, Numbered
<1>2. id \in Nat /\ c \in Seq(Nat) /\ DOMAIN b \cap Range(c) = {} /\ IsInjective(c)
  BY <1>1 DEF Tidy, Numbered
<1>3. c2 \in Seq(Nat) /\ Range(c2) = {id} \cup Range(c) /\ IsInjective(c2)
  BY <1>2, ConsRange
<1>4. /\ DOMAIN b2 = DOMAIN b \ {id}
      /\ \A x \in DOMAIN b2 : b2[x] = b[x]
      /\ b2 \in [DOMAIN b2 -> [leader : Player \cup {Gone}, num_members : Int]]
  BY DEF WithoutSlot, Tidy
<1>. HIDE DEF b2, c2
<1>5. Numbered(b2, c2)
  <2>1. DOMAIN b2 \cup Range(c2) = DOMAIN b \cup Range(c)
    BY <1>3, <1>4
  <2>. QED
    BY <1>1, <1>2, <1>3, <1>4, <2>1 DEF Numbered
<1>6. \A e \in Entity : a[e] # None => a[e] \in DOMAIN b2 /\ b2[a[e]] = b[a[e]]
  BY <1>4 DEF Tidy
<1>7. Tidy(w, n, a, b2, c2)
  BY <1>4, <1>5, <1>6, Kinds DEF Tidy
<1>. QED
  BY <1>7 DEF b2, c2

----------------------------------------------------------------------------
(* Groups only vanish.                                                      *)
Fading(a, a2) == \A e \in Entity : a2[e] \in {a[e], None}

(* Who was alone still is.                                                  *)
Apart(a, a2) == \A q \in Player : Alone(a, q) => Alone(a2, q)

LEMMA FadingApart == \A a, a2 : Fading(a, a2) => Apart(a, a2)
<1>. SUFFICES ASSUME NEW a, NEW a2, Fading(a, a2), NEW q \in Player, Alone(a, q), a2[q] # None,
                     NEW r \in Player, a2[r] = a2[q]
              PROVE  r = q
  BY DEF Apart, Alone
<1>1. a2[q] = a[q] /\ a2[r] = a[r]
  BY Kinds DEF Fading
<1>. QED
  BY <1>1 DEF Alone

(* Who is left in a group from which others have gone.                      *)
LEMMA ShrinkTidy ==
  ASSUME ingame \subseteq Player,
         NEW a, NEW b, NEW c, NEW d, Tidy(owner, ingame, a, b, c), NEW id \in DOMAIN b, NEW e,
         (\E p \in Player : a[p] = id) \/ (\A x \in Pet : a[x] # id)
  PROVE  \E a2, b2, c2, d2 :
           /\ Shrink(St(a, b, c, d), id, e) = St(a2, b2, c2, d2)
           /\ Tidy(owner, ingame, a2, b2, c2)
           /\ Fading(a, a2)
<1>. DEFINE g == St(a, b, c, d)
            b1 == IF e \in Player /\ b[id].num_members > 0 THEN Fewer(b, id) ELSE b
            S == {x \in ingame \cup Pet : a[x] = id}
            d1 == Losing(d, S, {e} \cup pets(e))
            told == Told(OneLess(g, id, e), id, e)
            l == b[id].leader
<1>0. b \in [DOMAIN b -> [leader : Player \cup {Gone}, num_members : Int]]
  BY DEF Tidy
<1>1. OneLess(g, id, e) = St(a, b1, c, d)
  <2>1. g.slab = b
    BY DEF St
  <2>2. [g EXCEPT !.slab[id].num_members = @ - 1] = St(a, Fewer(b, id), c, d)
    BY <2>1 DEF St, Fewer
  <2>3. CASE e \in Player /\ b[id].num_members > 0
    <3>1. b1 = Fewer(b, id)
      BY <2>3
    <3>. HIDE DEF g, b1
    <3>. QED
      BY <2>1, <2>2, <2>3, <3>1, Zenon DEF OneLess
  <2>4. CASE ~(e \in Player /\ b[id].num_members > 0)
    <3>1. b1 = b
      BY <2>4
    <3>2. OneLess(g, id, e) = g
      <4>. HIDE DEF g
      <4>. QED
        BY <2>1, <2>4, Zenon DEF OneLess
    <3>. QED
      BY <3>1, <3>2
  <2>. HIDE DEF g, b1
  <2>. QED
    BY <2>3, <2>4
<1>2. DOMAIN b1 = DOMAIN b /\ b1[id].leader = l /\ Tidy(owner, ingame, a, b1, c)
  <2>1. CASE b1 = b
    BY <2>1
  <2>2. CASE b1 = Fewer(b, id)
    <3>. DEFINE bb == Fewer(b, id)
    <3>1. /\ DOMAIN bb = DOMAIN b
          /\ bb = [x \in DOMAIN bb |-> bb[x]]
          /\ \A x \in DOMAIN b : bb[x].leader = b[x].leader
      BY <1>0 DEF Fewer
    <3>2. \A x \in DOMAIN b : bb[x] \in [leader : Player \cup {Gone}, num_members : Int]
      BY <1>0 DEF Fewer
    <3>. HIDE DEF bb
    <3>3. \A p \in Player : a[p] # None => a[p] \in DOMAIN b /\ b[a[p]].leader \in Player /\ a[b[a[p]].leader] = a[p]
      BY Kinds DEF Tidy
    <3>4. Tidy(owner, ingame, a, bb, c)
      BY <3>1, <3>2, <3>3, SlabTidy
    <3>. QED
      BY <2>2, <3>1, <3>4 DEF bb
  <2>. QED
    BY <2>1, <2>2
<1>. HIDE DEF b1
<1>3. \A x, y : members(St(a, x, c, y), id) = S
  <2>. SUFFICES ASSUME NEW x, NEW y PROVE members(St(a, x, c, y), id) = S
    OBVIOUS
  <2>1. St(a, x, c, y).group = a
    BY DEF St
  <2>. QED
    BY <2>1 DEF members
<1>4. told = St(a, b1, c, d1)
  <2>1. told = Removed(St(a, b1, c, d), S, {e} \cup pets(e))
    BY <1>1, <1>3 DEF Told
  <2>. HIDE DEF told, S
  <2>. QED
    BY <2>1, RemovedIs
<1>5. Shrink(g, id, e) = IF Cardinality(S) # 1 THEN told ELSE Dissolved(told, id)
  <2>1. members(g, id) = S
    BY <1>3
  <2>. HIDE DEF S, g
  <2>. QED
    BY <2>1, Zenon DEF Shrink
<1>6. CASE Cardinality(S) # 1
  <2>1. Fading(a, a)
    BY DEF Fading
  <2>. QED
    BY <1>2, <1>4, <1>5, <1>6, <2>1
<1>7. CASE Cardinality(S) = 1
  <2>0. id # None
    BY IdsAreNumbers
  <2>1. \A f \in Entity : a[f] = id => f \in S
    BY <2>0 DEF Tidy, Entity
  <2>2. PICK m : S = {m}
    <3>1. IsFiniteSet(S)
      <4>1. IsFiniteSet(ingame) /\ IsFiniteSet(Pet)
        BY FS_Subset, GroupsAssumption
      <4>2. IsFiniteSet(ingame \cup Pet)
        BY <4>1, FS_Union
      <4>. QED
        BY <4>2, FS_Subset
    <3>. HIDE DEF S
    <3>. QED
      BY <1>7, <3>1, FS_Singleton
  <2>3. PICK p \in Player : a[p] = id
    BY <2>2, GroupsAssumption
  <2>4. id # None /\ l \in Player /\ a[l] = id
    BY <2>0, <2>3 DEF Tidy
  <2>5. \A f \in Entity : a[f] = id => f = l
    BY <2>1, <2>2, <2>4, Kinds
  <2>. DEFINE a2 == Now(a, {l}, None)
              b2 == WithoutSlot(b1, id)
              c2 == <<id>> \o c
              d2 == Blank(d1, {l})
  <2>6. Dissolved(told, id) = St(a2, b2, c2, d2)
    <3>1. told.slab[id].leader = l
      BY <1>2, <1>4 DEF St
    <3>. HIDE DEF d1, l, told
    <3>2. remove_group(told, id) = St(a, b2, c2, d1)
      BY <1>4, RemoveIs
    <3>3. Dissolved(told, id) = NoGroupAnyMore(PutAll(remove_group(told, id), {l}, None), {l})
      BY <3>1 DEF Dissolved
    <3>4. PutAll(St(a, b2, c2, d1), {l}, None) = St(a2, b2, c2, d1)
      BY PutAllIs
    <3>. HIDE DEF a2, b2, c2
    <3>. QED
      BY <3>2, <3>3, <3>4, BlankIs
  <2>7. Tidy(owner, ingame, a2, b1, c)
    <3>1. \A q \in Player : q \in {l} /\ a[q] # None => \A r \in Player : a[r] = a[q] => r \in {l}
      BY <2>4, <2>5, Kinds
    <3>2. \A x \in Pet : a[x] # None /\ owner[x] \in {l} /\ a[owner[x]] = a[x] => x \in {l}
      BY <2>4, <2>5, Kinds
    <3>. HIDE DEF l
    <3>. QED
      BY <1>2, <3>1, <3>2, LeavesTidy
  <2>8. \A f \in Entity : a2[f] # id
    BY <2>4, <2>5 DEF Now
  <2>9. Tidy(owner, ingame, a2, b2, c2)
    <3>. HIDE DEF a2
    <3>. QED
      BY <1>2, <2>7, <2>8, RemovedTidy
  <2>10. Fading(a, a2)
    BY DEF Fading, Now
  <2>. QED
    BY <1>5, <1>7, <2>6, <2>9, <2>10
<1>. QED
  BY <1>6, <1>7


(* A player who does not lead departs: with all pets to a new group, or     *)
(* with all of them to none.                                                *)
LEMMA DepartTidy ==
  ASSUME ingame \subseteq Player, Owners(owner), Single(owner),
         NEW a, NEW b, NEW c, NEW d, Tidy(owner, ingame, a, b, c),
         NEW p \in Player, a[p] # None, b[a[p]].leader # p, NEW gone \in BOOLEAN
  PROVE  \E a2, b2, c2, d2 :
           /\ Depart(St(a, b, c, d), p, gone) = St(a2, b2, c2, d2)
           /\ Tidy(owner, ingame, a2, b2, c2)
           /\ Apart(a, a2) /\ Alone(a2, p) /\ (gone => a2[p] = None)
<1>. DEFINE g == St(a, b, c, d)
            id == a[p]
            l == b[id].leader
            X == pets(p)
            out == IF gone \/ p \in Pet THEN NoGroupAnyMore(PutAll(g, {p} \cup X, None), {p}) ELSE OnTheirOwn(g, p)
<1>1. /\ id \in DOMAIN b /\ l \in Player /\ a[l] = id /\ l # p /\ p \notin Pet /\ p \in ingame
      /\ X = OwnedBy(owner, p)
  BY Kinds DEF Tidy, pets, OwnedBy
<1>2. \E a1, b1, c1, d1 :
        /\ out = St(a1, b1, c1, d1)
        /\ Tidy(owner, ingame, a1, b1, c1)
        /\ id \in DOMAIN b1
        /\ \A q \in Player \ {p} : a1[q] = a[q]
        /\ Alone(a1, p) /\ (gone => a1[p] = None)
  <2>1. CASE gone \/ X = {}
    <3>. DEFINE a1 == Now(a, {p} \cup X, None)
                d1 == Blank(d, {p})
    <3>1. out = St(a1, b, c, d1)
      <4>1. NoGroupAnyMore(PutAll(g, {p} \cup X, None), {p}) = St(a1, b, c, d1)
        BY PutAllIs, BlankIs
      <4>2. X = {} => OnTheirOwn(g, p) = NoGroupAnyMore(PutAll(g, {p} \cup X, None), {p})
        <5>1. X = {} => {p} \cup X = {p}
          OBVIOUS
        <5>. QED
          BY <5>1 DEF OnTheirOwn
      <4>. QED
        BY <2>1, <4>1, <4>2
    <3>2. Tidy(owner, ingame, a1, b, c)
      <4>1. \A q \in Player : q \in {p} \cup X => q = p
        BY <1>1, Kinds DEF OwnedBy
      <4>2. \A x \in Pet : owner[x] \in {p} \cup X => owner[x] = p
        BY <1>1, Kinds DEF OwnedBy, Owners
      <4>3. \A x \in Pet : owner[x] = p => x \in {p} \cup X
        BY <1>1 DEF OwnedBy
      <4>. HIDE DEF X
      <4>. QED
        BY <4>1, <4>2, <4>3, LeavesTidy
    <3>3. a1[p] = None /\ \A q \in Player \ {p} : a1[q] = a[q]
      BY <1>1, Kinds DEF Now, OwnedBy
    <3>. QED
      BY <1>1, <3>1, <3>2, <3>3 DEF Alone
  <2>2. CASE ~gone /\ X # {}
    <3>. DEFINE nid == NewId(b, c)
                a1 == Now(a, {p} \cup X, nid)
                b1 == WithSlot(b, nid, p, 1)
                c1 == Rest(c)
    <3>1. /\ Tidy(owner, ingame, a1, b1, c1)
          /\ nid \notin DOMAIN b
          /\ \A q \in Player : a1[q] = IF q = p THEN nid ELSE a[q]
      <4>1. X \subseteq OwnedBy(owner, p) /\ X = OwnedBy(owner, p) /\ 1 \in Int
        BY <1>1
      <4>2. p \in ingame /\ b[a[p]].leader # p
        BY <1>1
      <4>. HIDE DEF X
      <4>3. Founds(owner, ingame, a, b, c, p, X, 1)
        BY <4>1, <4>2, FoundTidy
      <4>. QED
        BY <4>3 DEF Founds
    <3>2. id \in DOMAIN b1
      BY <1>1 DEF WithSlot, put
    <3>3. \E d1 : out = St(a1, b1, c1, d1)
      <4>. DEFINE d1 == [q \in Player |-> IF q \in {p} THEN [leader |-> p, members |-> X] ELSE d[q]]
      <4>1. create_group(g, p, 1) = St(a, b1, c1, d) /\ NextId(g) = nid
        BY CreateIs
      <4>2. PutAll(St(a, b1, c1, d), {p} \cup X, nid) = St(a1, b1, c1, d)
        BY PutAllIs
      <4>3. NewGroup(St(a1, b1, c1, d), p) = St(a1, b1, c1, d1)
        BY DEF NewGroup, Show, St
      <4>4. out = OnTheirOwn(g, p)
        BY <1>1, <2>2
      <4>5. OnTheirOwn(g, p) = NewGroup(PutAll(create_group(g, p, 1), {p} \cup X, NextId(g)), p)
        BY <2>2 DEF OnTheirOwn
      <4>. HIDE DEF out, a1, b1, c1, g, nid, X, d1
      <4>6. out = St(a1, b1, c1, d1)
        BY <4>1, <4>2, <4>3, <4>4, <4>5
      <4>. QED
        BY <4>6
    <3>4. Alone(a1, p)
      <4>1. \A q \in Player : a[q] # nid
        BY <3>1, NewIdNumbered, Kinds DEF Tidy
      <4>. HIDE DEF a1, nid
      <4>. QED
        BY <3>1, <4>1 DEF Alone
    <3>5. \A q \in Player \ {p} : a1[q] = a[q]
      BY <3>1
    <3>. HIDE DEF a1, b1, c1, out
    <3>. QED
      BY <2>2, <3>1, <3>2, <3>3, <3>4, <3>5
  <2>. QED
    BY <2>1, <2>2
<1>3. PICK a1, b1, c1, d1 :
        /\ out = St(a1, b1, c1, d1)
        /\ Tidy(owner, ingame, a1, b1, c1)
        /\ id \in DOMAIN b1
        /\ \A q \in Player \ {p} : a1[q] = a[q]
        /\ Alone(a1, p) /\ (gone => a1[p] = None)
  BY <1>2
<1>4. Depart(g, p, gone) = Shrink(St(a1, b1, c1, d1), id, p)
  <2>1. g.group[p] = id /\ out.slab = b1
    BY <1>3 DEF St
  <2>2. Depart(g, p, gone) = IF id \in DOMAIN out.slab THEN Shrink(out, id, p) ELSE out
    <3>. HIDE DEF g, id
    <3>. QED
      BY <2>1, Zenon DEF Depart
  <2>. HIDE DEF out, g
  <2>. QED
    BY <1>3, <2>1, <2>2
<1>5. \E q \in Player : a1[q] = id
  BY <1>1, <1>3
<1>. HIDE DEF id, out, g
<1>6. PICK a2, b2, c2, d2 :
        /\ Shrink(St(a1, b1, c1, d1), id, p) = St(a2, b2, c2, d2)
        /\ Tidy(owner, ingame, a2, b2, c2)
        /\ Fading(a1, a2)
  BY <1>3, <1>5, ShrinkTidy
<1>7. Apart(a, a1)
  <2>. SUFFICES ASSUME NEW q \in Player, Alone(a, q), q # p, a1[q] # None,
                       NEW r \in Player, a1[r] = a1[q]
                PROVE  r = q
    BY <1>3 DEF Apart, Alone
  <2>1. CASE r = p
    BY <1>3, <2>1 DEF Alone
  <2>2. CASE r # p
    BY <1>3, <2>2 DEF Alone
  <2>. QED
    BY <2>1, <2>2
<1>8. Apart(a1, a2) /\ (a1[p] = None => a2[p] = None)
  BY <1>6, FadingApart, Kinds DEF Fading
<1>9. Apart(a, a2) /\ Alone(a2, p) /\ (gone => a2[p] = None)
  BY <1>3, <1>7, <1>8 DEF Apart
<1>. QED
  BY <1>4, <1>6, <1>9 DEF g

(* Who founds a group is alone in it.                                       *)
LEMMA FoundApart ==
  ASSUME NEW w, NEW n, NEW a, NEW b, NEW c, Tidy(w, n, a, b, c),
         NEW p \in Player, NEW X, NEW m, Founds(w, n, a, b, c, p, X, m)
  PROVE  /\ Apart(a, Now(a, {p} \cup X, NewId(b, c)))
         /\ Alone(Now(a, {p} \cup X, NewId(b, c)), p)
<1>. DEFINE id == NewId(b, c)
            a2 == Now(a, {p} \cup X, id)
<1>1. id \notin DOMAIN b /\ \A q \in Player : a2[q] = IF q = p THEN id ELSE a[q]
  BY DEF Founds
<1>2. id # None
  BY NewIdNumbered DEF Tidy
<1>. HIDE DEF id, a2
<1>3. \A q \in Player : a[q] # id
  BY <1>1, <1>2, Kinds DEF Tidy
<1>4. Alone(a2, p)
  BY <1>1, <1>3 DEF Alone
<1>5. ASSUME NEW q \in Player, Alone(a, q) PROVE Alone(a2, q)
  <2>1. CASE q = p
    BY <1>4, <2>1
  <2>2. CASE q # p
    BY <1>1, <1>3, <1>5, <2>2 DEF Alone
  <2>. QED
    BY <2>1, <2>2
<1>. QED
  BY <1>4, <1>5 DEF Apart, id, a2

(* When the group is dissolved, q goes on with the pets that are left.      *)
Onward(h, q, left) ==
  IF pets(q) \cap left = {} THEN NoGroupAnyMore(PutAll(h, {q}, None), {q})
  ELSE NewGroup(PutAll(create_group(h, q, 1), {q} \cup (pets(q) \cap left), NextId(h)), q)

Views == [leader : Player \cup {None}, members : SUBSET Pet]

(* What clients show is as before, or one of the views above.               *)
Shows(d, d2) == d2 = [r \in Player |-> d2[r]] /\ \A r \in Player : d2[r] \in {d[r]} \cup Views

(* Those in D still have the id of the group that is dissolved.             *)
GoesOn(a, b, c, d, D, q, left) ==
  \E a2, b2, c2, d2 :
    /\ Onward(St(a, b, c, d), q, left) = St(a2, b2, c2, d2)
    /\ a2 \in [Entity -> Nat \cup {None}]
    /\ Shows(d, d2)
    /\ Tidy(owner, ingame, Now(a2, D \ {q}, None), b2, c2)
    /\ Apart(Now(a, D, None), Now(a2, D \ {q}, None))

LEMMA OnwardTidy ==
  ASSUME Owners(owner), Single(owner),
         NEW a \in [Entity -> Nat \cup {None}], NEW b, NEW c, NEW d,
         NEW D, D \subseteq Player, NEW q \in D, q \in ingame, NEW left,
         Tidy(owner, ingame, Now(a, D, None), b, c)
  PROVE  GoesOn(a, b, c, d, D, q, left)
<1>. DEFINE X == pets(q) \cap left
            g == St(a, b, c, d)
            a1 == Now(a, D, None)
<1>1. q \in Player /\ X \subseteq OwnedBy(owner, q) /\ X \subseteq Pet
  BY DEF pets, OwnedBy
<1>2. a1[q] = None /\ Alone(a1, q) /\ Tidy(owner, ingame, a1, b, c)
  BY <1>1, Kinds DEF Now, Alone
<1>3. CASE X = {}
  <2>. DEFINE a2 == Now(a, {q}, None)
              d2 == Blank(d, {q})
  <2>1. Onward(g, q, left) = St(a2, b, c, d2)
    <3>1. Onward(g, q, left) = NoGroupAnyMore(PutAll(g, {q}, None), {q})
      BY <1>3 DEF Onward
    <3>2. PutAll(g, {q}, None) = St(a2, b, c, d)
      BY PutAllIs
    <3>. HIDE DEF g, a2
    <3>. QED
      BY <3>1, <3>2, BlankIs
  <2>2. a2 \in [Entity -> Nat \cup {None}]
    BY DEF Now
  <2>3. Now(a2, D \ {q}, None) = a1
    BY DEF Now
  <2>4. Shows(d, d2)
    BY DEF Shows, Blank, Views, NoGroup
  <2>5. Apart(a1, a1)
    BY DEF Apart
  <2>. HIDE DEF a2, d2, a1
  <2>. QED
    BY <2>1, <2>2, <2>3, <2>4, <2>5 DEF GoesOn, a1
<1>4. CASE X # {}
  <2>. DEFINE id == NewId(b, c)
              M == {q} \cup X
              a2 == Now(a, M, id)
              b2 == WithSlot(b, id, q, 1)
              c2 == Rest(c)
              d2 == [r \in Player |-> IF r \in {q} THEN [leader |-> q, members |-> pets(q)] ELSE d[r]]
  <2>1. Onward(g, q, left) = St(a2, b2, c2, d2)
    <3>1. Onward(g, q, left) = NewGroup(PutAll(create_group(g, q, 1), M, NextId(g)), q)
      BY <1>4 DEF Onward
    <3>2. create_group(g, q, 1) = St(a, b2, c2, d) /\ NextId(g) = id
      BY CreateIs
    <3>3. PutAll(St(a, b2, c2, d), M, id) = St(a2, b2, c2, d)
      BY PutAllIs
    <3>4. NewGroup(St(a2, b2, c2, d), q) = St(a2, b2, c2, d2)
      BY DEF NewGroup, Show, St
    <3>. HIDE DEF g, id, M, a2, b2, c2, d2
    <3>. QED
      BY <3>1, <3>2, <3>3, <3>4
  <2>2. id \in Nat
    BY NewIdNumbered DEF Tidy
  <2>3. a2 \in [Entity -> Nat \cup {None}]
    <3>. HIDE DEF id, M
    <3>. QED
      BY <2>2 DEF Now
  <2>4. Shows(d, d2)
    BY <1>1 DEF Shows, Views, pets
  <2>5. Founds(owner, ingame, a1, b, c, q, X, 1)
    <3>1. 1 \in Int
      OBVIOUS
    <3>. HIDE DEF a1, X
    <3>. QED
      BY <1>1, <1>2, <3>1, FoundTidy
  <2>6. Now(a2, D \ {q}, None) = Now(a1, M, id)
    <3>1. \A x \in X : x \notin D
      BY <1>1, Kinds
    <3>. HIDE DEF X, id
    <3>. QED
      BY <3>1 DEF Now
  <2>7. Apart(a1, Now(a1, M, id))
    <3>. HIDE DEF a1, X
    <3>. QED
      BY <1>1, <1>2, <2>5, FoundApart
  <2>8. Tidy(owner, ingame, Now(a1, M, id), b2, c2)
    <3>. HIDE DEF a1, X
    <3>. QED
      BY <2>5 DEF Founds
  <2>. HIDE DEF a2, b2, c2, d2, a1, M, id
  <2>. QED
    BY <2>1, <2>3, <2>4, <2>6, <2>7, <2>8 DEF GoesOn, a1
<1>. QED
  BY <1>3, <1>4

(* A group is dissolved; h is what is left of it when those in D have still *)
(* to go on, and the others in G are on their own.                          *)
Dissolving(a, d, G, D, h) ==
  \E a2, b2, c2, d2 :
    /\ h = St(a2, b2, c2, d2)
    /\ a2 \in [Entity -> Nat \cup {None}]
    /\ \A r \in Player : d2[r] \in {d[r]} \cup Views
    /\ Tidy(owner, ingame, Now(a2, D, None), b2, c2)
    /\ \A r \in Player : r \in G \/ Alone(a, r) => Alone(Now(a2, D, None), r)

Slabs == UNION {[E -> [leader : Player \cup {Gone}, num_members : Int]] : E \in SUBSET Nat}

Worlds(d) ==
  {St(x, y, z, v) : x \in [Entity -> Nat \cup {None}], y \in Slabs, z \in Seq(Nat),
                    v \in [Player -> Views \cup {d[r] : r \in Player}]}

LEMMA InWorlds ==
  ASSUME NEW d, NEW n, NEW a \in [Entity -> Nat \cup {None}], NEW b, NEW c, NEW d2,
         NEW D, Tidy(owner, n, Now(a, D, None), b, c),
         d2 = [r \in Player |-> d2[r]], \A r \in Player : d2[r] \in {d[r]} \cup Views
  PROVE  St(a, b, c, d2) \in Worlds(d)
<1>. DEFINE DD == [Player -> Views \cup {d[r] : r \in Player}]
<1>1. b \in Slabs
  <2>1. DOMAIN b \in SUBSET Nat
    BY IdsAreNumbers
  <2>2. b \in [DOMAIN b -> [leader : Player \cup {Gone}, num_members : Int]]
    BY DEF Tidy
  <2>. QED
    BY <2>1, <2>2 DEF Slabs
<1>2. c \in Seq(Nat)
  BY DEF Tidy, Numbered
<1>3. d2 \in DD
  BY Zenon
<1>4. Worlds(d) = {St(x, y, z, v) : x \in [Entity -> Nat \cup {None}], y \in Slabs, z \in Seq(Nat), v \in DD}
  BY DEF Worlds
<1>. HIDE DEF DD
<1>. QED
  BY <1>1, <1>2, <1>3, <1>4

LEMMA OnwardDissolves ==
  ASSUME Owners(owner), Single(owner), NEW a, NEW d, NEW G, NEW D, D \subseteq Player,
         NEW h, Dissolving(a, d, G, D, h), NEW q \in D, q \in ingame, NEW left
  PROVE  /\ Dissolving(a, d, G, D \ {q}, Onward(h, q, left))
         /\ Onward(h, q, left) \in Worlds(d)
<1>1. PICK a1, b1, c1, d1 :
        /\ h = St(a1, b1, c1, d1)
        /\ a1 \in [Entity -> Nat \cup {None}]
        /\ \A r \in Player : d1[r] \in {d[r]} \cup Views
        /\ Tidy(owner, ingame, Now(a1, D, None), b1, c1)
        /\ \A r \in Player : r \in G \/ Alone(a, r) => Alone(Now(a1, D, None), r)
  BY DEF Dissolving
<1>2. GoesOn(a1, b1, c1, d1, D, q, left)
  BY <1>1, OnwardTidy
<1>3. PICK a2, b2, c2, d2 :
        /\ Onward(St(a1, b1, c1, d1), q, left) = St(a2, b2, c2, d2)
        /\ a2 \in [Entity -> Nat \cup {None}]
        /\ Shows(d1, d2)
        /\ Tidy(owner, ingame, Now(a2, D \ {q}, None), b2, c2)
        /\ Apart(Now(a1, D, None), Now(a2, D \ {q}, None))
  BY <1>2 DEF GoesOn
<1>4. d2 = [r \in Player |-> d2[r]] /\ \A r \in Player : d2[r] \in {d[r]} \cup Views
  BY <1>1, <1>3 DEF Shows
<1>5. \A r \in Player : r \in G \/ Alone(a, r) => Alone(Now(a2, D \ {q}, None), r)
  BY <1>1, <1>3 DEF Apart
<1>6. Onward(h, q, left) = St(a2, b2, c2, d2)
  BY <1>1, <1>3
<1>7. St(a2, b2, c2, d2) \in Worlds(d)
  BY <1>3, <1>4, InWorlds
<1>. QED
  BY <1>3, <1>4, <1>5, <1>6, <1>7 DEF Dissolving

LEMMA DisbandTidy ==
  ASSUME ingame \subseteq Player, Owners(owner), Single(owner),
         NEW a, NEW b, NEW c, NEW d, Tidy(owner, ingame, a, b, c),
         NEW p \in Player, a[p] # None, NEW gone \in BOOLEAN
  PROVE  \E a2, b2, c2, d2 :
           /\ Disband(St(a, b, c, d), p, gone) = St(a2, b2, c2, d2)
           /\ Tidy(owner, ingame, a2, b2, c2)
           /\ Apart(a, a2) /\ Alone(a2, p) /\ (gone => a2[p] = None)
<1>. DEFINE id == a[p]
            del == IF gone THEN {p} ELSE {}
            left == {e \in Entity : a[e] = id} \ del
            L == left \cap Player
            seq == SetToSeq(L)
            S == DOMAIN seq
            b2 == WithoutSlot(b, id)
            c2 == <<id>> \o c
            base == PutAll(remove_group(St(a, b, c, d), id), left \cap Pet, None)
            with(h, q) ==
              IF pets(q) \cap left = {} THEN NoGroupAnyMore(PutAll(h, {q}, None), {q})
              ELSE NewGroup(PutAll(create_group(h, q, 1), {q} \cup (pets(q) \cap left), NextId(h)), q)
            Rec(H) == [s \in SUBSET S |->
                         IF s = {} THEN base ELSE with(H[s \ {Max(s)}], seq[Max(s)])]
            F == CHOOSE H : H = Rec(H)
            D(s) == (L \ {seq[k] : k \in s}) \cup del
            U == Worlds(d) \cup {base}
            V == [s \in SUBSET S |-> {y \in U : Dissolving(a, d, L \cup del, D(s), y)}]
            n == Cardinality(L)
            f == [x \in U \X S |-> with(x[1], seq[x[2]])]
<1>1. Disband(St(a, b, c, d), p, gone) = PutAll(F[S], del, None)
  <2>1. St(a, b, c, d).group = a
    BY DEF St
  <2>. QED
    BY <2>1 DEF Disband, FoldLeft, MapThenFoldSet
<1>2. /\ L \subseteq Player /\ L \cap del = {} /\ IsFiniteSet(L) /\ p \in L \cup del /\ del \subseteq Player
      /\ \A q \in L : q \in ingame
      /\ \A e \in Entity : a[e] = id <=> e \in left \cap Pet \/ e \in L \cup del
      /\ id \in DOMAIN b
  <2>1. L \subseteq Player /\ L \cap del = {} /\ p \in L \cup del /\ del \subseteq Player
    BY Kinds
  <2>2. IsFiniteSet(L)
    BY <2>1, GroupsAssumption, FS_Subset
  <2>3. \A q \in L : q \in ingame
    BY DEF Tidy
  <2>4. \A e \in Entity : a[e] = id <=> e \in left \cap Pet \/ e \in L \cup del
    BY Kinds DEF Entity
  <2>5. id \in DOMAIN b
    BY Kinds DEF Tidy
  <2>. HIDE DEF L, left, del, id
  <2>. QED
    BY <2>1, <2>2, <2>3, <2>4, <2>5
<1>3. /\ S = 1..n /\ n \in Nat /\ IsFiniteSet(S)
      /\ \A k \in S : seq[k] \in L
      /\ \A j, k \in S : seq[j] = seq[k] => j = k
      /\ {seq[k] : k \in S} = L
      /\ \A s \in SUBSET S : s # {} => Max(s) \in s
  <2>. HIDE DEF L
  <2>1. /\ seq \in [1..n -> L] /\ n \in Nat /\ IsInjective(seq)
        /\ \A x \in L : \E k \in 1..n : seq[k] = x
    BY <1>2, SeqOfSet
  <2>2. S = 1..n
    BY <2>1
  <2>3. IsFiniteSet(S) /\ \A s \in SUBSET S : s # {} => Max(s) \in s
    BY <2>1, <2>2, Positions
  <2>4. \A j, k \in S : seq[j] = seq[k] => j = k
    BY <2>1 DEF IsInjective
  <2>. HIDE DEF seq, S, n
  <2>. QED
    BY <2>1, <2>2, <2>3, <2>4
<1>. DEFINE a0 == Now(a, left \cap Pet, None)
            a1 == Now(a0, L \cup del, None)
<1>4. base = St(a0, b2, c2, d)
  <2>1. remove_group(St(a, b, c, d), id) = St(a, b2, c2, d)
    BY RemoveIs
  <2>. HIDE DEF b2, c2, id, left
  <2>. QED
    BY <2>1, PutAllIs
<1>5. /\ Tidy(owner, ingame, a1, b2, c2)
      /\ \A r \in Player : r \in L \cup del \/ Alone(a, r) => Alone(a1, r)
  <2>. DEFINE M == {e \in Entity : a[e] = id}
  <2>1. a1 = Now(a, M, None)
    <3>. HIDE DEF left, L, del, id
    <3>. QED
      BY <1>2 DEF Now
  <2>2. Tidy(owner, ingame, a1, b, c)
    <3>1. \A q \in Player : q \in M /\ a[q] # None /\ b[a[q]].leader = q =>
            \A r \in Player : a[r] = a[q] => r \in M
      BY Kinds
    <3>2. \A x \in Pet : a[x] # None /\ owner[x] \in M /\ a[owner[x]] = a[x] => x \in M
      BY Kinds
    <3>. HIDE DEF M
    <3>3. Tidy(owner, ingame, Now(a, M, None), b, c)
      BY <3>1, <3>2, LeavesTidy
    <3>. HIDE DEF a1
    <3>. QED
      BY <2>1, <3>3
  <2>3. \A e \in Entity : a1[e] # id
    <3>. HIDE DEF a1
    <3>. QED
      BY <2>1 DEF Now
  <2>4. Tidy(owner, ingame, a1, b2, c2)
    <3>. HIDE DEF a1, id
    <3>. QED
      BY <1>2, <2>2, <2>3, RemovedTidy
  <2>5. Apart(a, a1)
    <3>1. Fading(a, a1)
      BY <2>1 DEF Fading, Now
    <3>. HIDE DEF a1
    <3>. QED
      BY <3>1, FadingApart
  <2>6. \A r \in L \cup del : a1[r] = None
    <3>. HIDE DEF a0, L, del
    <3>. QED
      BY <1>2, Kinds DEF Now
  <2>. HIDE DEF a1, L, del
  <2>. QED
    BY <2>4, <2>5, <2>6 DEF Apart, Alone
<1>6. base \in V[{}]
  <2>1. D({}) = L \cup del /\ {} \in SUBSET S
    OBVIOUS
  <2>2. Dissolving(a, d, L \cup del, L \cup del, base)
    <3>1. a0 \in [Entity -> Nat \cup {None}]
      <4>. HIDE DEF left
      <4>. QED
        BY DEF Now, Tidy
    <3>. HIDE DEF base, a0, b2, c2, L, del
    <3>. QED
      BY <1>4, <1>5, <3>1 DEF Dissolving
  <2>. HIDE DEF base, L, del
  <2>3. base \in U
    OBVIOUS
  <2>. QED
    BY <2>1, <2>2, <2>3
<1>7. ASSUME NEW s \in SUBSET S, NEW k \in s, NEW y \in V[s \ {k}]
      PROVE  y \in U /\ with(y, seq[k]) \in V[s]
  <2>. DEFINE q == seq[k]
              r == s \ {k}
  <2>1. y \in U /\ Dissolving(a, d, L \cup del, D(r), y) /\ q \in L /\ q \in ingame
    <3>. HIDE DEF U, D, base, L, del
    <3>. QED
      BY <1>2, <1>3
  <2>2. q \in D(r) /\ D(s) = D(r) \ {q} /\ D(r) \subseteq Player
    <3>1. \A j \in r : seq[j] # q
      BY <1>3
    <3>2. {seq[j] : j \in s} = {seq[j] : j \in r} \cup {q}
      OBVIOUS
    <3>. HIDE DEF L, del, q, r, seq
    <3>. QED
      BY <1>2, <2>1, <3>1, <3>2
  <2>3. with(y, q) = Onward(y, q, left)
    BY DEF Onward
  <2>. HIDE DEF D, with, q, L, del, left, base
  <2>4. PICK E : E = D(r)
    OBVIOUS
  <2>5. Dissolving(a, d, L \cup del, E \ {q}, Onward(y, q, left)) /\ Onward(y, q, left) \in Worlds(d)
    BY <2>1, <2>2, <2>4, OnwardDissolves
  <2>6. Dissolving(a, d, L \cup del, D(s), with(y, q)) /\ with(y, q) \in U
    BY <2>2, <2>3, <2>4, <2>5 DEF U
  <2>. QED
    BY <2>1, <2>6 DEF q
<1>. HIDE DEF L, left, del, seq, with, V, base, a0, b2, c2, U
<1>8. StepsKnown(n, V, f)
  <2>. SUFFICES ASSUME NEW s \in SUBSET (1..n), s # {}, NEW y \in V[s \ {Max(s)}]
                PROVE  f[<<y, Max(s)>>] \in V[s]
    BY DEF StepsKnown
  <2>1. Max(s) \in s /\ Max(s) \in S
    BY <1>3
  <2>2. y \in U /\ with(y, seq[Max(s)]) \in V[s]
    BY <1>3, <1>7, <2>1
  <2>. QED
    BY <2>1, <2>2
<1>9. PICK G : G = Recursion(n, base, f, G) /\ Known(n, V, G)
  <2>. HIDE DEF f
  <2>. QED
    BY <1>3, <1>6, <1>8, FoldExists
<1>10. \A s \in SUBSET S : G[s] \in V[s]
  BY <1>3, <1>9 DEF Known
<1>11. G = Rec(G)
  <2>1. ASSUME NEW s \in SUBSET S
        PROVE  G[s] = IF s = {} THEN base ELSE with(G[s \ {Max(s)}], seq[Max(s)])
    <3>1. s # {} => G[s \ {Max(s)}] \in U /\ Max(s) \in S
      BY <1>3, <1>7, <1>10
    <3>2. G[s] = IF s = {} THEN base ELSE f[<<G[s \ {Max(s)}], Max(s)>>]
      BY <1>3, <1>9 DEF Recursion
    <3>. QED
      BY <3>1, <3>2
  <2>2. G = [s \in SUBSET S |-> G[s]]
    BY <1>3, <1>9 DEF Recursion
  <2>. QED
    BY <2>1, <2>2
<1>12. F = Rec(F)
  BY <1>11
<1>. HIDE DEF F
<1>13. F[{}] = G[{}] /\ Follows(F, G, S)
  <2>1. \A s \in SUBSET S : F[s] = IF s = {} THEN base ELSE with(F[s \ {Max(s)}], seq[Max(s)])
    BY <1>12
  <2>2. \A s \in SUBSET S : G[s] = IF s = {} THEN base ELSE with(G[s \ {Max(s)}], seq[Max(s)])
    BY <1>11
  <2>3. ASSUME NEW s \in SUBSET S, s # {}, F[s \ {Max(s)}] = G[s \ {Max(s)}]
        PROVE  F[s] = G[s]
    BY <2>1, <2>2, <2>3
  <2>4. F[{}] = G[{}]
    BY <2>1, <2>2
  <2>. QED
    BY <1>3, <2>3, <2>4 DEF Follows
<1>14. F[S] \in V[S]
  <2>1. F[S] = G[S]
    BY <1>3, <1>13, FoldUnique
  <2>. QED
    BY <1>10, <2>1
<1>15. Dissolving(a, d, L \cup del, del, F[S])
  <2>1. D(S) = del
    BY <1>3
  <2>2. Dissolving(a, d, L \cup del, D(S), F[S])
    <3>. HIDE DEF D
    <3>. QED
      BY <1>14 DEF V
  <2>. HIDE DEF D, S
  <2>. QED
    BY <2>1, <2>2
<1>16. PICK a3, b3, c3, d3 :
         /\ F[S] = St(a3, b3, c3, d3)
         /\ Tidy(owner, ingame, Now(a3, del, None), b3, c3)
         /\ \A r \in Player : r \in L \cup del \/ Alone(a, r) => Alone(Now(a3, del, None), r)
  BY <1>15 DEF Dissolving
<1>. DEFINE a4 == Now(a3, del, None)
<1>17. Disband(St(a, b, c, d), p, gone) = St(a4, b3, c3, d3)
  <2>. HIDE DEF S
  <2>. QED
    BY <1>1, <1>16, PutAllIs
<1>18. gone => a4[p] = None
  BY Kinds DEF del, Now
<1>19. Apart(a, a4) /\ Alone(a4, p)
  <2>. HIDE DEF a4
  <2>1. \A r \in Player : r \in L \cup del \/ Alone(a, r) => Alone(a4, r)
    BY <1>16 DEF a4
  <2>. QED
    BY <1>2, <2>1 DEF Apart
<1>. HIDE DEF a4
<1>20. Tidy(owner, ingame, a4, b3, c3)
  BY <1>16 DEF a4
<1>. QED
  BY <1>17, <1>18, <1>19, <1>20

----------------------------------------------------------------------------
(* p has left, to be alone with their pets or, when they are gone, nowhere. *)
Leaves(a, p, gone, h) ==
  \E a2, b2, c2, d2 :
    /\ h = St(a2, b2, c2, d2)
    /\ Tidy(owner, ingame, a2, b2, c2)
    /\ Apart(a, a2) /\ Alone(a2, p) /\ (gone => a2[p] = None)

LEMMA LeaveTidy ==
  ASSUME ingame \subseteq Player, Owners(owner), Single(owner),
         NEW a, NEW b, NEW c, NEW d, Tidy(owner, ingame, a, b, c),
         NEW p \in Player, NEW gone \in BOOLEAN
  PROVE  Leaves(a, p, gone, remove_from_group(St(a, b, c, d), p, gone))
<1>. DEFINE g == St(a, b, c, d)
<1>1. /\ g.group = a
      /\ leads(g, p) <=> a[p] # None /\ a[p] \in DOMAIN b /\ b[a[p]].leader = p
  BY LeadsIs DEF St
<1>2. remove_from_group(g, p, gone) =
        IF a[p] = None THEN g ELSE IF leads(g, p) THEN Disband(g, p, gone) ELSE Depart(g, p, gone)
  <2>. HIDE DEF g
  <2>. QED
    BY <1>1 DEF remove_from_group
<1>3. CASE a[p] = None
  <2>1. Apart(a, a) /\ Alone(a, p)
    BY <1>3 DEF Apart, Alone
  <2>. QED
    BY <1>2, <1>3, <2>1 DEF Leaves
<1>4. CASE a[p] # None /\ leads(g, p)
  <2>1. remove_from_group(g, p, gone) = Disband(g, p, gone)
    BY <1>2, <1>4
  <2>2. Leaves(a, p, gone, Disband(g, p, gone))
    BY <1>4, DisbandTidy DEF Leaves
  <2>. QED
    BY <2>1, <2>2
<1>5. CASE a[p] # None /\ ~leads(g, p)
  <2>1. remove_from_group(g, p, gone) = Depart(g, p, gone)
    BY <1>2, <1>5
  <2>2. b[a[p]].leader # p
    BY <1>1, <1>5, Kinds DEF Tidy
  <2>3. Leaves(a, p, gone, Depart(g, p, gone))
    BY <1>5, <2>2, DepartTidy DEF Leaves
  <2>. QED
    BY <2>1, <2>3
<1>. QED
  BY <1>3, <1>4, <1>5

(* A pet is gone.                                                           *)
LEMMA PetGoneTidy ==
  ASSUME ingame \subseteq Player, Owners(owner),
         NEW a, NEW b, NEW c, NEW d, Tidy(owner, ingame, a, b, c), NEW x \in Pet
  PROVE  \E a2, b2, c2, d2 :
           /\ entity_deleted(St(a, b, c, d), x) = St(a2, b2, c2, d2)
           /\ Tidy(owner, ingame, a2, b2, c2)
           /\ a2[x] = None
<1>. DEFINE g == St(a, b, c, d)
            id == a[x]
            a1 == Now(a, {x}, None)
            d1 == Blank(d, {x})
            out == NoGroupAnyMore(PutAll(g, {x} \cup pets(x), None), {x})
<1>1. g.group = a /\ pets(x) = {} /\ {x} \cup pets(x) = {x}
  BY Kinds DEF St, pets, Owners
<1>2. CASE id = None
  <2>1. entity_deleted(g, x) = g
    BY <1>1, <1>2 DEF entity_deleted, remove_from_group
  <2>. QED
    BY <1>2, <2>1
<1>3. CASE id # None
  <2>1. id \in DOMAIN b /\ b[id].leader # x
    BY <1>3, Kinds DEF Tidy
  <2>2. out = St(a1, b, c, d1)
    <3>1. PutAll(g, {x} \cup pets(x), None) = St(a1, b, c, d)
      BY <1>1, PutAllIs
    <3>. HIDE DEF g, a1
    <3>. QED
      BY <3>1, BlankIs
  <2>3. entity_deleted(g, x) = Shrink(out, id, x)
    <3>1. ~leads(g, x)
      BY <2>1, LeadsIs
    <3>2. entity_deleted(g, x) = Depart(g, x, TRUE)
      <4>. HIDE DEF g
      <4>. QED
        BY <1>1, <1>3, <3>1 DEF entity_deleted, remove_from_group
    <3>3. out.slab = b
      BY <2>2 DEF St
    <3>4. Depart(g, x, TRUE) = IF id \in DOMAIN out.slab THEN Shrink(out, id, x) ELSE out
      <4>. HIDE DEF g
      <4>. QED
        BY <1>1, Zenon DEF Depart
    <3>. HIDE DEF out, g
    <3>. QED
      BY <2>1, <3>2, <3>3, <3>4
  <2>4. Tidy(owner, ingame, a1, b, c)
    <3>1. \A p \in Player : p \notin {x}
      BY Kinds
    <3>2. \A y \in Pet : owner[y] \notin {x}
      BY Kinds DEF Owners
    <3>. QED
      BY <3>1, <3>2, LeavesTidy
  <2>5. (\E p \in Player : a1[p] = id) \/ (\A y \in Pet : a1[y] # id)
    <3>1. \A p \in Player : a1[p] = a[p]
      BY Kinds DEF Now
    <3>2. \A y \in Pet : a1[y] = IF y = x THEN None ELSE a[y]
      BY Kinds DEF Now
    <3>. HIDE DEF a1
    <3>. QED
      BY <1>3, <3>1, <3>2 DEF Tidy
  <2>6. a1[x] = None
    BY Kinds DEF Now
  <2>. HIDE DEF a1, d1, id
  <2>7. PICK a2, b2, c2, d2 :
          /\ Shrink(St(a1, b, c, d1), id, x) = St(a2, b2, c2, d2)
          /\ Tidy(owner, ingame, a2, b2, c2)
          /\ Fading(a1, a2)
    BY <2>1, <2>4, <2>5, ShrinkTidy
  <2>8. a2[x] = None
    BY <2>6, <2>7, Kinds DEF Fading
  <2>. QED
    BY <2>2, <2>3, <2>7, <2>8
<1>. QED
  BY <1>2, <1>3

(* Owners change of pets that have no group, or have lost their owners.     *)
LEMMA WorldTidy ==
  ASSUME NEW w, NEW n, NEW a, NEW b, NEW c, Tidy(w, n, a, b, c), NEW w2, NEW n2,
         \A p \in Player : p \in n /\ a[p] # None => p \in n2,
         \A x \in Pet : w2[x] = w[x] \/ a[x] = None \/ (w[x] \in Player => a[w[x]] # a[x])
  PROVE  Tidy(w2, n2, a, b, c)
<1>1. \A p \in Player : a[p] # None => p \in n2
  BY DEF Tidy
<1>2. \A x \in Pet, p \in Player : a[x] # None /\ a[p] = a[x] => w2[x] \in Player /\ a[w2[x]] = a[x]
  BY DEF Tidy
<1>. QED
  BY <1>1, <1>2 DEF Tidy

(* A new pet goes to the group of its owner.                                *)
LEMMA PetJoinsTidy ==
  ASSUME NEW w, NEW n, NEW a, NEW b, NEW c, Tidy(w, n, a, b, c), w \in [Pet -> Player \cup {Gone, None}],
         NEW x \in Pet, NEW p \in Player, a[p] # None
  PROVE  Tidy([w EXCEPT ![x] = p], n, Now(a, {x}, a[p]), b, c)
<1>. DEFINE w2 == [w EXCEPT ![x] = p]
            a2 == Now(a, {x}, a[p])
<1>1. /\ \A e \in Entity : a2[e] = IF e = x THEN a[p] ELSE a[e]
      /\ a2 \in [Entity -> Nat \cup {None}]
  BY Kinds DEF Now, Tidy
<1>2. \A y \in Pet : w2[y] = IF y = x THEN p ELSE w[y]
  OBVIOUS
<1>. HIDE DEF a2, w2
<1>3. /\ \A q \in Player : a2[q] = a[q]
      /\ \A y \in Pet : a2[y] = IF y = x THEN a[p] ELSE a[y]
  BY <1>1, Kinds
<1>4. \A e \in Entity : a2[e] # None => a2[e] \in DOMAIN b
  BY <1>1, Kinds DEF Tidy
<1>5. \A q \in Player : a2[q] # None => q \in n
  BY <1>3 DEF Tidy
<1>6. \A q \in Player : a2[q] # None => b[a2[q]].leader \in Player /\ a2[b[a2[q]].leader] = a2[q]
  BY <1>3 DEF Tidy
<1>7. \A y \in Pet, q \in Player : a2[y] # None /\ a2[q] = a2[y] => w2[y] \in Player /\ a2[w2[y]] = a2[y]
  BY <1>2, <1>3 DEF Tidy
<1>8. \A y, z \in Pet : a2[y] # None /\ a2[y] = a2[z] /\ y # z => \E q \in Player : a2[q] = a2[y]
  BY <1>3 DEF Tidy
<1>9. Tidy(w2, n, a2, b, c)
  BY <1>1, <1>4, <1>5, <1>6, <1>7, <1>8 DEF Tidy
<1>. QED
  BY <1>9 DEF a2, w2

(* l leads a group; who was on their own, still is.                         *)
Leading(a, l, h) ==
  \E a2, b2, c2, d2 :
    /\ h = St(a2, b2, c2, d2)
    /\ Tidy(owner, ingame, a2, b2, c2)
    /\ a2[l] # None /\ b2[a2[l]].leader = l
    /\ Apart(a, a2)

LEMMA LedByTidy ==
  ASSUME ingame \subseteq Player, Owners(owner), Single(owner),
         NEW a, NEW b, NEW c, NEW d, Tidy(owner, ingame, a, b, c),
         NEW l \in Player, l \in ingame
  PROVE  Leading(a, l, GroupLedBy(St(a, b, c, d), l))
<1>. DEFINE g == St(a, b, c, d)
            free == IF g.group[l] = None THEN g ELSE leave_group(g, l)
<1>1. /\ leads(g, l) <=> a[l] # None /\ a[l] \in DOMAIN b /\ b[a[l]].leader = l
      /\ g.group = a /\ g.slab = b
  BY LeadsIs DEF St
<1>2. GroupLedBy(g, l) =
        IF leads(g, l) THEN [g EXCEPT !.slab[g.group[l]].num_members = @ + 1]
        ELSE NewLeader(PutAll(create_group(free, l, 2), {l}, NextId(free)), {l}, l)
  <2>. HIDE DEF g
  <2>. QED
    BY DEF GroupLedBy
<1>3. CASE leads(g, l)
  <2>. DEFINE id == a[l]
              b2 == [b EXCEPT ![id].num_members = @ + 1]
  <2>1. GroupLedBy(g, l) = St(a, b2, c, d)
    <3>1. [g EXCEPT !.slab[g.group[l]].num_members = @ + 1] = St(a, b2, c, d)
      BY <1>1 DEF St
    <3>. HIDE DEF g, b2
    <3>. QED
      BY <1>2, <1>3, <3>1
  <2>2. id \in DOMAIN b /\ b[id].leader = l /\ id # None
    BY <1>1, <1>3
  <2>3. b \in [DOMAIN b -> [leader : Player \cup {Gone}, num_members : Int]]
    BY DEF Tidy
  <2>4. /\ DOMAIN b2 = DOMAIN b
        /\ \A x \in DOMAIN b : b2[x].leader = b[x].leader
        /\ \A x \in DOMAIN b : b2[x] \in [leader : Player \cup {Gone}, num_members : Int]
        /\ b2 = [x \in DOMAIN b2 |-> b2[x]]
    BY <2>2, <2>3
  <2>. HIDE DEF b2
  <2>5. \A p \in Player : a[p] # None => b2[a[p]].leader \in Player /\ a[b2[a[p]].leader] = a[p]
    BY <2>4, Kinds DEF Tidy
  <2>6. Tidy(owner, ingame, a, b2, c)
    BY <2>4, <2>5, SlabTidy
  <2>7. Apart(a, a)
    BY DEF Apart
  <2>. QED
    BY <2>1, <2>2, <2>4, <2>6, <2>7 DEF Leading
<1>4. CASE ~leads(g, l)
  <2>1. Leaves(a, l, FALSE, free)
    <3>1. CASE a[l] = None
      <4>1. free = g
        BY <1>1, <3>1
      <4>2. Apart(a, a) /\ Alone(a, l)
        BY <3>1 DEF Apart, Alone
      <4>. HIDE DEF free
      <4>. QED
        BY <4>1, <4>2 DEF Leaves
    <3>2. CASE a[l] # None
      <4>1. free = remove_from_group(g, l, FALSE)
        <5>. HIDE DEF g
        <5>. QED
          BY <1>1, <3>2 DEF leave_group
      <4>2. Leaves(a, l, FALSE, remove_from_group(g, l, FALSE))
        BY LeaveTidy
      <4>. HIDE DEF free, g
      <4>. QED
        BY <4>1, <4>2
    <3>. QED
      BY <3>1, <3>2
  <2>. HIDE DEF free
  <2>2. PICK a1, b1, c1, d1 :
          /\ free = St(a1, b1, c1, d1)
          /\ Tidy(owner, ingame, a1, b1, c1)
          /\ Apart(a, a1) /\ Alone(a1, l)
    BY <2>1 DEF Leaves
  <2>. DEFINE id == NewId(b1, c1)
              M == {l} \cup {}
              a2 == Now(a1, M, id)
              b2 == WithSlot(b1, id, l, 2)
              c2 == Rest(c1)
              d2 == Following(d1, {l}, l)
  <2>3. GroupLedBy(g, l) = St(a2, b2, c2, d2)
    <3>1. create_group(free, l, 2) = St(a1, b2, c2, d1) /\ NextId(free) = id
      BY <2>2, CreateIs
    <3>2. M = {l}
      OBVIOUS
    <3>3. PutAll(St(a1, b2, c2, d1), M, id) = St(a2, b2, c2, d1)
      BY PutAllIs
    <3>4. NewLeader(St(a2, b2, c2, d1), {l}, l) = St(a2, b2, c2, d2)
      BY LeaderIs
    <3>. HIDE DEF g, id, M, a2, b2, c2, d2
    <3>. QED
      BY <1>2, <1>4, <3>1, <3>2, <3>3, <3>4
  <2>4. Founds(owner, ingame, a1, b1, c1, l, {}, 2)
    <3>1. {} \subseteq OwnedBy(owner, l) /\ 2 \in Int
      OBVIOUS
    <3>. QED
      BY <2>2, <3>1, FoundTidy
  <2>5. Tidy(owner, ingame, a2, b2, c2) /\ a2[l] = id
    BY <2>4 DEF Founds
  <2>6. id # None
    BY <2>2, NewIdNumbered DEF Tidy
  <2>7. b2[id].leader = l
    BY DEF WithSlot, put
  <2>8. Apart(a1, a2)
    BY <2>2, <2>4, FoundApart
  <2>9. Apart(a, a2)
    <3>. HIDE DEF a2
    <3>. QED
      BY <2>2, <2>8 DEF Apart
  <2>. HIDE DEF a2, b2, c2, d2, id
  <2>. QED
    BY <2>3, <2>5, <2>6, <2>7, <2>9 DEF Leading
<1>. QED
  BY <1>3, <1>4

(* A state that is tidy in the world as it is.                              *)
IsTidy(h) == \E a, b, c, d : h = St(a, b, c, d) /\ Tidy(owner, ingame, a, b, c)

LEMMA AddTidy ==
  ASSUME ingame \subseteq Player, Owners(owner), Single(owner), NEW g, IsTidy(g),
         NEW l \in Player, NEW q \in Player, l # q, l \in ingame, q \in ingame
  PROVE  IsTidy(add_group_member(g, l, q))
<1>1. PICK a, b, c, d : g = St(a, b, c, d) /\ Tidy(owner, ingame, a, b, c)
  BY DEF IsTidy
<1>2. Leaves(a, q, FALSE, LeaveOldGroup(g, q))
  <2>1. group_info_exists(g, q) <=> a[q] # None
    BY <1>1, LeadsIs, Kinds DEF Tidy
  <2>2. CASE a[q] = None
    <3>1. LeaveOldGroup(g, q) = g
      BY <2>1, <2>2 DEF LeaveOldGroup
    <3>2. Apart(a, a) /\ Alone(a, q)
      BY <2>2 DEF Apart, Alone
    <3>. QED
      BY <1>1, <3>1, <3>2 DEF Leaves
  <2>3. CASE a[q] # None
    <3>1. LeaveOldGroup(g, q) = remove_from_group(g, q, FALSE)
      BY <2>1, <2>3 DEF LeaveOldGroup, leave_group
    <3>2. Leaves(a, q, FALSE, remove_from_group(St(a, b, c, d), q, FALSE))
      BY <1>1, LeaveTidy
    <3>. QED
      BY <1>1, <3>1, <3>2
  <2>. QED
    BY <2>2, <2>3
<1>3. PICK a1, b1, c1, d1 : /\ LeaveOldGroup(g, q) = St(a1, b1, c1, d1)
                            /\ Tidy(owner, ingame, a1, b1, c1)
                            /\ Alone(a1, q)
  BY <1>2 DEF Leaves
<1>4. Leading(a1, l, GroupLedBy(LeaveOldGroup(g, q), l))
  BY <1>3, LedByTidy
<1>5. PICK a2, b2, c2, d2 : /\ GroupLedBy(LeaveOldGroup(g, q), l) = St(a2, b2, c2, d2)
                            /\ Tidy(owner, ingame, a2, b2, c2)
                            /\ a2[l] # None /\ b2[a2[l]].leader = l
                            /\ Apart(a1, a2)
  BY <1>4 DEF Leading
<1>. DEFINE id == a2[l]
            led == GroupLedBy(LeaveOldGroup(g, q), l)
            M == members(led, id)
            P == {q} \cup pets(q)
            told == Added(Added(led, M, P), {q}, M)
            d3 == Gaining(Gaining(d2, M, P), {q}, M)
            d4 == Following(d3, {q}, l)
            a3 == Now(a2, P, id)
<1>6. add_group_member(g, l, q) = St(a3, b2, c2, d4)
  <2>1. led.group[l] = id
    BY <1>5 DEF St
  <2>2. add_group_member(g, l, q) = PutAll(NewLeader(told, {q}, l), P, id)
    BY <2>1 DEF add_group_member
  <2>3. told = St(a2, b2, c2, d3)
    <3>1. led = St(a2, b2, c2, d2)
      BY <1>5
    <3>. HIDE DEF led, M, P, id
    <3>2. Added(led, M, P) = St(a2, b2, c2, Gaining(d2, M, P))
      BY <3>1, AddedIs
    <3>. QED
      BY <3>2, AddedIs
  <2>4. NewLeader(told, {q}, l) = St(a2, b2, c2, d4)
    <3>. HIDE DEF told, d3
    <3>. QED
      BY <2>3, LeaderIs
  <2>. HIDE DEF told, P, id, d4
  <2>. QED
    BY <2>2, <2>4, PutAllIs
<1>7. P = {q} \cup OwnedBy(owner, q)
  BY DEF pets, OwnedBy
<1>8. Tidy(owner, ingame, a3, b2, c2)
  <2>1. Alone(a2, q)
    BY <1>3, <1>5 DEF Apart
  <2>2. Tidy(owner, ingame, Now(a2, {q} \cup OwnedBy(owner, q), a2[l]), b2, c2)
    BY <1>5, <2>1, JoinTidy
  <2>. HIDE DEF P
  <2>. QED
    BY <1>7, <2>2
<1>. HIDE DEF a3, d4
<1>. QED
  BY <1>6, <1>8 DEF IsTidy

(* new_pet.                                                                 *)
LEMMA NewPetTidy ==
  ASSUME ingame \subseteq Player, Owners(owner), Single(owner), NEW g, IsTidy(g),
         NEW x \in Pet, NEW p \in Player, p \in ingame
  PROVE  \E a, b, c, d : /\ new_pet(g, x, p) = St(a, b, c, d)
                         /\ Tidy([owner EXCEPT ![x] = p], ingame, a, b, c)
<1>1. PICK a, b, c, d : g = St(a, b, c, d) /\ Tidy(owner, ingame, a, b, c)
  BY DEF IsTidy
<1>. DEFINE led == IF g.group[p] # None THEN g
                   ELSE NewLeader(PutAll(create_group(g, p, 1), {p}, NextId(g)), {p}, p)
<1>2. g.group = a
  BY <1>1 DEF St
<1>3. \E a1, b1, c1, d1 : led = St(a1, b1, c1, d1) /\ Tidy(owner, ingame, a1, b1, c1) /\ a1[p] # None
  <2>1. CASE a[p] # None
    <3>1. led = g
      BY <1>2, <2>1
    <3>. HIDE DEF led
    <3>. QED
      BY <1>1, <2>1, <3>1
  <2>2. CASE a[p] = None
    <3>. DEFINE id == NewId(b, c)
                M == {p} \cup {}
                a1 == Now(a, M, id)
                b1 == WithSlot(b, id, p, 1)
                c1 == Rest(c)
                d1 == Following(d, {p}, p)
    <3>1. led = St(a1, b1, c1, d1)
      <4>1. create_group(g, p, 1) = St(a, b1, c1, d) /\ NextId(g) = id
        BY <1>1, CreateIs
      <4>2. M = {p}
        OBVIOUS
      <4>3. PutAll(St(a, b1, c1, d), M, id) = St(a1, b1, c1, d)
        BY PutAllIs
      <4>4. NewLeader(St(a1, b1, c1, d), {p}, p) = St(a1, b1, c1, d1)
        BY LeaderIs
      <4>5. led = NewLeader(PutAll(create_group(g, p, 1), {p}, NextId(g)), {p}, p)
        BY <1>2, <2>2
      <4>. HIDE DEF led, id, M, a1, b1, c1, d1
      <4>. QED
        BY <4>1, <4>2, <4>3, <4>4, <4>5
    <3>2. Founds(owner, ingame, a, b, c, p, {}, 1)
      <4>1. {} \subseteq OwnedBy(owner, p) /\ 1 \in Int /\ Alone(a, p)
        BY <2>2 DEF Alone
      <4>. QED
        BY <1>1, <4>1, FoundTidy
    <3>3. Tidy(owner, ingame, a1, b1, c1) /\ a1[p] = id
      BY <3>2 DEF Founds
    <3>4. id # None
      BY <1>1, NewIdNumbered DEF Tidy
    <3>. HIDE DEF led, a1, b1, c1, d1, id
    <3>. QED
      BY <3>1, <3>3, <3>4
  <2>. QED
    BY <2>1, <2>2
<1>4. PICK a1, b1, c1, d1 : led = St(a1, b1, c1, d1) /\ Tidy(owner, ingame, a1, b1, c1) /\ a1[p] # None
  BY <1>3
<1>. DEFINE id == a1[p]
            M == members(led, id)
            d2 == Gaining(d1, M, {x})
            a2 == Now(a1, {x}, id)
<1>5. new_pet(g, x, p) = St(a2, b1, c1, d2)
  <2>1. led.group[p] = id
    <3>. HIDE DEF led
    <3>. QED
      BY <1>4 DEF St
  <2>2. new_pet(g, x, p) = PutAll(Added(led, members(led, led.group[p]), {x}), {x}, led.group[p])
    BY Zenon DEF new_pet
  <2>. HIDE DEF led
  <2>3. Added(led, M, {x}) = St(a1, b1, c1, d2)
    <3>. HIDE DEF M
    <3>. QED
      BY <1>4, AddedIs
  <2>. HIDE DEF d2, id
  <2>. QED
    BY <2>1, <2>2, <2>3, PutAllIs
<1>6. Tidy([owner EXCEPT ![x] = p], ingame, a2, b1, c1)
  BY <1>4, PetJoinsTidy DEF Owners
<1>. HIDE DEF a2, d2
<1>. QED
  BY <1>5, <1>6

LEMMA AssignTidy ==
  ASSUME NEW g, IsTidy(g), NEW t \in Player, g.group[t] # None
  PROVE  IsTidy(assign_leader(g, t))
<1>1. PICK a, b, c, d : g = St(a, b, c, d) /\ Tidy(owner, ingame, a, b, c)
  BY DEF IsTidy
<1>. DEFINE id == a[t]
            b2 == [b EXCEPT ![id].leader = t]
            M == members(g, id)
            d2 == Following(d, M, t)
<1>2. g.group = a /\ id # None /\ id \in DOMAIN b
  <2>1. g.group = a
    BY <1>1 DEF St
  <2>. QED
    BY <1>1, <2>1, Kinds DEF Tidy
<1>3. assign_leader(g, t) = St(a, b2, c, d2)
  <2>1. [g EXCEPT !.slab[id].leader = t] = St(a, b2, c, d)
    BY <1>1 DEF St
  <2>2. assign_leader(g, t) = NewLeader([g EXCEPT !.slab[id].leader = t], M, t)
    BY <1>2 DEF assign_leader
  <2>. HIDE DEF b2, M
  <2>. QED
    BY <2>1, <2>2, LeaderIs
<1>4. b \in [DOMAIN b -> [leader : Player \cup {Gone}, num_members : Int]]
  BY <1>1 DEF Tidy
<1>5. /\ DOMAIN b2 = DOMAIN b
      /\ \A k \in DOMAIN b : b2[k].leader = IF k = id THEN t ELSE b[k].leader
      /\ \A k \in DOMAIN b : b2[k] \in [leader : Player \cup {Gone}, num_members : Int]
      /\ b2 = [k \in DOMAIN b2 |-> b2[k]]
  BY <1>2, <1>4
<1>. HIDE DEF b2, d2
<1>6. \A p \in Player : a[p] # None => b2[a[p]].leader \in Player /\ a[b2[a[p]].leader] = a[p]
  BY <1>1, <1>5, Kinds DEF Tidy
<1>7. Tidy(owner, ingame, a, b2, c)
  BY <1>1, <1>5, <1>6, SlabTidy
<1>. QED
  BY <1>3, <1>7 DEF IsTidy

(* What is left in the slab of an entity that is in no group.               *)
LEMMA BuryTidy ==
  ASSUME NEW a, NEW b, NEW c, NEW d, Tidy(owner, ingame, a, b, c), NEW p \in Entity, a[p] = None
  PROVE  \E b2 : Bury(St(a, b, c, d), p, {}) = St(a, b2, c, d) /\ Tidy(owner, ingame, a, b2, c)
<1>. DEFINE b2 == [id \in DOMAIN b |->
                     IF b[id].leader = p /\ id \notin {} THEN [b[id] EXCEPT !.leader = Gone] ELSE b[id]]
<1>1. Bury(St(a, b, c, d), p, {}) = St(a, b2, c, d)
  <2>1. St(a, b, c, d).slab = b
    BY DEF St
  <2>2. Bury(St(a, b, c, d), p, {}) = [St(a, b, c, d) EXCEPT !.slab = b2]
    BY <2>1 DEF Bury
  <2>. HIDE DEF b2
  <2>3. [St(a, b, c, d) EXCEPT !.slab = b2] = St(a, b2, c, d)
    BY DEF St
  <2>. QED
    BY <2>2, <2>3
<1>2. b \in [DOMAIN b -> [leader : Player \cup {Gone}, num_members : Int]]
  BY DEF Tidy
<1>3. /\ DOMAIN b2 = DOMAIN b
      /\ \A k \in DOMAIN b : b[k].leader # p => b2[k] = b[k]
      /\ \A k \in DOMAIN b : b2[k] \in [leader : Player \cup {Gone}, num_members : Int]
      /\ b2 = [k \in DOMAIN b2 |-> b2[k]]
  BY <1>2
<1>. HIDE DEF b2
<1>4. \A q \in Player : a[q] # None => a[q] \in DOMAIN b /\ b[a[q]].leader # p
  BY Kinds DEF Tidy
<1>5. \A q \in Player : a[q] # None => b2[a[q]].leader \in Player /\ a[b2[a[q]].leader] = a[q]
  BY <1>3, <1>4 DEF Tidy
<1>6. Tidy(owner, ingame, a, b2, c)
  BY <1>3, <1>5, SlabTidy
<1>. QED
  BY <1>1, <1>6

----------------------------------------------------------------------------
(* The worlds without screens where nobody has two pets, or makes a pet the *)
(* leader.                                                                  *)
Homely == "screens" \notin scope.may /\ PlainPets

Kept == ingame \subseteq Player /\ Owners(owner) /\ Single(owner) /\ InvitesOK /\ IsTidy(groups)

PetInv == scope \in Scopes /\ (Homely => Kept)

LEMMA InitPetInv == Init => PetInv
<1>. SUFFICES ASSUME Init PROVE scope \in Scopes /\ Kept
  BY DEF PetInv
<1>. DEFINE a == [e \in Entity |-> None]
            d == [p \in Player |-> NoGroup]
<1>1. scope \in Scopes /\ ingame \subseteq Player
  BY GroupsAssumption DEF Init
<1>2. Owners(owner) /\ Single(owner)
  BY Kinds DEF Init, Owners, Single
<1>3. InvitesOK
  BY <1>1, GroupsAssumption DEF Init, InvitesOK
<1>4. groups = St(a, <<>>, <<>>, d)
  BY DEF Init, St
<1>5. Tidy(owner, ingame, a, <<>>, <<>>)
  <2>1. Range(<<>>) = {} /\ DOMAIN <<>> = {}
    BY DEF Range
  <2>2. Numbered(<<>>, <<>>)
    <3>1. {} = 0..(0 - 1) /\ 0 \in Nat
      OBVIOUS
    <3>2. IsInjective(<<>>) /\ <<>> \in Seq(Nat)
      BY DEF IsInjective
    <3>. QED
      BY <2>1, <3>1, <3>2 DEF Numbered
  <2>3. \A e \in Entity : a[e] = None
    OBVIOUS
  <2>4. a \in [Entity -> Nat \cup {None}]
    OBVIOUS
  <2>5. <<>> \in [DOMAIN <<>> -> [leader : Player \cup {Gone}, num_members : Int]]
    BY <2>1
  <2>. HIDE DEF a
  <2>. QED
    BY <2>2, <2>3, <2>4, <2>5, Kinds DEF Tidy
<1>. HIDE DEF a, d
<1>6. IsTidy(groups)
  BY <1>4, <1>5 DEF IsTidy
<1>. QED
  BY <1>1, <1>2, <1>3, <1>6 DEF Kept

LEMMA TakenKeeps ==
  ASSUME InvitesOK, NEW q \in Player, TakeInvite(q), UNCHANGED scope
  PROVE  InvitesOK'
<1>1. pending' \subseteq pending /\ invites' = [invites EXCEPT ![q] = None] /\ stale' = stale /\ ingame' = ingame
  BY DEF TakeInvite
<1>. QED
  BY <1>1 DEF InvitesOK

LEMMA StaysTidy == IsTidy(groups) /\ UNCHANGED <<groups, owner, ingame>> => IsTidy(groups)'
BY DEF IsTidy, St

LEMMA BecomesTidy ==
  ASSUME NEW g, IsTidy(g), groups' = g, UNCHANGED <<owner, ingame>>
  PROVE  IsTidy(groups)'
BY DEF IsTidy, St

LEMMA InviteStepKeeps ==
  ASSUME scope \in Scopes, Kept, NEW p \in Player, NEW q \in Player, UNCHANGED scope,
         InitiateInvite(p, q) \/ handle_invite_accept(q) \/ handle_invite_decline(q) \/ InviteTimeout(q)
  PROVE  Kept'
<1>0. UNCHANGED <<owner, ingame>>
  BY DEF InitiateInvite, handle_invite_accept, handle_invite_decline, InviteTimeout, TakeInvite
<1>1. CASE InitiateInvite(p, q)
  <2>1. p # q /\ p \in ingame /\ invites' = [invites EXCEPT ![q] = p] /\ pending' = pending \cup {<<p, q>>}
        /\ stale' = stale
    BY <1>1 DEF InitiateInvite
  <2>2. InvitesOK'
    BY <1>0, <2>1 DEF Kept, InvitesOK
  <2>3. IsTidy(groups)'
    BY <1>0, <1>1, StaysTidy DEF Kept, InitiateInvite
  <2>. QED
    BY <1>0, <2>2, <2>3 DEF Kept, Owners, Single
<1>2. CASE TakeInvite(q) /\ UNCHANGED groups
  <2>1. InvitesOK' /\ IsTidy(groups)'
    BY <1>0, <1>2, TakenKeeps, StaysTidy DEF Kept
  <2>. QED
    BY <1>0, <2>1 DEF Kept, Owners, Single
<1>3. CASE handle_invite_accept(q) /\ <<invites[q], q>> \in pending
  <2>. DEFINE l == invites[q]
  <2>1. l \in Player /\ l # q /\ l \in ingame /\ q \in ingame
    <3>1. <<l, q>>[1] = l /\ <<l, q>>[2] = q
      OBVIOUS
    <3>. QED
      BY <1>3, <3>1 DEF Kept, InvitesOK, handle_invite_accept
  <2>2. groups' = add_group_member(groups, l, q)
    BY <1>3 DEF handle_invite_accept
  <2>3. IsTidy(add_group_member(groups, l, q))
    BY <2>1, AddTidy DEF Kept
  <2>4. IsTidy(groups)'
    BY <1>0, <2>2, <2>3, BecomesTidy
  <2>5. InvitesOK'
    BY <1>3, TakenKeeps DEF Kept, handle_invite_accept
  <2>. QED
    BY <1>0, <2>4, <2>5 DEF Kept, Owners, Single
<1>. QED
  BY <1>1, <1>2, <1>3 DEF handle_invite_accept, handle_invite_decline, InviteTimeout

LEMMA LeavingKeeps ==
  ASSUME Kept, NEW p \in Player, groups' = leave_group(groups, p), UNCHANGED <<owner, ingame, scope>>,
         UNCHANGED inviteVars
  PROVE  Kept'
<1>1. PICK a, b, c, d : groups = St(a, b, c, d) /\ Tidy(owner, ingame, a, b, c)
  BY DEF Kept, IsTidy
<1>2. groups' = remove_from_group(St(a, b, c, d), p, FALSE)
  BY <1>1 DEF leave_group
<1>3. Leaves(a, p, FALSE, remove_from_group(St(a, b, c, d), p, FALSE))
  BY <1>1, LeaveTidy DEF Kept
<1>4. IsTidy(remove_from_group(St(a, b, c, d), p, FALSE))
  BY <1>3 DEF Leaves, IsTidy
<1>5. IsTidy(groups)'
  BY <1>2, <1>4, BecomesTidy
<1>. QED
  BY <1>5 DEF Kept, Owners, Single, InvitesOK, inviteVars

LEMMA GroupStepKeeps ==
  ASSUME Kept, NEW p \in Player, NEW t \in Player, UNCHANGED scope,
         LeaveGroup(p) \/ Kick(p, t) \/ AssignLeader(p, t)
  PROVE  Kept'
<1>1. CASE LeaveGroup(p)
  BY <1>1, LeavingKeeps DEF LeaveGroup
<1>2. CASE Kick(p, t)
  BY <1>2, LeavingKeeps DEF Kick
<1>3. CASE AssignLeader(p, t)
  <2>1. groups' = assign_leader(groups, t) /\ groups.group[t] # None
        /\ UNCHANGED <<owner, ingame>> /\ UNCHANGED inviteVars
    BY <1>3 DEF AssignLeader, LedBy, group_info_exists
  <2>2. IsTidy(groups)'
    BY <2>1, AssignTidy, BecomesTidy DEF Kept
  <2>. QED
    BY <2>1, <2>2 DEF Kept, Owners, Single, InvitesOK, inviteVars
<1>. QED
  BY <1>1, <1>2, <1>3

LEMMA EnteringKeeps ==
  ASSUME Kept, NEW p \in Player, EnterGame(p), UNCHANGED scope
  PROVE  Kept'
<1>1. PICK a, b, c, d : groups = St(a, b, c, d) /\ Tidy(owner, ingame, a, b, c)
  BY DEF Kept, IsTidy
<1>2. groups' = groups /\ ingame' = ingame \cup {p} /\ owner' = owner /\ UNCHANGED inviteVars
  BY DEF EnterGame
<1>3. Tidy(owner', ingame', a, b, c)
  BY <1>1, <1>2, WorldTidy
<1>4. IsTidy(groups)'
  BY <1>1, <1>2, <1>3 DEF IsTidy, St
<1>. QED
  BY <1>2, <1>4 DEF Kept, Owners, Single, InvitesOK, inviteVars

LEMMA GoingKeeps ==
  ASSUME scope \in Scopes, Kept, NEW p \in Player, Disconnect(p), UNCHANGED scope
  PROVE  Kept'
<1>1. PICK a, b, c, d : groups = St(a, b, c, d) /\ Tidy(owner, ingame, a, b, c)
  BY DEF Kept, IsTidy
<1>2. Leaves(a, p, TRUE, entity_deleted(groups, p))
  <2>1. Leaves(a, p, TRUE, remove_from_group(St(a, b, c, d), p, TRUE))
    BY <1>1, LeaveTidy DEF Kept
  <2>. QED
    BY <1>1, <2>1 DEF entity_deleted
<1>3. PICK a2, b2, c2, d2 : /\ entity_deleted(groups, p) = St(a2, b2, c2, d2)
                            /\ Tidy(owner, ingame, a2, b2, c2)
                            /\ a2[p] = None
  BY <1>2 DEF Leaves
<1>4. NoGroupAnyMore(entity_deleted(groups, p), {p}) = St(a2, b2, c2, Blank(d2, {p}))
  BY <1>3, BlankIs
<1>5. PICK b3 : /\ Bury(St(a2, b2, c2, Blank(d2, {p})), p, {}) = St(a2, b3, c2, Blank(d2, {p}))
                /\ Tidy(owner, ingame, a2, b3, c2)
  BY <1>3, BuryTidy, Kinds
<1>6. groups' = St(a2, b3, c2, Blank(d2, {p}))
  BY <1>4, <1>5 DEF Disconnect
<1>7. /\ owner' = [x \in Pet |-> IF owner[x] = p THEN Gone ELSE owner[x]]
      /\ ingame' = ingame \ {p} /\ ForgetInvites(p)
  BY DEF Disconnect
<1>8. Tidy(owner', ingame', a2, b3, c2)
  <2>1. \A q \in Player : q \in ingame /\ a2[q] # None => q \in ingame'
    BY <1>3, <1>7
  <2>2. \A x \in Pet : owner'[x] = owner[x] \/ a2[x] = None \/ (owner[x] \in Player => a2[owner[x]] # a2[x])
    BY <1>3, <1>7
  <2>. QED
    BY <1>5, <2>1, <2>2, WorldTidy
<1>9. IsTidy(groups)'
  BY <1>6, <1>8 DEF IsTidy, St
<1>10. Owners(owner)' /\ Single(owner)'
  BY <1>7, Kinds DEF Kept, Owners, Single
<1>11. InvitesOK'
  BY <1>7, ForgetKeeps DEF Kept
<1>. QED
  BY <1>7, <1>9, <1>10, <1>11 DEF Kept

LEMMA TamingKeeps ==
  ASSUME scope \in Scopes, PlainPets, Kept, NEW x \in Pet, NEW p \in Player, NewPet(x, p), UNCHANGED scope
  PROVE  Kept'
<1>1. /\ x \in scope.pets /\ p \in ingame /\ Cardinality(pets(p)) < scope.each
      /\ owner' = [owner EXCEPT ![x] = p] /\ groups' = new_pet(groups, x, p)
      /\ ingame' = ingame /\ UNCHANGED inviteVars
  BY DEF NewPet
<1>2. PICK a, b, c, d : new_pet(groups, x, p) = St(a, b, c, d) /\ Tidy([owner EXCEPT ![x] = p], ingame, a, b, c)
  BY <1>1, NewPetTidy DEF Kept
<1>3. IsTidy(groups)'
  <2>1. groups' = St(a, b, c, d) /\ Tidy(owner', ingame', a, b, c)
    BY <1>1, <1>2
  <2>. QED
    BY <2>1 DEF IsTidy, St
<1>4. pets(p) = {}
  <2>1. IsFiniteSet(pets(p))
    BY GroupsAssumption, FS_Subset DEF pets
  <2>2. Cardinality(pets(p)) \in Nat /\ (Cardinality(pets(p)) = 0 => pets(p) = {})
    BY <2>1, FS_CardinalityType, FS_EmptySet
  <2>3. scope.each <= 1 /\ scope.each \in Nat
    BY <1>1, GroupsAssumption DEF PlainPets
  <2>. QED
    BY <1>1, <2>2, <2>3
<1>5. Owners(owner)' /\ Single(owner)'
  <2>1. \A y \in Pet : owner[y] # p
    BY <1>4 DEF pets
  <2>. QED
    BY <1>1, <2>1 DEF Kept, Owners, Single
<1>. QED
  BY <1>1, <1>3, <1>5 DEF Kept, InvitesOK, inviteVars

LEMMA DyingKeeps ==
  ASSUME Kept, NEW x \in Pet, PetDies(x), UNCHANGED scope
  PROVE  Kept'
<1>1. PICK a, b, c, d : groups = St(a, b, c, d) /\ Tidy(owner, ingame, a, b, c)
  BY DEF Kept, IsTidy
<1>2. /\ owner' = [owner EXCEPT ![x] = None] /\ groups' = Bury(entity_deleted(groups, x), x, {})
      /\ ingame' = ingame /\ UNCHANGED inviteVars
  BY DEF PetDies
<1>3. PICK a2, b2, c2, d2 : /\ groups' = St(a2, b2, c2, d2)
                            /\ Tidy(owner, ingame, a2, b2, c2)
                            /\ a2[x] = None
  <2>1. PICK a2, b1, c2, d2 : /\ entity_deleted(groups, x) = St(a2, b1, c2, d2)
                              /\ Tidy(owner, ingame, a2, b1, c2)
                              /\ a2[x] = None
    BY <1>1, PetGoneTidy DEF Kept
  <2>2. PICK b2 : Bury(St(a2, b1, c2, d2), x, {}) = St(a2, b2, c2, d2) /\ Tidy(owner, ingame, a2, b2, c2)
    BY <2>1, BuryTidy, Kinds
  <2>. QED
    BY <1>2, <2>1, <2>2
<1>4. Tidy(owner', ingame', a2, b2, c2)
  <2>1. \A y \in Pet : owner'[y] = owner[y] \/ a2[y] = None
    BY <1>2, <1>3 DEF Kept, Owners
  <2>. QED
    BY <1>2, <1>3, <2>1, WorldTidy
<1>5. IsTidy(groups)'
  BY <1>3, <1>4 DEF IsTidy, St
<1>6. Owners(owner)' /\ Single(owner)'
  BY <1>2, Kinds DEF Kept, Owners, Single
<1>. QED
  BY <1>2, <1>5, <1>6 DEF Kept, InvitesOK, inviteVars

LEMMA NextPetInv == PetInv /\ [Next]_vars => PetInv'
<1>. SUFFICES ASSUME PetInv, [Next]_vars PROVE PetInv'
  OBVIOUS
<1>1. scope' = scope /\ scope \in Scopes /\ scope.crew \subseteq Player
  BY GroupsAssumption DEF PetInv, Next, vars
<1>2. SUFFICES ASSUME Homely PROVE Kept'
  BY <1>1 DEF PetInv, Homely, PlainPets
<1>3. Kept /\ PlainPets /\ "screens" \notin scope.may
  BY <1>2 DEF PetInv, Homely
<1>4. CASE UNCHANGED vars
  <2>1. UNCHANGED <<groups, owner, ingame>> /\ UNCHANGED inviteVars
    BY <1>4 DEF vars, inviteVars
  <2>. QED
    BY <1>1, <1>3, <2>1, StaysTidy DEF Kept, Owners, Single, InvitesOK, inviteVars
<1>5. CASE InviteStep
  <2>1. PICK p \in Player, q \in Player :
          InitiateInvite(p, q) \/ handle_invite_accept(q) \/ handle_invite_decline(q) \/ InviteTimeout(q)
    BY <1>1, <1>5 DEF InviteStep
  <2>. QED
    BY <1>1, <1>3, <2>1, InviteStepKeeps
<1>6. CASE GroupStep
  <2>1. PICK p \in Player, t \in Player : LeaveGroup(p) \/ Kick(p, t) \/ AssignLeader(p, t)
    <3>1. ~\E x \in Pet, q \in Player : AssignLeader(q, x)
      BY <1>3 DEF AssignLeader, PlainPets
    <3>. QED
      BY <1>1, <1>6, <3>1, AmongPlayers
  <2>. QED
    BY <1>1, <1>3, <2>1, GroupStepKeeps
<1>7. CASE EntityStep
  <2>1. PICK p \in Player :
          ExitIngame(p) \/ EnterGame(p) \/ Disconnect(p) \/ \E x \in Pet : NewPet(x, p) \/ PetDies(x)
    BY <1>1, <1>7 DEF EntityStep
  <2>2. ~ExitIngame(p)
    BY <1>3 DEF ExitIngame
  <2>3. CASE EnterGame(p)
    BY <1>1, <1>3, <2>3, EnteringKeeps
  <2>4. CASE Disconnect(p)
    BY <1>1, <1>3, <2>4, GoingKeeps
  <2>5. CASE \E x \in Pet : NewPet(x, p) \/ PetDies(x)
    BY <1>1, <1>3, <2>5, TamingKeeps, DyingKeeps
  <2>. QED
    BY <2>1, <2>2, <2>3, <2>4, <2>5
<1>. QED
  BY <1>4, <1>5, <1>6, <1>7 DEF Next

LEMMA PetsReachable == Spec => []PetInv
<1>. QED
  BY InitPetInv, NextPetInv, PTL DEF Spec

LEMMA KeptSays ==
  ASSUME Kept
  PROVE  /\ LeadersKeepTheirGroups /\ NobodyInDeadGroup
         /\ \A x \in Pet : groups.group[x] # None =>
              /\ groups.group[x] \in DOMAIN groups.slab
              /\ Party(groups.group[x]) # {} => owner[x] \in Party(groups.group[x])
<1>1. PICK a, b, c, d : groups = St(a, b, c, d) /\ Tidy(owner, ingame, a, b, c)
  BY DEF Kept, IsTidy
<1>2. groups.group = a /\ groups.slab = b
  BY <1>1 DEF St
<1>3. NobodyInDeadGroup
  BY <1>1, <1>2 DEF NobodyInDeadGroup, Tidy
<1>4. LeadersKeepTheirGroups
  <2>. SUFFICES ASSUME NEW id \in DOMAIN b, NEW p \in Player, a[p] = id
                PROVE  b[id].leader \in Player /\ a[b[id].leader] = id
    BY <1>2 DEF LeadersKeepTheirGroups, Led, Party
  <2>1. id # None
    BY <1>1, IdsAreNumbers
  <2>. QED
    BY <1>1, <2>1 DEF Tidy
<1>5. ASSUME NEW x \in Pet, a[x] # None
      PROVE  a[x] \in DOMAIN b /\ (Party(a[x]) # {} => owner[x] \in Party(a[x]))
  <2>1. a[x] \in DOMAIN b
    BY <1>1, <1>5, Kinds DEF Tidy
  <2>2. ASSUME NEW p \in Player, a[p] = a[x] PROVE owner[x] \in Player /\ a[owner[x]] = a[x]
    BY <1>1, <1>5, <2>2 DEF Tidy
  <2>. QED
    BY <1>2, <2>1, <2>2 DEF Party
<1>. QED
  BY <1>2, <1>3, <1>4, <1>5

(* When an owner leaves, is kicked or disconnects, or the group is          *)
(* dissolved, pets go too: none is in a group of strangers, nor in one that *)
(* is gone, whose id the next group will get.  (In the Homely worlds.)      *)
THEOREM PetsStayWithOwners == Spec => []NoStrayPets
<1>1. PetInv => NoStrayPets
  BY KeptSays DEF PetInv, Homely, NoStrayPets
<1>. QED
  BY <1>1, PetsReachable, PTL

(* A group's leader is in it, so there is always somebody who can dissolve  *)
(* it, or kick others and hand it over; with pets of their own, a leader is *)
(* not taken for the last one when another's pet dies.  (In the Homely      *)
(* worlds: who hands their group to a pet need not stay with it.)           *)
THEOREM LeadersStay == Spec => []("screens" \notin scope.may => LeadersAreMembers)
<1>1. PetInv => ("screens" \notin scope.may => LeadersAreMembers)
  BY KeptSays DEF PetInv, Homely, LeadersAreMembers, LeadersKeepTheirGroups
<1>. QED
  BY <1>1, PetsReachable, PTL

(* Also with pets, nobody is in a group that is gone, as long as no pet is  *)
(* made a leader.                                                           *)
THEOREM NobodyIsLost == Spec => [](Homely => NobodyInDeadGroup)
<1>1. PetInv => (Homely => NobodyInDeadGroup)
  BY KeptSays DEF PetInv
<1>. QED
  BY <1>1, PetsReachable, PTL
=============================================================================
