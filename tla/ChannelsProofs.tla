---------------------------- MODULE ChannelsProofs ----------------------------
(***************************************************************************)
(* Theorems about Channels, for any number of streams, messages and frames, *)
(* any bandwidth and priorities, with streams dropped at any time,          *)
(* disconnections and the loss of the connection.                           *)
(***************************************************************************)
EXTENDS Channels, FoldLemmas, SequenceTheorems

(* Frames, and the queues of the PrioManager.                               *)
Sid  == Stream \cup {NoStream}
Data == [kind : {"header", "data"}, stream : Stream, msg : Nat, last : BOOLEAN]
AnyFrame == [kind : {"open", "close", "header", "data", "shutdown", "eof"}, stream : Sid, msg : Nat, last : BOOLEAN]

Queue  == [frames : Seq(Data), done : BOOLEAN]
Stores == UNION {[D -> Queue] : D \in SUBSET Stream}

Half == [on : BOOLEAN, known : SUBSET Stream, store : Stores, closing : Seq(Stream), notify : Seq(Stream)]
Message == [stream : Stream, msg : Nat, size : Nat]

Typed ==
  /\ TypeOK
  /\ send \in [Side -> Half]
  /\ a2b_msg \in [Side -> Seq(Message)] /\ a2b_close \in [Side -> Seq(Stream)]
  /\ opened \in [Side -> Seq(Stream)] /\ shut \in [Side -> Seq(Stream)]
  /\ wire \in [Side -> Seq(AnyFrame)]

(* The streams that a side has heard of, and those it has still to close.   *)
Waiting(s) == ToSet(send[s].closing) \cup ToSet(send[s].notify)
Heard(s)   == send[s].known \cup ToSet(opened[s]) \cup ToSet(shut[s]) \cup Waiting(s)

(* A side hears only of streams it has, and the other has no stream that    *)
(* its opener does not have.                                                *)
HeardOK ==
  \A s \in Side, i \in Stream :
    /\ i \in Heard(s) => user[s][i] # "none"
    /\ user[s][i] # "none" => user[Opener[i]][i] # "none"
    /\ \A k \in DOMAIN a2b_msg[s] : user[s][a2b_msg[s][k].stream] # "none"

(* What waits to be closed is not looked up any more.                       *)
WaitingOK == \A s \in Side : (send[s].known \cup ToSet(opened[s])) \cap Waiting(s) = {}

Opens(f, i)  == f.kind = "open" /\ f.stream = i
Closes(f, i) == f.kind = "close" /\ f.stream = i

(* A stream is opened once, by its opener, before it is closed.             *)
WireOK(u, s, v) ==
  \A k \in DOMAIN v :
    /\ \A i \in Sid : Opens(v[k], i) =>
         /\ i \in Stream /\ Opener[i] = s /\ u[s][i] # "none" /\ u[Remote(s)][i] = "none"
         /\ \A j \in DOMAIN v : Opens(v[j], i) => j = k
    /\ \A i \in Sid : Closes(v[k], i) =>
         /\ i \in Stream /\ u[s][i] # "none"
         /\ u[Remote(s)][i] # "none" \/ \E j \in 1..(k - 1) : Opens(v[j], i)

(* While there is a connection, the other side is told of a stream.         *)
Told(u, s, v, i) == u[Remote(s)][i] # "none" \/ \E k \in DOMAIN v : Opens(v[k], i)

WiresOK ==
  \A s \in Side :
    /\ WireOK(user, s, wire[s])
    /\ up => \A i \in Stream : Opener[i] = s /\ user[s][i] # "none" => Told(user, s, wire[s], i)

(* A side's stream that is not closed is delivered to, and send_mgr knows   *)
(* it or is going to.                                                       *)
OpenOK ==
  \A s \in Side, i \in Stream :
    /\ user[s][i] # "none" /\ closed[s][i] = "no" =>
         /\ i \in streams[s]
         /\ send[s].on => i \in send[s].known \cup ToSet(opened[s])
    /\ i \in ToSet(shut[s]) => closed[s][i] # "no"

IInv == Typed /\ HeardOK /\ WaitingOK /\ WiresOK /\ OpenOK /\ OnlyClosedStreamsFail

----------------------------------------------------------------------------
(* One iteration of send_mgr.  K are the streams it looks up, A those it    *)
(* may still close, o the frames written so far.                            *)

Writes(A) ==
  Data \cup {Control("close", i) : i \in A} \cup {Control("shutdown", NoStream), Eof}

Written(A, o) == {o \o w : w \in Seq(Writes(A))}

Box(K, A, o) ==
  {y \in [known : {K}, store : Stores, closing : Seq(A), notify : Seq(A), out : Written(A, o)] :
     K \subseteq DOMAIN y.store}

Records(D, A, o) == [known : SUBSET Stream, store : [D -> Queue], closing : Seq(A), notify : Seq(A), out : Written(A, o)]

LEMMA BoxIs ==
  ASSUME NEW K, NEW A, NEW o, NEW y
  PROVE  y \in Box(K, A, o) <=>
           /\ y = [known |-> y.known, store |-> y.store, closing |-> y.closing, notify |-> y.notify, out |-> y.out]
           /\ y.known = K /\ y.store \in Stores /\ K \subseteq DOMAIN y.store
           /\ y.closing \in Seq(A) /\ y.notify \in Seq(A) /\ y.out \in Written(A, o)
BY DEF Box

LEMMA WrittenMore ==
  ASSUME NEW A, NEW o \in Seq(AnyFrame), NEW p \in Written(A, o), NEW w \in Seq(Writes(A))
  PROVE  p \o w \in Written(A, o)
<1>1. PICK v \in Seq(Writes(A)) : p = o \o v
  BY DEF Written
<1>2. v \o w \in Seq(Writes(A)) /\ (o \o v) \o w = o \o (v \o w)
  BY ConcatAssociative, ConcatProperties
<1>. QED
  BY <1>1, <1>2 DEF Written

LEMMA StoreHas ==
  ASSUME NEW st \in Stores
  PROVE  DOMAIN st \subseteq Stream /\ st \in [DOMAIN st -> Queue]
BY DEF Stores

LEMMA ProcessWorks ==
  ASSUME NEW K, NEW A, NEW o \in Seq(AnyFrame), NEW y \in Box(K, A, o),
         NEW i \in DOMAIN y.store, NEW bandwidth \in Int
  PROVE  /\ process_stream(y, i, bandwidth) \in Box(K, A, o)
         /\ DOMAIN process_stream(y, i, bandwidth).store = DOMAIN y.store
<1>. DEFINE q == y.store[i]
            n == IF bandwidth > 0 THEN bandwidth ELSE 1
            cut == Len(q.frames) >= n
            part == IF cut THEN SubSeq(q.frames, 1, n) ELSE q.frames
            rest == IF cut THEN [frames |-> SubSeq(q.frames, n + 1, Len(q.frames)), done |-> q.frames[n].last]
                    ELSE empty_queue
            p == y.out \o part
            st == [y.store EXCEPT ![i] = rest]
            z == process_stream(y, i, bandwidth)
<1>1. q \in Queue /\ q.frames \in Seq(Data) /\ n \in Nat /\ n > 0
  BY BoxIs, StoreHas DEF Queue
<1>2. part \in Seq(Data) /\ rest \in Queue
  <2>1. CASE cut
    <3>1. SubSeq(q.frames, 1, n) \in Seq(Data) /\ SubSeq(q.frames, n + 1, Len(q.frames)) \in Seq(Data)
      BY <1>1, <2>1, SubSeqProperties
    <3>2. q.frames[n].last \in BOOLEAN
      <4>1. n \in 1..Len(q.frames)
        BY <1>1, <2>1
      <4>2. q.frames[n] \in Data
        BY <1>1, <4>1, ElementOfSeq
      <4>. QED
        BY <4>2 DEF Data
    <3>. HIDE DEF q, n
    <3>. QED
      BY <2>1, <3>1, <3>2 DEF Queue
  <2>2. CASE ~cut
    BY <1>1, <2>2 DEF Queue, empty_queue
  <2>. QED
    BY <2>1, <2>2
<1>3. p \in Written(A, o)
  <2>1. part \in Seq(Writes(A))
    BY <1>2 DEF Writes
  <2>. HIDE DEF part
  <2>. QED
    BY <2>1, BoxIs, WrittenMore
<1>4. z = [known |-> y.known, store |-> st, closing |-> y.closing, notify |-> y.notify, out |-> p]
  <2>1. y = [known |-> y.known, store |-> y.store, closing |-> y.closing, notify |-> y.notify, out |-> y.out]
    BY BoxIs
  <2>2. z = [[y EXCEPT !.out = p] EXCEPT !.store = st]
    <3>1. z = [y EXCEPT !.out = @ \o part, !.store[i] = rest]
      BY DEF process_stream
    <3>. HIDE DEF part, rest, z
    <3>. QED
      BY <2>1, <3>1
  <2>. HIDE DEF p, st, z
  <2>. QED
    BY <2>1, <2>2
<1>5. st \in Stores /\ DOMAIN st = DOMAIN y.store
  <2>. HIDE DEF rest
  <2>. QED
    BY <1>2, BoxIs, StoreHas DEF Stores
<1>. HIDE DEF st, p, z
<1>. QED
  BY <1>3, <1>4, <1>5, BoxIs DEF z

(* What two bandwidth rounds leave alone.                                   *)
Part(K, A, o, D) == {y \in Box(K, A, o) : DOMAIN y.store = D}

LEMMA OrdersOf ==
  ASSUME NEW D \in SUBSET Stream, NEW order \in Orders(D)
  PROVE  \E n \in Nat : DOMAIN order = 1..n /\ order \in [1..n -> D]
<1>1. IsFiniteSet(D) /\ Cardinality(D) \in Nat
  BY FS_Subset, FS_CardinalityType, ChannelsAssumption
<1>2. order \in SetToSeqs(D)
  BY DEF Orders
<1>3. order \in [1..Cardinality(D) -> D]
  BY <1>2, Zenon DEF SetToSeqs
<1>. QED
  BY <1>1, <1>3

LEMMA GuaranteedRound ==
  ASSUME NEW K, NEW A, NEW o \in Seq(AnyFrame), NEW D \in SUBSET Stream, NEW x \in Part(K, A, o, D),
         NEW guarantee \in [Stream -> Int], NEW n \in Nat, NEW order \in [1..n -> D]
  PROVE  FoldLeft(LAMBDA y, i : process_stream(y, i, guarantee[i]), x, order) \in Part(K, A, o, D)
<1>. DEFINE S == DOMAIN order
            U == Part(K, A, o, D)
            V == [s \in SUBSET S |-> U]
            step(y, i) == process_stream(y, i, guarantee[i])
            Rec(H) == [s \in SUBSET S |-> IF s = {} THEN x ELSE step(H[s \ {Max(s)}], order[Max(s)])]
            F == CHOOSE H : H = Rec(H)
            f == [p \in U \X S |-> step(p[1], order[p[2]])]
<1>1. FoldLeft(LAMBDA y, i : process_stream(y, i, guarantee[i]), x, order) = F[S]
  BY DEF FoldLeft, MapThenFoldSet
<1>2. S = 1..n /\ IsFiniteSet(S) /\ \A s \in SUBSET S : s # {} => Max(s) \in s
  BY Positions
<1>3. ASSUME NEW s \in SUBSET S, NEW k \in s, NEW y \in V[s \ {k}] PROVE y \in U /\ step(y, order[k]) \in V[s]
  <2>1. order[k] \in D /\ y \in U /\ y \in Box(K, A, o) /\ DOMAIN y.store = D
    BY DEF Part
  <2>2. step(y, order[k]) \in U
    BY <2>1, ProcessWorks DEF Part
  <2>. QED
    BY <2>1, <2>2
<1>4. x \in V[{}]
  OBVIOUS
<1>. HIDE DEF step, V
<1>5. StepsKnown(n, V, f)
  BY <1>2, <1>3 DEF StepsKnown
<1>6. PICK G : G = Recursion(n, x, f, G) /\ Known(n, V, G)
  <2>. HIDE DEF f
  <2>. QED
    BY <1>4, <1>5, FoldExists
<1>7. \A s \in SUBSET S : G[s] \in V[s]
  BY <1>2, <1>6 DEF Known
<1>8. G = Rec(G)
  <2>1. ASSUME NEW s \in SUBSET S
        PROVE  G[s] = IF s = {} THEN x ELSE step(G[s \ {Max(s)}], order[Max(s)])
    <3>1. s # {} => G[s \ {Max(s)}] \in U /\ Max(s) \in S
      BY <1>2, <1>3, <1>7
    <3>2. G[s] = IF s = {} THEN x ELSE f[<<G[s \ {Max(s)}], Max(s)>>]
      BY <1>2, <1>6 DEF Recursion
    <3>. QED
      BY <3>1, <3>2
  <2>2. G = [s \in SUBSET S |-> G[s]]
    BY <1>2, <1>6 DEF Recursion
  <2>. QED
    BY <2>1, <2>2
<1>9. F = Rec(F)
  BY <1>8
<1>. HIDE DEF F
<1>10. F[{}] = G[{}] /\ Follows(F, G, S)
  BY <1>2, <1>8, <1>9 DEF Follows
<1>11. F[S] = G[S]
  BY <1>2, <1>10, FoldUnique
<1>12. F[S] \in V[S]
  BY <1>7, <1>11
<1>. QED
  BY <1>1, <1>12 DEF V

(* The share of a stream, and a step of the round for what is left.         *)
Share(x, total, start, acc, i) ==
  IF acc.prio = Prio[i] THEN acc.share
  ELSE as_i64((total - (Len(acc.y.out) - start)) \div Cardinality({j \in DOMAIN x.store : Prio[j] = Prio[i]}))

OptionalStep(x, total, start, acc, i) ==
  IF Len(acc.y.out) - start >= total THEN acc
  ELSE [y |-> process_stream(acc.y, i, Share(x, total, start, acc, i)), prio |-> Prio[i],
        share |-> Share(x, total, start, acc, i)]

Optionals(x, total, start, base, order) ==
  FoldLeft(LAMBDA acc, i : OptionalStep(x, total, start, acc, i), base, order)

LEMMA WrittenLen ==
  ASSUME NEW A \in SUBSET Stream, NEW o \in Seq(AnyFrame), NEW p \in Written(A, o)
  PROVE  Len(p) \in Nat
<1>1. PICK w \in Seq(Writes(A)) : p = o \o w
  BY DEF Written
<1>. QED
  BY <1>1, ConcatProperties

LEMMA ShareIs ==
  ASSUME NEW K, NEW A \in SUBSET Stream, NEW o \in Seq(AnyFrame), NEW D \in SUBSET Stream,
         NEW x, DOMAIN x.store = D, NEW total \in Int, NEW start \in Int,
         NEW acc \in [y : Part(K, A, o, D), prio : Int, share : Int], NEW i \in D
  PROVE  Share(x, total, start, acc, i) \in Int /\ Prio[i] \in Int
<1>1. Prio[i] \in Nat
  BY ChannelsAssumption
<1>. DEFINE M == {j \in D : Prio[j] = Prio[i]}
<1>2. Cardinality(M) \in Nat /\ Cardinality(M) # 0
  <2>1. IsFiniteSet(M) /\ M # {}
    BY FS_Subset, ChannelsAssumption
  <2>. HIDE DEF M
  <2>. QED
    BY <2>1, FS_CardinalityType, FS_EmptySet
<1>3. acc.y.out \in Written(A, o)
  BY BoxIs DEF Part
<1>4. Len(acc.y.out) \in Nat
  BY <1>3, WrittenLen
<1>. HIDE DEF M
<1>5. (total - (Len(acc.y.out) - start)) \div Cardinality(M) \in Int
  <2>1. \A a \in Int, b \in Nat : b # 0 => a \div b \in Int
    OBVIOUS
  <2>2. total - (Len(acc.y.out) - start) \in Int
    BY <1>4
  <2>. QED
    BY <1>2, <2>1, <2>2
<1>6. \A k \in Int : as_i64(k) \in Int
  <2>1. 2^Width \in Int
    BY ChannelsAssumption
  <2>. QED
    BY <2>1 DEF as_i64
<1>7. as_i64((total - (Len(acc.y.out) - start)) \div Cardinality(M)) \in Int
  BY <1>5, <1>6
<1>8. acc.share \in Int /\ D = DOMAIN x.store
  OBVIOUS
<1>9. Share(x, total, start, acc, i) =
        IF acc.prio = Prio[i] THEN acc.share
        ELSE as_i64((total - (Len(acc.y.out) - start)) \div Cardinality(M))
  BY Zenon DEF Share, M
<1>10. Share(x, total, start, acc, i) \in Int
  BY <1>7, <1>8, <1>9, Zenon
<1>. QED
  BY <1>1, <1>10

LEMMA OptionalRound ==
  ASSUME NEW K, NEW A \in SUBSET Stream, NEW o \in Seq(AnyFrame), NEW D \in SUBSET Stream,
         NEW x, DOMAIN x.store = D, NEW total \in Int, NEW start \in Int,
         NEW base \in [y : Part(K, A, o, D), prio : Int, share : Int],
         NEW n \in Nat, NEW order \in [1..n -> D]
  PROVE  Optionals(x, total, start, base, order).y \in Part(K, A, o, D)
<1>. DEFINE S == DOMAIN order
            U == [y : Part(K, A, o, D), prio : Int, share : Int]
            V == [s \in SUBSET S |-> U]
            step(y, i) == OptionalStep(x, total, start, y, i)
            Rec(H) == [s \in SUBSET S |-> IF s = {} THEN base ELSE step(H[s \ {Max(s)}], order[Max(s)])]
            F == CHOOSE H : H = Rec(H)
            f == [p \in U \X S |-> step(p[1], order[p[2]])]
<1>1. Optionals(x, total, start, base, order) = F[S]
  BY DEF Optionals, FoldLeft, MapThenFoldSet
<1>2. S = 1..n /\ IsFiniteSet(S) /\ \A s \in SUBSET S : s # {} => Max(s) \in s
  BY Positions
<1>3. ASSUME NEW s \in SUBSET S, NEW k \in s, NEW y \in V[s \ {k}] PROVE y \in U /\ step(y, order[k]) \in V[s]
  <2>1. order[k] \in D /\ y \in U /\ y.y \in Box(K, A, o) /\ DOMAIN y.y.store = D
    BY DEF Part
  <2>. DEFINE i == order[k]
              share == Share(x, total, start, y, i)
  <2>2. share \in Int /\ Prio[i] \in Int
    BY <2>1, ShareIs
  <2>. HIDE DEF share, i
  <2>3. process_stream(y.y, i, share) \in Part(K, A, o, D)
    BY <2>1, <2>2, ProcessWorks DEF Part, i
  <2>4. step(y, i) \in U
    BY <2>1, <2>2, <2>3 DEF OptionalStep, share
  <2>. QED
    BY <2>1, <2>4 DEF i
<1>4. base \in V[{}]
  OBVIOUS
<1>. HIDE DEF step, V
<1>5. StepsKnown(n, V, f)
  BY <1>2, <1>3 DEF StepsKnown
<1>6. PICK G : G = Recursion(n, base, f, G) /\ Known(n, V, G)
  <2>. HIDE DEF f
  <2>. QED
    BY <1>4, <1>5, FoldExists
<1>7. \A s \in SUBSET S : G[s] \in V[s]
  BY <1>2, <1>6 DEF Known
<1>8. G = Rec(G)
  <2>1. ASSUME NEW s \in SUBSET S
        PROVE  G[s] = IF s = {} THEN base ELSE step(G[s \ {Max(s)}], order[Max(s)])
    <3>1. s # {} => G[s \ {Max(s)}] \in U /\ Max(s) \in S
      BY <1>2, <1>3, <1>7
    <3>2. G[s] = IF s = {} THEN base ELSE f[<<G[s \ {Max(s)}], Max(s)>>]
      BY <1>2, <1>6 DEF Recursion
    <3>. QED
      BY <3>1, <3>2
  <2>2. G = [s \in SUBSET S |-> G[s]]
    BY <1>2, <1>6 DEF Recursion
  <2>. QED
    BY <2>1, <2>2
<1>9. F = Rec(F)
  BY <1>8
<1>. HIDE DEF F
<1>10. F[{}] = G[{}] /\ Follows(F, G, S)
  BY <1>2, <1>8, <1>9 DEF Follows
<1>11. F[S] = G[S]
  BY <1>2, <1>10, FoldUnique
<1>12. F[S] \in V[S]
  BY <1>7, <1>11
<1>. QED
  BY <1>1, <1>12 DEF V

LEMMA GrabWorks ==
  ASSUME NEW K, NEW A \in SUBSET Stream, NEW o \in Seq(AnyFrame), NEW x \in Box(K, A, o),
         NEW total \in Int, NEW guarantee \in [Stream -> Int], NEW order \in Orders(DOMAIN x.store)
  PROVE  grab(x, total, guarantee, order) \in Box(K, A, o)
<1>. DEFINE D == DOMAIN x.store
            start == Len(x.out)
            g == FoldLeft(LAMBDA y, i : process_stream(y, i, guarantee[i]), x, order)
            base == [y |-> g, prio |-> -1, share |-> 0]
<1>1. D \subseteq Stream /\ x \in Part(K, A, o, D)
  BY BoxIs, StoreHas DEF Part
<1>2. PICK n \in Nat : DOMAIN order = 1..n /\ order \in [1..n -> D]
  BY <1>1, OrdersOf
<1>3. start \in Int
  BY BoxIs, WrittenLen
<1>4. g \in Part(K, A, o, D)
  BY <1>1, <1>2, GuaranteedRound
<1>5. Optionals(x, total, start, base, order).y \in Part(K, A, o, D)
  <2>1. base \in [y : Part(K, A, o, D), prio : Int, share : Int]
    <3>. HIDE DEF g
    <3>. QED
      BY <1>4
  <2>. HIDE DEF base, start
  <2>. QED
    BY <1>1, <1>2, <1>3, <2>1, OptionalRound
<1>6. grab(x, total, guarantee, order) = Optionals(x, total, start, base, order).y
  BY DEF grab, Optionals, OptionalStep, Share
<1>. QED
  BY <1>5, <1>6 DEF Part

(* Small changes.                                                           *)
Record(y) ==
  y = [known |-> y.known, store |-> y.store, closing |-> y.closing, notify |-> y.notify, out |-> y.out]

LEMMA ForgetWorks ==
  ASSUME NEW K, NEW A, NEW o, NEW y \in Box(K, A, o), NEW i, i \notin K
  PROVE  forget(y, i) \in Box(K, A, o)
<1>. DEFINE st == [j \in DOMAIN y.store \ {i} |-> y.store[j]]
<1>1. st \in Stores /\ K \subseteq DOMAIN st
  <2>1. y.store \in Stores /\ K \subseteq DOMAIN y.store
    BY BoxIs
  <2>2. DOMAIN y.store \subseteq Stream /\ y.store \in [DOMAIN y.store -> Queue]
    BY <2>1, StoreHas
  <2>3. DOMAIN st \subseteq Stream /\ st \in [DOMAIN st -> Queue]
    BY <2>2
  <2>4. st \in Stores
    <3>. HIDE DEF st
    <3>. QED
      BY <2>3 DEF Stores
  <2>. QED
    BY <2>1, <2>4
<1>2. forget(y, i) = [known |-> y.known, store |-> st, closing |-> y.closing, notify |-> y.notify, out |-> y.out]
  <2>1. Record(y)
    BY BoxIs DEF Record
  <2>2. forget(y, i) = [y EXCEPT !.store = st]
    BY DEF forget
  <2>. HIDE DEF st
  <2>. QED
    BY <2>1, <2>2 DEF Record
<1>. HIDE DEF st
<1>. QED
  BY <1>1, <1>2, BoxIs

LEMMA EmitWorks ==
  ASSUME NEW K, NEW A, NEW o \in Seq(AnyFrame), NEW y \in Box(K, A, o), NEW kind, NEW i,
         Control(kind, i) \in Writes(A)
  PROVE  emit(y, kind, i) \in Box(K, A, o)
<1>. DEFINE p == Append(y.out, Control(kind, i))
<1>1. p \in Written(A, o)
  <2>. DEFINE c == Control(kind, i)
  <2>1. y.out \in Written(A, o)
    BY BoxIs
  <2>2. PICK w \in Seq(Writes(A)) : y.out = o \o w
    BY <2>1 DEF Written
  <2>. HIDE DEF c
  <2>3. c \in Writes(A)
    BY DEF c
  <2>4. <<c>> \in Seq(Writes(A))
    BY <2>3
  <2>5. y.out \o <<c>> \in Written(A, o)
    BY <2>1, <2>4, WrittenMore
  <2>6. y.out \in Seq(AnyFrame \cup Writes(A))
    <3>1. o \in Seq(AnyFrame \cup Writes(A)) /\ w \in Seq(AnyFrame \cup Writes(A))
      BY <2>2
    <3>. QED
      BY <2>2, <3>1, ConcatProperties
  <2>7. c \in AnyFrame \cup Writes(A)
    BY <2>3
  <2>8. Append(y.out, c) = y.out \o <<c>>
    BY <2>6, <2>7, AppendIsConcat
  <2>. QED
    BY <2>5, <2>8 DEF c
<1>2. emit(y, kind, i) = [known |-> y.known, store |-> y.store, closing |-> y.closing, notify |-> y.notify, out |-> p]
  <2>1. Record(y)
    BY BoxIs DEF Record
  <2>2. emit(y, kind, i) = [y EXCEPT !.out = p]
    BY DEF emit
  <2>. HIDE DEF p
  <2>. QED
    BY <2>1, <2>2 DEF Record
<1>. HIDE DEF p
<1>. QED
  BY <1>1, <1>2, BoxIs

LEMMA LaterWorks ==
  ASSUME NEW K, NEW A, NEW o, NEW y \in Box(K, A, o), NEW q \in Seq(A)
  PROVE  /\ [y EXCEPT !.closing = q] \in Box(K, A, o)
         /\ [y EXCEPT !.notify = q] \in Box(K, A, o)
<1>1. Record(y)
  BY BoxIs DEF Record
<1>2. [y EXCEPT !.closing = q] = [known |-> y.known, store |-> y.store, closing |-> q, notify |-> y.notify, out |-> y.out]
  BY <1>1 DEF Record
<1>3. [y EXCEPT !.notify = q] = [known |-> y.known, store |-> y.store, closing |-> y.closing, notify |-> q, out |-> y.out]
  BY <1>1 DEF Record
<1>4. [y EXCEPT !.closing = q] \in Box(K, A, o)
  BY <1>2, BoxIs
<1>5. [y EXCEPT !.notify = q] \in Box(K, A, o)
  BY <1>3, BoxIs
<1>. QED
  BY <1>4, <1>5

LEMMA CloseWorks ==
  ASSUME NEW K, NEW A, NEW o \in Seq(AnyFrame), NEW y \in Box(K, A, o), NEW i \in A, i \notin K
  PROVE  send_close(y, i) \in Box(K, A, o) /\ notify_close(y, i) \in Box(K, A, o)
<1>1. forget(y, i) \in Box(K, A, o)
  BY ForgetWorks
<1>2. emit(forget(y, i), "close", i) \in Box(K, A, o)
  <2>1. Control("close", i) \in Writes(A)
    BY DEF Writes
  <2>. QED
    BY <1>1, <2>1, EmitWorks
<1>3. Append(y.closing, i) \in Seq(A) /\ Append(y.notify, i) \in Seq(A)
  BY BoxIs
<1>4. [y EXCEPT !.closing = Append(@, i)] \in Box(K, A, o)
  <2>1. [y EXCEPT !.closing = Append(@, i)] = [y EXCEPT !.closing = Append(y.closing, i)]
    OBVIOUS
  <2>. QED
    BY <1>3, <2>1, LaterWorks
<1>5. [y EXCEPT !.notify = Append(@, i)] \in Box(K, A, o)
  <2>1. [y EXCEPT !.notify = Append(@, i)] = [y EXCEPT !.notify = Append(y.notify, i)]
    OBVIOUS
  <2>. QED
    BY <1>3, <2>1, LaterWorks
<1>6. send_close(y, i) \in Box(K, A, o)
  BY <1>2, <1>4, Zenon DEF send_close
<1>7. notify_close(y, i) \in Box(K, A, o)
  BY <1>1, <1>5, Zenon DEF notify_close
<1>. QED
  BY <1>6, <1>7

LEMMA ClosingRound ==
  ASSUME NEW K, NEW A, K \cap A = {}, NEW o \in Seq(AnyFrame), NEW x \in Box(K, A, o),
         NEW n \in Nat, NEW q \in [1..n -> A]
  PROVE  FoldLeft(send_close, x, q) \in Box(K, A, o)
<1>. DEFINE S == DOMAIN q
            U == Box(K, A, o)
            V == [s \in SUBSET S |-> U]
            step(y, i) == send_close(y, i)
            Rec(H) == [s \in SUBSET S |-> IF s = {} THEN x ELSE step(H[s \ {Max(s)}], q[Max(s)])]
            F == CHOOSE H : H = Rec(H)
            f == [p \in U \X S |-> step(p[1], q[p[2]])]
<1>1. FoldLeft(send_close, x, q) = F[S]
  BY DEF FoldLeft, MapThenFoldSet
<1>2. S = 1..n /\ IsFiniteSet(S) /\ \A s \in SUBSET S : s # {} => Max(s) \in s
  BY Positions
<1>3. ASSUME NEW s \in SUBSET S, NEW k \in s, NEW y \in V[s \ {k}] PROVE y \in U /\ step(y, q[k]) \in V[s]
  <2>1. q[k] \in A /\ q[k] \notin K /\ y \in U
    OBVIOUS
  <2>2. step(y, q[k]) \in U
    BY <2>1, CloseWorks
  <2>. QED
    BY <2>1, <2>2
<1>4. x \in V[{}]
  OBVIOUS
<1>. HIDE DEF step, V
<1>5. StepsKnown(n, V, f)
  BY <1>2, <1>3 DEF StepsKnown
<1>6. PICK G : G = Recursion(n, x, f, G) /\ Known(n, V, G)
  <2>. HIDE DEF f
  <2>. QED
    BY <1>4, <1>5, FoldExists
<1>7. \A s \in SUBSET S : G[s] \in V[s]
  BY <1>2, <1>6 DEF Known
<1>8. G = Rec(G)
  <2>1. ASSUME NEW s \in SUBSET S
        PROVE  G[s] = IF s = {} THEN x ELSE step(G[s \ {Max(s)}], q[Max(s)])
    <3>1. s # {} => G[s \ {Max(s)}] \in U /\ Max(s) \in S
      BY <1>2, <1>3, <1>7
    <3>2. G[s] = IF s = {} THEN x ELSE f[<<G[s \ {Max(s)}], Max(s)>>]
      BY <1>2, <1>6 DEF Recursion
    <3>. QED
      BY <3>1, <3>2
  <2>2. G = [s \in SUBSET S |-> G[s]]
    BY <1>2, <1>6 DEF Recursion
  <2>. QED
    BY <2>1, <2>2
<1>9. F = Rec(F)
  BY <1>8
<1>. HIDE DEF F
<1>10. F[{}] = G[{}] /\ Follows(F, G, S)
  BY <1>2, <1>8, <1>9 DEF Follows
<1>11. F[S] = G[S]
  BY <1>2, <1>10, FoldUnique
<1>12. F[S] \in V[S]
  BY <1>7, <1>11
<1>. QED
  BY <1>1, <1>12 DEF V

LEMMA NotifyRound ==
  ASSUME NEW K, NEW A, K \cap A = {}, NEW o \in Seq(AnyFrame), NEW x \in Box(K, A, o),
         NEW n \in Nat, NEW q \in [1..n -> A]
  PROVE  FoldLeft(notify_close, x, q) \in Box(K, A, o)
<1>. DEFINE S == DOMAIN q
            U == Box(K, A, o)
            V == [s \in SUBSET S |-> U]
            step(y, i) == notify_close(y, i)
            Rec(H) == [s \in SUBSET S |-> IF s = {} THEN x ELSE step(H[s \ {Max(s)}], q[Max(s)])]
            F == CHOOSE H : H = Rec(H)
            f == [p \in U \X S |-> step(p[1], q[p[2]])]
<1>1. FoldLeft(notify_close, x, q) = F[S]
  BY DEF FoldLeft, MapThenFoldSet
<1>2. S = 1..n /\ IsFiniteSet(S) /\ \A s \in SUBSET S : s # {} => Max(s) \in s
  BY Positions
<1>3. ASSUME NEW s \in SUBSET S, NEW k \in s, NEW y \in V[s \ {k}] PROVE y \in U /\ step(y, q[k]) \in V[s]
  <2>1. q[k] \in A /\ q[k] \notin K /\ y \in U
    OBVIOUS
  <2>2. step(y, q[k]) \in U
    BY <2>1, CloseWorks
  <2>. QED
    BY <2>1, <2>2
<1>4. x \in V[{}]
  OBVIOUS
<1>. HIDE DEF step, V
<1>5. StepsKnown(n, V, f)
  BY <1>2, <1>3 DEF StepsKnown
<1>6. PICK G : G = Recursion(n, x, f, G) /\ Known(n, V, G)
  <2>. HIDE DEF f
  <2>. QED
    BY <1>4, <1>5, FoldExists
<1>7. \A s \in SUBSET S : G[s] \in V[s]
  BY <1>2, <1>6 DEF Known
<1>8. G = Rec(G)
  <2>1. ASSUME NEW s \in SUBSET S
        PROVE  G[s] = IF s = {} THEN x ELSE step(G[s \ {Max(s)}], q[Max(s)])
    <3>1. s # {} => G[s \ {Max(s)}] \in U /\ Max(s) \in S
      BY <1>2, <1>3, <1>7
    <3>2. G[s] = IF s = {} THEN x ELSE f[<<G[s \ {Max(s)}], Max(s)>>]
      BY <1>2, <1>6 DEF Recursion
    <3>. QED
      BY <3>1, <3>2
  <2>2. G = [s \in SUBSET S |-> G[s]]
    BY <1>2, <1>6 DEF Recursion
  <2>. QED
    BY <2>1, <2>2
<1>9. F = Rec(F)
  BY <1>8
<1>. HIDE DEF F
<1>10. F[{}] = G[{}] /\ Follows(F, G, S)
  BY <1>2, <1>8, <1>9 DEF Follows
<1>11. F[S] = G[S]
  BY <1>2, <1>10, FoldUnique
<1>12. F[S] \in V[S]
  BY <1>7, <1>11
<1>. QED
  BY <1>1, <1>12 DEF V

LEMMA SeqParts ==
  ASSUME NEW A, NEW q \in Seq(A)
  PROVE  Len(q) \in Nat /\ q \in [1..Len(q) -> A]
OBVIOUS

LEMMA FlushWorks ==
  ASSUME NEW K, NEW A \in SUBSET Stream, K \cap A = {}, NEW o \in Seq(AnyFrame), NEW x \in Box(K, A, o),
         NEW total \in Int, NEW guarantee \in [Stream -> Int], NEW order \in Orders(DOMAIN x.store)
  PROVE  flush(x, total, guarantee, order) \in Box(K, A, o)
<1>. DEFINE a == grab(x, total, guarantee, order)
            a0 == [a EXCEPT !.closing = <<>>]
            b == FoldLeft(send_close, a0, a.closing)
            b0 == [b EXCEPT !.notify = <<>>]
<1>1. a \in Box(K, A, o)
  BY GrabWorks
<1>2. a0 \in Box(K, A, o) /\ a.closing \in Seq(A)
  <2>. HIDE DEF a
  <2>. QED
    BY <1>1, BoxIs, LaterWorks, EmptySeq
<1>3. b \in Box(K, A, o)
  <2>. HIDE DEF a, a0
  <2>. QED
    BY <1>2, SeqParts, ClosingRound
<1>4. b0 \in Box(K, A, o) /\ b.notify \in Seq(A)
  <2>. HIDE DEF b
  <2>. QED
    BY <1>3, BoxIs, LaterWorks, EmptySeq
<1>5. FoldLeft(notify_close, b0, b.notify) \in Box(K, A, o)
  <2>. HIDE DEF b, b0
  <2>. QED
    BY <1>4, SeqParts, NotifyRound
<1>. QED
  BY <1>5 DEF flush

LEMMA RemovesWorks ==
  ASSUME NEW K, NEW A \in SUBSET Stream, K \cap A = {}, NEW o \in Seq(AnyFrame), NEW x \in Box(K, A, o),
         NEW order \in Orders(DOMAIN x.store)
  PROVE  removes(x, order) \in Box(K, A, o)
<1>. DEFINE y == flush(x, MaxBandwidth, Guaranteed, order)
            z == IF DOMAIN y.store = {} THEN emit(y, "shutdown", NoStream) ELSE y
<1>1. y \in Box(K, A, o)
  <2>1. MaxBandwidth \in Int /\ Guaranteed \in [Stream -> Int]
    BY ChannelsAssumption DEF MaxBandwidth
  <2>. QED
    BY <2>1, FlushWorks
<1>2. Control("shutdown", NoStream) \in Writes(A) /\ Control("eof", NoStream) \in Writes(A)
  BY DEF Writes, Eof
<1>3. z \in Box(K, A, o)
  <2>. HIDE DEF y
  <2>. QED
    BY <1>1, <1>2, EmitWorks
<1>4. emit(z, "eof", NoStream) \in Box(K, A, o)
  <2>. HIDE DEF z
  <2>. QED
    BY <1>2, <1>3, EmitWorks
<1>. QED
  BY <1>4 DEF removes

(* What an iteration drains.                                                *)
heard(y, i) == open_stream([y EXCEPT !.known = @ \cup {i}], i)
add(y, m) == [y EXCEPT !.store[m.stream].frames = @ \o frames_of(m.stream, m.msg, m.size)]
unheard(y, i) == notify_close([y EXCEPT !.known = @ \ {i}], i)

LEMMA BoxSeq ==
  ASSUME NEW K, NEW A, NEW o \in Seq(AnyFrame), NEW y \in Box(K, A, o)
  PROVE  y.known = K /\ K \subseteq Stream
BY BoxIs, StoreHas

LEMMA HeardWorks ==
  ASSUME NEW K, NEW A, NEW o, NEW y \in Box(K, A, o), NEW i \in Stream
  PROVE  heard(y, i) \in Box(K \cup {i}, A, o)
<1>. DEFINE st == [j \in DOMAIN y.store \cup {i} |-> IF j = i THEN empty_queue ELSE y.store[j]]
            k == K \cup {i}
<1>1. Record(y) /\ y.known = K /\ K \subseteq DOMAIN y.store /\ y.store \in Stores
  BY BoxIs DEF Record
<1>2. heard(y, i) = [[y EXCEPT !.known = k] EXCEPT !.store = st]
  <2>1. [y EXCEPT !.known = @ \cup {i}] = [y EXCEPT !.known = k]
    BY <1>1
  <2>2. [y EXCEPT !.known = k].store = y.store
    BY <1>1 DEF Record
  <2>. HIDE DEF k
  <2>. QED
    BY <2>1, <2>2 DEF heard, open_stream
<1>3. heard(y, i) = [known |-> k, store |-> st, closing |-> y.closing, notify |-> y.notify, out |-> y.out]
  <2>. HIDE DEF k, st
  <2>. QED
    BY <1>1, <1>2 DEF Record
<1>4. st \in Stores /\ k \subseteq DOMAIN st
  <2>1. DOMAIN y.store \subseteq Stream /\ y.store \in [DOMAIN y.store -> Queue]
    BY <1>1, StoreHas
  <2>2. empty_queue \in Queue
    BY DEF empty_queue, Queue
  <2>3. DOMAIN st \subseteq Stream /\ st \in [DOMAIN st -> Queue] /\ k \subseteq DOMAIN st
    BY <1>1, <2>1, <2>2
  <2>. HIDE DEF st, k
  <2>. QED
    BY <2>3 DEF Stores
<1>5. y.closing \in Seq(A) /\ y.notify \in Seq(A) /\ y.out \in Written(A, o)
  BY BoxIs
<1>. DEFINE z == heard(y, i)
<1>6. z \in Box(k, A, o)
  <2>. HIDE DEF st, k, z
  <2>1. z = [known |-> k, store |-> st, closing |-> y.closing, notify |-> y.notify, out |-> y.out]
    BY <1>3 DEF z
  <2>. QED
    BY <2>1, <1>4, <1>5, BoxIs
<1>. QED
  BY <1>6

LEMMA FramesAre ==
  ASSUME NEW m \in Message
  PROVE  frames_of(m.stream, m.msg, m.size) \in Seq(Data)
<1>1. m.stream \in Stream /\ m.msg \in Nat /\ m.size \in Nat
  BY DEF Message
<1>2. m.size + 1 \in Nat
  BY <1>1
<1>3. \A k \in 1..(m.size + 1) :
        Frame(IF k = 1 THEN "header" ELSE "data", m.stream, m.msg, k = m.size + 1) \in Data
  BY <1>1 DEF Frame, Data
<1>. QED
  BY <1>2, <1>3 DEF frames_of

LEMMA AddWorks ==
  ASSUME NEW K, NEW A, NEW o, NEW y \in Box(K, A, o), NEW m \in Message, m.stream \in K
  PROVE  add(y, m) \in Box(K, A, o)
<1>. DEFINE i == m.stream
            q == y.store[i]
            fr == q.frames \o frames_of(m.stream, m.msg, m.size)
            st == [y.store EXCEPT ![i].frames = fr]
<1>1. Record(y) /\ y.known = K /\ K \subseteq DOMAIN y.store /\ y.store \in Stores
  BY BoxIs DEF Record
<1>2. DOMAIN y.store \subseteq Stream /\ y.store \in [DOMAIN y.store -> Queue] /\ i \in DOMAIN y.store
  BY <1>1, StoreHas
<1>3. fr \in Seq(Data) /\ q \in Queue
  BY <1>2, FramesAre, ConcatProperties DEF Queue
<1>4. add(y, m) = [y EXCEPT !.store = st]
  <2>1. add(y, m) = [y EXCEPT !.store[i].frames = @ \o frames_of(m.stream, m.msg, m.size)]
    BY DEF add
  <2>2. add(y, m) = [y EXCEPT !.store[i].frames = fr]
    BY <2>1
  <2>. HIDE DEF fr, i
  <2>. QED
    BY <1>1, <2>2 DEF Record
<1>5. st \in Stores /\ DOMAIN st = DOMAIN y.store
  <2>1. [q EXCEPT !.frames = fr] \in Queue
    <3>. HIDE DEF fr, q
    <3>. QED
      BY <1>3 DEF Queue
  <2>2. st = [y.store EXCEPT ![i] = [q EXCEPT !.frames = fr]]
    <3>. HIDE DEF fr, i
    <3>. QED
      BY <1>2
  <2>. DEFINE r == [q EXCEPT !.frames = fr]
  <2>. HIDE DEF r, st, i
  <2>3. r \in Queue
    BY <2>1 DEF r
  <2>4. st = [y.store EXCEPT ![i] = r]
    BY <2>2 DEF r
  <2>. QED
    BY <1>2, <2>3, <2>4 DEF Stores
<1>6. add(y, m) = [known |-> y.known, store |-> st, closing |-> y.closing, notify |-> y.notify, out |-> y.out]
  <2>. HIDE DEF st
  <2>. QED
    BY <1>1, <1>4 DEF Record
<1>. HIDE DEF st
<1>. QED
  BY <1>1, <1>5, <1>6, BoxIs

LEMMA BoxMore ==
  ASSUME NEW K, NEW A, NEW o \in Seq(AnyFrame), NEW y \in Box(K, A, o), NEW B, A \subseteq B
  PROVE  y \in Box(K, B, o)
<1>1. Writes(A) \subseteq Writes(B)
  BY DEF Writes
<1>2. Seq(Writes(A)) \subseteq Seq(Writes(B)) /\ Seq(A) \subseteq Seq(B)
  BY <1>1
<1>3. Written(A, o) \subseteq Written(B, o)
  BY <1>2 DEF Written
<1>. QED
  BY <1>2, <1>3, BoxIs

LEMMA BoxLess ==
  ASSUME NEW K, NEW A, NEW o, NEW y \in Box(K, A, o), NEW k, k \subseteq K
  PROVE  [y EXCEPT !.known = k] \in Box(k, A, o)
<1>1. Record(y)
  BY BoxIs DEF Record
<1>2. [y EXCEPT !.known = k] = [known |-> k, store |-> y.store, closing |-> y.closing, notify |-> y.notify, out |-> y.out]
  BY <1>1 DEF Record
<1>. QED
  BY <1>2, BoxIs

LEMMA UnheardWorks ==
  ASSUME NEW K, NEW A, NEW o \in Seq(AnyFrame), NEW y \in Box(K, A, o), NEW i
  PROVE  unheard(y, i) \in Box(K \ {i}, A \cup {i}, o)
<1>. DEFINE z == [y EXCEPT !.known = @ \ {i}]
            k == K \ {i}
            a == A \cup {i}
<1>1. z = [y EXCEPT !.known = k]
  BY BoxIs
<1>. HIDE DEF z, k, a
<1>2. z \in Box(k, A, o)
  BY <1>1, BoxLess DEF k
<1>3. z \in Box(k, a, o)
  BY <1>2, BoxMore DEF a
<1>4. notify_close(z, i) \in Box(k, a, o)
  BY <1>3, CloseWorks DEF k, a
<1>. QED
  BY <1>4 DEF unheard, z, k, a

LEMMA HeardRound ==
  ASSUME NEW K, NEW A, NEW o, NEW x \in Box(K, A, o), NEW n \in Nat, NEW q \in [1..n -> Stream]
  PROVE  FoldLeft(heard, x, q) \in Box(K \cup {q[k] : k \in 1..n}, A, o)
<1>. DEFINE S == DOMAIN q
            U == UNION {Box(K \cup {q[k] : k \in s}, A, o) : s \in SUBSET S}
            V == [s \in SUBSET S |-> Box(K \cup {q[k] : k \in s}, A, o)]
            step(y, i) == heard(y, i)
            Rec(H) == [s \in SUBSET S |-> IF s = {} THEN x ELSE step(H[s \ {Max(s)}], q[Max(s)])]
            F == CHOOSE H : H = Rec(H)
            f == [p \in U \X S |-> step(p[1], q[p[2]])]
<1>1. FoldLeft(heard, x, q) = F[S]
  BY DEF FoldLeft, MapThenFoldSet
<1>2. S = 1..n /\ IsFiniteSet(S) /\ \A s \in SUBSET S : s # {} => Max(s) \in s
  BY Positions
<1>3. ASSUME NEW s \in SUBSET S, NEW k \in s, NEW y \in V[s \ {k}] PROVE y \in U /\ step(y, q[k]) \in V[s]
  <2>1. q[k] \in Stream /\ y \in Box(K \cup {q[j] : j \in s \ {k}}, A, o)
    OBVIOUS
  <2>2. step(y, q[k]) \in Box((K \cup {q[j] : j \in s \ {k}}) \cup {q[k]}, A, o)
    BY <2>1, HeardWorks
  <2>3. (K \cup {q[j] : j \in s \ {k}}) \cup {q[k]} = K \cup {q[j] : j \in s}
    OBVIOUS
  <2>. QED
    BY <2>1, <2>2, <2>3
<1>4. x \in V[{}]
  <2>1. K \cup {q[k] : k \in {}} = K
    OBVIOUS
  <2>. QED
    BY <2>1
<1>. HIDE DEF step, V
<1>5. StepsKnown(n, V, f)
  BY <1>2, <1>3 DEF StepsKnown
<1>6. PICK G : G = Recursion(n, x, f, G) /\ Known(n, V, G)
  <2>. HIDE DEF f
  <2>. QED
    BY <1>4, <1>5, FoldExists
<1>7. \A s \in SUBSET S : G[s] \in V[s]
  BY <1>2, <1>6 DEF Known
<1>8. G = Rec(G)
  <2>1. ASSUME NEW s \in SUBSET S
        PROVE  G[s] = IF s = {} THEN x ELSE step(G[s \ {Max(s)}], q[Max(s)])
    <3>1. s # {} => G[s \ {Max(s)}] \in U /\ Max(s) \in S
      BY <1>2, <1>3, <1>7
    <3>2. G[s] = IF s = {} THEN x ELSE f[<<G[s \ {Max(s)}], Max(s)>>]
      BY <1>2, <1>6 DEF Recursion
    <3>. QED
      BY <3>1, <3>2
  <2>2. G = [s \in SUBSET S |-> G[s]]
    BY <1>2, <1>6 DEF Recursion
  <2>. QED
    BY <2>1, <2>2
<1>9. F = Rec(F)
  BY <1>8
<1>. HIDE DEF F
<1>10. F[{}] = G[{}] /\ Follows(F, G, S)
  BY <1>2, <1>8, <1>9 DEF Follows
<1>11. F[S] = G[S]
  BY <1>2, <1>10, FoldUnique
<1>12. F[S] \in V[S]
  BY <1>7, <1>11
<1>. QED
  BY <1>1, <1>2, <1>12 DEF V

LEMMA AddRound ==
  ASSUME NEW K, NEW A, NEW o, NEW x \in Box(K, A, o), NEW n \in Nat, NEW q \in [1..n -> Message],
         \A k \in 1..n : q[k].stream \in K
  PROVE  FoldLeft(add, x, q) \in Box(K, A, o)
<1>. DEFINE S == DOMAIN q
            U == Box(K, A, o)
            V == [s \in SUBSET S |-> U]
            step(y, i) == add(y, i)
            Rec(H) == [s \in SUBSET S |-> IF s = {} THEN x ELSE step(H[s \ {Max(s)}], q[Max(s)])]
            F == CHOOSE H : H = Rec(H)
            f == [p \in U \X S |-> step(p[1], q[p[2]])]
<1>1. FoldLeft(add, x, q) = F[S]
  BY DEF FoldLeft, MapThenFoldSet
<1>2. S = 1..n /\ IsFiniteSet(S) /\ \A s \in SUBSET S : s # {} => Max(s) \in s
  BY Positions
<1>3. ASSUME NEW s \in SUBSET S, NEW k \in s, NEW y \in V[s \ {k}] PROVE y \in U /\ step(y, q[k]) \in V[s]
  <2>1. q[k] \in Message /\ q[k].stream \in K /\ y \in U
    OBVIOUS
  <2>2. step(y, q[k]) \in U
    BY <2>1, AddWorks
  <2>. QED
    BY <2>1, <2>2
<1>4. x \in V[{}]
OBVIOUS
<1>. HIDE DEF step, V
<1>5. StepsKnown(n, V, f)
  BY <1>2, <1>3 DEF StepsKnown
<1>6. PICK G : G = Recursion(n, x, f, G) /\ Known(n, V, G)
  <2>. HIDE DEF f
  <2>. QED
    BY <1>4, <1>5, FoldExists
<1>7. \A s \in SUBSET S : G[s] \in V[s]
  BY <1>2, <1>6 DEF Known
<1>8. G = Rec(G)
  <2>1. ASSUME NEW s \in SUBSET S
        PROVE  G[s] = IF s = {} THEN x ELSE step(G[s \ {Max(s)}], q[Max(s)])
    <3>1. s # {} => G[s \ {Max(s)}] \in U /\ Max(s) \in S
      BY <1>2, <1>3, <1>7
    <3>2. G[s] = IF s = {} THEN x ELSE f[<<G[s \ {Max(s)}], Max(s)>>]
      BY <1>2, <1>6 DEF Recursion
    <3>. QED
      BY <3>1, <3>2
  <2>2. G = [s \in SUBSET S |-> G[s]]
    BY <1>2, <1>6 DEF Recursion
  <2>. QED
    BY <2>1, <2>2
<1>9. F = Rec(F)
  BY <1>8
<1>. HIDE DEF F
<1>10. F[{}] = G[{}] /\ Follows(F, G, S)
  BY <1>2, <1>8, <1>9 DEF Follows
<1>11. F[S] = G[S]
  BY <1>2, <1>10, FoldUnique
<1>12. F[S] \in V[S]
  BY <1>7, <1>11
<1>. QED
  BY <1>1, <1>12 DEF V

LEMMA UnheardRound ==
  ASSUME NEW K, NEW A, NEW o \in Seq(AnyFrame), NEW x \in Box(K, A, o), NEW n \in Nat, NEW q \in [1..n -> Stream]
  PROVE  FoldLeft(unheard, x, q) \in Box(K \ {q[k] : k \in 1..n}, A \cup {q[k] : k \in 1..n}, o)
<1>. DEFINE S == DOMAIN q
            U == UNION {Box(K \ {q[k] : k \in s}, A \cup {q[k] : k \in s}, o) : s \in SUBSET S}
            V == [s \in SUBSET S |-> Box(K \ {q[k] : k \in s}, A \cup {q[k] : k \in s}, o)]
            step(y, i) == unheard(y, i)
            Rec(H) == [s \in SUBSET S |-> IF s = {} THEN x ELSE step(H[s \ {Max(s)}], q[Max(s)])]
            F == CHOOSE H : H = Rec(H)
            f == [p \in U \X S |-> step(p[1], q[p[2]])]
<1>1. FoldLeft(unheard, x, q) = F[S]
  BY DEF FoldLeft, MapThenFoldSet
<1>2. S = 1..n /\ IsFiniteSet(S) /\ \A s \in SUBSET S : s # {} => Max(s) \in s
  BY Positions
<1>3. ASSUME NEW s \in SUBSET S, NEW k \in s, NEW y \in V[s \ {k}] PROVE y \in U /\ step(y, q[k]) \in V[s]
  <2>. DEFINE r == {q[j] : j \in s \ {k}}
  <2>1. q[k] \in Stream /\ y \in Box(K \ r, A \cup r, o)
    OBVIOUS
  <2>2. (K \ r) \ {q[k]} = K \ {q[j] : j \in s} /\ (A \cup r) \cup {q[k]} = A \cup {q[j] : j \in s}
    OBVIOUS
  <2>. HIDE DEF r
  <2>3. step(y, q[k]) \in Box((K \ r) \ {q[k]}, (A \cup r) \cup {q[k]}, o)
    BY <2>1, UnheardWorks
  <2>4. y \in U
    BY <2>1 DEF r
  <2>. QED
    BY <2>2, <2>3, <2>4
<1>4. x \in V[{}]
  <2>1. K \ {q[k] : k \in {}} = K /\ A \cup {q[k] : k \in {}} = A
    OBVIOUS
  <2>. QED
    BY <2>1
<1>. HIDE DEF step, V
<1>5. StepsKnown(n, V, f)
  BY <1>2, <1>3 DEF StepsKnown
<1>6. PICK G : G = Recursion(n, x, f, G) /\ Known(n, V, G)
  <2>. HIDE DEF f
  <2>. QED
    BY <1>4, <1>5, FoldExists
<1>7. \A s \in SUBSET S : G[s] \in V[s]
  BY <1>2, <1>6 DEF Known
<1>8. G = Rec(G)
  <2>1. ASSUME NEW s \in SUBSET S
        PROVE  G[s] = IF s = {} THEN x ELSE step(G[s \ {Max(s)}], q[Max(s)])
    <3>1. s # {} => G[s \ {Max(s)}] \in U /\ Max(s) \in S
      BY <1>2, <1>3, <1>7
    <3>2. G[s] = IF s = {} THEN x ELSE f[<<G[s \ {Max(s)}], Max(s)>>]
      BY <1>2, <1>6 DEF Recursion
    <3>. QED
      BY <3>1, <3>2
  <2>2. G = [s \in SUBSET S |-> G[s]]
    BY <1>2, <1>6 DEF Recursion
  <2>. QED
    BY <2>1, <2>2
<1>9. F = Rec(F)
  BY <1>8
<1>. HIDE DEF F
<1>10. F[{}] = G[{}] /\ Follows(F, G, S)
  BY <1>2, <1>8, <1>9 DEF Follows
<1>11. F[S] = G[S]
  BY <1>2, <1>10, FoldUnique
<1>12. F[S] \in V[S]
  BY <1>7, <1>11
<1>. QED
  BY <1>1, <1>2, <1>12 DEF V

LEMMA DrainedWorks ==
  ASSUME NEW K, NEW A, NEW o \in Seq(AnyFrame), NEW x \in Box(K, A, o), NEW s,
         opened[s] \in Seq(Stream), a2b_msg[s] \in Seq(Message), shut[s] \in Seq(Stream),
         \A k \in DOMAIN a2b_msg[s] : a2b_msg[s][k].stream \in K \cup ToSet(opened[s])
  PROVE  drained(s, x) \in Box((K \cup ToSet(opened[s])) \ ToSet(shut[s]), A \cup ToSet(shut[s]), o)
<1>. DEFINE a == FoldLeft(heard, x, opened[s])
            b == FoldLeft(add, a, a2b_msg[s])
            k == K \cup ToSet(opened[s])
<1>1. a \in Box(k, A, o)
  <2>1. ToSet(opened[s]) = {opened[s][j] : j \in 1..Len(opened[s])}
    BY DEF ToSet
  <2>. DEFINE n == Len(opened[s])
  <2>2. n \in Nat /\ opened[s] \in [1..n -> Stream]
    BY SeqParts
  <2>3. a \in Box(K \cup {opened[s][j] : j \in 1..n}, A, o)
    <3>. HIDE DEF n
    <3>. QED
      BY <2>2, HeardRound
  <2>. QED
    BY <2>1, <2>3
<1>. HIDE DEF a, k
<1>2. b \in Box(k, A, o)
  <2>1. DOMAIN a2b_msg[s] = 1..Len(a2b_msg[s])
    OBVIOUS
  <2>. QED
    BY <1>1, <2>1, SeqParts, AddRound DEF k
<1>. HIDE DEF b
<1>3. FoldLeft(unheard, b, shut[s]) \in Box(k \ ToSet(shut[s]), A \cup ToSet(shut[s]), o)
  <2>1. ToSet(shut[s]) = {shut[s][j] : j \in 1..Len(shut[s])}
    BY DEF ToSet
  <2>. DEFINE n == Len(shut[s])
  <2>2. n \in Nat /\ shut[s] \in [1..n -> Stream]
    BY SeqParts
  <2>3. FoldLeft(unheard, b, shut[s]) \in Box(k \ {shut[s][j] : j \in 1..n}, A \cup {shut[s][j] : j \in 1..n}, o)
    <3>. HIDE DEF n
    <3>. QED
      BY <1>2, <2>2, UnheardRound
  <2>. QED
    BY <2>1, <2>3
<1>4. drained(s, x) = FoldLeft(unheard, b, shut[s])
  BY DEF drained, a, b, heard, add, unheard
<1>. QED
  BY <1>3, <1>4 DEF k

LEMMA ClosesWorks ==
  ASSUME NEW K, NEW A, NEW o \in Seq(AnyFrame), NEW y \in Box(K, A, o), NEW i
  PROVE  closes(y, i) \in Box(K \ {i}, A \cup (K \cap {i}), o)
<1>. DEFINE z == [y EXCEPT !.known = @ \ {i}]
            k == K \ {i}
            a == A \cup (K \cap {i})
<1>1. z = [y EXCEPT !.known = k] /\ y.known = K
  BY BoxIs
<1>2. CASE i \in K
  <2>. HIDE DEF z, k, a
  <2>1. z \in Box(k, A, o)
    BY <1>1, BoxLess DEF k
  <2>2. z \in Box(k, a, o)
    BY <2>1, BoxMore DEF a
  <2>3. send_close(z, i) \in Box(k, a, o)
    BY <1>2, <2>2, CloseWorks DEF k, a
  <2>4. closes(y, i) = send_close(z, i)
    BY <1>1, <1>2 DEF closes, z
  <2>. QED
    BY <2>3, <2>4 DEF k, a
<1>3. CASE i \notin K
  <2>1. k = K /\ a = A
    BY <1>3
  <2>2. closes(y, i) = y
    BY <1>1, <1>3 DEF closes
  <2>. QED
    BY <2>1, <2>2
<1>. QED
  BY <1>2, <1>3

----------------------------------------------------------------------------
(* One step of send_mgr, whatever woke its loop.  K are the streams it looks up  *)
(* and o the frames written before it drains its channels.                  *)
After(s, K, close)  == ((K \cup ToSet(opened[s])) \ ToSet(shut[s])) \ {close}
Closed(s, K, close) == (Waiting(s) \cup ToSet(shut[s])) \cup (((K \cup ToSet(opened[s])) \ ToSet(shut[s])) \cap {close})

LEMMA Sides ==
  ASSUME NEW s \in Side
  PROVE  /\ Remote(s) \in Side /\ Remote(s) # s /\ Remote(Remote(s)) = s
         /\ \A t \in Side : t = s \/ t = Remote(s)
<1>1. PICK a \in Side, b \in Side : a # b /\ Side = {a, b}
  BY ChannelsAssumption
<1>2. Remote(a) = b /\ Remote(b) = a
  <2>1. \A t \in Side : (t # a <=> t = b) /\ (t # b <=> t = a)
    BY <1>1
  <2>. QED
    BY <1>1, <2>1 DEF Remote
<1>. QED
  BY <1>1, <1>2

(* The first message for a stream that is not known.                        *)
LEMMA UnknownIs ==
  ASSUME NEW s, a2b_msg[s] \in Seq(Message), NEW x
  PROVE  /\ unknown(s, x) = NoStream =>
              \A k \in DOMAIN a2b_msg[s] : a2b_msg[s][k].stream \in x.known \cup ToSet(opened[s])
         /\ unknown(s, x) # NoStream =>
              \E k \in DOMAIN a2b_msg[s] :
                unknown(s, x) = a2b_msg[s][k].stream /\ a2b_msg[s][k].stream \notin x.known \cup ToSet(opened[s])
<1>. DEFINE q == a2b_msg[s]
            I == {k \in 1..Len(q) : q[k].stream \notin x.known \cup ToSet(opened[s])}
            n == IF I # {} THEN Min(I) ELSE 0
<1>1. unknown(s, x) = IF n = 0 THEN NoStream ELSE q[n].stream
  BY DEF unknown, SelectInSeq
<1>2. \A k \in DOMAIN q : k \in 1..Len(q) /\ q[k] \in Message /\ q[k].stream \in Stream /\ q[k].stream # NoStream
  <2>1. ASSUME NEW k \in DOMAIN q
        PROVE  k \in 1..Len(q) /\ q[k] \in Message /\ q[k].stream \in Stream /\ q[k].stream # NoStream
    <3>1. k \in 1..Len(q) /\ q[k] \in Message
      BY ElementOfSeq
    <3>2. q[k].stream \in Stream
      BY <3>1 DEF Message
    <3>. HIDE DEF q
    <3>. QED
      BY <3>1, <3>2, ChannelsAssumption
  <2>. QED
    BY <2>1
<1>3. I # {} => n \in I
  <2>1. I \subseteq Nat
    OBVIOUS
  <2>2. ASSUME I # {} PROVE Min(I) \in I
    <3>. HIDE DEF I
    <3>1. PICK m \in I : \A k \in I : <<k, m>> \notin OpToRel(<, Nat)
      BY <2>1, <2>2, WFMin, NatLessThanWellFounded, Zenon
    <3>2. \A k \in I : ~(k < m)
      BY <2>1, <3>1 DEF OpToRel
    <3>3. \A k \in I : m <= k
      BY <2>1, <3>2
    <3>. QED
      BY <3>3, Zenon DEF Min
  <2>. QED
    BY <2>2
<1>4. CASE I = {}
  BY <1>1, <1>2, <1>4
<1>5. CASE I # {}
  <2>1. n \in I /\ n \in 1..Len(q) /\ n # 0 /\ n \in DOMAIN q
    BY <1>3, <1>5
  <2>2. q[n].stream \notin x.known \cup ToSet(opened[s])
    BY <2>1
  <2>. HIDE DEF n, I
  <2>3. unknown(s, x) = q[n].stream /\ unknown(s, x) # NoStream
    BY <1>1, <1>2, <2>1
  <2>. QED
    BY <2>1, <2>2, <2>3
<1>. QED
  BY <1>4, <1>5

LEMMA ResultsWork ==
  ASSUME NEW s, NEW K, NEW A \in SUBSET Stream, NEW o \in Seq(AnyFrame), NEW x \in Box(K, A, o),
         K \cap A = {}, NEW ends, NEW z \in results(x, ends)
  PROVE  z \in Box(K, A, o)
<1>. DEFINE flushed == {flush(x, total, NoGuarantee, order) : total \in 0..MaxBudget, order \in Orders(DOMAIN x.store)}
<1>1. \A y \in flushed : y \in Box(K, A, o)
  <2>1. ASSUME NEW total \in 0..MaxBudget, NEW order \in Orders(DOMAIN x.store)
        PROVE  flush(x, total, NoGuarantee, order) \in Box(K, A, o)
    <3>1. NoGuarantee \in [Stream -> Int] /\ total \in Int
      BY ChannelsAssumption DEF NoGuarantee
    <3>. QED
      BY <3>1, FlushWorks
  <2>. QED
    BY <2>1
<1>2. z \in flushed \/ \E y \in flushed : \E order \in Orders(DOMAIN y.store) : z = removes(y, order)
  <2>1. results(x, ends) = IF ends THEN UNION {{removes(y, order) : order \in Orders(DOMAIN y.store)} : y \in flushed}
                           ELSE flushed
    BY DEF results
  <2>. HIDE DEF flushed
  <2>. QED
    BY <2>1
<1>3. CASE z \in flushed
  BY <1>1, <1>3
<1>4. CASE \E y \in flushed : \E order \in Orders(DOMAIN y.store) : z = removes(y, order)
  <2>. HIDE DEF flushed
  <2>1. PICK y \in flushed : \E order \in Orders(DOMAIN y.store) : z = removes(y, order)
    BY <1>4
  <2>. QED
    BY <1>1, <2>1, RemovesWorks
<1>. QED
  BY <1>2, <1>3, <1>4

LEMMA IterationWorks ==
  ASSUME NEW s, NEW K, NEW A \in SUBSET Stream, NEW o \in Seq(AnyFrame), NEW x \in Box(K, A, o),
         opened[s] \in Seq(Stream), a2b_msg[s] \in Seq(Message), shut[s] \in Seq(Stream), A = Waiting(s),
         (K \cup ToSet(opened[s])) \cap A = {}, unknown(s, x) = NoStream,
         NEW close, NEW ends, NEW z \in results(closes(drained(s, x), close), ends)
  PROVE  z \in Box(After(s, K, close), Closed(s, K, close), o)
<1>. DEFINE k == (K \cup ToSet(opened[s])) \ ToSet(shut[s])
            a == A \cup ToSet(shut[s])
            d == drained(s, x)
            c == closes(d, close)
            k2 == k \ {close}
            a2 == a \cup (k \cap {close})
<1>1. x.known = K /\ K \subseteq Stream
  BY BoxSeq
<1>2. d \in Box(k, a, o)
  <2>1. \A j \in DOMAIN a2b_msg[s] : a2b_msg[s][j].stream \in K \cup ToSet(opened[s])
    BY <1>1, UnknownIs
  <2>. QED
    BY <2>1, DrainedWorks
<1>. HIDE DEF d
<1>3. c \in Box(k2, a2, o)
  <2>. HIDE DEF k, a
  <2>. QED
    BY <1>2, ClosesWorks
<1>4. k2 \cap a2 = {} /\ a2 \in SUBSET Stream
  <2>1. ToSet(shut[s]) \subseteq Stream /\ ToSet(opened[s]) \subseteq Stream
    BY DEF ToSet
  <2>. QED
    BY <1>1, <2>1
<1>5. z \in Box(k2, a2, o)
  <2>. HIDE DEF k2, a2, c
  <2>1. z \in results(c, ends)
    BY DEF c, d
  <2>. QED
    BY <1>3, <1>4, <2>1, ResultsWork
<1>6. k2 = After(s, K, close) /\ a2 = Closed(s, K, close)
  BY DEF After, Closed
<1>. QED
  BY <1>5, <1>6

(* What an iteration leaves, also when it fails.                              *)
Looked(s, open) == IF open = NoStream THEN send[s].known ELSE send[s].known \cup {open}
Wrote(open)     == IF open = NoStream THEN <<>> ELSE <<Control("open", open)>>

Others(s) ==
  \A t \in Side \ {s} : /\ send'[t] = send[t] /\ opened'[t] = opened[t] /\ shut'[t] = shut[t]
                       /\ failed'[t] = failed[t]

Sent(s, A, o) ==
  \E w \in Seq(Writes(A)) : wire' = [wire EXCEPT ![s] = IF up THEN @ \o (o \o w) ELSE @]

Knows(s, K, close) ==
  /\ send'[s].known \cup ToSet(opened'[s]) \subseteq K \cup ToSet(opened[s])
  /\ ToSet(shut'[s]) \subseteq ToSet(shut[s])
  /\ ToSet(send'[s].closing) \cup ToSet(send'[s].notify) \subseteq Closed(s, K, close)
  /\ (send'[s].known \cup ToSet(opened'[s])) \cap (ToSet(send'[s].closing) \cup ToSet(send'[s].notify)) = {}
  /\ send'[s].on => (K \cup ToSet(opened[s])) \ (ToSet(shut[s]) \cup {close}) \subseteq send'[s].known

Fails(s, K) ==
  failed'[s] # failed[s] =>
    \E k \in DOMAIN a2b_msg[s] : failed'[s] = a2b_msg[s][k].stream /\ failed'[s] \notin K \cup ToSet(opened[s])

Works(h) == h.on => h.known \subseteq DOMAIN h.store

Sound ==
  /\ send' \in [Side -> Half] /\ (\A t \in Side : Works(send'[t]))
  /\ opened' \in [Side -> Seq(Stream)] /\ shut' \in [Side -> Seq(Stream)] /\ a2b_msg' \in [Side -> Seq(Message)]
  /\ receiving' \in [Side -> BOOLEAN] /\ failed' \in [Side -> Sid]

Worked(s, K, o, close) ==
  /\ sent' = sent /\ up' = up
  /\ Sound
  /\ a2b_msg'[s] = <<>> /\ \A t \in Side \ {s} : a2b_msg'[t] = a2b_msg[t]
  /\ Others(s) /\ Sent(s, Closed(s, K, close), o) /\ Knows(s, K, close) /\ Fails(s, K)

LEMMA StartWorks ==
  ASSUME NEW s, send[s] \in Half, Works(send[s]), send[s].on, NEW open \in Sid,
         NEW x \in {IF open = NoStream THEN Working(s) ELSE opens(Working(s), open)}
  PROVE  /\ x \in Box(Looked(s, open), Waiting(s), Wrote(open)) /\ x.out = Wrote(open)
         /\ Waiting(s) \subseteq Stream /\ Wrote(open) \in Seq(AnyFrame) /\ Looked(s, open) \subseteq Stream
<1>. DEFINE y == Working(s)
            A == Waiting(s)
            h == send[s]
<1>1. /\ h.known \subseteq DOMAIN h.store /\ h.store \in Stores /\ h.known \subseteq Stream
      /\ h.closing \in Seq(Stream) /\ h.notify \in Seq(Stream)
  BY DEF Half, Works
<1>2. h.closing \in Seq(A) /\ h.notify \in Seq(A) /\ A \subseteq Stream
  <2>1. \A q \in Seq(Stream) : q \in Seq(ToSet(q)) /\ ToSet(q) \subseteq Stream
    <3>1. ASSUME NEW q \in Seq(Stream) PROVE q \in Seq(ToSet(q)) /\ ToSet(q) \subseteq Stream
      <4>1. Len(q) \in Nat /\ q \in [1..Len(q) -> Stream]
        OBVIOUS
      <4>2. q \in [1..Len(q) -> ToSet(q)]
        BY <4>1 DEF ToSet
      <4>3. q \in Seq(ToSet(q))
        <5>. DEFINE T == ToSet(q)
        <5>. HIDE DEF T
        <5>. QED
          BY <4>1, <4>2 DEF T
      <4>. QED
        BY <4>1, <4>3 DEF ToSet
    <3>. QED
      BY <3>1
  <2>2. h.closing \in Seq(ToSet(h.closing)) /\ h.notify \in Seq(ToSet(h.notify))
    BY <1>1, <2>1
  <2>3. ToSet(h.closing) \subseteq A /\ ToSet(h.notify) \subseteq A
    BY DEF Waiting
  <2>4. \A S, T : S \subseteq T => Seq(S) \subseteq Seq(T)
    OBVIOUS
  <2>. QED
    BY <1>1, <2>1, <2>2, <2>3, <2>4 DEF Waiting
<1>3. \A o \in Seq(AnyFrame) : o \in Written(A, o) /\ <<>> \o o = o
  <2>1. ASSUME NEW o \in Seq(AnyFrame) PROVE o \in Written(A, o) /\ <<>> \o o = o
    <3>1. o \o <<>> = o /\ <<>> \o o = o
      OBVIOUS
    <3>2. <<>> \in Seq(Writes(A))
      BY EmptySeq
    <3>. QED
      BY <3>1, <3>2, Zenon DEF Written
  <2>. QED
    BY <2>1
<1>4. y \in Box(h.known, A, <<>>) /\ y.out = <<>>
  <2>1. <<>> \in Seq(AnyFrame)
    BY EmptySeq
  <2>2. /\ y = [known |-> y.known, store |-> y.store, closing |-> y.closing, notify |-> y.notify, out |-> y.out]
        /\ y.known = h.known /\ y.store = h.store /\ y.closing = h.closing /\ y.notify = h.notify /\ y.out = <<>>
    BY DEF Working
  <2>3. <<>> \in Written(A, <<>>)
    BY <1>3, <2>1
  <2>. HIDE DEF A, y, h
  <2>. QED
    BY <1>1, <1>2, <2>2, <2>3, BoxIs
<1>5. CASE open = NoStream
  <2>1. Wrote(open) = <<>> /\ Looked(s, open) = h.known /\ x = y /\ <<>> \in Seq(AnyFrame)
    BY <1>5, EmptySeq DEF Wrote, Looked
  <2>. HIDE DEF y, A
  <2>. QED
    BY <1>1, <1>2, <1>4, <2>1 DEF A
<1>6. CASE open # NoStream
  <2>. DEFINE c == Control("open", open)
              v == heard(y, open)
              K == h.known \cup {open}
  <2>1. open \in Stream /\ Wrote(open) = <<c>> /\ Looked(s, open) = K
    BY <1>6 DEF Wrote, Looked, Sid
  <2>2. v \in Box(K, A, <<>>)
    <3>. HIDE DEF y, A
    <3>. QED
      BY <1>4, <2>1, HeardWorks
  <2>3. v.out = <<>>
    <3>1. y = [known |-> h.known, store |-> h.store, closing |-> h.closing, notify |-> h.notify, out |-> <<>>]
      BY DEF Working
    <3>. HIDE DEF y
    <3>2. [y EXCEPT !.known = @ \cup {open}].out = <<>>
      BY <3>1
    <3>. QED
      BY <3>1, <3>2 DEF heard, open_stream
  <2>4. x = [v EXCEPT !.out = <<c>>]
    <3>1. x = emit(v, "open", open)
      BY <1>6 DEF opens, heard
    <3>2. Append(v.out, c) = <<c>>
      BY <2>3
    <3>. HIDE DEF v, c
    <3>3. emit(v, "open", open) = [v EXCEPT !.out = Append(v.out, c)]
      BY DEF emit, c
    <3>. QED
      BY <3>1, <3>2, <3>3
  <2>5. <<c>> \in Seq(AnyFrame)
    <3>1. c \in AnyFrame
      BY <2>1 DEF AnyFrame, Control, Frame, Sid
    <3>. HIDE DEF c
    <3>. QED
      BY <3>1
  <2>6. Record(v) /\ v.known = K /\ v.store \in Stores /\ K \subseteq DOMAIN v.store /\ v.closing \in Seq(A) /\ v.notify \in Seq(A)
    <3>. HIDE DEF v, K, A
    <3>. QED
      BY <2>2, BoxIs DEF Record
  <2>7. <<c>> \in Written(A, <<c>>)
    <3>. HIDE DEF c, A
    <3>. QED
      BY <1>3, <2>5
  <2>8. x = [known |-> v.known, store |-> v.store, closing |-> v.closing, notify |-> v.notify, out |-> <<c>>]
    <3>. HIDE DEF v, c
    <3>. QED
      BY <2>4, <2>6 DEF Record
  <2>9. x \in Box(K, A, <<c>>) /\ x.out = <<c>>
    <3>. HIDE DEF v, c, K, A
    <3>. QED
      BY <2>6, <2>7, <2>8, BoxIs
  <2>10. K \subseteq Stream
    BY <1>1, <2>1
  <2>. HIDE DEF c, K, A
  <2>. QED
    BY <1>2, <2>1, <2>5, <2>9, <2>10 DEF A
<1>. QED
  BY <1>5, <1>6

LEMMA IterationDoes ==
  ASSUME Typed, WaitingOK, NEW s \in Side, NEW open \in Sid, open \notin Waiting(s), NEW close,
         NEW ends \in BOOLEAN, Iteration(s, open, close, ends)
  PROVE  Worked(s, Looked(s, open), Wrote(open), close)
<1>. DEFINE K == Looked(s, open)
            o == Wrote(open)
            A == Waiting(s)
<1>1. /\ send \in [Side -> Half] /\ send[s] \in Half /\ send[s].on /\ \A t \in Side : Works(send[t])
      /\ opened \in [Side -> Seq(Stream)] /\ shut \in [Side -> Seq(Stream)] /\ a2b_msg \in [Side -> Seq(Message)]
      /\ wire \in [Side -> Seq(AnyFrame)] /\ failed \in [Side -> Sid] /\ receiving \in [Side -> BOOLEAN]
  BY DEF Typed, TypeOK, Iteration, Works, Sid
<1>2. PICK x \in {IF open = NoStream THEN Working(s) ELSE opens(Working(s), open)} :
         IF unknown(s, x) # NoStream THEN Panics(s, x)
         ELSE \E z \in results(closes(drained(s, x), close), ends) : Completes(s, z, ~ends)
  BY DEF Iteration
<1>3. sent' = sent /\ up' = up
  BY DEF Iteration
<1>4. /\ x \in Box(K, A, o) /\ x.out = o /\ A \subseteq Stream /\ o \in Seq(AnyFrame) /\ K \subseteq Stream
  BY <1>1, <1>2, StartWorks
<1>5. (K \cup ToSet(opened[s])) \cap A = {} /\ x.known = K /\ send[s].known \subseteq K
  <2>1. (send[s].known \cup ToSet(opened[s])) \cap A = {}
    BY DEF WaitingOK
  <2>2. K \subseteq send[s].known \cup {open} /\ send[s].known \subseteq K
    BY DEF Looked
  <2>. HIDE DEF K, A, o
  <2>3. x.known = K
    BY <1>4, BoxSeq
  <2>. QED
    BY <2>1, <2>2, <2>3 DEF A
<1>6. CASE unknown(s, x) # NoStream
  <2>1. Panics(s, x)
    BY <1>2, <1>6
  <2>2. PICK k \in DOMAIN a2b_msg[s] :
          unknown(s, x) = a2b_msg[s][k].stream /\ a2b_msg[s][k].stream \notin x.known \cup ToSet(opened[s])
    <3>1. a2b_msg[s] \in Seq(Message)
      BY <1>1
    <3>. QED
      BY <1>6, <3>1, UnknownIs
  <2>3. unknown(s, x) \in Stream
    <3>1. a2b_msg[s] \in Seq(Message)
      BY <1>1
    <3>2. a2b_msg[s][k] \in Message
      BY <3>1, ElementOfSeq
    <3>. QED
      BY <2>2, <3>2 DEF Message
  <2>4. /\ send' = [send EXCEPT ![s].on = FALSE] /\ opened' = opened /\ shut' = shut
        /\ a2b_msg' = [a2b_msg EXCEPT ![s] = <<>>] /\ failed' = [failed EXCEPT ![s] = unknown(s, x)]
        /\ receiving' = [receiving EXCEPT ![s] = FALSE]
        /\ wire' = [wire EXCEPT ![s] = IF up THEN @ \o Append(x.out, Eof) ELSE @]
    BY <2>1 DEF Panics, notes, Sends
  <2>5. /\ send' \in [Side -> Half] /\ \A t \in Side \ {s} : send'[t] = send[t]
        /\ send'[s].on = FALSE /\ send'[s].known = send[s].known
        /\ send'[s].closing = send[s].closing /\ send'[s].notify = send[s].notify
    BY <1>1, <2>4 DEF Half
  <2>6. Sound
    <3>1. \A t \in Side : Works(send'[t])
      BY <1>1, <2>5 DEF Works
    <3>2. a2b_msg' \in [Side -> Seq(Message)]
      BY <1>1, <2>4, EmptySeq
    <3>3. failed' \in [Side -> Sid]
      BY <1>1, <2>3, <2>4 DEF Sid
    <3>. QED
      BY <1>1, <2>4, <2>5, <3>1, <3>2, <3>3 DEF Sound
  <2>7. Knows(s, K, close)
    <3>1. send'[s].known \cup ToSet(opened'[s]) \subseteq K \cup ToSet(opened[s]) /\ shut'[s] = shut[s] /\ opened'[s] = opened[s]
      BY <1>5, <2>4, <2>5
    <3>2. ToSet(send'[s].closing) \cup ToSet(send'[s].notify) = A
      BY <2>5 DEF Waiting
    <3>3. A \subseteq Closed(s, K, close)
      BY DEF Closed
    <3>. HIDE DEF K, A
    <3>. QED
      BY <1>5, <2>5, <3>1, <3>2, <3>3 DEF Knows
  <2>8. Sent(s, Closed(s, K, close), o)
    <3>. DEFINE W == Writes(Closed(s, K, close))
    <3>1. <<Eof>> \in Seq(W)
      <4>1. Eof \in W
        BY DEF Writes
      <4>. HIDE DEF W
      <4>. QED
        BY <4>1
    <3>2. Append(o, Eof) = o \o <<Eof>>
      <4>1. Eof \in AnyFrame
        BY DEF Eof, Control, Frame, AnyFrame, Sid
      <4>. HIDE DEF o
      <4>. QED
        BY <1>4, <4>1, AppendIsConcat
    <3>. HIDE DEF W, o
    <3>. QED
      BY <1>4, <2>4, <3>1, <3>2 DEF Sent, W
  <2>9. Others(s)
    BY <1>1, <2>4, <2>5 DEF Others
  <2>10. Fails(s, K)
    <3>1. failed'[s] = unknown(s, x)
      BY <1>1, <2>4
    <3>. HIDE DEF K
    <3>. QED
      BY <1>5, <2>2, <3>1 DEF Fails
  <2>11. a2b_msg'[s] = <<>> /\ \A t \in Side \ {s} : a2b_msg'[t] = a2b_msg[t]
    BY <1>1, <2>4
  <2>. HIDE DEF K, o
  <2>12. Worked(s, K, o, close)
    BY <1>3, <2>6, <2>7, <2>8, <2>9, <2>10, <2>11 DEF Worked
  <2>. QED
    BY <2>12 DEF K, o
<1>7. CASE unknown(s, x) = NoStream
  <2>. DEFINE k2 == After(s, K, close)
              a2 == Closed(s, K, close)
              on2 == ~ends
  <2>1. PICK z \in results(closes(drained(s, x), close), ends) : Completes(s, z, on2)
    BY <1>2, <1>7
  <2>2. z \in Box(k2, a2, o)
    <3>1. opened[s] \in Seq(Stream) /\ shut[s] \in Seq(Stream) /\ a2b_msg[s] \in Seq(Message)
      BY <1>1
    <3>. HIDE DEF K, o
    <3>. QED
      BY <1>4, <1>5, <1>7, <2>1, <3>1, IterationWorks
  <2>. DEFINE h == [on |-> on2, known |-> z.known, store |-> z.store, closing |-> z.closing, notify |-> z.notify]
  <2>3. /\ send' = [send EXCEPT ![s] = h] /\ opened' = [opened EXCEPT ![s] = <<>>] /\ shut' = [shut EXCEPT ![s] = <<>>]
        /\ a2b_msg' = [a2b_msg EXCEPT ![s] = <<>>] /\ failed' = failed /\ receiving' = receiving
        /\ wire' = [wire EXCEPT ![s] = IF up THEN @ \o z.out ELSE @]
    BY <2>1 DEF Completes, Sends
  <2>4. ToSet(opened[s]) \subseteq Stream /\ ToSet(shut[s]) \subseteq Stream
    <3>1. opened[s] \in Seq(Stream) /\ shut[s] \in Seq(Stream)
      BY <1>1
    <3>. QED
      BY <3>1 DEF ToSet
  <2>5. k2 \subseteq Stream /\ a2 \subseteq Stream /\ k2 \cap a2 = {} /\ k2 \subseteq K \cup ToSet(opened[s])
        /\ (K \cup ToSet(opened[s])) \ (ToSet(shut[s]) \cup {close}) \subseteq k2
    <3>1. A \cup K \cup ToSet(opened[s]) \cup ToSet(shut[s]) \subseteq Stream /\ A = Waiting(s)
      BY <1>4, <2>4
    <3>. HIDE DEF A, K
    <3>. QED
      BY <1>5, <3>1 DEF After, Closed
  <2>6. /\ z.known = k2 /\ z.store \in Stores /\ k2 \subseteq DOMAIN z.store
        /\ z.closing \in Seq(a2) /\ z.notify \in Seq(a2) /\ z.out \in Written(a2, o)
    <3>. HIDE DEF k2, a2, o
    <3>. QED
      BY <2>2, BoxIs
  <2>7. h \in Half /\ Works(h)
    <3>1. z.closing \in Seq(Stream) /\ z.notify \in Seq(Stream)
      <4>. HIDE DEF k2, a2, o
      <4>. QED
        BY <2>5, <2>6
    <3>2. on2 \in BOOLEAN
      BY Zenon
    <3>. HIDE DEF k2, a2, o, on2
    <3>. QED
      BY <2>5, <2>6, <3>1, <3>2 DEF Half, Works
  <2>8. /\ send'[s].known = k2 /\ ToSet(send'[s].closing) \cup ToSet(send'[s].notify) \subseteq a2
        /\ send' \in [Side -> Half] /\ \A t \in Side : Works(send'[t])
    <3>1. ToSet(z.closing) \subseteq a2 /\ ToSet(z.notify) \subseteq a2
      <4>. HIDE DEF k2, a2, o
      <4>. QED
        BY <2>6 DEF ToSet
    <3>2. h.known = k2 /\ h.closing = z.closing /\ h.notify = z.notify
      BY <2>6
    <3>. HIDE DEF h, k2, a2
    <3>. QED
      BY <1>1, <2>3, <2>7, <3>1, <3>2
  <2>. HIDE DEF h
  <2>9. opened'[s] = <<>> /\ shut'[s] = <<>> /\ a2b_msg'[s] = <<>> /\ failed'[s] = failed[s]
        /\ \A t \in Side \ {s} : a2b_msg'[t] = a2b_msg[t]
    BY <1>1, <2>3
  <2>10. Sound
    <3>1. opened' \in [Side -> Seq(Stream)] /\ shut' \in [Side -> Seq(Stream)] /\ a2b_msg' \in [Side -> Seq(Message)]
      BY <1>1, <2>3, EmptySeq
    <3>. QED
      BY <1>1, <2>3, <2>8, <3>1 DEF Sound
  <2>11. Others(s)
    BY <1>1, <2>3 DEF Others
  <2>12. Knows(s, K, close)
    <3>1. ToSet(<<>>) = {}
      BY DEF ToSet
    <3>. HIDE DEF k2, K
    <3>. QED
      BY <2>5, <2>8, <2>9, <3>1 DEF Knows
  <2>13. Sent(s, a2, o)
    <3>. HIDE DEF a2, o
    <3>. QED
      BY <2>3, <2>6 DEF Sent, Written
  <2>14. Fails(s, K)
    BY <2>9 DEF Fails
  <2>. HIDE DEF K, o
  <2>15. Worked(s, K, o, close)
    BY <1>3, <2>9, <2>10, <2>11, <2>12, <2>13, <2>14 DEF Worked
  <2>. QED
    BY <2>15 DEF K, o
<1>. QED
  BY <1>6, <1>7

----------------------------------------------------------------------------
(* What is on its way.                                                     *)
LEMMA WireMore ==
  ASSUME NEW u, NEW s, NEW v \in Seq(AnyFrame), NEW w \in Seq(AnyFrame), WireOK(u, s, v),
         \A k \in DOMAIN w : w[k].kind # "open" /\ \A i \in Sid : Closes(w[k], i) =>
            i \in Stream /\ u[s][i] # "none" /\ Told(u, s, v, i)
  PROVE  WireOK(u, s, v \o w) /\ \A i \in Stream : Told(u, s, v, i) => Told(u, s, v \o w, i)
<1>. DEFINE x == v \o w
<1>1. /\ x \in Seq(AnyFrame) /\ Len(v) \in Nat /\ Len(w) \in Nat /\ Len(x) = Len(v) + Len(w) /\ DOMAIN v = 1..Len(v)
      /\ DOMAIN w = 1..Len(w) /\ DOMAIN x = 1..Len(x)
      /\ \A k \in 1..Len(x) : x[k] = IF k <= Len(v) THEN v[k] ELSE w[k - Len(v)]
  BY ConcatProperties
<1>. HIDE DEF x
<1>2. \A k \in DOMAIN v : k \in DOMAIN x /\ x[k] = v[k]
  BY <1>1
<1>3. ASSUME NEW k \in DOMAIN x
      PROVE  (k \in DOMAIN v /\ x[k] = v[k]) \/ (k > Len(v) /\ \E j \in DOMAIN w : x[k] = w[j])
  <2>1. CASE k <= Len(v)
    BY <1>1, <2>1
  <2>2. CASE ~(k <= Len(v))
    <3>1. k - Len(v) \in DOMAIN w /\ x[k] = w[k - Len(v)] /\ k > Len(v)
      BY <1>1, <2>2
    <3>. QED
      BY <3>1
  <2>. QED
    BY <2>1, <2>2
<1>4. ASSUME NEW k \in DOMAIN x, NEW i \in Sid, Opens(x[k], i)
      PROVE  k \in DOMAIN v /\ x[k] = v[k]
  BY <1>3, <1>4 DEF Opens
<1>5. ASSUME NEW k \in DOMAIN x, NEW i \in Sid, Opens(x[k], i)
      PROVE  /\ i \in Stream /\ Opener[i] = s /\ u[s][i] # "none" /\ u[Remote(s)][i] = "none"
             /\ \A j \in DOMAIN x : Opens(x[j], i) => j = k
  <2>1. k \in DOMAIN v /\ Opens(v[k], i)
    BY <1>4, <1>5
  <2>2. \A j \in DOMAIN x : Opens(x[j], i) => j \in DOMAIN v /\ Opens(v[j], i)
    BY <1>4
  <2>. QED
    BY <2>1, <2>2 DEF WireOK
<1>6. ASSUME NEW k \in DOMAIN x, NEW i \in Sid, Closes(x[k], i)
      PROVE  /\ i \in Stream /\ u[s][i] # "none"
             /\ u[Remote(s)][i] # "none" \/ \E j \in 1..(k - 1) : Opens(x[j], i)
  <2>1. CASE k \in DOMAIN v /\ x[k] = v[k]
    <3>1. /\ i \in Stream /\ u[s][i] # "none"
          /\ u[Remote(s)][i] # "none" \/ \E j \in 1..(k - 1) : Opens(v[j], i)
      BY <1>6, <2>1 DEF WireOK
    <3>2. \A j \in 1..(k - 1) : x[j] = v[j]
      BY <1>1, <1>2, <2>1
    <3>. QED
      BY <3>1, <3>2
  <2>2. CASE k > Len(v) /\ \E j \in DOMAIN w : x[k] = w[j]
    <3>1. i \in Stream /\ u[s][i] # "none" /\ Told(u, s, v, i)
      BY <1>6, <2>2
    <3>2. \A j \in DOMAIN v : j \in 1..(k - 1) /\ x[j] = v[j]
      BY <1>1, <1>2, <2>2
    <3>. QED
      BY <3>1, <3>2 DEF Told
  <2>. QED
    BY <1>3, <2>1, <2>2
<1>7. \A i \in Stream : Told(u, s, v, i) => Told(u, s, x, i)
  BY <1>2 DEF Told
<1>8. WireOK(u, s, x)
  BY <1>5, <1>6 DEF WireOK
<1>. QED
  BY <1>7, <1>8 DEF x

(* The application has got a stream.                                        *)
LEMMA WireUser ==
  ASSUME NEW u, NEW u2, NEW s, NEW v, WireOK(u, s, v),
         \A i \in Stream : u[s][i] # "none" => u2[s][i] # "none",
         \A i \in Stream : u[Remote(s)][i] # "none" => u2[Remote(s)][i] # "none",
         \A i \in Stream : u[Remote(s)][i] = "none" /\ u2[Remote(s)][i] # "none" => ~\E k \in DOMAIN v : Opens(v[k], i)
  PROVE  WireOK(u2, s, v) /\ \A i \in Stream : Told(u, s, v, i) => Told(u2, s, v, i)
<1>1. \A i \in Stream : Told(u, s, v, i) => Told(u2, s, v, i)
  BY DEF Told
<1>2. ASSUME NEW k \in DOMAIN v, NEW i \in Sid, Opens(v[k], i)
      PROVE  /\ i \in Stream /\ Opener[i] = s /\ u2[s][i] # "none" /\ u2[Remote(s)][i] = "none"
             /\ \A j \in DOMAIN v : Opens(v[j], i) => j = k
  <2>1. /\ i \in Stream /\ Opener[i] = s /\ u[s][i] # "none" /\ u[Remote(s)][i] = "none"
        /\ \A j \in DOMAIN v : Opens(v[j], i) => j = k
    BY <1>2 DEF WireOK
  <2>. QED
    BY <1>2, <2>1
<1>3. ASSUME NEW k \in DOMAIN v, NEW i \in Sid, Closes(v[k], i)
      PROVE  /\ i \in Stream /\ u2[s][i] # "none"
             /\ u2[Remote(s)][i] # "none" \/ \E j \in 1..(k - 1) : Opens(v[j], i)
  <2>1. /\ i \in Stream /\ u[s][i] # "none"
        /\ u[Remote(s)][i] # "none" \/ \E j \in 1..(k - 1) : Opens(v[j], i)
    BY <1>3 DEF WireOK
  <2>. QED
    BY <2>1
<1>4. WireOK(u2, s, v)
  BY <1>2, <1>3 DEF WireOK
<1>. QED
  BY <1>1, <1>4

LEMMA WireOpens ==
  ASSUME NEW u, NEW s, NEW v \in Seq(AnyFrame), WireOK(u, s, v), NEW i \in Stream,
         Opener[i] = s, u[s][i] # "none", u[Remote(s)][i] = "none", ~\E k \in DOMAIN v : Opens(v[k], i)
  PROVE  /\ WireOK(u, s, v \o <<Control("open", i)>>) /\ Told(u, s, v \o <<Control("open", i)>>, i)
         /\ \A j \in Stream : Told(u, s, v, j) => Told(u, s, v \o <<Control("open", i)>>, j)
         /\ v \o <<Control("open", i)>> \in Seq(AnyFrame)
<1>. DEFINE c == Control("open", i)
            x == v \o <<c>>
            n == Len(v) + 1
<1>1. c \in AnyFrame /\ Opens(c, i) /\ \A j : Opens(c, j) => j = i /\ ~Closes(c, j)
  BY DEF AnyFrame, Control, Frame, Sid, Opens, Closes
<1>1a. \A j : ~Closes(c, j)
  BY DEF Control, Frame, Closes
<1>. HIDE DEF c
<1>2. /\ x \in Seq(AnyFrame) /\ Len(v) \in Nat /\ DOMAIN v = 1..Len(v) /\ DOMAIN x = 1..n /\ n \in DOMAIN x /\ x[n] = c
      /\ \A k \in DOMAIN v : k \in DOMAIN x /\ x[k] = v[k] /\ k # n
  BY <1>1, ConcatProperties
<1>3. \A k \in DOMAIN x : k = n \/ k \in DOMAIN v
  BY <1>2
<1>. HIDE DEF x
<1>4. ASSUME NEW k \in DOMAIN x, NEW j \in Sid, Opens(x[k], j)
      PROVE  /\ j \in Stream /\ Opener[j] = s /\ u[s][j] # "none" /\ u[Remote(s)][j] = "none"
             /\ \A m \in DOMAIN x : Opens(x[m], j) => m = k
  <2>1. CASE k = n
    <3>1. j = i
      BY <1>1, <1>2, <1>4, <2>1
    <3>2. \A m \in DOMAIN v : ~Opens(x[m], i)
      BY <1>2
    <3>3. \A m \in DOMAIN x : Opens(x[m], j) => m = k
      BY <1>3, <2>1, <3>1, <3>2
    <3>. QED
      BY <3>1, <3>3
  <2>2. CASE k # n
    <3>1. k \in DOMAIN v /\ Opens(v[k], j) /\ j # i
      BY <1>2, <1>3, <1>4, <2>2
    <3>2. \A m \in DOMAIN x : Opens(x[m], j) => m \in DOMAIN v /\ Opens(v[m], j)
      BY <1>1, <1>2, <1>3, <3>1
    <3>. QED
      BY <3>1, <3>2 DEF WireOK
  <2>. QED
    BY <2>1, <2>2
<1>5. ASSUME NEW k \in DOMAIN x, NEW j \in Sid, Closes(x[k], j)
      PROVE  /\ j \in Stream /\ u[s][j] # "none"
             /\ u[Remote(s)][j] # "none" \/ \E m \in 1..(k - 1) : Opens(x[m], j)
  <2>1. k \in DOMAIN v /\ Closes(v[k], j)
    BY <1>1a, <1>2, <1>3, <1>5
  <2>2. \A m \in 1..(k - 1) : x[m] = v[m]
    BY <1>2, <2>1
  <2>. QED
    BY <2>1, <2>2 DEF WireOK
<1>6. WireOK(u, s, x)
  BY <1>4, <1>5 DEF WireOK
<1>7. Told(u, s, x, i) /\ \A j \in Stream : Told(u, s, v, j) => Told(u, s, x, j)
  BY <1>1, <1>2 DEF Told
<1>. QED
  BY <1>2, <1>6, <1>7 DEF x, c

(* A frame has come.                                                        *)
LEMMA WireLess ==
  ASSUME NEW u, NEW u2, NEW s, NEW v \in Seq(AnyFrame), v # <<>>, WireOK(u, s, v), u2[s] = u[s],
         \A i \in Stream : u[Remote(s)][i] # "none" => u2[Remote(s)][i] # "none",
         \A i \in Stream : Opens(Head(v), i) => u2[Remote(s)][i] # "none",
         \A i \in Stream : u2[Remote(s)][i] # u[Remote(s)][i] => Opens(Head(v), i)
  PROVE  WireOK(u2, s, Tail(v)) /\ (\A i \in Stream : Told(u, s, v, i) => Told(u2, s, Tail(v), i)) /\ Tail(v) \in Seq(AnyFrame)
<1>. DEFINE x == Tail(v)
<1>1. /\ x \in Seq(AnyFrame) /\ Len(v) \in Nat /\ Len(v) > 0 /\ DOMAIN v = 1..Len(v) /\ DOMAIN x = 1..(Len(v) - 1)
      /\ \A k \in DOMAIN x : k + 1 \in DOMAIN v /\ x[k] = v[k + 1]
      /\ Head(v) = v[1] /\ 1 \in DOMAIN v
  BY EmptySeq
<1>2. \A k \in DOMAIN v : k # 1 => k - 1 \in DOMAIN x /\ x[k - 1] = v[k]
  <2>1. ASSUME NEW k \in DOMAIN v, k # 1 PROVE k - 1 \in DOMAIN x /\ x[k - 1] = v[k]
    <3>1. k - 1 \in 1..(Len(v) - 1) /\ (k - 1) + 1 = k
      BY <1>1, <2>1
    <3>. HIDE DEF x
    <3>. QED
      BY <1>1, <3>1
  <2>. QED
    BY <2>1
<1>. HIDE DEF x
<1>3. ASSUME NEW k \in DOMAIN x, NEW i \in Sid, Opens(x[k], i)
      PROVE  /\ i \in Stream /\ Opener[i] = s /\ u2[s][i] # "none" /\ u2[Remote(s)][i] = "none"
             /\ \A j \in DOMAIN x : Opens(x[j], i) => j = k
  <2>1. Opens(v[k + 1], i) /\ k + 1 \in DOMAIN v
    BY <1>1, <1>3
  <2>2. /\ i \in Stream /\ Opener[i] = s /\ u[s][i] # "none" /\ u[Remote(s)][i] = "none"
        /\ \A j \in DOMAIN v : Opens(v[j], i) => j = k + 1
    BY <2>1 DEF WireOK
  <2>3. ~Opens(Head(v), i)
    BY <1>1, <1>3, <2>2
  <2>4. ASSUME NEW j \in DOMAIN x, Opens(x[j], i) PROVE j = k
    <3>1. j + 1 = k + 1
      BY <1>1, <2>2, <2>4
    <3>. QED
      BY <1>1, <3>1
  <2>. QED
    BY <2>2, <2>3, <2>4
<1>4. ASSUME NEW k \in DOMAIN x, NEW i \in Sid, Closes(x[k], i)
      PROVE  /\ i \in Stream /\ u2[s][i] # "none"
             /\ u2[Remote(s)][i] # "none" \/ \E j \in 1..(k - 1) : Opens(x[j], i)
  <2>1. Closes(v[k + 1], i) /\ k + 1 \in DOMAIN v
    BY <1>1, <1>4
  <2>2. /\ i \in Stream /\ u[s][i] # "none"
        /\ u[Remote(s)][i] # "none" \/ \E j \in 1..((k + 1) - 1) : Opens(v[j], i)
    BY <2>1 DEF WireOK
  <2>3. ASSUME NEW j \in 1..((k + 1) - 1), Opens(v[j], i), j # 1
        PROVE  \E m \in 1..(k - 1) : Opens(x[m], i)
    <3>1. j - 1 \in 1..(k - 1) /\ j \in DOMAIN v
      BY <1>1, <2>1, <2>3
    <3>. QED
      BY <1>2, <2>3, <3>1
  <2>4. Opens(v[1], i) => u2[Remote(s)][i] # "none"
    BY <1>1, <2>2
  <2>. QED
    BY <2>2, <2>3, <2>4
<1>5. ASSUME NEW i \in Stream, Told(u, s, v, i) PROVE Told(u2, s, x, i)
  <2>1. CASE u[Remote(s)][i] # "none"
    BY <2>1 DEF Told
  <2>2. CASE \E k \in DOMAIN v : Opens(v[k], i)
    <3>1. PICK k \in DOMAIN v : Opens(v[k], i)
      BY <2>2
    <3>2. CASE k = 1
      BY <1>1, <3>1, <3>2 DEF Told
    <3>3. CASE k # 1
      BY <1>2, <3>1, <3>3 DEF Told
    <3>. QED
      BY <3>2, <3>3
  <2>. QED
    BY <1>5, <2>1, <2>2 DEF Told
<1>6. WireOK(u2, s, x)
  BY <1>3, <1>4 DEF WireOK
<1>. QED
  BY <1>1, <1>5, <1>6 DEF x

(* Some of it is lost.                                                      *)
LEMMA WireCut ==
  ASSUME NEW u, NEW s, NEW v \in Seq(AnyFrame), WireOK(u, s, v), NEW n \in 0..Len(v)
  PROVE  Append(SubSeq(v, 1, n), Eof) \in Seq(AnyFrame) /\ WireOK(u, s, Append(SubSeq(v, 1, n), Eof))
<1>. DEFINE x == SubSeq(v, 1, n)
<1>1. /\ x \in Seq(AnyFrame) /\ DOMAIN x = 1..n /\ DOMAIN v = 1..Len(v)
      /\ \A k \in DOMAIN x : k \in DOMAIN v /\ x[k] = v[k]
  BY SubSeqProperties
<1>. HIDE DEF x
<1>2. WireOK(u, s, x)
  <2>1. ASSUME NEW k \in DOMAIN x, NEW i \in Sid, Opens(x[k], i)
        PROVE  /\ i \in Stream /\ Opener[i] = s /\ u[s][i] # "none" /\ u[Remote(s)][i] = "none"
               /\ \A j \in DOMAIN x : Opens(x[j], i) => j = k
    BY <1>1, <2>1 DEF WireOK
  <2>2. ASSUME NEW k \in DOMAIN x, NEW i \in Sid, Closes(x[k], i)
        PROVE  /\ i \in Stream /\ u[s][i] # "none"
               /\ u[Remote(s)][i] # "none" \/ \E j \in 1..(k - 1) : Opens(x[j], i)
    <3>1. /\ i \in Stream /\ u[s][i] # "none"
          /\ u[Remote(s)][i] # "none" \/ \E j \in 1..(k - 1) : Opens(v[j], i)
      BY <1>1, <2>2 DEF WireOK
    <3>2. \A j \in 1..(k - 1) : x[j] = v[j]
      BY <1>1
    <3>. QED
      BY <3>1, <3>2
  <2>. QED
    BY <2>1, <2>2 DEF WireOK
<1>3. <<Eof>> \in Seq(AnyFrame) /\ Eof \in AnyFrame /\ \A k \in DOMAIN <<Eof>> : <<Eof>>[k].kind = "eof"
  <2>1. Eof \in AnyFrame /\ Eof.kind = "eof"
    BY DEF Eof, Control, Frame, AnyFrame, Sid
  <2>. QED
    BY <2>1
<1>4. WireOK(u, s, x \o <<Eof>>) /\ x \o <<Eof>> \in Seq(AnyFrame)
  <2>. DEFINE w == <<Eof>>
  <2>1. w \in Seq(AnyFrame) /\ \A k \in DOMAIN w : w[k].kind # "open" /\ \A i \in Sid : ~Closes(w[k], i)
    BY <1>3 DEF Closes
  <2>. HIDE DEF w
  <2>2. WireOK(u, s, x \o w)
    BY <1>1, <1>2, <2>1, WireMore
  <2>3. x \o w \in Seq(AnyFrame)
    BY <1>1, <2>1, ConcatProperties
  <2>. QED
    BY <2>2, <2>3 DEF w
<1>5. Append(x, Eof) = x \o <<Eof>>
  BY <1>1, <1>3, AppendIsConcat
<1>. QED
  BY <1>4, <1>5 DEF x

(* What send_mgr has written goes out.                                   *)
AllTold(u, s, v) == \A i \in Stream : Opener[i] = s /\ u[s][i] # "none" => Told(u, s, v, i)

LEMMA WritesAre ==
  ASSUME NEW A \in SUBSET Stream
  PROVE  \A f \in Writes(A) : f \in AnyFrame /\ f.kind # "open" /\ \A i \in Sid : Closes(f, i) => i \in A
<1>1. \A f \in Data : f \in AnyFrame /\ f.kind \in {"header", "data"}
  <2>1. \A f \in Data : /\ f = [kind |-> f.kind, stream |-> f.stream, msg |-> f.msg, last |-> f.last]
                       /\ f.kind \in {"header", "data"} /\ f.stream \in Sid /\ f.msg \in Nat /\ f.last \in BOOLEAN
    BY DEF Data, Sid
  <2>. QED
    BY <2>1 DEF AnyFrame
<1>2. \A i \in A : Control("close", i) \in AnyFrame /\ Control("close", i).kind = "close" /\ Control("close", i).stream = i
  BY DEF AnyFrame, Control, Frame, Sid
<1>3. /\ Control("shutdown", NoStream) \in AnyFrame /\ Control("shutdown", NoStream).kind = "shutdown"
      /\ Eof \in AnyFrame /\ Eof.kind = "eof"
  BY DEF AnyFrame, Control, Frame, Sid, Eof
<1>. HIDE DEF Data, AnyFrame
<1>4. ASSUME NEW f \in Writes(A) PROVE f \in AnyFrame /\ f.kind # "open" /\ \A i \in Sid : Closes(f, i) => i \in A
  <2>1. f \in Data \/ (\E i \in A : f = Control("close", i)) \/ f = Control("shutdown", NoStream) \/ f = Eof
    BY DEF Writes
  <2>2. CASE f \in Data
    BY <1>1, <2>2 DEF Closes
  <2>3. CASE \E i \in A : f = Control("close", i)
    <3>1. PICK i \in A : f = Control("close", i)
      BY <2>3
    <3>. QED
      BY <1>2, <3>1 DEF Closes
  <2>4. CASE f = Control("shutdown", NoStream) \/ f = Eof
    BY <1>3, <2>4 DEF Closes
  <2>. QED
    BY <2>1, <2>2, <2>3, <2>4
<1>. QED
  BY <1>4

LEMMA WiresMore ==
  ASSUME NEW s \in Side, NEW A \in SUBSET Stream, NEW o \in Seq(AnyFrame),
         wire \in [Side -> Seq(AnyFrame)], Sent(s, A, o), up' = up,
         \A t \in Side : WireOK(user', t, wire[t]),
         up => /\ \A t \in Side \ {s} : AllTold(user', t, wire[t])
               /\ WireOK(user', s, wire[s] \o o) /\ AllTold(user', s, wire[s] \o o)
               /\ \A i \in A : user'[s][i] # "none" /\ Told(user', s, wire[s] \o o, i)
  PROVE  WiresOK' /\ wire' \in [Side -> Seq(AnyFrame)]
<1>1. PICK w \in Seq(Writes(A)) : wire' = [wire EXCEPT ![s] = IF up THEN @ \o (o \o w) ELSE @]
  BY DEF Sent
<1>2. w \in Seq(AnyFrame) /\ \A k \in DOMAIN w : w[k].kind # "open" /\ \A i \in Sid : Closes(w[k], i) => i \in A
  <2>1. Writes(A) \subseteq AnyFrame
    BY WritesAre
  <2>2. \A k \in DOMAIN w : w[k] \in Writes(A)
    BY ElementOfSeq
  <2>. QED
    BY <2>1, <2>2, WritesAre
<1>3. CASE ~up
  <2>1. wire' = wire
    BY <1>1, <1>3
  <2>. QED
    BY <1>3, <2>1 DEF WiresOK
<1>4. CASE up
  <2>. DEFINE v == wire[s] \o o
              u == user'
  <2>1. v \in Seq(AnyFrame) /\ wire[s] \o (o \o w) = v \o w /\ v \o w \in Seq(AnyFrame)
    BY <1>2, ConcatAssociative, ConcatProperties
  <2>2. wire'[s] = v \o w /\ (\A t \in Side \ {s} : wire'[t] = wire[t]) /\ wire' \in [Side -> Seq(AnyFrame)]
    BY <1>1, <1>4, <2>1
  <2>3. WireOK(u, s, v \o w) /\ \A i \in Stream : Told(u, s, v, i) => Told(u, s, v \o w, i)
    <3>1. WireOK(u, s, v) /\ \A i \in A : i \in Stream /\ u[s][i] # "none" /\ Told(u, s, v, i)
      BY <1>4
    <3>. HIDE DEF v, u
    <3>2. \A k \in DOMAIN w : w[k].kind # "open" /\ \A i \in Sid : Closes(w[k], i) =>
            i \in Stream /\ u[s][i] # "none" /\ Told(u, s, v, i)
      BY <1>2, <3>1
    <3>. QED
      BY <1>2, <2>1, <3>1, <3>2, WireMore
  <2>4. AllTold(u, s, v \o w)
    <3>1. AllTold(u, s, v)
      BY <1>4
    <3>. HIDE DEF v, u
    <3>. QED
      BY <2>3, <3>1 DEF AllTold, Sid
  <2>5. \A t \in Side \ {s} : AllTold(u, t, wire[t])
    BY <1>4
  <2>6. \A t \in Side : WireOK(u, t, wire'[t]) /\ AllTold(u, t, wire'[t])
    <3>. HIDE DEF v, u
    <3>1. \A t \in Side : WireOK(u, t, wire[t])
      BY DEF u
    <3>. QED
      BY <2>2, <2>3, <2>4, <2>5, <3>1
  <2>7. WiresOK'
    BY <2>6 DEF WiresOK, AllTold
  <2>. QED
    BY <2>2, <2>7
<1>. QED
  BY <1>3, <1>4

(* What an iteration finds and leaves around it.                            *)
Users == [Side -> [Stream -> {"none", "idle", "sending", "dropped"}]]
Ends  == [Side -> [Stream -> {"no", "local", "remote", "end"}]]

Around(s, open, close) ==
  /\ user' \in Users /\ closed' \in Ends /\ streams' \in [Side -> SUBSET Stream]
  /\ remp' \in [Side -> BOOLEAN] /\ a2b_close' \in [Side -> Seq(Stream)]
  /\ \A t \in Side \ {s} : user'[t] = user[t] /\ closed'[t] = closed[t] /\ streams'[t] = streams[t]
  /\ \A i \in Stream : i # open => user'[s][i] = user[s][i]
  /\ open # NoStream => Opener[open] = s /\ user[s][open] = "none" /\ user'[s][open] # "none"
  /\ \A i \in Stream : closed[s][i] # "no" => closed'[s][i] # "no"
  /\ \A i \in Stream : user'[s][i] # "none" /\ closed'[s][i] = "no" => i # close /\ i \in streams'[s]

LEMMA IterationWires ==
  ASSUME Typed, HeardOK, WiresOK, NEW s \in Side, NEW open \in Sid, NEW close,
         Around(s, open, close), Worked(s, Looked(s, open), Wrote(open), close)
  PROVE  WiresOK' /\ wire' \in [Side -> Seq(AnyFrame)]
<1>. DEFINE K == Looked(s, open)
            o == Wrote(open)
            A == Closed(s, K, close)
            r == Remote(s)
            u == user'
<1>1. r \in Side /\ r # s /\ Remote(r) = s /\ \A t \in Side : t = s \/ t = r
  BY Sides
<1>2. /\ send[s] \in Half /\ opened[s] \in Seq(Stream) /\ shut[s] \in Seq(Stream) /\ wire \in [Side -> Seq(AnyFrame)]
      /\ user \in Users
  BY DEF Typed, TypeOK, Users
<1>3. A \subseteq Heard(s) \cup {open} /\ A \subseteq Stream
  <2>1. ToSet(opened[s]) \subseteq Stream /\ ToSet(shut[s]) \subseteq Stream /\ Waiting(s) \subseteq Stream /\ send[s].known \subseteq Stream
    BY <1>2 DEF ToSet, Waiting, Half
  <2>2. K \subseteq send[s].known \cup {open} /\ K \subseteq Stream
    BY <2>1 DEF Looked, Sid
  <2>. HIDE DEF K
  <2>. QED
    BY <2>1, <2>2 DEF Closed, Heard
<1>4. o \in Seq(AnyFrame)
  <2>1. open # NoStream => Control("open", open) \in AnyFrame
    BY DEF AnyFrame, Control, Frame, Sid
  <2>2. \A f \in AnyFrame : <<f>> \in Seq(AnyFrame)
    OBVIOUS
  <2>. HIDE DEF AnyFrame, o
  <2>. QED
    BY <2>1, <2>2, EmptySeq DEF o, Wrote
<1>5. \A t \in Side, i \in Stream : (user[t][i] # "none" => u[t][i] # "none") /\ (u[t][i] # user[t][i] => t = s /\ i = open)
  <2>1. ASSUME NEW t \in Side, NEW i \in Stream, u[t][i] # user[t][i] PROVE t = s /\ i = open /\ user[t][i] = "none"
    <3>1. t = s /\ i = open
      BY <2>1 DEF Around
    <3>2. open # NoStream
      BY <3>1, ChannelsAssumption
    <3>. QED
      BY <3>1, <3>2 DEF Around
  <2>. HIDE DEF u
  <2>. QED
    BY <2>1
<1>6. \A i \in Stream : user[r][i] = u[r][i]
  BY <1>1 DEF Around
<1>7. WireOK(u, s, wire[s]) /\ \A i \in Stream : Told(user, s, wire[s], i) => Told(u, s, wire[s], i)
  <2>1. WireOK(user, s, wire[s])
    BY DEF WiresOK
  <2>. HIDE DEF u
  <2>. QED
    BY <1>1, <1>5, <1>6, <2>1, WireUser
<1>8. WireOK(u, r, wire[r]) /\ \A i \in Stream : Told(user, r, wire[r], i) => Told(u, r, wire[r], i)
  <2>1. WireOK(user, r, wire[r])
    BY <1>1 DEF WiresOK
  <2>2. ASSUME NEW i \in Stream, user[s][i] = "none", u[s][i] # "none", NEW k \in DOMAIN wire[r], Opens(wire[r][k], i)
        PROVE  FALSE
    <3>1. i = open /\ Opener[i] = s
      BY <2>2, <1>5, ChannelsAssumption DEF Around
    <3>2. Opener[i] = r
      BY <2>1, <2>2 DEF WireOK, Sid
    <3>. QED
      BY <1>1, <3>1, <3>2
  <2>. HIDE DEF u, r
  <2>. QED
    BY <1>1, <1>5, <1>6, <2>1, <2>2, WireUser
<1>9. \A t \in Side : WireOK(u, t, wire[t])
  BY <1>1, <1>7, <1>8
<1>10. ASSUME up PROVE AllTold(u, r, wire[r])
  <2>1. ASSUME NEW i \in Stream, Opener[i] = r, u[r][i] # "none" PROVE Told(u, r, wire[r], i)
    <3>1. user[r][i] # "none"
      BY <1>6, <2>1
    <3>2. Told(user, r, wire[r], i)
      BY <1>1, <1>10, <2>1, <3>1 DEF WiresOK
    <3>. QED
      BY <1>8, <3>2
  <2>. QED
    BY <2>1 DEF AllTold
<1>. DEFINE v == wire[s] \o o
<1>11. ASSUME up
       PROVE  WireOK(u, s, v) /\ AllTold(u, s, v) /\ \A i \in Stream : Told(u, s, wire[s], i) => Told(u, s, v, i)
  <2>1. ASSUME NEW i \in Stream, Opener[i] = s, u[s][i] # "none", i # open PROVE Told(u, s, wire[s], i)
    <3>1. user[s][i] # "none"
      BY <1>5, <2>1
    <3>2. Told(user, s, wire[s], i)
      BY <1>11, <2>1, <3>1 DEF WiresOK
    <3>. QED
      BY <1>7, <3>2
  <2>2. CASE open = NoStream
    <3>1. v = wire[s]
      BY <1>2, <2>2 DEF Wrote
    <3>2. \A i \in Stream : i # open
      BY <2>2, ChannelsAssumption
    <3>. HIDE DEF u, v
    <3>. QED
      BY <1>7, <2>1, <3>1, <3>2 DEF AllTold
  <2>3. CASE open # NoStream
    <3>1. open \in Stream /\ Opener[open] = s /\ user[s][open] = "none" /\ u[s][open] # "none" /\ v = wire[s] \o <<Control("open", open)>>
      BY <2>3 DEF Around, Sid, Wrote
    <3>2. user[r][open] = "none"
      BY <1>1, <3>1 DEF HeardOK
    <3>3. ~\E k \in DOMAIN wire[s] : Opens(wire[s][k], open)
      BY <3>1 DEF WiresOK, WireOK, Sid
    <3>4. u[r][open] = "none" /\ wire[s] \in Seq(AnyFrame)
      BY <1>2, <1>6, <3>1, <3>2
    <3>. HIDE DEF u, v
    <3>5. /\ WireOK(u, s, v) /\ Told(u, s, v, open)
          /\ \A i \in Stream : Told(u, s, wire[s], i) => Told(u, s, v, i)
      BY <1>7, <3>1, <3>3, <3>4, WireOpens
    <3>6. AllTold(u, s, v)
      BY <2>1, <3>5 DEF AllTold
    <3>. QED
      BY <3>5, <3>6
  <2>. QED
    BY <2>2, <2>3
<1>12. ASSUME up, NEW i \in A PROVE u[s][i] # "none" /\ Told(u, s, v, i)
  <2>1. i \in Stream
    BY <1>3
  <2>2. CASE i = open
    <3>1. open # NoStream
      BY <2>1, <2>2, ChannelsAssumption
    <3>2. Opener[i] = s /\ u[s][i] # "none"
      BY <2>2, <3>1 DEF Around
    <3>. HIDE DEF u, v, A
    <3>. QED
      BY <1>11, <1>12, <2>1, <3>2 DEF AllTold
  <2>3. CASE i # open
    <3>1. i \in Heard(s)
      BY <1>3, <2>3
    <3>2. user[s][i] # "none" /\ user[Opener[i]][i] # "none" /\ Opener[i] \in Side
      BY <2>1, <3>1, ChannelsAssumption DEF HeardOK
    <3>3. u[s][i] # "none" /\ u[Opener[i]][i] # "none"
      BY <1>5, <2>1, <3>2
    <3>4. CASE Opener[i] = s
      <4>. HIDE DEF u, v, A
      <4>. QED
        BY <1>11, <1>12, <2>1, <3>3, <3>4 DEF AllTold
    <3>5. CASE Opener[i] = r
      BY <3>3, <3>5 DEF Told
    <3>. QED
      BY <1>1, <3>2, <3>3, <3>4, <3>5
  <2>. QED
    BY <2>2, <2>3
<1>13. Sent(s, A, o) /\ up' = up
  BY DEF Worked
<1>14. \A t \in Side \ {s} : t = r
  BY <1>1
<1>. HIDE DEF A, o, r, K
<1>15. up => /\ \A t \in Side \ {s} : AllTold(user', t, wire[t])
             /\ WireOK(user', s, wire[s] \o o) /\ AllTold(user', s, wire[s] \o o)
             /\ \A i \in A : user'[s][i] # "none" /\ Told(user', s, wire[s] \o o, i)
  BY <1>10, <1>11, <1>12, <1>14
<1>. QED
  BY <1>2, <1>3, <1>4, <1>9, <1>13, <1>15, WiresMore

LEMMA IterationHears ==
  ASSUME Typed, HeardOK, WaitingOK, NEW s \in Side, NEW open \in Sid, NEW close,
         Around(s, open, close), Worked(s, Looked(s, open), Wrote(open), close)
  PROVE  HeardOK' /\ WaitingOK'
<1>. DEFINE K == Looked(s, open)
            A == Closed(s, K, close)
            u == user'
<1>1. \A t \in Side, i \in Stream : (user[t][i] # "none" => u[t][i] # "none") /\ (u[t][i] # user[t][i] => t = s /\ i = open)
  <2>1. ASSUME NEW t \in Side, NEW i \in Stream, u[t][i] # user[t][i] PROVE t = s /\ i = open /\ user[t][i] = "none"
    <3>1. t = s /\ i = open
      BY <2>1 DEF Around
    <3>2. open # NoStream
      BY <3>1, ChannelsAssumption
    <3>. QED
      BY <3>1, <3>2 DEF Around
  <2>. HIDE DEF u
  <2>. QED
    BY <2>1
<1>2. Knows(s, K, close) /\ Others(s) /\ a2b_msg'[s] = <<>> /\ \A t \in Side \ {s} : a2b_msg'[t] = a2b_msg[t]
  BY DEF Worked
<1>3. Heard(s)' \subseteq Heard(s) \cup {open}
  <2>1. Heard(s)' \subseteq (K \cup ToSet(opened[s])) \cup ToSet(shut[s]) \cup A
    BY <1>2 DEF Heard, Waiting, Knows
  <2>2. K \subseteq send[s].known \cup {open}
    BY DEF Looked
  <2>. HIDE DEF K
  <2>3. A \subseteq Waiting(s) \cup ToSet(shut[s]) \cup K \cup ToSet(opened[s])
    BY DEF Closed
  <2>. HIDE DEF A
  <2>. QED
    BY <2>1, <2>2, <2>3 DEF Heard
<1>4. \A t \in Side \ {s} : Heard(t)' = Heard(t)
  BY <1>2 DEF Others, Heard, Waiting
<1>5. ASSUME NEW i \in Stream, i = open PROVE Opener[i] = s /\ u[s][i] # "none"
  <2>1. open # NoStream
    BY <1>5, ChannelsAssumption
  <2>. QED
    BY <1>5, <2>1 DEF Around
<1>6. ASSUME NEW t \in Side, NEW i \in Stream, i \in Heard(t)' PROVE u[t][i] # "none"
  <2>1. CASE i \in Heard(t)
    BY <1>1, <2>1 DEF HeardOK
  <2>2. CASE i \notin Heard(t)
    BY <1>3, <1>4, <1>5, <1>6, <2>2
  <2>. QED
    BY <2>1, <2>2
<1>7. ASSUME NEW t \in Side, NEW i \in Stream, u[t][i] # "none" PROVE u[Opener[i]][i] # "none"
  <2>1. Opener[i] \in Side
    BY ChannelsAssumption
  <2>2. CASE user[t][i] # "none"
    BY <1>1, <2>1, <2>2 DEF HeardOK
  <2>3. CASE user[t][i] = "none"
    BY <1>1, <1>5, <1>7, <2>3
  <2>. QED
    BY <2>2, <2>3
<1>8. ASSUME NEW t \in Side, NEW k \in DOMAIN a2b_msg'[t] PROVE u[t][a2b_msg'[t][k].stream] # "none"
  <2>1. CASE t = s
    BY <1>2, <1>8, <2>1
  <2>2. CASE t # s
    <3>1. a2b_msg'[t] = a2b_msg[t] /\ u[t] = user[t]
      BY <1>2, <2>2 DEF Around
    <3>2. a2b_msg[t] \in Seq(Message) /\ k \in DOMAIN a2b_msg[t]
      BY <1>8, <3>1 DEF Typed
    <3>3. a2b_msg[t][k] \in Message
      BY <3>2, ElementOfSeq
    <3>4. a2b_msg[t][k].stream \in Stream
      BY <3>3 DEF Message
    <3>5. user[t][a2b_msg[t][k].stream] # "none"
      BY <3>2, <3>4 DEF HeardOK
    <3>. QED
      BY <3>1, <3>5
  <2>. QED
    BY <2>1, <2>2
<1>9. HeardOK'
  <2>. HIDE DEF u
  <2>1. \A t \in Side, i \in Stream :
          /\ i \in Heard(t)' => u[t][i] # "none"
          /\ u[t][i] # "none" => u[Opener[i]][i] # "none"
          /\ \A k \in DOMAIN a2b_msg'[t] : u[t][a2b_msg'[t][k].stream] # "none"
    BY <1>6, <1>7, <1>8
  <2>. QED
    BY <2>1 DEF HeardOK, u
<1>10. WaitingOK'
  <2>1. ASSUME NEW t \in Side PROVE (send'[t].known \cup ToSet(opened'[t])) \cap Waiting(t)' = {}
    <3>1. CASE t = s
      BY <1>2, <3>1 DEF Knows, Waiting
    <3>2. CASE t # s
      BY <1>2, <3>2 DEF Others, Waiting, WaitingOK
    <3>. QED
      BY <3>1, <3>2
  <2>. QED
    BY <2>1 DEF WaitingOK
<1>. QED
  BY <1>9, <1>10

LEMMA IterationOpens ==
  ASSUME Typed, HeardOK, OpenOK, OnlyClosedStreamsFail, NEW s \in Side, NEW open \in Sid, NEW close,
         Around(s, open, close), Worked(s, Looked(s, open), Wrote(open), close), send[s].on
  PROVE  OpenOK' /\ \A t \in Side : failed'[t] # NoStream => closed'[t][failed'[t]] # "no"
<1>. DEFINE K == Looked(s, open)
            u == user'
<1>1. Knows(s, K, close) /\ Others(s) /\ Fails(s, K)
  BY DEF Worked
<1>2. send[s].known \subseteq K /\ (open # NoStream => open \in K)
  BY DEF Looked
<1>3. ASSUME NEW i \in Stream, u[s][i] # "none", closed'[s][i] = "no"
      PROVE  i \in streams'[s] /\ (send'[s].on => i \in send'[s].known)
  <2>1. i # close /\ i \in streams'[s] /\ closed[s][i] = "no"
    BY <1>3 DEF Around
  <2>2. i \notin ToSet(shut[s])
    BY <2>1 DEF OpenOK
  <2>3. i \in K \cup ToSet(opened[s])
    <3>1. CASE user[s][i] # "none"
      BY <1>2, <2>1, <3>1 DEF OpenOK
    <3>2. CASE user[s][i] = "none"
      <4>1. i = open /\ open # NoStream
        BY <1>3, <3>2, ChannelsAssumption DEF Around
      <4>. QED
        BY <1>2, <4>1
    <3>. QED
      BY <3>1, <3>2
  <2>. HIDE DEF K
  <2>. QED
    BY <1>1, <2>1, <2>2, <2>3 DEF Knows
<1>4. ASSUME NEW i \in Stream, i \in ToSet(shut'[s]) PROVE closed'[s][i] # "no"
  <2>1. i \in ToSet(shut[s])
    BY <1>1, <1>4 DEF Knows
  <2>. QED
    BY <2>1 DEF OpenOK, Around
<1>5. OpenOK'
  <2>1. ASSUME NEW t \in Side, NEW i \in Stream
        PROVE  /\ u[t][i] # "none" /\ closed'[t][i] = "no" =>
                    /\ i \in streams'[t]
                    /\ send'[t].on => i \in send'[t].known \cup ToSet(opened'[t])
               /\ i \in ToSet(shut'[t]) => closed'[t][i] # "no"
    <3>1. CASE t = s
      <4>. HIDE DEF u
      <4>. QED
        BY <1>3, <1>4, <3>1
    <3>2. CASE t # s
      <4>1. send'[t] = send[t] /\ opened'[t] = opened[t] /\ shut'[t] = shut[t]
        BY <1>1, <3>2 DEF Others
      <4>2. u[t] = user[t] /\ closed'[t] = closed[t] /\ streams'[t] = streams[t]
        BY <3>2 DEF Around
      <4>. HIDE DEF u
      <4>. QED
        BY <4>1, <4>2 DEF OpenOK
    <3>. QED
      BY <3>1, <3>2
  <2>. QED
    BY <2>1 DEF OpenOK
<1>6. ASSUME NEW t \in Side, failed'[t] # NoStream PROVE closed'[t][failed'[t]] # "no"
  <2>0. failed[t] \in Sid
    BY DEF Typed, TypeOK, Sid
  <2>1. CASE failed'[t] = failed[t]
    <3>1. failed[t] \in Stream /\ closed[t][failed[t]] # "no"
      BY <1>6, <2>0, <2>1 DEF OnlyClosedStreamsFail, Sid
    <3>. QED
      BY <2>1, <3>1 DEF Around
  <2>2. CASE failed'[t] # failed[t]
    <3>1. t = s
      BY <1>1, <2>2 DEF Others
    <3>2. PICK k \in DOMAIN a2b_msg[s] : failed'[s] = a2b_msg[s][k].stream /\ failed'[s] \notin K \cup ToSet(opened[s])
      BY <1>1, <2>2, <3>1 DEF Fails
    <3>3. a2b_msg[s] \in Seq(Message)
      BY DEF Typed
    <3>4. a2b_msg[s][k] \in Message
      BY <3>3, ElementOfSeq
    <3>. DEFINE i == failed'[s]
    <3>5. i \in Stream /\ user[s][i] # "none"
      BY <3>2, <3>4 DEF Message, HeardOK
    <3>6. i \notin send[s].known \cup ToSet(opened[s])
      BY <1>2, <3>2
    <3>7. closed[s][i] # "no"
      <4>. HIDE DEF i
      <4>. QED
        BY <3>5, <3>6 DEF OpenOK
    <3>8. closed'[s][i] # "no"
      <4>. HIDE DEF i
      <4>. QED
        BY <3>5, <3>7 DEF Around
    <3>. QED
      BY <3>1, <3>8
  <2>. QED
    BY <2>1, <2>2
<1>. QED
  BY <1>5, <1>6

LEMMA IterationInv ==
  ASSUME IInv, NEW s \in Side, NEW open \in Sid, open \notin Waiting(s), NEW close, NEW ends \in BOOLEAN,
         Around(s, open, close), Iteration(s, open, close, ends)
  PROVE  IInv'
<1>1. Typed /\ HeardOK /\ WaitingOK /\ WiresOK /\ OpenOK /\ OnlyClosedStreamsFail /\ send[s].on
  BY DEF IInv, Iteration
<1>2. Worked(s, Looked(s, open), Wrote(open), close)
  BY <1>1, IterationDoes
<1>3. WiresOK' /\ wire' \in [Side -> Seq(AnyFrame)]
  BY <1>1, <1>2, IterationWires
<1>4. HeardOK' /\ WaitingOK'
  BY <1>1, <1>2, IterationHears
<1>5. OpenOK' /\ \A t \in Side : failed'[t] # NoStream => closed'[t][failed'[t]] # "no"
  BY <1>1, <1>2, IterationOpens
<1>6. Sound /\ sent' = sent /\ up' = up
  BY <1>2 DEF Worked
<1>7. TypeOK'
  <2>1. sent \in [Side -> [Stream -> Nat]] /\ up \in BOOLEAN
    BY <1>1 DEF Typed, TypeOK
  <2>2. /\ user' \in Users /\ closed' \in Ends /\ streams' \in [Side -> SUBSET Stream] /\ remp' \in [Side -> BOOLEAN]
    BY DEF Around
  <2>3. receiving' \in [Side -> BOOLEAN] /\ failed' \in [Side -> Sid] /\ \A t \in Side : Works(send'[t])
    BY <1>6 DEF Sound
  <2>. QED
    BY <1>6, <2>1, <2>2, <2>3 DEF TypeOK, Users, Ends, Sid, Works
<1>8. Typed'
  BY <1>3, <1>6, <1>7 DEF Typed, Sound, Around
<1>9. OnlyClosedStreamsFail'
  BY <1>5, <1>7 DEF OnlyClosedStreamsFail
<1>. QED
  BY <1>3, <1>4, <1>5, <1>8, <1>9 DEF IInv

----------------------------------------------------------------------------
(* The steps.                                                               *)
LEMMA NotWaiting ==
  ASSUME Typed, NEW s \in Side
  PROVE  NoStream \notin Waiting(s)
<1>1. send[s].closing \in Seq(Stream) /\ send[s].notify \in Seq(Stream)
  BY DEF Typed, Half
<1>. QED
  BY <1>1, ChannelsAssumption DEF Waiting, ToSet

LEMMA OpenStreamStep ==
  ASSUME IInv, NEW s \in Side, NEW i \in Stream, OpenStream(s, i)
  PROVE  IInv'
<1>1. /\ user \in Users /\ closed \in Ends /\ streams \in [Side -> SUBSET Stream] /\ remp \in [Side -> BOOLEAN]
      /\ a2b_close \in [Side -> Seq(Stream)]
  BY DEF IInv, Typed, TypeOK, Users, Ends
<1>2. /\ Opener[i] = s /\ user[s][i] = "none" /\ user' = [user EXCEPT ![s][i] = "idle"]
      /\ streams' = [streams EXCEPT ![s] = @ \cup {i}] /\ closed' = closed /\ a2b_close' = a2b_close /\ remp' = remp
      /\ Iteration(s, i, NoStream, FALSE)
  BY DEF OpenStream
<1>3. i \notin Waiting(s)
  BY <1>2 DEF IInv, HeardOK, Heard
<1>4. i # NoStream /\ \A j \in Stream : j # NoStream
  BY ChannelsAssumption
<1>5. /\ user' \in Users /\ streams' \in [Side -> SUBSET Stream] /\ user'[s][i] = "idle" /\ streams'[s] = streams[s] \cup {i}
      /\ (\A j \in Stream : j # i => user'[s][j] = user[s][j])
      /\ \A t \in Side \ {s} : user'[t] = user[t] /\ streams'[t] = streams[t]
  BY <1>1, <1>2 DEF Users
<1>6. \A j \in Stream : user[s][j] # "none" /\ closed[s][j] = "no" => j \in streams[s]
  BY DEF IInv, OpenOK
<1>7. Around(s, i, NoStream)
  BY <1>1, <1>2, <1>4, <1>5, <1>6 DEF Around
<1>. QED
  BY <1>2, <1>3, <1>7, IterationInv DEF Sid

LEMMA TickStep ==
  ASSUME IInv, NEW s \in Side, Tick(s) \/ RemoveProtocol(s)
  PROVE  IInv'
<1>1. /\ user \in Users /\ closed \in Ends /\ streams \in [Side -> SUBSET Stream] /\ remp \in [Side -> BOOLEAN]
      /\ a2b_close \in [Side -> Seq(Stream)]
  BY DEF IInv, Typed, TypeOK, Users, Ends
<1>2. /\ user' = user /\ streams' = streams /\ closed' = closed /\ a2b_close' = a2b_close /\ remp' \in [Side -> BOOLEAN]
      /\ \E ends \in BOOLEAN : Iteration(s, NoStream, NoStream, ends)
  BY <1>1 DEF Tick, RemoveProtocol
<1>3. NoStream \notin Waiting(s)
  BY NotWaiting DEF IInv
<1>4. \A j \in Stream : j # NoStream
  BY ChannelsAssumption
<1>5. \A j \in Stream : user[s][j] # "none" /\ closed[s][j] = "no" => j \in streams[s]
  BY DEF IInv, OpenOK
<1>6. Around(s, NoStream, NoStream)
  BY <1>1, <1>2, <1>4, <1>5 DEF Around
<1>. QED
  BY <1>2, <1>3, <1>6, IterationInv DEF Sid

LEMMA CloseStreamStep ==
  ASSUME IInv, NEW s \in Side, CloseStream(s)
  PROVE  IInv'
<1>. DEFINE i == Head(a2b_close[s])
<1>1. /\ user \in Users /\ closed \in Ends /\ streams \in [Side -> SUBSET Stream] /\ remp \in [Side -> BOOLEAN]
      /\ a2b_close \in [Side -> Seq(Stream)]
  BY DEF IInv, Typed, TypeOK, Users, Ends
<1>2. /\ a2b_close[s] # <<>> /\ a2b_close' = [a2b_close EXCEPT ![s] = Tail(@)] /\ user' = user /\ remp' = remp
      /\ streams' = [streams EXCEPT ![s] = @ \ {i}]
      /\ closed' = [closed EXCEPT ![s][i] = IF i \in streams[s] THEN "local" ELSE @]
      /\ Iteration(s, NoStream, i, FALSE)
  BY DEF CloseStream
<1>3. i \in Stream /\ a2b_close' \in [Side -> Seq(Stream)]
  BY <1>1, <1>2
<1>. HIDE DEF i
<1>4. NoStream \notin Waiting(s)
  BY NotWaiting DEF IInv
<1>5. \A j \in Stream : j # NoStream
  BY ChannelsAssumption
<1>6. \A j \in Stream : user[s][j] # "none" /\ closed[s][j] = "no" => j \in streams[s]
  BY DEF IInv, OpenOK
<1>7. /\ closed' \in Ends /\ (\A t \in Side \ {s} : closed'[t] = closed[t])
      /\ closed'[s][i] = (IF i \in streams[s] THEN "local" ELSE closed[s][i])
      /\ \A j \in Stream : j # i => closed'[s][j] = closed[s][j]
  BY <1>1, <1>2, <1>3 DEF Ends
<1>8. /\ streams' \in [Side -> SUBSET Stream] /\ streams'[s] = streams[s] \ {i}
      /\ \A t \in Side \ {s} : streams'[t] = streams[t]
  BY <1>1, <1>2
<1>9. \A j \in Stream : user'[s][j] # "none" /\ closed'[s][j] = "no" => j # i /\ j \in streams'[s]
  BY <1>2, <1>6, <1>7, <1>8
<1>10. \A j \in Stream : closed[s][j] # "no" => closed'[s][j] # "no"
  BY <1>7
<1>11. Around(s, NoStream, i)
  BY <1>1, <1>2, <1>3, <1>5, <1>7, <1>8, <1>9, <1>10 DEF Around
<1>. QED
  BY <1>2, <1>4, <1>11, IterationInv DEF Sid

(* The steps of the application and of the end.                             *)
LEMMA WiresKept ==
  ASSUME WiresOK, wire' = wire, up' = up, user \in Users, user' \in Users,
         \A t \in Side, i \in Stream : user[t][i] # "none" <=> user'[t][i] # "none"
  PROVE  WiresOK'
<1>. DEFINE u == user'
<1>1. ASSUME NEW t \in Side
      PROVE  WireOK(u, t, wire[t]) /\ (up => AllTold(u, t, wire[t]))
  <2>1. Remote(t) \in Side
    BY Sides
  <2>2. WireOK(user, t, wire[t]) /\ (up => AllTold(user, t, wire[t]))
    BY DEF WiresOK, AllTold
  <2>. HIDE DEF u
  <2>3. \A r \in Side, i \in Stream : user[r][i] # "none" <=> u[r][i] # "none"
    BY DEF u
  <2>4. WireOK(u, t, wire[t]) /\ \A i \in Stream : Told(user, t, wire[t], i) => Told(u, t, wire[t], i)
    BY <2>1, <2>2, <2>3, WireUser
  <2>. QED
    BY <2>2, <2>3, <2>4 DEF AllTold
<1>. QED
  BY <1>1 DEF WiresOK, AllTold

LEMMA UseStep ==
  ASSUME IInv, NEW s \in Side, NEW i \in Stream, SendChecks(s, i) \/ SendPushes(s, i) \/ DropStream(s, i)
  PROVE  IInv'
<1>1. /\ user \in Users /\ sent \in [Side -> [Stream -> Nat]] /\ a2b_msg \in [Side -> Seq(Message)]
      /\ a2b_close \in [Side -> Seq(Stream)] /\ Typed /\ TypeOK
  BY DEF IInv, Typed, TypeOK, Users
<1>2. /\ user[s][i] # "none" /\ \E v \in {"idle", "sending", "dropped"} : user' = [user EXCEPT ![s][i] = v]
      /\ UNCHANGED <<closed, streams, opened, shut, remp, send, wire, receiving, failed, up>>
  BY DEF SendChecks, SendPushes, DropStream, notes
<1>3. /\ user' \in Users /\ \A t \in Side, j \in Stream : user[t][j] # "none" <=> user'[t][j] # "none"
  BY <1>1, <1>2 DEF Users
<1>4. sent' \in [Side -> [Stream -> Nat]]
  <2>1. sent' = sent \/ sent' = [sent EXCEPT ![s][i] = @ + 1]
    BY DEF SendChecks, SendPushes, DropStream
  <2>2. sent[s][i] + 1 \in Nat
    BY <1>1
  <2>3. [sent EXCEPT ![s][i] = @ + 1] = [sent EXCEPT ![s] = [sent[s] EXCEPT ![i] = sent[s][i] + 1]]
    OBVIOUS
  <2>4. [sent[s] EXCEPT ![i] = sent[s][i] + 1] \in [Stream -> Nat]
    BY <1>1, <2>2
  <2>5. [sent EXCEPT ![s][i] = @ + 1] \in [Side -> [Stream -> Nat]]
    BY <1>1, <2>3, <2>4
  <2>. QED
    BY <1>1, <2>1, <2>5
<1>5. a2b_close' \in [Side -> Seq(Stream)]
  <2>1. a2b_close' = a2b_close \/ a2b_close' = [a2b_close EXCEPT ![s] = Append(@, i)]
    BY DEF SendChecks, SendPushes, DropStream, queues
  <2>2. Append(a2b_close[s], i) \in Seq(Stream)
    BY <1>1
  <2>3. [a2b_close EXCEPT ![s] = Append(@, i)] \in [Side -> Seq(Stream)]
    BY <1>1, <2>2
  <2>. QED
    BY <1>1, <2>1, <2>3
<1>6. a2b_msg' = a2b_msg \/ \E m \in Message : m.stream = i /\ a2b_msg' = [a2b_msg EXCEPT ![s] = Append(@, m)]
  <2>1. CASE SendPushes(s, i) /\ send[s].on
    <3>1. PICK size \in Size :
            a2b_msg' = [a2b_msg EXCEPT ![s] = Append(@, [stream |-> i, msg |-> sent[s][i] + 1, size |-> size])]
      BY <2>1 DEF SendPushes
    <3>. DEFINE m == [stream |-> i, msg |-> sent[s][i] + 1, size |-> size]
    <3>2. m \in Message /\ m.stream = i
      BY <1>1, ChannelsAssumption DEF Message
    <3>. HIDE DEF m
    <3>. QED
      BY <3>1, <3>2 DEF m
  <2>2. CASE ~(SendPushes(s, i) /\ send[s].on)
    BY <2>2 DEF SendChecks, SendPushes, DropStream, queues
  <2>. QED
    BY <2>1, <2>2
<1>7. /\ a2b_msg' \in [Side -> Seq(Message)]
      /\ \A t \in Side : \A k \in DOMAIN a2b_msg'[t] : user'[t][a2b_msg'[t][k].stream] # "none"
  <2>1. \A t \in Side : \A k \in DOMAIN a2b_msg[t] : a2b_msg[t][k].stream \in Stream /\ user[t][a2b_msg[t][k].stream] # "none"
    <3>1. ASSUME NEW t \in Side, NEW k \in DOMAIN a2b_msg[t] PROVE a2b_msg[t][k].stream \in Stream
      <4>1. a2b_msg[t] \in Seq(Message)
        BY <1>1
      <4>2. a2b_msg[t][k] \in Message
        BY <4>1, ElementOfSeq
      <4>. QED
        BY <4>2 DEF Message
    <3>. QED
      BY <3>1 DEF IInv, HeardOK
  <2>2. CASE a2b_msg' = a2b_msg
    BY <1>1, <1>3, <2>1, <2>2
  <2>3. CASE \E m \in Message : m.stream = i /\ a2b_msg' = [a2b_msg EXCEPT ![s] = Append(@, m)]
    <3>1. PICK m \in Message : m.stream = i /\ a2b_msg' = [a2b_msg EXCEPT ![s] = Append(@, m)]
      BY <2>3
    <3>2. /\ a2b_msg' \in [Side -> Seq(Message)] /\ a2b_msg'[s] = Append(a2b_msg[s], m)
          /\ \A t \in Side \ {s} : a2b_msg'[t] = a2b_msg[t]
      BY <1>1, <3>1
    <3>3. ASSUME NEW k \in DOMAIN a2b_msg'[s] PROVE user'[s][a2b_msg'[s][k].stream] # "none"
      <4>1. a2b_msg[s] \in Seq(Message)
        BY <1>1
      <4>2. (k \in DOMAIN a2b_msg[s] /\ a2b_msg'[s][k] = a2b_msg[s][k]) \/ a2b_msg'[s][k] = m
        BY <3>2, <3>3, <4>1
      <4>. QED
        BY <1>2, <1>3, <2>1, <3>1, <4>2
    <3>4. ASSUME NEW t \in Side, NEW k \in DOMAIN a2b_msg'[t] PROVE user'[t][a2b_msg'[t][k].stream] # "none"
      BY <1>3, <2>1, <3>2, <3>3, <3>4
    <3>. QED
      BY <3>2, <3>4
  <2>. QED
    BY <1>6, <2>2, <2>3
<1>8. WiresOK'
  BY <1>1, <1>2, <1>3, WiresKept DEF IInv
<1>9. HeardOK'
  <2>1. \A j \in Stream : Opener[j] \in Side
    BY ChannelsAssumption
  <2>2. \A t \in Side : Heard(t)' = Heard(t)
    BY <1>2 DEF Heard, Waiting
  <2>. QED
    BY <1>3, <1>7, <2>1, <2>2 DEF IInv, HeardOK
<1>10. WaitingOK' /\ OpenOK'
  BY <1>2, <1>3 DEF IInv, WaitingOK, Waiting, OpenOK
<1>11. TypeOK'
  BY <1>1, <1>2, <1>3, <1>4 DEF TypeOK, Users
<1>12. Typed' /\ OnlyClosedStreamsFail'
  BY <1>1, <1>2, <1>5, <1>7, <1>11 DEF Typed, IInv, OnlyClosedStreamsFail
<1>. QED
  BY <1>8, <1>9, <1>10, <1>12 DEF IInv

(* How a stream is ended.                                               *)
EndsWell ==
  /\ closed' \in Ends /\ streams' \in [Side -> SUBSET Stream] /\ remp' \in [Side -> BOOLEAN] /\ receiving' \in [Side -> BOOLEAN]
  /\ \A t \in Side, i \in Stream :
       /\ closed[t][i] # "no" => closed'[t][i] # "no"
       /\ user[t][i] # "none" /\ closed'[t][i] = "no" => i \in streams'[t]

LEMMA EndSteps ==
  ASSUME IInv, NEW s \in Side,
         \/ Disconnect(s)
         \/ \E tell \in BOOLEAN : StopReceiving(s, tell)
         \/ UNCHANGED <<closed, streams, remp, receiving>>
  PROVE  EndsWell
<1>1. /\ closed \in Ends /\ streams \in [Side -> SUBSET Stream] /\ remp \in [Side -> BOOLEAN]
      /\ receiving \in [Side -> BOOLEAN] /\ send[s].on \in BOOLEAN
  BY DEF IInv, Typed, TypeOK, Ends, Half
<1>2. \A t \in Side, i \in Stream : user[t][i] # "none" /\ closed[t][i] = "no" => i \in streams[t]
  BY DEF IInv, OpenOK
<1>. DEFINE c == [i \in Stream |-> IF i \in streams[s] THEN "end" ELSE closed[s][i]]
<1>3. c \in [Stream -> {"no", "local", "remote", "end"}]
  BY <1>1 DEF Ends
<1>4. ASSUME closed' = [closed EXCEPT ![s] = c]
      PROVE  /\ closed' \in Ends
             /\ \A t \in Side, i \in Stream :
                  /\ closed[t][i] # "no" => closed'[t][i] # "no"
                  /\ t # s => closed'[t] = closed[t]
                  /\ closed'[s][i] = "no" => i \notin streams[s] /\ closed[s][i] = "no"
  <2>1. closed'[s] = c /\ \A t \in Side \ {s} : closed'[t] = closed[t]
    BY <1>1, <1>4 DEF Ends
  <2>2. \A i \in Stream : c[i] = IF i \in streams[s] THEN "end" ELSE closed[s][i]
    OBVIOUS
  <2>. HIDE DEF c
  <2>3. closed' \in Ends
    BY <1>1, <1>3, <1>4 DEF Ends
  <2>. QED
    BY <2>1, <2>2, <2>3
<1>5. CASE Disconnect(s)
  <2>1. closed' = [closed EXCEPT ![s] = c] /\ streams' = streams /\ remp' = [remp EXCEPT ![s] = TRUE] /\ receiving' = receiving
    BY <1>1, <1>5 DEF Disconnect
  <2>2. remp' \in [Side -> BOOLEAN]
    BY <1>1, <2>1
  <2>. HIDE DEF c
  <2>. QED
    BY <1>1, <1>2, <1>4, <2>1, <2>2 DEF EndsWell
<1>6. CASE \E tell \in BOOLEAN : StopReceiving(s, tell)
  <2>1. PICK tell \in BOOLEAN : StopReceiving(s, tell)
    BY <1>6
  <2>2. /\ closed' = [closed EXCEPT ![s] = c] /\ streams' = [streams EXCEPT ![s] = {}]
        /\ remp' = [remp EXCEPT ![s] = @ \/ (tell /\ send[s].on)] /\ receiving' = [receiving EXCEPT ![s] = FALSE]
    BY <2>1 DEF StopReceiving
  <2>3. remp' \in [Side -> BOOLEAN]
    <3>1. (remp[s] \/ (tell /\ send[s].on)) \in BOOLEAN
      BY Zenon
    <3>. QED
      BY <1>1, <2>2, <3>1
  <2>4. receiving' \in [Side -> BOOLEAN] /\ streams' \in [Side -> SUBSET Stream] /\ streams'[s] = {}
        /\ \A t \in Side \ {s} : streams'[t] = streams[t]
    BY <1>1, <2>2
  <2>5. ASSUME NEW t \in Side, NEW i \in Stream, user[t][i] # "none", closed'[t][i] = "no" PROVE i \in streams'[t]
    <3>. HIDE DEF c
    <3>. QED
      BY <1>2, <1>4, <2>2, <2>4, <2>5
  <2>. HIDE DEF c
  <2>. QED
    BY <1>4, <2>2, <2>3, <2>4, <2>5 DEF EndsWell
<1>7. CASE UNCHANGED <<closed, streams, remp, receiving>>
  BY <1>1, <1>2, <1>7 DEF EndsWell
<1>. QED
  BY <1>5, <1>6, <1>7

LEMMA EndStep ==
  ASSUME IInv, NEW s \in Side, Disconnect(s) \/ SendFails(s) \/ ForceCloseReceive(s)
  PROVE  IInv'
<1>1. EndsWell
  <2>1. Disconnect(s) \/ StopReceiving(s, FALSE) \/ UNCHANGED <<closed, streams, remp, receiving>>
    BY DEF SendFails, ForceCloseReceive
  <2>. QED
    BY <2>1, EndSteps
<1>2. UNCHANGED <<user, sent, a2b_close, opened, shut, wire, failed, up>>
  BY DEF Disconnect, SendFails, ForceCloseReceive, api, queues, notes
<1>3. /\ user \in Users /\ send \in [Side -> Half] /\ a2b_msg \in [Side -> Seq(Message)] /\ Typed /\ TypeOK
  BY DEF IInv, Typed, TypeOK, Users
<1>4. /\ send' \in [Side -> Half]
      /\ \A t \in Side : /\ send'[t].known = send[t].known /\ send'[t].closing = send[t].closing
                         /\ send'[t].notify = send[t].notify /\ (send'[t].on => send[t].on) /\ send'[t].store = send[t].store
  <2>1. send' = send \/ send' = [send EXCEPT ![s].on = FALSE]
    BY DEF Disconnect, SendFails, ForceCloseReceive
  <2>2. CASE send' = send
    BY <1>3, <2>2
  <2>3. CASE send' = [send EXCEPT ![s].on = FALSE]
    <3>1. send[s] \in Half
      BY <1>3
    <3>. DEFINE h == [send[s] EXCEPT !.on = FALSE]
    <3>2. /\ h \in Half /\ h.known = send[s].known /\ h.closing = send[s].closing
          /\ h.notify = send[s].notify /\ h.on = FALSE /\ h.store = send[s].store
      BY <3>1 DEF Half
    <3>3. send' = [send EXCEPT ![s] = h]
      BY <2>3
    <3>. HIDE DEF h, Half
    <3>4. send'[s] = h /\ (\A t \in Side \ {s} : send'[t] = send[t]) /\ send' \in [Side -> Half]
      BY <1>3, <3>2, <3>3
    <3>. QED
      BY <3>2, <3>4
  <2>. QED
    BY <2>1, <2>2, <2>3
<1>5. /\ a2b_msg' \in [Side -> Seq(Message)]
      /\ \A t \in Side : a2b_msg'[t] = a2b_msg[t] \/ a2b_msg'[t] = <<>>
  <2>1. a2b_msg' = a2b_msg \/ a2b_msg' = [a2b_msg EXCEPT ![s] = <<>>]
    BY DEF Disconnect, SendFails, ForceCloseReceive, queues
  <2>. QED
    BY <1>3, <2>1, EmptySeq
<1>6. WiresOK'
  BY <1>2, <1>3, WiresKept DEF IInv
<1>7. HeardOK'
  <2>1. \A t \in Side : Heard(t)' = Heard(t)
    BY <1>2, <1>4 DEF Heard, Waiting
  <2>2. \A t \in Side : \A k \in DOMAIN a2b_msg'[t] : k \in DOMAIN a2b_msg[t] /\ a2b_msg'[t] = a2b_msg[t]
    BY <1>5
  <2>. QED
    BY <1>2, <2>1, <2>2 DEF IInv, HeardOK
<1>8. WaitingOK'
  BY <1>2, <1>4 DEF IInv, WaitingOK, Waiting
<1>9. OpenOK'
  BY <1>1, <1>2, <1>4 DEF IInv, OpenOK, EndsWell
<1>10. TypeOK'
  BY <1>1, <1>2, <1>3, <1>4 DEF TypeOK, EndsWell, Ends
<1>11. Typed'
  BY <1>2, <1>3, <1>4, <1>5, <1>10 DEF Typed
<1>12. OnlyClosedStreamsFail'
  <2>1. ASSUME NEW t \in Side, failed[t] # NoStream PROVE closed'[t][failed[t]] # "no"
    <3>1. failed[t] \in Stream /\ closed[t][failed[t]] # "no"
      BY <1>3, <2>1 DEF IInv, OnlyClosedStreamsFail, TypeOK
    <3>. QED
      BY <1>1, <3>1 DEF EndsWell
  <2>. QED
    BY <1>2, <1>10, <2>1 DEF OnlyClosedStreamsFail
<1>. QED
  BY <1>6, <1>7, <1>8, <1>9, <1>11, <1>12 DEF IInv

LEMMA BreakStep ==
  ASSUME IInv, Break
  PROVE  IInv'
<1>1. /\ up' = FALSE
      /\ UNCHANGED <<user, sent, closed, streams, a2b_msg, a2b_close, opened, shut, remp, send, receiving, failed>>
  BY DEF Break, api, queues, notes
<1>2. PICK kept : /\ \A s \in Side : kept[s] \in 0..Len(wire[s])
                  /\ wire' = [s \in Side |-> Append(SubSeq(wire[s], 1, kept[s]), Eof)]
  <2>. DEFINE b == Max({Len(wire[s]) : s \in Side})
  <2>1. PICK kept \in [Side -> 0..b] :
          /\ \A s \in Side : kept[s] <= Len(wire[s])
          /\ wire' = [s \in Side |-> Append(SubSeq(wire[s], 1, kept[s]), Eof)]
    BY DEF Break
  <2>2. \A s \in Side : Len(wire[s]) \in Nat
    BY DEF IInv, Typed
  <2>3. \A s \in Side : kept[s] \in Int /\ 0 <= kept[s]
    <3>1. \A k \in 0..b : k \in Int /\ 0 <= k
      <4>. HIDE DEF b
      <4>. QED
        OBVIOUS
    <3>. HIDE DEF b
    <3>. QED
      BY <2>1, <3>1
  <2>4. \A s \in Side : kept[s] \in 0..Len(wire[s])
    BY <2>1, <2>2, <2>3
  <2>. HIDE DEF b
  <2>. QED
    BY <2>1, <2>4
<1>3. \A s \in Side : WireOK(user, s, wire'[s]) /\ wire'[s] \in Seq(AnyFrame)
  <2>1. ASSUME NEW s \in Side PROVE WireOK(user, s, wire'[s]) /\ wire'[s] \in Seq(AnyFrame)
    <3>1. wire[s] \in Seq(AnyFrame) /\ WireOK(user, s, wire[s])
      BY DEF IInv, Typed, WiresOK
    <3>2. wire'[s] = Append(SubSeq(wire[s], 1, kept[s]), Eof) /\ kept[s] \in 0..Len(wire[s])
      BY <1>2
    <3>. QED
      BY <3>1, <3>2, WireCut
  <2>. QED
    BY <2>1
<1>4. wire' \in [Side -> Seq(AnyFrame)]
  BY <1>2, <1>3
<1>5. WiresOK'
  BY <1>1, <1>3 DEF WiresOK
<1>6. Typed'
  BY <1>1, <1>4 DEF IInv, Typed, TypeOK
<1>7. HeardOK' /\ WaitingOK' /\ OpenOK' /\ OnlyClosedStreamsFail'
  BY <1>1, <1>6 DEF IInv, Typed, HeardOK, Heard, WaitingOK, Waiting, OpenOK, OnlyClosedStreamsFail
<1>. QED
  BY <1>5, <1>6, <1>7 DEF IInv

(* A frame is received.                                                 *)
LEMMA AppendSet ==
  ASSUME NEW A, NEW q \in Seq(A), NEW e \in A
  PROVE  ToSet(Append(q, e)) = ToSet(q) \cup {e}
<1>1. /\ DOMAIN q = 1..Len(q) /\ Len(q) \in Nat /\ DOMAIN Append(q, e) = 1..(Len(q) + 1)
      /\ Append(q, e)[Len(q) + 1] = e /\ \A k \in 1..Len(q) : Append(q, e)[k] = q[k]
  BY AppendProperties
<1>2. \A k \in 1..(Len(q) + 1) : k \in 1..Len(q) \/ k = Len(q) + 1
  BY <1>1
<1>3. Len(q) + 1 \in 1..(Len(q) + 1) /\ 1..Len(q) \subseteq 1..(Len(q) + 1)
  BY <1>1
<1>. QED
  BY <1>1, <1>2, <1>3 DEF ToSet

LEMMA ReceiveWires ==
  ASSUME Typed, WiresOK, NEW s \in Side, wire[Remote(s)] # <<>>, up' = up,
         wire' = [wire EXCEPT ![Remote(s)] = Tail(@)], user' \in Users,
         \A t \in Side, i \in Stream : user'[t][i] # user[t][i] => t = s /\ Opens(Head(wire[Remote(s)]), i) /\ user'[t][i] # "none",
         \A i \in Stream : Opens(Head(wire[Remote(s)]), i) => user'[s][i] # "none"
  PROVE  WiresOK' /\ wire' \in [Side -> Seq(AnyFrame)]
<1>. DEFINE u == user'
            r == Remote(s)
            v == wire[r]
<1>1. r \in Side /\ r # s /\ Remote(r) = s /\ (\A t \in Side : t = s \/ t = r) /\ \A i \in Stream : i \in Sid
  BY Sides DEF Sid
<1>2. wire \in [Side -> Seq(AnyFrame)] /\ user \in Users
  BY DEF Typed, TypeOK, Users
<1>3. v \in Seq(AnyFrame) /\ v # <<>> /\ 1 \in DOMAIN v /\ Head(v) = v[1]
  <2>1. v \in Seq(AnyFrame) /\ v # <<>>
    BY <1>1, <1>2
  <2>. HIDE DEF v
  <2>. QED
    BY <2>1, EmptySeq
<1>4. wire'[r] = Tail(v) /\ wire'[s] = wire[s] /\ wire' = [wire EXCEPT ![r] = Tail(v)]
  BY <1>1, <1>2
<1>5. WireOK(user, r, v) /\ WireOK(user, s, wire[s])
  BY <1>1 DEF WiresOK
<1>6. u[r] = user[r] /\ \A i \in Stream : u[r][i] = user[r][i]
  <2>1. u[r] \in [Stream -> {"none", "idle", "sending", "dropped"}] /\ user[r] \in [Stream -> {"none", "idle", "sending", "dropped"}]
    BY <1>1, <1>2 DEF Users
  <2>2. \A i \in Stream : u[r][i] = user[r][i]
    BY <1>1
  <2>. HIDE DEF u, r
  <2>. QED
    BY <2>1, <2>2
<1>7. \A i \in Stream : u[s][i] # user[s][i] => Opens(Head(v), i) /\ u[s][i] # "none"
  OBVIOUS
<1>8. \A i \in Stream : Opens(Head(v), i) => u[s][i] # "none"
  OBVIOUS
<1>. HIDE DEF u, r, v
<1>9. WireOK(u, r, Tail(v)) /\ (\A i \in Stream : Told(user, r, v, i) => Told(u, r, Tail(v), i)) /\ Tail(v) \in Seq(AnyFrame)
  <2>1. \A i \in Stream : user[Remote(r)][i] # "none" => u[Remote(r)][i] # "none"
    BY <1>1, <1>7
  <2>. QED
    BY <1>1, <1>3, <1>5, <1>6, <1>7, <1>8, <2>1, WireLess
<1>10. WireOK(u, s, wire[s]) /\ \A i \in Stream : Told(user, s, wire[s], i) => Told(u, s, wire[s], i)
  <2>1. \A i \in Stream : user[s][i] # "none" => u[s][i] # "none"
    BY <1>7
  <2>. QED
    BY <1>5, <1>6, <2>1, WireUser DEF r
<1>11. wire' \in [Side -> Seq(AnyFrame)]
  BY <1>2, <1>4, <1>9
<1>12. ASSUME up PROVE AllTold(u, r, wire'[r]) /\ AllTold(u, s, wire'[s])
  <2>1. \A i \in Stream : Opener[i] = r /\ user[r][i] # "none" => Told(user, r, v, i)
    BY <1>1, <1>12 DEF WiresOK, v
  <2>2. \A i \in Stream : Opener[i] = s /\ user[s][i] # "none" => Told(user, s, wire[s], i)
    BY <1>12 DEF WiresOK
  <2>3. ASSUME NEW i \in Stream, Opener[i] = s, u[s][i] # "none" PROVE user[s][i] # "none"
    <3>1. ASSUME user[s][i] = "none" PROVE FALSE
      <4>1. Opens(v[1], i)
        BY <1>3, <1>7, <2>3, <3>1
      <4>2. Opener[i] = r
        BY <1>1, <1>3, <1>5, <4>1 DEF WireOK
      <4>. QED
        BY <1>1, <2>3, <4>2
    <3>. QED
      BY <3>1
  <2>. QED
    BY <1>4, <1>6, <1>9, <1>10, <2>1, <2>2, <2>3 DEF AllTold
<1>13. \A t \in Side : WireOK(u, t, wire'[t]) /\ (up => AllTold(u, t, wire'[t]))
  BY <1>1, <1>4, <1>9, <1>10, <1>12
<1>14. WiresOK'
  BY <1>13 DEF WiresOK, AllTold, u
<1>. QED
  BY <1>11, <1>14

LEMMA ReceiveStep ==
  ASSUME IInv, NEW s \in Side, Receive(s)
  PROVE  IInv'
<1>. DEFINE r == Remote(s)
            f == Head(wire[r])
            i == f.stream
            m == <<i, f.msg>>
            fails == f.kind \in {"shutdown", "eof"} \/ (f.kind = "data" /\ m \notin incoming[s])
<1>1. /\ user \in Users /\ closed \in Ends /\ streams \in [Side -> SUBSET Stream] /\ send \in [Side -> Half]
      /\ opened \in [Side -> Seq(Stream)] /\ shut \in [Side -> Seq(Stream)] /\ wire \in [Side -> Seq(AnyFrame)]
      /\ remp \in [Side -> BOOLEAN] /\ receiving \in [Side -> BOOLEAN] /\ failed \in [Side -> Sid]
      /\ Typed /\ TypeOK /\ HeardOK /\ WaitingOK /\ WiresOK /\ OpenOK /\ OnlyClosedStreamsFail
  BY DEF IInv, Typed, TypeOK, Users, Ends, Sid
<1>2. r \in Side /\ r # s /\ Remote(r) = s
  BY Sides
<1>3. /\ wire[r] # <<>> /\ wire' = [wire EXCEPT ![r] = Tail(@)]
      /\ UNCHANGED <<sent, a2b_msg, a2b_close, send, failed, up>>
  BY DEF Receive, queues
<1>4. f \in AnyFrame /\ 1 \in DOMAIN wire[r] /\ f = wire[r][1]
  <2>1. wire[r] \in Seq(AnyFrame)
    BY <1>1, <1>2
  <2>. QED
    BY <1>3, <2>1, EmptySeq
<1>5. i \in Sid
  BY <1>4 DEF AnyFrame
<1>6. f.kind = "open" => /\ i \in Stream /\ Opener[i] = r /\ user[r][i] # "none" /\ user[s][i] = "none"
  <2>1. WireOK(user, r, wire[r])
    BY <1>1, <1>2 DEF WiresOK
  <2>. HIDE DEF f, r
  <2>. QED
    BY <1>2, <1>4, <1>5, <2>1 DEF WireOK, Opens
<1>7. f.kind = "close" => i \in Stream /\ user[s][i] # "none"
  <2>1. WireOK(user, r, wire[r])
    BY <1>1, <1>2 DEF WiresOK
  <2>2. 1..(1 - 1) = {}
    OBVIOUS
  <2>. HIDE DEF f, r
  <2>. QED
    BY <1>2, <1>4, <1>5, <2>1, <2>2 DEF WireOK, Closes
<1>8. \A j \in Stream : Opens(f, j) <=> (f.kind = "open" /\ j = i)
  BY DEF Opens
<1>9. \/ /\ f.kind = "open"
         /\ opened' = [opened EXCEPT ![s] = Append(@, i)]
         /\ streams' = [streams EXCEPT ![s] = @ \cup {i}]
         /\ user' = [user EXCEPT ![s][i] = "idle"]
         /\ UNCHANGED <<closed, shut, remp, receiving>>
      \/ /\ f.kind = "close"
         /\ shut' = [shut EXCEPT ![s] = Append(@, i)]
         /\ streams' = [streams EXCEPT ![s] = @ \ {i}]
         /\ closed' = [closed EXCEPT ![s][i] = IF i \in streams[s] THEN "remote" ELSE @]
         /\ UNCHANGED <<user, opened, remp, receiving>>
      \/ /\ f.kind # "open"
         /\ UNCHANGED <<user, opened, shut>>
         /\ UNCHANGED <<closed, streams, remp, receiving>> \/ StopReceiving(s, TRUE)
  BY DEF Receive, notes, inbox
<1>. HIDE DEF m, fails, f
<1>10. CASE /\ f.kind = "open"
            /\ opened' = [opened EXCEPT ![s] = Append(@, i)]
            /\ streams' = [streams EXCEPT ![s] = @ \cup {i}]
            /\ user' = [user EXCEPT ![s][i] = "idle"]
            /\ UNCHANGED <<closed, shut, remp, receiving>>
  <2>1. i \in Stream /\ Opener[i] = r /\ user[r][i] # "none" /\ user[s][i] = "none"
    BY <1>6, <1>10
  <2>. HIDE DEF i, r
  <2>2. /\ user' \in Users /\ user'[s][i] = "idle" /\ (\A t \in Side \ {s} : user'[t] = user[t])
        /\ \A j \in Stream : j # i => user'[s][j] = user[s][j]
    BY <1>1, <1>10, <2>1 DEF Users
  <2>3. /\ opened' \in [Side -> Seq(Stream)] /\ ToSet(opened'[s]) = ToSet(opened[s]) \cup {i}
        /\ \A t \in Side \ {s} : opened'[t] = opened[t]
    <3>1. opened[s] \in Seq(Stream) /\ opened'[s] = Append(opened[s], i) /\ \A t \in Side \ {s} : opened'[t] = opened[t]
      BY <1>1, <1>10
    <3>2. Append(opened[s], i) \in Seq(Stream)
      BY <2>1, <3>1
    <3>3. ToSet(Append(opened[s], i)) = ToSet(opened[s]) \cup {i}
      BY <2>1, <3>1, AppendSet
    <3>4. opened' \in [Side -> Seq(Stream)]
      BY <1>1, <1>10, <3>2
    <3>. QED
      BY <3>1, <3>3, <3>4
  <2>4. /\ streams' \in [Side -> SUBSET Stream] /\ streams'[s] = streams[s] \cup {i}
        /\ \A t \in Side \ {s} : streams'[t] = streams[t]
    BY <1>1, <1>10, <2>1
  <2>5. WiresOK' /\ wire' \in [Side -> Seq(AnyFrame)]
    <3>1. \A t \in Side, j \in Stream : user'[t][j] # user[t][j] => t = s /\ Opens(f, j) /\ user'[t][j] # "none"
      BY <1>8, <1>10, <2>2 DEF i
    <3>2. \A j \in Stream : Opens(f, j) => user'[s][j] # "none"
      BY <1>8, <2>2 DEF i
    <3>. QED
      BY <1>1, <1>3, <2>2, <3>1, <3>2, ReceiveWires DEF f, r
  <2>6. \A t \in Side, j \in Stream : user[t][j] # "none" => user'[t][j] # "none"
    BY <2>1, <2>2
  <2>7. HeardOK'
    <3>1. ASSUME NEW t \in Side, NEW j \in Stream, j \in Heard(t)' PROVE user'[t][j] # "none"
      <4>1. j \in Heard(t) \/ (t = s /\ j = i)
        BY <1>3, <1>10, <2>3, <3>1 DEF Heard, Waiting
      <4>. QED
        BY <1>1, <2>2, <2>6, <4>1 DEF HeardOK
    <3>2. ASSUME NEW t \in Side, NEW j \in Stream, user'[t][j] # "none" PROVE user'[Opener[j]][j] # "none"
      <4>1. Opener[j] \in Side
        BY ChannelsAssumption
      <4>2. CASE user[t][j] # "none"
        BY <1>1, <2>6, <4>1, <4>2 DEF HeardOK
      <4>3. CASE user[t][j] = "none"
        BY <1>2, <2>1, <2>2, <2>6, <3>2, <4>3
      <4>. QED
        BY <4>2, <4>3
    <3>3. ASSUME NEW t \in Side, NEW k \in DOMAIN a2b_msg[t] PROVE user'[t][a2b_msg[t][k].stream] # "none"
      <4>1. a2b_msg[t] \in Seq(Message)
        BY <1>1 DEF Typed
      <4>2. a2b_msg[t][k] \in Message
        BY <4>1, ElementOfSeq
      <4>3. a2b_msg[t][k].stream \in Stream
        BY <4>2 DEF Message
      <4>. QED
        BY <1>1, <2>6, <4>3 DEF HeardOK
    <3>. QED
      BY <1>3, <3>1, <3>2, <3>3 DEF HeardOK
  <2>8. WaitingOK'
    <3>1. i \notin Waiting(s)
      BY <1>1, <2>1 DEF HeardOK, Heard
    <3>. QED
      BY <1>1, <1>3, <2>3, <3>1 DEF WaitingOK, Waiting
  <2>9. OpenOK'
    <3>1. ASSUME NEW t \in Side, NEW j \in Stream
          PROVE  /\ user'[t][j] # "none" /\ closed[t][j] = "no" =>
                      /\ j \in streams'[t]
                      /\ send[t].on => j \in send[t].known \cup ToSet(opened'[t])
                 /\ j \in ToSet(shut[t]) => closed[t][j] # "no"
      <4>1. CASE t = s /\ j = i
        BY <1>1, <2>3, <2>4, <4>1 DEF OpenOK
      <4>2. CASE ~(t = s /\ j = i)
        <5>1. user'[t][j] = user[t][j] /\ ToSet(opened[t]) \subseteq ToSet(opened'[t]) /\ streams[t] \subseteq streams'[t]
          BY <2>2, <2>3, <2>4, <4>2
        <5>. QED
          BY <1>1, <5>1 DEF OpenOK
      <4>. QED
        BY <4>1, <4>2
    <3>. QED
      BY <1>3, <1>10, <3>1 DEF OpenOK
  <2>10. TypeOK'
    BY <1>1, <1>3, <1>10, <2>2, <2>4 DEF TypeOK, Users
  <2>11. Typed' /\ OnlyClosedStreamsFail'
    BY <1>1, <1>3, <1>10, <2>3, <2>5, <2>10 DEF Typed, OnlyClosedStreamsFail
  <2>. QED
    BY <2>5, <2>7, <2>8, <2>9, <2>11 DEF IInv
<1>11. CASE /\ f.kind # "open"
            /\ UNCHANGED <<user, opened>>
            /\ EndsWell
            /\ shut' \in [Side -> Seq(Stream)]
            /\ \A t \in Side, j \in Stream : j \in ToSet(shut'[t]) =>
                  j \in ToSet(shut[t]) \/ (user[t][j] # "none" /\ closed'[t][j] # "no")
  <2>1. WiresOK' /\ wire' \in [Side -> Seq(AnyFrame)]
    <3>1. \A j \in Stream : ~Opens(f, j)
      BY <1>11 DEF Opens
    <3>2. user' = user /\ user \in Users
      BY <1>1, <1>11
    <3>. QED
      BY <1>1, <1>3, <3>1, <3>2, ReceiveWires DEF f
  <2>2. HeardOK'
    <3>1. ASSUME NEW t \in Side, NEW j \in Stream, j \in Heard(t)' PROVE user[t][j] # "none"
      <4>1. j \in Heard(t) \/ j \in ToSet(shut'[t])
        BY <1>3, <1>11, <3>1 DEF Heard, Waiting
      <4>2. j \in Heard(t) \/ user[t][j] # "none"
        BY <1>11, <4>1 DEF Heard
      <4>. QED
        BY <1>1, <4>2 DEF HeardOK
    <3>. QED
      BY <1>1, <1>3, <1>11, <3>1 DEF HeardOK
  <2>3. WaitingOK'
    BY <1>1, <1>3, <1>11 DEF WaitingOK, Waiting
  <2>4. OpenOK'
    <3>1. ASSUME NEW t \in Side, NEW j \in Stream
          PROVE  /\ user[t][j] # "none" /\ closed'[t][j] = "no" =>
                      /\ j \in streams'[t]
                      /\ send[t].on => j \in send[t].known \cup ToSet(opened[t])
                 /\ j \in ToSet(shut'[t]) => closed'[t][j] # "no"
      <4>1. closed[t][j] # "no" => closed'[t][j] # "no"
        BY <1>11 DEF EndsWell
      <4>2. user[t][j] # "none" /\ closed'[t][j] = "no" => j \in streams'[t]
        BY <1>11 DEF EndsWell
      <4>. QED
        BY <1>1, <1>11, <4>1, <4>2 DEF OpenOK
    <3>. QED
      BY <1>3, <1>11, <3>1 DEF OpenOK
  <2>5. TypeOK'
    BY <1>1, <1>3, <1>11 DEF TypeOK, EndsWell, Ends
  <2>6. Typed'
    BY <1>1, <1>3, <1>11, <2>1, <2>5 DEF Typed
  <2>7. OnlyClosedStreamsFail'
    <3>1. ASSUME NEW t \in Side, failed[t] # NoStream PROVE closed'[t][failed[t]] # "no"
      <4>1. failed[t] \in Stream /\ closed[t][failed[t]] # "no"
        BY <1>1, <3>1 DEF OnlyClosedStreamsFail, Sid
      <4>. QED
        BY <1>11, <4>1 DEF EndsWell
    <3>. QED
      BY <1>3, <2>5, <3>1 DEF OnlyClosedStreamsFail
  <2>. QED
    BY <2>1, <2>2, <2>3, <2>4, <2>6, <2>7 DEF IInv
<1>12. CASE /\ f.kind = "close"
            /\ shut' = [shut EXCEPT ![s] = Append(@, i)]
            /\ streams' = [streams EXCEPT ![s] = @ \ {i}]
            /\ closed' = [closed EXCEPT ![s][i] = IF i \in streams[s] THEN "remote" ELSE @]
            /\ UNCHANGED <<user, opened, remp, receiving>>
  <2>1. i \in Stream /\ user[s][i] # "none"
    BY <1>7, <1>12
  <2>. HIDE DEF i
  <2>2. /\ closed' \in Ends /\ (\A t \in Side \ {s} : closed'[t] = closed[t])
        /\ closed'[s][i] = (IF i \in streams[s] THEN "remote" ELSE closed[s][i])
        /\ \A j \in Stream : j # i => closed'[s][j] = closed[s][j]
    BY <1>1, <1>12, <2>1 DEF Ends
  <2>3. /\ streams' \in [Side -> SUBSET Stream] /\ streams'[s] = streams[s] \ {i}
        /\ \A t \in Side \ {s} : streams'[t] = streams[t]
    BY <1>1, <1>12
  <2>4. closed'[s][i] # "no"
    <3>1. closed[s][i] = "no" => i \in streams[s]
      BY <1>1, <2>1 DEF OpenOK
    <3>. QED
      BY <2>2, <3>1
  <2>5. EndsWell
    <3>1. \A t \in Side, j \in Stream : user[t][j] # "none" /\ closed[t][j] = "no" => j \in streams[t]
      BY <1>1 DEF OpenOK
    <3>2. remp' \in [Side -> BOOLEAN] /\ receiving' \in [Side -> BOOLEAN]
      BY <1>1, <1>12
    <3>. QED
      BY <2>2, <2>3, <2>4, <3>1, <3>2 DEF EndsWell
  <2>6. /\ shut' \in [Side -> Seq(Stream)] /\ ToSet(shut'[s]) = ToSet(shut[s]) \cup {i}
        /\ \A t \in Side \ {s} : shut'[t] = shut[t]
    <3>1. shut[s] \in Seq(Stream) /\ shut'[s] = Append(shut[s], i) /\ \A t \in Side \ {s} : shut'[t] = shut[t]
      BY <1>1, <1>12
    <3>2. Append(shut[s], i) \in Seq(Stream)
      BY <2>1, <3>1
    <3>3. ToSet(Append(shut[s], i)) = ToSet(shut[s]) \cup {i}
      BY <2>1, <3>1, AppendSet
    <3>4. shut' \in [Side -> Seq(Stream)]
      BY <1>1, <1>12, <3>2
    <3>. QED
      BY <3>1, <3>3, <3>4
  <2>7. \A t \in Side, j \in Stream : j \in ToSet(shut'[t]) =>
          j \in ToSet(shut[t]) \/ (user[t][j] # "none" /\ closed'[t][j] # "no")
    BY <2>1, <2>4, <2>6
  <2>. QED
    BY <1>11, <1>12, <2>5, <2>6, <2>7
<1>13. CASE /\ f.kind # "open"
            /\ UNCHANGED <<user, opened, shut>>
            /\ UNCHANGED <<closed, streams, remp, receiving>> \/ StopReceiving(s, TRUE)
  <2>1. EndsWell
    BY <1>13, EndSteps
  <2>. QED
    BY <1>1, <1>11, <1>13, <2>1
<1>. QED
  BY <1>9, <1>10, <1>12, <1>13

----------------------------------------------------------------------------
LEMMA InitInv ==
  ASSUME Init
  PROVE  IInv
<1>1. <<>> \in Stores /\ DOMAIN <<>> = {} /\ ToSet(<<>>) = {}
  <2>1. <<>> \in [{} -> Queue]
    OBVIOUS
  <2>. QED
    BY <2>1 DEF Stores, ToSet
<1>2. [on |-> TRUE, known |-> {}, store |-> <<>>, closing |-> <<>>, notify |-> <<>>] \in Half
  BY <1>1, EmptySeq DEF Half
<1>3. TypeOK
  BY <1>2 DEF Init, TypeOK
<1>4. Typed
  BY <1>2, <1>3, EmptySeq DEF Init, Typed
<1>5. \A s \in Side : Waiting(s) = {} /\ Heard(s) = {}
  BY <1>1 DEF Init, Waiting, Heard
<1>6. HeardOK
  BY <1>1, <1>5, ChannelsAssumption DEF Init, HeardOK
<1>7. WaitingOK
  BY <1>5 DEF WaitingOK
<1>8. WiresOK
  BY <1>1 DEF Init, WiresOK, WireOK
<1>9. OpenOK
  BY <1>1 DEF Init, OpenOK
<1>10. OnlyClosedStreamsFail
  BY <1>3 DEF Init, OnlyClosedStreamsFail
<1>. QED
  BY <1>4, <1>6, <1>7, <1>8, <1>9, <1>10 DEF IInv

LEMMA NextInv ==
  ASSUME IInv, [Next]_vars
  PROVE  IInv'
<1>1. CASE Next
  <2>1. CASE Break
    BY <2>1, BreakStep
  <2>2. CASE \E s \in Side : \/ Application(s) \/ \E i \in Stream : SendPushes(s, i)
                             \/ Tick(s) \/ CloseStream(s) \/ RemoveProtocol(s) \/ SendFails(s) \/ Receive(s)
    <3>1. PICK s \in Side : \/ Application(s) \/ \E i \in Stream : SendPushes(s, i)
                            \/ Tick(s) \/ CloseStream(s) \/ RemoveProtocol(s) \/ SendFails(s) \/ Receive(s)
      BY <2>2
    <3>2. CASE \E i \in Stream : SendChecks(s, i) \/ SendPushes(s, i) \/ DropStream(s, i)
      BY <3>2, UseStep
    <3>3. CASE \E i \in Stream : OpenStream(s, i)
      BY <3>3, OpenStreamStep
    <3>4. CASE Tick(s) \/ RemoveProtocol(s)
      BY <3>4, TickStep
    <3>5. CASE CloseStream(s)
      BY <3>5, CloseStreamStep
    <3>6. CASE Disconnect(s) \/ SendFails(s) \/ ForceCloseReceive(s)
      BY <3>6, EndStep
    <3>7. CASE Receive(s)
      BY <3>7, ReceiveStep
    <3>. QED
      BY <3>1, <3>2, <3>3, <3>4, <3>5, <3>6, <3>7 DEF Application
  <2>. QED
    BY <1>1, <2>1, <2>2 DEF Next
<1>2. CASE UNCHANGED vars
  BY <1>2 DEF vars, api, queues, notes, inbox, IInv, Typed, TypeOK, HeardOK, Heard, WaitingOK, Waiting, WiresOK, WireOK, Told,
              OpenOK, OnlyClosedStreamsFail
<1>. QED
  BY <1>1, <1>2

(* "waiting for receiving is not necessary, because the send_mgr will first *)
(* process this before process messages!" (participant.rs, recv_mgr): when  *)
(* the lookup of a stream fails in send_mgr, the stream was closed; it is   *)
(* never one whose OpenStream frame has come but was not heard of yet.      *)
THEOREM UnknownStreamsWereClosed == Spec => []OnlyClosedStreamsFail
<1>1. Init => IInv
  BY InitInv
<1>2. IInv /\ [Next]_vars => IInv'
  BY NextInv
<1>3. IInv => OnlyClosedStreamsFail
  BY DEF IInv
<1>. QED
  BY <1>1, <1>2, <1>3, PTL DEF Spec
=============================================================================
