------------------------------- MODULE Channels -------------------------------
(***************************************************************************)
(* Two participants, one TCP channel between them, and the streams on it:  *)
(* the API's Stream, send_mgr and recv_mgr of both BParticipants, the      *)
(* priority queue and the TCP protocol below them.                         *)
(* One message is a header frame and as many data frames as its size says; *)
(* bandwidth is counted in frames.                                         *)
(***************************************************************************)
EXTENDS Integers, FiniteSets, SequencesExt

CONSTANTS Side,         \* the two participants
          Stream,       \* stream ids; both sides count from another offset, so none is used twice
          Opener,       \* [Stream -> Side] who opens it
          Prio,         \* [Stream -> Nat] 0 is the highest
          Size,         \* possible numbers of data frames of a message
          MaxSent,      \* [Side -> Nat] bound: messages a side sends on a stream
          Guaranteed,   \* [Stream -> Nat] frames in a second of its guaranteed bandwidth
          MaxBudget,    \* bound: frames an ordinary flush has bandwidth for
          Width,        \* bits of the Bandwidth type (64)
          MayDisconnect,\* the sides whose user disconnects
          MayBreak      \* whether the connection may be lost

NoStream == "none"

ASSUME ChannelsAssumption ==
    /\ \E s, t \in Side : s # t /\ Side = {s, t}
    /\ IsFiniteSet(Stream) /\ NoStream \notin Stream
    /\ Opener \in [Stream -> Side]
    /\ Prio \in [Stream -> Nat]
    /\ Size \subseteq Nat
    /\ MaxSent \in [Side -> Nat]
    /\ Guaranteed \in [Stream -> Nat]
    /\ {MaxBudget, Width} \subseteq Nat
    /\ MayDisconnect \subseteq Side
    /\ MayBreak \in BOOLEAN

VARIABLES
    user,       \* per side and stream, what the application does with its Stream
    sent,       \* how many messages it has handed over
    closed,     \* send_closed, with the reason why it is set
    streams,    \* the streams a BParticipant delivers to
    a2b_msg,    \* messages on their way to send_mgr
    a2b_close,  \* dropped streams on their way to send_mgr
    opened,     \* what recv_mgr told send_mgr: streams the remote opened
    shut,       \* ... and streams the remote closed
    remp,       \* send_mgr was told to remove the protocol
    send,       \* send_mgr with its TcpSendProtocol
    wire,       \* frames on their way from a side
    receiving,  \* recv_mgr still runs
    incoming,   \* messages of which not all has come
    got,        \* what a side's Streams have received
    failed,     \* the stream whose lookup failed in send_mgr, which ends all managers
    up          \* the connection is there

api == <<user, sent>>
queues == <<a2b_msg, a2b_close>>
notes == <<opened, shut>>
inbox == <<incoming, got>>
vars == <<user, sent, closed, streams, a2b_msg, a2b_close, opened, shut, remp, send,
          wire, receiving, incoming, got, failed, up>>

Remote(s) == CHOOSE t \in Side : t # s
Frame(kind, i, n, last) == [kind |-> kind, stream |-> i, msg |-> n, last |-> last]
Control(kind, i) == Frame(kind, i, 0, TRUE)
NoGuarantee == [i \in Stream |-> 0]   \* a tick is short: less than a frame
Eof == Control("eof", NoStream)

Init ==
    /\ user = [s \in Side |-> [i \in Stream |-> "none"]]
    /\ sent = [s \in Side |-> [i \in Stream |-> 0]]
    /\ closed = [s \in Side |-> [i \in Stream |-> "no"]]
    /\ streams = [s \in Side |-> {}]
    /\ a2b_msg = [s \in Side |-> <<>>]
    /\ a2b_close = [s \in Side |-> <<>>]
    /\ opened = [s \in Side |-> <<>>]
    /\ shut = [s \in Side |-> <<>>]
    /\ remp = [s \in Side |-> FALSE]
    /\ send = [s \in Side |-> [on |-> TRUE, known |-> {}, store |-> <<>>, closing |-> <<>>, notify |-> <<>>]]
    /\ wire = [s \in Side |-> <<>>]
    /\ receiving = [s \in Side |-> TRUE]
    /\ incoming = [s \in Side |-> {}]
    /\ got = [s \in Side |-> [i \in Stream |-> <<>>]]
    /\ failed = [s \in Side |-> NoStream]
    /\ up = TRUE

-----------------------------------------------------------------------------
(* PrioManager.  A stream's queue is the frames left to be sent and whether  *)
(* its first message has been sent completely, but is still in the queue.    *)

\* slip: the last chunk is left out
frames_of_whole(i, n, size) ==
    [k \in 1..size |-> Frame(IF k = 1 THEN "header" ELSE "data", i, n, k = size + 1)]

frames_of(i, n, size) ==
    [k \in 1..(size + 1) |-> Frame(IF k = 1 THEN "header" ELSE "data", i, n, k = size + 1)]

MaxBandwidth == 2^Width - 1
as_i64(x) == IF x >= 2^(Width - 1) THEN x - 2^Width ELSE x

empty_queue == [frames |-> <<>>, done |-> FALSE]
is_empty(q) == q = empty_queue

open_stream(x, i) ==
    [x EXCEPT !.store = [j \in DOMAIN x.store \cup {i} |-> IF j = i THEN empty_queue ELSE x.store[j]]]
forget(x, i) == [x EXCEPT !.store = [j \in DOMAIN x.store \ {i} |-> x.store[j]]]
may_close(x, i) == i \in DOMAIN x.store /\ is_empty(x.store[i])

\* At least one frame goes out; the message of the last one stays until the next turn.
process_stream(x, i, bandwidth) ==
    LET q == x.store[i]
        n == IF bandwidth > 0 THEN bandwidth ELSE 1
        cut == Len(q.frames) >= n
    IN  [x EXCEPT
          !.out = @ \o (IF cut THEN SubSeq(q.frames, 1, n) ELSE q.frames),
          !.store[i] = IF cut THEN [frames |-> SubSeq(q.frames, n + 1, Len(q.frames)),
                                    done |-> q.frames[n].last]
                       ELSE empty_queue]

\* Two rounds over the streams, in the order of the HashMap: the guaranteed bandwidth, then what
\* is left of the total, by priority.
grab(x, total, guarantee, order) ==
    LET start == Len(x.out)
        used(y) == Len(y.out) - start
        guaranteed == FoldLeft(LAMBDA y, i : process_stream(y, i, guarantee[i]), x, order)
        mates(i) == Cardinality({j \in DOMAIN x.store : Prio[j] = Prio[i]})
        optional(acc, i) ==
            LET per_stream == IF acc.prio = Prio[i] THEN acc.share
                              ELSE as_i64((total - used(acc.y)) \div mates(i))
            IN  IF used(acc.y) >= total THEN acc
                ELSE [y |-> process_stream(acc.y, i, per_stream), prio |-> Prio[i], share |-> per_stream]
    IN  FoldLeft(optional, [y |-> guaranteed, prio |-> -1, share |-> 0], order).y

\* The orders in which grab may pass over the streams: any, of one priority.
Orders(S) == {o \in SetToSeqs(S) : \A j, k \in DOMAIN o : j < k => Prio[o[j]] <= Prio[o[k]]}

-----------------------------------------------------------------------------
(* TcpSendProtocol.  x is send[s] with the frames it has written in this     *)
(* iteration, out.                                                           *)

emit(x, kind, i) == [x EXCEPT !.out = Append(@, Control(kind, i))]

\* slip: a stream that still has messages is not remembered
notify_close_once(x, i) == IF may_close(x, i) THEN forget(x, i) ELSE x

notify_close(x, i) ==
    IF may_close(x, i) THEN forget(x, i) ELSE [x EXCEPT !.notify = Append(@, i)]

\* slip: CloseStream is sent although messages are left
send_close_now(x, i) == emit(forget(x, i), "close", i)

send_close(x, i) ==
    IF may_close(x, i) THEN emit(forget(x, i), "close", i) ELSE [x EXCEPT !.closing = Append(@, i)]

\* slip: streams that wait to be closed are not looked at again
flush_data(x, total, guarantee, order) == grab(x, total, guarantee, order)

\* The streams that wait are closed again, if by now they can be.
flush(x, total, guarantee, order) ==
    LET a == grab(x, total, guarantee, order)
        b == FoldLeft(send_close, [a EXCEPT !.closing = <<>>], a.closing)
    IN  FoldLeft(notify_close, [b EXCEPT !.notify = <<>>], b.notify)

-----------------------------------------------------------------------------
(* The API                                                                   *)

\* Stream::send looks at the flag ...
SendChecks(s, i) ==
    /\ user[s][i] = "idle"
    /\ sent[s][i] < MaxSent[s]
    /\ closed[s][i] = "no"
    /\ user' = [user EXCEPT ![s][i] = "sending"]
    /\ UNCHANGED <<sent, closed, streams, queues, notes, remp, send, wire, receiving, inbox, failed, up>>

\* ... and hands the message over, if somebody is there to take it.
SendPushes(s, i) ==
    /\ user[s][i] = "sending"
    /\ user' = [user EXCEPT ![s][i] = "idle"]
    /\ IF send[s].on
       THEN /\ sent' = [sent EXCEPT ![s][i] = @ + 1]
            /\ \E size \in Size :
                 a2b_msg' = [a2b_msg EXCEPT ![s] = Append(@, [stream |-> i, msg |-> sent[s][i] + 1, size |-> size])]
       ELSE UNCHANGED <<sent, a2b_msg>>
    /\ UNCHANGED <<closed, streams, a2b_close, notes, remp, send, wire, receiving, inbox, failed, up>>

DropStream(s, i) ==
    /\ user[s][i] = "idle"
    /\ user' = [user EXCEPT ![s][i] = "dropped"]
    /\ a2b_close' = IF closed[s][i] = "no" /\ send[s].on
                    THEN [a2b_close EXCEPT ![s] = Append(@, i)] ELSE a2b_close
    /\ UNCHANGED <<sent, closed, streams, a2b_msg, notes, remp, send, wire, receiving, inbox, failed, up>>

\* participant_shutdown_mgr, up to its wait for the other managers
Disconnect(s) ==
    /\ s \in MayDisconnect
    /\ send[s].on /\ receiving[s] /\ ~remp[s]
    /\ closed' = [closed EXCEPT ![s] = [i \in Stream |-> IF i \in streams[s] THEN "end" ELSE @[i]]]
    /\ remp' = [remp EXCEPT ![s] = TRUE]
    /\ UNCHANGED <<api, streams, queues, notes, send, wire, receiving, inbox, failed, up>>

-----------------------------------------------------------------------------
(* send_mgr: one iteration of its loop                                       *)

Working(s) == [known |-> send[s].known, store |-> send[s].store, closing |-> send[s].closing,
               notify |-> send[s].notify, out |-> <<>>]

opens(x, i) == emit(open_stream([x EXCEPT !.known = @ \cup {i}], i), "open", i)

\* What recv_mgr said of opened streams, then the messages, then what it said of closed ones.
drained(s, x) ==
    LET a == FoldLeft(LAMBDA y, i : open_stream([y EXCEPT !.known = @ \cup {i}], i), x, opened[s])
        b == FoldLeft(LAMBDA y, m : [y EXCEPT !.store[m.stream].frames = @ \o frames_of(m.stream, m.msg, m.size)],
                      a, a2b_msg[s])
    IN  FoldLeft(LAMBDA y, i : notify_close([y EXCEPT !.known = @ \ {i}], i), b, shut[s])

closes(x, i) == IF i \in x.known THEN send_close([x EXCEPT !.known = @ \ {i}], i) ELSE x

\* slip: the protocol is kept until Shutdown can be sent
removes_later(x, order) ==
    LET y == flush(x, MaxBandwidth, Guaranteed, order)
    IN  IF DOMAIN y.store = {} THEN emit(y, "shutdown", NoStream) ELSE y

\* The "blocking flush", the Shutdown frame unless it is held back, and the protocol is dropped.
removes(x, order) ==
    LET y == flush(x, MaxBandwidth, Guaranteed, order)
        z == IF DOMAIN y.store = {} THEN emit(y, "shutdown", NoStream) ELSE y
    IN  emit(z, "eof", NoStream)

\* slip: messages are taken before what recv_mgr says of opened streams
unknown_early(s, x) ==
    LET n == SelectInSeq(a2b_msg[s], LAMBDA m : m.stream \notin x.known)
    IN  IF n = 0 THEN NoStream ELSE a2b_msg[s][n].stream

\* The first message for a stream that sorted_stream_protocols does not know
unknown(s, x) ==
    LET n == SelectInSeq(a2b_msg[s], LAMBDA m : m.stream \notin x.known \cup ToSet(opened[s]))
    IN  IF n = 0 THEN NoStream ELSE a2b_msg[s][n].stream

Sends(s, out) == wire' = [wire EXCEPT ![s] = IF up THEN @ \o out ELSE @]

\* `.unwrap()` of the lookup: the task with all managers ends and both halves of the socket go.
Panics(s, x) ==
    /\ failed' = [failed EXCEPT ![s] = unknown(s, x)]
    /\ send' = [send EXCEPT ![s].on = FALSE]
    /\ receiving' = [receiving EXCEPT ![s] = FALSE]
    /\ Sends(s, Append(x.out, Eof))
    /\ a2b_msg' = [a2b_msg EXCEPT ![s] = <<>>]
    /\ UNCHANGED notes

Completes(s, x, on) ==
    /\ send' = [send EXCEPT ![s] = [on |-> on, known |-> x.known, store |-> x.store,
                                    closing |-> x.closing, notify |-> x.notify]]
    /\ Sends(s, x.out)
    /\ a2b_msg' = [a2b_msg EXCEPT ![s] = <<>>]
    /\ opened' = [opened EXCEPT ![s] = <<>>]
    /\ shut' = [shut EXCEPT ![s] = <<>>]
    /\ UNCHANGED <<receiving, failed>>

\* What an iteration may leave behind. open and close: the stream that woke the loop, or none;
\* ends: it was told to remove the protocol.
results(x, ends) ==
    LET flushed == {flush(x, total, NoGuarantee, order) : total \in 0..MaxBudget, order \in Orders(DOMAIN x.store)}
    IN  IF ends THEN UNION {{removes(z, order) : order \in Orders(DOMAIN z.store)} : z \in flushed}
        ELSE flushed

Iteration(s, open, close, ends) ==
    /\ send[s].on
    /\ UNCHANGED <<sent, inbox, up>>
    /\ \E x \in {IF open = NoStream THEN Working(s) ELSE opens(Working(s), open)} :
         IF unknown(s, x) # NoStream
         THEN Panics(s, x)
         ELSE \E z \in results(closes(drained(s, x), close), ends) : Completes(s, z, ~ends)

\* Also when the protocol is to be removed, and recv_mgr has closed all streams there were: select!
\* takes either of the two first.
OpenStream(s, i) ==
    /\ Opener[i] = s
    /\ user[s][i] = "none"
    /\ user' = [user EXCEPT ![s][i] = "idle"]
    /\ streams' = [streams EXCEPT ![s] = @ \cup {i}]
    /\ Iteration(s, i, NoStream, FALSE)
    /\ UNCHANGED <<closed, a2b_close, remp>>

Tick(s) ==
    /\ UNCHANGED <<user, streams, closed, a2b_close, remp>>
    /\ Iteration(s, NoStream, NoStream, FALSE)

CloseStream(s) ==
    /\ a2b_close[s] # <<>>
    /\ a2b_close' = [a2b_close EXCEPT ![s] = Tail(@)]
    /\ UNCHANGED <<user, remp>>
    /\ LET i == Head(a2b_close[s])
       IN  /\ streams' = [streams EXCEPT ![s] = @ \ {i}]
           /\ closed' = [closed EXCEPT ![s][i] = IF i \in streams[s] THEN "local" ELSE @]
           /\ Iteration(s, NoStream, i, FALSE)

RemoveProtocol(s) ==
    /\ remp[s]
    /\ remp' = [remp EXCEPT ![s] = FALSE]
    /\ UNCHANGED <<user, streams, closed, a2b_close>>
    /\ Iteration(s, NoStream, NoStream, TRUE)

\* A write fails: the protocol is deleted.
SendFails(s) ==
    /\ send[s].on
    /\ ~up
    /\ send' = [send EXCEPT ![s].on = FALSE]
    /\ a2b_msg' = [a2b_msg EXCEPT ![s] = <<>>]
    /\ UNCHANGED <<api, closed, streams, a2b_close, notes, remp, wire, receiving, inbox, failed, up>>

-----------------------------------------------------------------------------
(* recv_mgr with its TcpRecvProtocol                                         *)

\* The end of recv_mgr: the streams are drained, and send_mgr is told to remove the protocol.
StopReceiving(s, tell) ==
    /\ receiving' = [receiving EXCEPT ![s] = FALSE]
    /\ streams' = [streams EXCEPT ![s] = {}]
    /\ closed' = [closed EXCEPT ![s] = [i \in Stream |-> IF i \in streams[s] THEN "end" ELSE @[i]]]
    /\ remp' = [remp EXCEPT ![s] = @ \/ (tell /\ send[s].on)]

Receive(s) ==
    LET f == Head(wire[Remote(s)])
        i == f.stream
        m == <<i, f.msg>>
        fails == f.kind \in {"shutdown", "eof"} \/ (f.kind = "data" /\ m \notin incoming[s])
    IN
    /\ receiving[s]
    /\ wire[Remote(s)] # <<>>
    /\ wire' = [wire EXCEPT ![Remote(s)] = Tail(@)]
    /\ UNCHANGED <<sent, queues, send, failed, up>>
    /\ \/ /\ f.kind = "open"
          /\ opened' = [opened EXCEPT ![s] = Append(@, i)]
          /\ streams' = [streams EXCEPT ![s] = @ \cup {i}]
          /\ user' = [user EXCEPT ![s][i] = "idle"]
          /\ UNCHANGED <<closed, shut, remp, receiving, inbox>>
       \/ /\ f.kind = "close"
          /\ shut' = [shut EXCEPT ![s] = Append(@, i)]
          /\ streams' = [streams EXCEPT ![s] = @ \ {i}]
          /\ closed' = [closed EXCEPT ![s][i] = IF i \in streams[s] THEN "remote" ELSE @]
          /\ UNCHANGED <<user, opened, remp, receiving, inbox>>
       \/ /\ f.kind = "header"
          /\ incoming' = [incoming EXCEPT ![s] = @ \cup {m}]
          /\ UNCHANGED <<user, closed, streams, notes, remp, receiving, got>>
       \/ /\ f.kind = "data" /\ m \in incoming[s]
          /\ incoming' = IF f.last THEN [incoming EXCEPT ![s] = @ \ {m}] ELSE incoming
          /\ got' = IF f.last /\ i \in streams[s] THEN [got EXCEPT ![s][i] = Append(@, f.msg)] ELSE got
          /\ UNCHANGED <<user, closed, streams, notes, remp, receiving>>
       \/ /\ fails
          /\ StopReceiving(s, TRUE)
          /\ UNCHANGED <<user, notes, inbox>>

\* participant_shutdown_mgr has waited long enough.
ForceCloseReceive(s) ==
    /\ s \in MayDisconnect
    /\ receiving[s] /\ ~send[s].on
    /\ StopReceiving(s, FALSE)
    /\ UNCHANGED <<api, queues, notes, send, wire, inbox, failed, up>>

\* The connection is lost, and with it some of what was under way.
Break ==
    /\ MayBreak /\ up
    /\ up' = FALSE
    /\ \E kept \in [Side -> 0..Max({Len(wire[s]) : s \in Side})] :
         /\ \A s \in Side : kept[s] <= Len(wire[s])
         /\ wire' = [s \in Side |-> Append(SubSeq(wire[s], 1, kept[s]), Eof)]
    /\ UNCHANGED <<api, closed, streams, queues, notes, remp, send, receiving, inbox, failed>>

Application(s) ==
    \/ \E i \in Stream : SendChecks(s, i) \/ DropStream(s, i) \/ OpenStream(s, i)
    \/ Disconnect(s)
    \/ ForceCloseReceive(s)

Next ==
    \/ Break
    \/ \E s \in Side :
        \/ Application(s)
        \/ \E i \in Stream : SendPushes(s, i)
        \/ Tick(s) \/ CloseStream(s) \/ RemoveProtocol(s) \/ SendFails(s)
        \/ Receive(s)

Spec == Init /\ [][Next]_vars

\* Weak fairness of the three ways the loop goes on, with what enables them written out: the task is
\* polled as long as it is ready, and select! chooses at random. The last step of a send is the user's.
Busy(s) == send[s].on /\ (<<a2b_msg[s], opened[s], shut[s]>> # <<<<>>, <<>>, <<>>>> \/
                          \E i \in DOMAIN send[s].store : ~is_empty(send[s].store[i]))
Closing(s) == send[s].on /\ a2b_close[s] # <<>>
Removing(s) == send[s].on /\ remp[s]

FairSpec ==
    /\ Spec
    /\ \A s \in Side :
        /\ []<>~Busy(s) \/ []<><<Tick(s)>>_vars
        /\ []<>~Closing(s) \/ []<><<CloseStream(s)>>_vars
        /\ []<>~Removing(s) \/ []<><<RemoveProtocol(s)>>_vars
        /\ WF_vars(Receive(s))
        /\ \A i \in Stream : []<>(user[s][i] # "sending")

-----------------------------------------------------------------------------
(* Properties                                                                *)

\* The types; and every stream that send_mgr would look up has a queue in the PrioManager, so
\* that PrioManager::add finds it.
TypeOK ==
    /\ user \in [Side -> [Stream -> {"none", "idle", "sending", "dropped"}]]
    /\ sent \in [Side -> [Stream -> Nat]]
    /\ closed \in [Side -> [Stream -> {"no", "local", "remote", "end"}]]
    /\ streams \in [Side -> SUBSET Stream]
    /\ remp \in [Side -> BOOLEAN] /\ receiving \in [Side -> BOOLEAN] /\ up \in BOOLEAN
    /\ failed \in [Side -> Stream \cup {NoStream}]
    /\ \A s \in Side : send[s].on => send[s].known \subseteq DOMAIN send[s].store

\* The connection is over, or a side is about to end it.
Over == ~up \/ \E s \in Side : remp[s] \/ ~send[s].on \/ ~receiving[s]

Ended(s, i) ==
    IF i \in streams[s] \/ closed[s][i] = "no" THEN "no"
    ELSE IF closed[s][i] = "remote" THEN "complete" ELSE "cut"

Promise == INSTANCE OrderedStreams WITH
    dropped <- [s \in Side |-> [i \in Stream |-> user[s][i] = "dropped"]],
    ended <- [s \in Side |-> [i \in Stream |-> Ended(s, i)]],
    over <- Over

\* Frames, queues, two bandwidth rounds and held-back CloseStream frames make ordered streams
\* without gaps, whose end is seen only after the last message (participant.rs, prio.rs, tcp.rs).
StreamsAreOrdered == Promise!Spec

\* "waiting for receiving is not necessary, because the send_mgr will first process this before
\* process messages!" (recv_mgr): send_mgr fails to find a stream only if that was closed, never
\* because it has not heard yet that it was opened. (And the variables have their types.)
OnlyClosedStreamsFail ==
    TypeOK /\ \A s \in Side : failed[s] # NoStream => closed[s][failed[s]] # "no"

\* No lookup in send_mgr fails, as its unwrap() asserts. (Does not hold: the remote's CloseStream may
\* come between the two steps of send.)
NothingFails == \A s \in Side : failed[s] = NoStream

\* A message that was handed over arrives, however little bandwidth a flush has, unless the other
\* side drops the stream or the connection ends.
MessagesArrive ==
    \A s \in Side, i \in Stream : \A n \in 1..MaxSent[s] :
        sent[s][i] >= n ~> Len(got[Remote(s)][i]) >= n \/ user[Remote(s)][i] = "dropped" \/ Over

\* When one side drops a stream, or the connection is over, the Stream of the other side is closed in
\* the end if recv_mgr still runs there, also if data holds the CloseStream frame back.
DropsAreNoticed ==
    \A s \in Side, i \in Stream :
        receiving[s] /\ user[s][i] # "none" /\ (user[Remote(s)][i] = "dropped" \/ Over)
            ~> closed[s][i] # "no" \/ failed[s] # NoStream

\* "receiving no longer possible, closing all streams" (the end of recv_mgr): once a side has ended,
\* its Streams say so. (Does not hold: send_mgr may open one after that, which nobody closes.)
AllStreamsEnd ==
    \A s \in Side, i \in Stream :
        ~receiving[s] /\ ~send[s].on /\ user[s][i] # "none" => closed[s][i] # "no" \/ failed[s] # NoStream

\* A stream that both sides have dropped leaves the PrioManager.
DroppedStreamsAreFreed ==
    \A s \in Side, i \in Stream :
        (\A t \in Side : user[t][i] = "dropped") ~> i \notin DOMAIN send[s].store \/ Over

\* Once a side is told to remove its protocol, all four managers end, without the timeout and
\* although the Shutdown frame may be held back for good.
BothSidesEnd == \A s \in Side : remp[s] ~> \A t \in Side : ~send[t].on /\ ~receiving[t]

\* "including all messages to be send before closing" (Participant::disconnect): when the send
\* half goes, what was handed over has been written. (Does not hold.)
DisconnectSendsEverything ==
    \A s \in Side : ~send[s].on /\ up /\ NothingFails
        => \A i \in DOMAIN send[s].store : send[s].store[i].frames = <<>>
=============================================================================
