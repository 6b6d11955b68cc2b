---------------------------- MODULE OrderedStreams ----------------------------
(***************************************************************************)
(* What the network crate promises of a stream: each side receives the     *)
(* messages of the other in order, without gaps and none twice, and learns *)
(* that the other has dropped the stream only after the last of them.      *)
(* A side may miss messages only if it has dropped the stream itself or    *)
(* the connection is over.                                                 *)
(***************************************************************************)
EXTENDS Naturals, Sequences

CONSTANTS Side, Stream

VARIABLES
    sent,       \* how many messages a side has sent
    got,        \* the numbers of those it has received
    dropped,    \* whether it has dropped the stream
    ended,      \* whether, and how, receiving has ended
    over        \* whether the connection is over

vars == <<sent, got, dropped, ended, over>>

Remote(s) == CHOOSE t \in Side : t # s

Init ==
    /\ sent = [s \in Side |-> [i \in Stream |-> 0]]
    /\ got = [s \in Side |-> [i \in Stream |-> <<>>]]
    /\ dropped = [s \in Side |-> [i \in Stream |-> FALSE]]
    /\ ended = [s \in Side |-> [i \in Stream |-> "no"]]
    /\ over = FALSE

Send(s, i) ==
    /\ ~dropped[s][i]
    /\ sent' = [sent EXCEPT ![s][i] = @ + 1]
    /\ UNCHANGED <<got, dropped, ended, over>>

Deliver(s, i) ==
    /\ ended[s][i] = "no"
    /\ Len(got[s][i]) < sent[Remote(s)][i]
    /\ got' = [got EXCEPT ![s][i] = Append(@, Len(@) + 1)]
    /\ UNCHANGED <<sent, dropped, ended, over>>

Drop(s, i) ==
    /\ dropped' = [dropped EXCEPT ![s][i] = TRUE]
    /\ UNCHANGED <<sent, got, ended, over>>

\* The other side is done, and everything it sent is here.
Finish(s, i) ==
    /\ ended[s][i] = "no"
    /\ dropped[Remote(s)][i]
    /\ Len(got[s][i]) = sent[Remote(s)][i]
    /\ ended' = [ended EXCEPT ![s][i] = "complete"]
    /\ UNCHANGED <<sent, got, dropped, over>>

Cut(s, I) ==
    /\ over' \in {over, TRUE}
    /\ \A i \in I : dropped[s][i] \/ over'
    /\ ended' = [ended EXCEPT ![s] = [i \in Stream |-> IF i \in I /\ @[i] = "no" THEN "cut" ELSE @[i]]]
    /\ UNCHANGED <<sent, got, dropped>>

Next == \E s \in Side :
    \/ \E i \in Stream : Send(s, i) \/ Deliver(s, i) \/ Drop(s, i) \/ Finish(s, i)
    \/ \E I \in SUBSET Stream : Cut(s, I)

Spec == Init /\ [][Next]_vars
=============================================================================
