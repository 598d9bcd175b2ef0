----------------------------- MODULE EventStream -----------------------------
(***************************************************************************)
(* What a generation channel promises its two ends, whatever queue, lock   *)
(* or condition variable is behind it: events are received in the order    *)
(* they were sent, each once, none is invented, and nothing is received    *)
(* after the first terminal event.                                         *)
(***************************************************************************)
EXTENDS Sequences, Naturals

CONSTANTS Payload,      \* Started, Token, Chunk, Metrics, ...
          Terminal      \* Done, Error, Cancelled

VARIABLES sent,         \* every event the channel accepted, in order
          received      \* every event recv or try_recv returned, in order

vars == <<sent, received>>

Events == Payload \cup Terminal

Ended == \E i \in 1 .. Len(received) : received[i] \in Terminal

Init == sent = <<>> /\ received = <<>>

Send(e) ==
    /\ sent' = Append(sent, e)
    /\ UNCHANGED received

Receive ==
    /\ ~ Ended
    /\ Len(received) < Len(sent)
    /\ received' = Append(received, sent[Len(received) + 1])
    /\ UNCHANGED sent

Next == (\E e \in Events : Send(e)) \/ Receive

Spec == Init /\ [][Next]_vars
=============================================================================
