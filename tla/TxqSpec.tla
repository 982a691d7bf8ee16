-------------------------------- MODULE TxqSpec --------------------------------
(***************************************************************************)
(* What the transmit queue promises (net/inc/net_txq.h): datagrams leave   *)
(* in the order they were accepted, each once, and the only ones that do   *)
(* not leave are those the kernel refuses at the head of the queue.        *)
(***************************************************************************)
EXTENDS Naturals, Sequences

CONSTANT Datagrams

VARIABLES
    queue,      \* accepted and not yet sent
    wire,       \* handed to the kernel, in order
    lost        \* refused by the kernel for good, in order

vars == <<queue, wire, lost>>

Init == queue = <<>> /\ wire = <<>> /\ lost = <<>>

Accept == \E d \in Datagrams : queue' = Append(queue, d) /\ UNCHANGED <<wire, lost>>

Push ==
    \E k \in 1 .. Len(queue) :
        /\ wire' = wire \o SubSeq(queue, 1, k)
        /\ queue' = SubSeq(queue, k + 1, Len(queue))
        /\ UNCHANGED lost

Lose ==
    /\ queue # <<>>
    /\ lost' = Append(lost, Head(queue))
    /\ queue' = Tail(queue)
    /\ UNCHANGED wire

Next == Accept \/ Push \/ Lose

Spec == Init /\ [][Next]_vars
===============================================================================
