----------------------------- MODULE PacketFifo -----------------------------
(***************************************************************************)
(* What badvpn/flow/PacketBuffer promises to the two interfaces it         *)
(* connects: a queue of packets between an input it receives from and an   *)
(* output it sends to.  Nothing is said of blocks, wrapping or pointers.   *)
(***************************************************************************)
EXTENDS Naturals, Sequences

CONSTANTS
    Packet,     \* the packets
    Num         \* the number of packets the buffer was asked to hold

VARIABLES
    queue,      \* the packets in the buffer, oldest first
    ready,      \* a receive is outstanding: the input may deliver a packet
    offer       \* the packet being sent to the output, as a sequence of 0 or 1

vars == <<queue, ready, offer>>

\* The packet the output is given when the buffer holds q.
First(q) == IF q = <<>> THEN <<>> ELSE <<Head(q)>>

Init == queue = <<>> /\ ready = TRUE /\ offer = <<>>

\* After every step the oldest packet is the one on offer, and the input is
\* served unless the buffer holds the number of packets it was made for.
Becomes(q) ==
    /\ queue' = q
    /\ offer' = First(q)
    /\ ready' \in BOOLEAN
    /\ Len(q) < Num => ready'

Enqueue == ready /\ \E p \in Packet : Becomes(Append(queue, p))

Dequeue == queue # <<>> /\ (ready => ready') /\ Becomes(Tail(queue))

Next == Enqueue \/ Dequeue

Spec == Init /\ [][Next]_vars
=============================================================================
