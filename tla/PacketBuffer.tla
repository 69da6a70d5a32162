---------------------------- MODULE PacketBuffer ----------------------------
(***************************************************************************)
(* badvpn/flow/PacketBuffer.c on top of badvpn/structure/ChunkBuffer2.h:   *)
(* the packet queue in front of every UDP socket of tun2socks (and of      *)
(* every udpgw connection).  Packets of up to Mtu bytes are stored in a    *)
(* ring of blocks, each packet one header block with its length and then   *)
(* its data in consecutive blocks; the ring wraps early, at `wrap`, when   *)
(* no packet of Mtu bytes fits behind the last one.                        *)
(*                                                                         *)
(* The input writes a packet straight into the ring, at the pointer it was *)
(* given when the receive was started and at any time until it is done;    *)
(* the output reads at its own pointer until it is done.  Both are held    *)
(* across calls of the other side, and ChunkBuffer2 caches where they      *)
(* point.  The assertions of ChunkBuffer2.h are compiled out (NDEBUG).     *)
(*                                                                         *)
(* Abstracted: bytes within a block; what a block holds after its packet   *)
(* was consumed is Junk.  The job queue between the interfaces: the two    *)
(* handlers may run in any order.                                          *)
(***************************************************************************)
EXTENDS Integers, Sequences

CONSTANTS
    Data,       \* what the input may fill a packet with
    Junk,       \* the content of a block nobody has written since it was freed
    Block,      \* sizeof(struct ChunkBuffer2_block)
    Mtu,        \* the input's MTU in bytes
    Num         \* num_packets

ASSUME SizesAssumption ==
    /\ Block \in Nat \ {0} /\ Mtu \in Nat \ {0} /\ Num \in Nat \ {0}

VARIABLES
    buf,        \* the ChunkBuffer2
    recv,       \* the receive outstanding on the input
    send        \* the send outstanding on the output

vars == <<buf, recv, send>>

\* bdivide_up(len, sizeof(struct ChunkBuffer2_block))
Blocks(len) == IF len % Block = 0 THEN len \div Block ELSE 1 + len \div Block

\* ChunkBuffer2_calc_blocks (its overflow checks only make Init fail)
CalcBlocks(chunkLen, num) == (1 + Blocks(chunkLen)) * (num + 1)

Size == CalcBlocks(Mtu, Num)
Cells == 0 .. Size - 1

None == -1      \* a NULL pointer, or no length

\* _ChunkBuffer2_end
End(b) ==
    IF b.used >= b.wrap - b.start
    THEN b.used - (b.wrap - b.start)
    ELSE b.start + b.used

\* _ChunkBuffer2_update_input.  inDest is the index of the first data block.
UpdateInput(b) ==
    LET end  == End(b)
        free == (IF b.used >= b.wrap - b.start THEN b.start ELSE Size) - end
    IN  IF Size - end - 1 < Blocks(Mtu) \/ free <= 0
        THEN [b EXCEPT !.inDest = None, !.inAvail = None]
        ELSE [b EXCEPT !.inDest = end + 1, !.inAvail = (free - 1) * Block]

\* _ChunkBuffer2_update_output
UpdateOutput(b) ==
    IF b.used > 0
    THEN [b EXCEPT !.outDest = b.start + 1, !.outAvail = b.mem[b.start]]
    ELSE [b EXCEPT !.outDest = None, !.outAvail = None]

\* Mutant of SubmitPacket: the ring wraps only at its end.
SubmitPacketNoWrap(b, len) ==
    LET n == 1 + Blocks(len)
        e == UpdateInput([b EXCEPT !.mem[End(b)] = len, !.used = @ + n])
    IN  IF e.used = n THEN UpdateOutput(e) ELSE e

\* ChunkBuffer2_SubmitPacket: the data is there, write its header.
SubmitPacket(b, len) ==
    LET end == End(b)
        n   == 1 + Blocks(len)
        c   == [b EXCEPT !.mem[end] = len, !.used = @ + n]
        d   == IF c.used <= c.wrap - c.start /\ Blocks(Mtu) > Size - (end + n) - 1
               THEN [c EXCEPT !.wrap = end + n] ELSE c
        e   == UpdateInput(d)
    IN  IF e.used = n THEN UpdateOutput(e) ELSE e

\* Mutant of ConsumePacket: the room freed in a wrapped ring is not seen by the
\* input.
ConsumePacketStaleInput(b) ==
    LET n == 1 + Blocks(b.mem[b.start])
        c == [b EXCEPT !.start = @ + n, !.used = @ - n]
    IN  UpdateOutput(IF c.start = c.wrap
                     THEN [c EXCEPT !.start = 0, !.wrap = Size] ELSE c)

\* ChunkBuffer2_ConsumePacket: the first packet's blocks are free again.
ConsumePacket(b) ==
    LET n   == 1 + Blocks(b.mem[b.start])
        wrapped == b.used >= b.wrap - b.start
        c   == [b EXCEPT !.start = @ + n, !.used = @ - n,
                         !.mem = [i \in Cells |-> IF i \in b.start .. b.start + n - 1
                                                  THEN Junk ELSE b.mem[i]]]
        d   == IF c.start = c.wrap THEN [c EXCEPT !.start = 0, !.wrap = Size] ELSE c
    IN  UpdateOutput(IF wrapped THEN UpdateInput(d) ELSE d)

\* PacketRecvInterface_Receiver_Recv and PacketPassInterface_Sender_Send
Receive(b)   == [dest |-> b.inDest, filled |-> None]
NoReceive    == [dest |-> None, filled |-> None]
Send(b)      == [dest |-> b.outDest, len |-> b.outAvail]

\* ChunkBuffer2_Init and PacketBuffer_Init
Init ==
    /\ buf = UpdateOutput(UpdateInput(
                [wrap |-> Size, start |-> 0, used |-> 0,
                 mem |-> [i \in Cells |-> Junk],
                 inDest |-> None, inAvail |-> None,
                 outDest |-> None, outAvail |-> None]))
    /\ recv = Receive(buf)
    /\ send = [dest |-> None, len |-> None]

\* The input writes a packet of len bytes where it was told to.
Fill(len, d) ==
    /\ recv.dest # None /\ recv.filled = None
    /\ buf' = [buf EXCEPT !.mem =
                  [i \in Cells |-> IF i \in recv.dest .. recv.dest + Blocks(len) - 1
                                   THEN d ELSE buf.mem[i]]]
    /\ recv' = [recv EXCEPT !.filled = len]
    /\ UNCHANGED send

\* Mutant of InputDone: a receive is started if there is any space.
InputDoneAnySpace ==
    /\ recv.filled # None
    /\ buf' = SubmitPacket(buf, recv.filled)
    /\ recv' = IF buf'.inAvail >= 0 THEN Receive(buf') ELSE NoReceive
    /\ send' = IF buf.outAvail < 0 THEN Send(buf') ELSE send

\* input_handler_done
InputDone ==
    /\ recv.filled # None
    /\ buf' = SubmitPacket(buf, recv.filled)
    /\ recv' = IF buf'.inAvail >= Mtu THEN Receive(buf') ELSE NoReceive
    /\ send' = IF buf.outAvail < 0 THEN Send(buf') ELSE send

\* output_handler_done
OutputDone ==
    /\ send.dest # None
    /\ buf' = ConsumePacket(buf)
    /\ recv' = IF buf.inAvail < Mtu /\ buf'.inAvail >= Mtu THEN Receive(buf') ELSE recv
    /\ send' = Send(buf')

Next ==
    \/ \E len \in 0 .. Mtu, d \in Data : Fill(len, d)
    \/ InputDone
    \/ OutputDone

Spec == Init /\ [][Next]_vars

-----------------------------------------------------------------------------
(* The queue in the ring *)

\* A packet of b as its receiver reads it: its length and its blocks.
ReadFrom(b, dest, len) ==
    [len |-> len, data |-> [i \in 1 .. Blocks(len) |-> b.mem[dest + i - 1]]]
Read(dest, len) == ReadFrom(buf, dest, len)

\* The packets stored in `left` blocks from block `at` on: follow the headers.
Follow(b) ==
    LET follow[left \in 0 .. Size] ==
            [at \in 0 .. Size |->
                IF left = 0 THEN <<>>
                ELSE LET n == 1 + Blocks(b.mem[at])
                         next == IF at + n = b.wrap THEN 0 ELSE at + n
                     IN  IF n \in 1 .. left
                         THEN <<ReadFrom(b, at + 1, b.mem[at])>> \o follow[left - n][next]
                         ELSE <<>>]
    IN  follow

Stored == Follow(buf)[buf.used][buf.start]

\* The packet the output was given, if any.
Offered == IF send.dest = None THEN <<>> ELSE <<Read(send.dest, send.len)>>

Packet == [len: 0 .. Mtu, data: UNION {[1 .. n -> Data] : n \in 0 .. Blocks(Mtu)}]

\* The buffer is a FIFO of whole packets: what the output is given, read at any
\* moment until it is done, is the oldest packet as the input wrote it, however
\* the ring wrapped in between; and the buffer takes a further packet whenever
\* it holds fewer than num_packets (the promise of ChunkBuffer2_calc_blocks:
\* "needed to hold at least 'num' packets long at least 'chunk_len'").
Fifo == INSTANCE PacketFifo WITH
            queue <- Stored,
            ready <- recv.dest # None,
            offer <- Offered
IsFifo == Fifo!Spec

TypeOK ==
    /\ buf \in [wrap: 1 .. Size, start: Cells, used: 0 .. Size,
                mem: [Cells -> Data \cup {Junk} \cup 0 .. Mtu],
                inDest: {None} \cup 1 .. Size, inAvail: {None} \cup 0 .. Size * Block,
                outDest: {None} \cup 1 .. Size, outAvail: {None} \cup 0 .. Mtu]
    /\ recv \in [dest: {None} \cup 1 .. Size, filled: {None} \cup 0 .. Mtu]
    /\ send \in [dest: {None} \cup 1 .. Size, len: {None} \cup 0 .. Mtu]

\* _ChunkBuffer2_assert_buffer and _ChunkBuffer2_assert_io, which the build
\* leaves out: the ring's geometry, and that the cached pointers are what they
\* would be if computed now, although each operation refreshes only some.
AssertBuffer ==
    /\ TypeOK
    /\ buf.start < buf.wrap /\ buf.used <= buf.wrap
    /\ buf.wrap = Size \/ buf.used >= buf.wrap - buf.start
    /\ buf = UpdateInput(buf) /\ buf = UpdateOutput(buf)

\* The pointers held by the two sides stay valid across the other side's calls:
\* the receive outstanding points to the current input block, with room for Mtu
\* bytes outside the stored packets, and the send to the first packet.
PointersStayValid ==
    /\ recv.dest # None =>
          /\ recv.dest = buf.inDest
          /\ buf.inAvail >= Mtu
          /\ \A i \in recv.dest .. recv.dest + Blocks(Mtu) - 1 :
                /\ i \in Cells
                /\ IF End(buf) <= buf.start /\ buf.used > 0
                   THEN i < buf.start
                   ELSE i > End(buf)
    /\ send = Send(buf)
=============================================================================
