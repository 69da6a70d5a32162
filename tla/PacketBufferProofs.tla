------------------------- MODULE PacketBufferProofs -------------------------
(***************************************************************************)
(* The ring of badvpn/structure/ChunkBuffer2.h as badvpn/flow/PacketBuffer *)
(* uses it keeps its geometry, its cached pointers and the pointers lent   *)
(* to both sides, for every block size, MTU and number of packets.         *)
(*                                                                         *)
(* AssertBuffer and PointersStayValid are not inductive: ConsumePacket     *)
(* reads the length of the first packet from the ring, and that the        *)
(* packet ends within the ring is a fact about all the headers, the ones   *)
(* the input is about to write next to included.  The invariant adds that  *)
(* the stored packets form a chain (Chain): the offsets of the headers     *)
(* from `start`, each one the end of the packet before, none across        *)
(* `wrap`.                                                                 *)
(*                                                                         *)
(* The second half shows that the ring implements the queue of PacketFifo. *)
(* What is stored is a recursive function of the headers, so this needs    *)
(* induction.  It is had from the least element of a set of numbers, which *)
(* theorem WFMin gives without an operator parameter: the equation of the  *)
(* function has a solution, and facts go along the chain from its end.     *)
(***************************************************************************)
EXTENDS PacketBuffer, WellFoundedInduction, TLAPS

-----------------------------------------------------------------------------
(* Blocks *)

\* Division with remainder, as the provers need it for bdivide_up.
LEMMA Division ==
    ASSUME NEW len \in Nat, NEW k \in Int, k > 0
    PROVE  /\ len \div k \in Nat
           /\ len % k \in 0 .. k - 1
           /\ (len \div k) * k <= len
           /\ len < (len \div k) * k + k
           /\ len % k = 0 => (len \div k) * k = len
<1>1. len \div k \in Nat
  <2>1. len \div k >= 0
    OBVIOUS
  <2>2. len \div k \in Int
    OBVIOUS
  <2> QED
    BY <2>1, <2>2
<1>2. len % k \in 0 .. k - 1
  OBVIOUS
<1>3. (len \div k) * k <= len
  OBVIOUS
<1>4. len < (len \div k) * k + k
  OBVIOUS
<1>5. len % k = 0 => (len \div k) * k = len
  OBVIOUS
<1> QED
  BY <1>1, <1>2, <1>3, <1>4, <1>5

\* Multiplication preserves the order.
LEMMA Times ==
    ASSUME NEW a \in Int, NEW b \in Int, NEW k \in Nat
    PROVE  /\ a * k \in Int
           /\ a <= b => a * k <= b * k
           /\ k > 0 /\ a < b => a * k + k <= b * k
<1>1. a * k \in Int
  OBVIOUS
<1>2. ASSUME a <= b PROVE a * k <= b * k
  BY <1>2
<1>3. ASSUME k > 0, a < b PROVE a * k + k <= b * k
  <2>1. (a + 1) * k <= b * k
    BY <1>3
  <2>2. (a + 1) * k = a * k + k
    OBVIOUS
  <2> QED
    BY <2>1, <2>2, <1>1
<1> QED
  BY <1>1, <1>2, <1>3

\* bdivide_up: the least number of blocks that holds len bytes.
LEMMA BlocksLemma ==
    ASSUME NEW len \in Nat
    PROVE  /\ Blocks(len) \in Nat
           /\ \A k \in Nat : k * Block >= len <=> k >= Blocks(len)
<1> DEFINE q == len \div Block
<1>1. Block \in Int /\ Block > 0 /\ Block \in Nat
  BY SizesAssumption
<1>2. /\ q \in Nat
      /\ q * Block <= len
      /\ len < q * Block + Block
      /\ len % Block = 0 => q * Block = len
      /\ len % Block \in 0 .. Block - 1
  BY <1>1, Division
<1>3. Blocks(len) = IF len % Block = 0 THEN q ELSE 1 + q
  BY DEF Blocks
<1>4. len % Block # 0 => q * Block < len
  BY <1>1
<1> HIDE DEF q
<1>5. Blocks(len) \in Nat
  BY <1>2, <1>3
<1>6. ASSUME NEW k \in Nat PROVE k * Block >= len <=> k >= Blocks(len)
  <2>1. /\ k * Block \in Int /\ q * Block \in Int
        /\ q <= k => q * Block <= k * Block
        /\ q < k => q * Block + Block <= k * Block
        /\ k <= q => k * Block <= q * Block
        /\ k < q => k * Block + Block <= q * Block
    BY <1>1, <1>2, Times
  <2>2. CASE len % Block = 0
    BY <1>1, <1>2, <1>3, <2>1, <2>2
  <2>3. CASE len % Block # 0
    BY <1>1, <1>2, <1>3, <1>4, <2>1, <2>3
  <2> QED
    BY <2>2, <2>3
<1> QED
  BY <1>5, <1>6

\* What the sizes are: a packet of Mtu bytes is the largest, and fits.
LEMMA SizesLemma ==
    /\ Mtu \in Nat /\ Blocks(Mtu) \in Nat
    /\ Size \in Nat /\ Size >= 2 + 2 * Blocks(Mtu)
    /\ \A len \in 0 .. Mtu : Blocks(len) \in 0 .. Blocks(Mtu)
<1>1. Mtu \in Nat /\ Num \in Nat /\ Num > 0
  BY SizesAssumption
<1>2. Blocks(Mtu) \in Nat
  BY <1>1, BlocksLemma
<1>3. Size \in Nat /\ Size >= 2 + 2 * Blocks(Mtu)
  <2> DEFINE s == 1 + Blocks(Mtu)
  <2>1. s \in Nat /\ s = 1 + Blocks(Mtu)
    BY <1>2
  <2>2. Size = s * (Num + 1)
    BY DEF Size, CalcBlocks
  <2> HIDE DEF s
  <2>3. s * (Num + 1) = (Num + 1) * s /\ (Num + 1) * s \in Int
    BY <2>1, <1>1
  <2>4. 2 * s <= (Num + 1) * s
    BY <1>1, <2>1, Times
  <2> QED
    BY <2>1, <2>2, <2>3, <2>4, <1>2
<1>4. ASSUME NEW len \in 0 .. Mtu PROVE Blocks(len) \in 0 .. Blocks(Mtu)
  <2>1. len \in Nat /\ len <= Mtu
    BY <1>1
  <2>2. Block \in Nat /\ Blocks(Mtu) * Block \in Int
    BY <1>2, SizesAssumption
  <2>3. Blocks(Mtu) * Block >= Mtu
    BY <1>1, <1>2, BlocksLemma
  <2>4. Blocks(Mtu) * Block >= len
    BY <2>1, <2>2, <2>3, <1>1
  <2>5. Blocks(len) \in Nat /\ Blocks(Mtu) >= Blocks(len)
    BY <2>1, <2>4, <1>2, BlocksLemma
  <2> QED
    BY <2>5, <1>2
<1> QED
  BY <1>1, <1>2, <1>3, <1>4

-----------------------------------------------------------------------------
(* The ring *)

\* The records of the type invariant.
Buffer ==
    [wrap: 1 .. Size, start: Cells, used: 0 .. Size,
     mem: [Cells -> Data \cup {Junk} \cup 0 .. Mtu],
     inDest: {None} \cup 1 .. Size, inAvail: {None} \cup 0 .. Size * Block,
     outDest: {None} \cup 1 .. Size, outAvail: {None} \cup 0 .. Mtu]

\* The blocks in use go round the end of the ring.
Wrapped(b) == b.used >= b.wrap - b.start

\* The first three assertions of _ChunkBuffer2_assert_buffer.
Geometry(b) ==
    /\ b.start < b.wrap /\ b.used <= b.wrap
    /\ b.wrap = Size \/ Wrapped(b)

\* The free blocks that follow the last packet.
Free(b) == (IF Wrapped(b) THEN b.start ELSE Size) - End(b)

\* A packet of Mtu bytes may be written there without wrapping.
Fits(b) == Size - End(b) - 1 >= Blocks(Mtu) /\ Free(b) > 0

\* The cached pointers are what they would be if computed now.
InputCached(b) ==
    IF Fits(b) THEN b.inDest = End(b) + 1 /\ b.inAvail = (Free(b) - 1) * Block
               ELSE b.inDest = None /\ b.inAvail = None

OutputCached(b) ==
    IF b.used > 0 THEN b.outDest = b.start + 1 /\ b.outAvail = b.mem[b.start]
                  ELSE b.outDest = None /\ b.outAvail = None

\* The block o blocks behind the start of the first packet.
Cell(b, o) ==
    IF o < b.wrap - b.start THEN b.start + o ELSE o - (b.wrap - b.start)

\* Where the packet whose header is at offset o ends.
Stop(b, o) == o + 1 + Blocks(b.mem[Cell(b, o)])

\* The stored packets: O has the offsets of their headers, and the end of the last.
Chain(b, O) ==
    /\ O \subseteq 0 .. b.used
    /\ 0 \in O /\ b.used \in O
    /\ \A o \in O : o < b.used =>
          /\ b.mem[Cell(b, o)] \in 0 .. Mtu
          /\ Stop(b, o) \in O
          /\ o < b.wrap - b.start => Stop(b, o) <= b.wrap - b.start

Sound(b) ==
    /\ Geometry(b)
    /\ InputCached(b) /\ OutputCached(b)
    /\ \E O \in SUBSET (0 .. Size) : Chain(b, O)

\* The inductive invariant.
Inv ==
    /\ TypeOK
    /\ Sound(buf)
    /\ recv.dest # None => recv.dest = buf.inDest /\ buf.inAvail >= Mtu
    /\ recv.filled # None => recv.dest # None
    /\ send = Send(buf)

-----------------------------------------------------------------------------
(* Pointers *)

\* The fields of a buffer, as integers.
LEMMA BufferType ==
    ASSUME NEW b \in Buffer
    PROVE  /\ b.wrap \in Nat /\ b.wrap >= 1 /\ b.wrap <= Size
           /\ b.start \in Nat /\ b.start < Size
           /\ b.used \in Nat /\ b.used <= Size
           /\ b.mem \in [Cells -> Data \cup {Junk} \cup 0 .. Mtu]
           /\ Size \in Nat /\ Blocks(Mtu) \in Nat /\ Mtu \in Nat
BY SizesLemma DEF Buffer, Cells

\* The free blocks behind the last packet are within the ring.
LEMMA EndLemma ==
    ASSUME NEW b \in Buffer, Geometry(b)
    PROVE  /\ End(b) \in Nat /\ Free(b) \in Nat
           /\ End(b) + Free(b) <= Size
           /\ Wrapped(b) => /\ End(b) = b.used - (b.wrap - b.start)
                            /\ Free(b) = b.start - End(b)
                            /\ b.used > 0
           /\ ~Wrapped(b) => /\ End(b) = b.start + b.used
                             /\ Free(b) = Size - End(b)
                             /\ b.wrap = Size /\ Free(b) > 0
BY BufferType DEF Geometry, End, Free, Wrapped

\* inAvail is a number of bytes, and is at least Mtu exactly if there are free
\* blocks for the header and for Mtu bytes.
LEMMA AvailLemma ==
    ASSUME NEW n \in Nat, n <= Size, n > 0
    PROVE  /\ (n - 1) * Block \in 0 .. Size * Block
           /\ (n - 1) * Block >= Mtu <=> n > Blocks(Mtu)
<1>1. Block \in Nat /\ Size \in Nat /\ Mtu \in Nat /\ Blocks(Mtu) \in Nat
  BY SizesLemma, SizesAssumption
<1> DEFINE m == n - 1
<1>2. m \in Nat /\ m <= Size /\ n = m + 1
  BY <1>1
<1> HIDE DEF m
<1>3. m * Block \in Int /\ Size * Block \in Int /\ m * Block <= Size * Block
  BY <1>1, <1>2, Times
<1>4. 0 <= m * Block
  BY <1>1, <1>2
<1>5. m * Block >= Mtu <=> m >= Blocks(Mtu)
  BY <1>1, <1>2, BlocksLemma
<1>6. n - 1 = m
  BY <1>2
<1> QED
  BY <1>1, <1>2, <1>3, <1>4, <1>5, <1>6

\* _ChunkBuffer2_update_input in the terms of this module.
LEMMA InputForm ==
    ASSUME NEW b \in Buffer
    PROVE  UpdateInput(b) =
             IF Fits(b)
             THEN [b EXCEPT !.inDest = End(b) + 1, !.inAvail = (Free(b) - 1) * Block]
             ELSE [b EXCEPT !.inDest = None, !.inAvail = None]
<1>1. End(b) \in Int /\ Free(b) \in Int /\ Size \in Int /\ Blocks(Mtu) \in Int
  BY BufferType DEF End, Free
<1> QED
  BY <1>1 DEF UpdateInput, Fits, Free, Wrapped

\* The caches hold exactly what the assertions of ChunkBuffer2 recompute.
LEMMA CachedLemma ==
    ASSUME NEW b \in Buffer
    PROVE  /\ InputCached(b) => b = UpdateInput(b)
           /\ OutputCached(b) => b = UpdateOutput(b)
<1>1. ASSUME InputCached(b) PROVE b = UpdateInput(b)
  <2> DEFINE avail == (Free(b) - 1) * Block
  <2>1. CASE Fits(b)
    <3>1. b.inDest = End(b) + 1 /\ b.inAvail = avail
      BY <1>1, <2>1 DEF InputCached
    <3>2. UpdateInput(b) = [b EXCEPT !.inDest = End(b) + 1, !.inAvail = avail]
      BY <2>1, InputForm
    <3> HIDE DEF avail
    <3> QED
      BY <3>1, <3>2 DEF Buffer
  <2>2. CASE ~Fits(b)
    <3>1. b.inDest = None /\ b.inAvail = None
      BY <1>1, <2>2 DEF InputCached
    <3>2. UpdateInput(b) = [b EXCEPT !.inDest = None, !.inAvail = None]
      BY <2>2, InputForm
    <3> QED
      BY <3>1, <3>2 DEF Buffer
  <2> QED
    BY <2>1, <2>2
<1>2. ASSUME OutputCached(b) PROVE b = UpdateOutput(b)
  BY <1>2 DEF OutputCached, UpdateOutput, Buffer
<1> QED
  BY <1>1, <1>2

\* _ChunkBuffer2_update_input changes the two input pointers and nothing else.
LEMMA UpdateInputLemma ==
    ASSUME NEW b \in Buffer, Geometry(b)
    PROVE  /\ UpdateInput(b) \in Buffer
           /\ UpdateInput(b).wrap = b.wrap /\ UpdateInput(b).start = b.start
           /\ UpdateInput(b).used = b.used /\ UpdateInput(b).mem = b.mem
           /\ UpdateInput(b).outDest = b.outDest
           /\ UpdateInput(b).outAvail = b.outAvail
           /\ InputCached(UpdateInput(b))
<1> DEFINE dest == IF Fits(b) THEN End(b) + 1 ELSE None
           avail == IF Fits(b) THEN (Free(b) - 1) * Block ELSE None
           c == [b EXCEPT !.inDest = dest, !.inAvail = avail]
<1>1. End(b) \in Nat /\ Free(b) \in Nat /\ Size \in Nat /\ Blocks(Mtu) \in Nat
      /\ End(b) + Free(b) <= Size
  BY BufferType, EndLemma
<1>2. UpdateInput(b) = c
  <2>1. CASE Fits(b)
    BY <2>1, InputForm
  <2>2. CASE ~Fits(b)
    BY <2>2, InputForm
  <2> QED
    BY <2>1, <2>2
<1>3. dest \in {None} \cup 1 .. Size
  BY <1>1 DEF Fits
<1>4. avail \in {None} \cup 0 .. Size * Block
  <2>1. Fits(b) => Free(b) > 0 /\ Free(b) <= Size
    BY <1>1 DEF Fits
  <2> QED
    BY <2>1, <1>1, AvailLemma
<1>5. /\ dest = IF Fits(b) THEN End(b) + 1 ELSE None
      /\ avail = IF Fits(b) THEN (Free(b) - 1) * Block ELSE None
  OBVIOUS
<1> HIDE DEF dest, avail
<1>6. c \in Buffer /\ c.wrap = b.wrap /\ c.start = b.start /\ c.used = b.used
      /\ c.mem = b.mem /\ c.outDest = b.outDest /\ c.outAvail = b.outAvail
      /\ c.inDest = dest /\ c.inAvail = avail
  BY <1>3, <1>4 DEF Buffer
<1> HIDE DEF c
<1>7. End(c) = End(b) /\ Free(c) = Free(b) /\ (Fits(c) <=> Fits(b))
  BY <1>6 DEF End, Free, Fits, Wrapped
<1>8. InputCached(c)
  BY <1>5, <1>6, <1>7 DEF InputCached
<1> QED
  BY <1>2, <1>6, <1>8

\* _ChunkBuffer2_update_output likewise.
LEMMA UpdateOutputLemma ==
    ASSUME NEW b \in Buffer, b.used > 0 => b.mem[b.start] \in 0 .. Mtu
    PROVE  /\ UpdateOutput(b) \in Buffer
           /\ UpdateOutput(b).wrap = b.wrap /\ UpdateOutput(b).start = b.start
           /\ UpdateOutput(b).used = b.used /\ UpdateOutput(b).mem = b.mem
           /\ UpdateOutput(b).inDest = b.inDest
           /\ UpdateOutput(b).inAvail = b.inAvail
           /\ OutputCached(UpdateOutput(b))
<1> DEFINE dest == IF b.used > 0 THEN b.start + 1 ELSE None
           avail == IF b.used > 0 THEN b.mem[b.start] ELSE None
           c == [b EXCEPT !.outDest = dest, !.outAvail = avail]
<1>1. UpdateOutput(b) = c
  BY DEF UpdateOutput
<1>2. dest \in {None} \cup 1 .. Size /\ avail \in {None} \cup 0 .. Mtu
  BY BufferType
<1>3. /\ dest = IF b.used > 0 THEN b.start + 1 ELSE None
      /\ avail = IF b.used > 0 THEN b.mem[b.start] ELSE None
  OBVIOUS
<1> HIDE DEF dest, avail
<1>4. c \in Buffer /\ c.wrap = b.wrap /\ c.start = b.start /\ c.used = b.used
      /\ c.mem = b.mem /\ c.inDest = b.inDest /\ c.inAvail = b.inAvail
      /\ c.outDest = dest /\ c.outAvail = avail
  BY <1>2 DEF Buffer
<1> HIDE DEF c
<1>5. OutputCached(c)
  BY <1>3, <1>4 DEF OutputCached
<1> QED
  BY <1>1, <1>4, <1>5

\* What depends on the ring's geometry and content only.
LEMMA SameRing ==
    ASSUME NEW b, NEW c, c.wrap = b.wrap, c.start = b.start, c.used = b.used,
           c.mem = b.mem
    PROVE  /\ Geometry(c) <=> Geometry(b)
           /\ c.inDest = b.inDest /\ c.inAvail = b.inAvail =>
                 (InputCached(c) <=> InputCached(b))
           /\ c.outDest = b.outDest /\ c.outAvail = b.outAvail =>
                 (OutputCached(c) <=> OutputCached(b))
           /\ \A O : Chain(c, O) <=> Chain(b, O)
BY DEF Geometry, Wrapped, InputCached, OutputCached, Fits, Free, End, Chain, Stop, Cell

-----------------------------------------------------------------------------
(* SubmitPacket *)

\* A receive was started: the header and Mtu bytes have room.
LEMMA RoomLemma ==
    ASSUME NEW b \in Buffer, Geometry(b), InputCached(b), b.inAvail >= Mtu
    PROVE  /\ Fits(b) /\ Free(b) > Blocks(Mtu)
           /\ b.inDest = End(b) + 1
<1>1. Mtu \in Nat /\ Free(b) \in Nat /\ End(b) \in Nat /\ Size \in Nat
      /\ End(b) + Free(b) <= Size
  BY BufferType, EndLemma
<1>2. Fits(b)
  BY <1>1 DEF InputCached, None
<1>3. Free(b) > 0 /\ Free(b) <= Size
  BY <1>1, <1>2 DEF Fits
<1>4. b.inDest = End(b) + 1 /\ b.inAvail = (Free(b) - 1) * Block
  BY <1>2 DEF InputCached
<1> QED
  BY <1>1, <1>2, <1>3, <1>4, AvailLemma

\* The ring after the header is written at `end`, with u blocks in use up to w.
Submitted(b, len, u, w) ==
    [b EXCEPT !.mem[End(b)] = len, !.used = u, !.wrap = w]

\* It is a ring, and only these fields are new.
LEMMA SubmittedType ==
    ASSUME NEW b \in Buffer, NEW len \in 0 .. Mtu, NEW u \in 0 .. Size,
           NEW w \in 1 .. Size, End(b) \in Cells
    PROVE  LET d == Submitted(b, len, u, w)
           IN  /\ d \in Buffer
               /\ d.mem = [b.mem EXCEPT ![End(b)] = len]
               /\ d.used = u /\ d.wrap = w /\ d.start = b.start
               /\ d.inDest = b.inDest /\ d.inAvail = b.inAvail
               /\ d.outDest = b.outDest /\ d.outAvail = b.outAvail
BY DEF Buffer, Submitted

\* The chain is longer by the packet submitted.
LEMMA SubmittedChain ==
    ASSUME NEW b \in Buffer, Geometry(b), NEW O, Chain(b, O),
           NEW d \in Buffer, Geometry(d), NEW len \in 0 .. Mtu,
           End(b) \in Cells, d.mem = [b.mem EXCEPT ![End(b)] = len],
           d.start = b.start, d.used = b.used + 1 + Blocks(len),
           Wrapped(b) => End(b) < b.start /\ d.wrap = b.wrap,
           ~Wrapped(b) => d.used <= d.wrap - d.start
    PROVE  Chain(d, O \cup {d.used})
<1> DEFINE n == 1 + Blocks(len)
           P == O \cup {d.used}
<1>1. n \in Nat /\ n > 0 /\ Blocks(len) \in Nat
  BY SizesLemma
<1>2. /\ b.wrap \in Nat /\ b.start \in Nat /\ b.used \in Nat
      /\ d.wrap \in Nat /\ d.start \in Nat /\ d.used \in Nat
      /\ b.start < b.wrap /\ b.used <= b.wrap
      /\ d.start < d.wrap /\ d.used <= d.wrap
      /\ b.wrap <= Size /\ d.wrap <= Size /\ Size \in Nat
  BY BufferType DEF Geometry
<1>10. d.used = b.used + n
  BY <1>1, <1>2
<1>3. /\ Wrapped(b) => End(b) = b.used - (b.wrap - b.start)
      /\ ~Wrapped(b) => End(b) = b.start + b.used /\ b.used < b.wrap - b.start
  BY <1>2 DEF End, Wrapped
<1>4. O \subseteq Nat /\ \A o \in O : o <= b.used
  BY <1>2 DEF Chain
<1>5. P \subseteq 0 .. d.used /\ 0 \in P /\ d.used \in P
  <2>1. O \subseteq 0 .. b.used /\ 0 \in O
    BY DEF Chain
  <2>2. 0 .. b.used \subseteq 0 .. d.used /\ d.used \in 0 .. d.used
    BY <1>1, <1>2, <1>10
  <2> QED
    BY <2>1, <2>2
<1>6. ASSUME NEW o \in O, o < b.used
      PROVE  /\ Cell(d, o) = Cell(b, o)
             /\ Cell(d, o) # End(b)
             /\ Cell(d, o) \in Cells
  <2>1. o \in Nat
    BY <1>4
  <2>2. CASE Wrapped(b)
    <3>1. Cell(d, o) = Cell(b, o)
      BY <1>2, <2>2 DEF Cell
    <3>2. Cell(b, o) # End(b) /\ Cell(b, o) \in Cells
      BY <1>2, <1>3, <1>6, <2>1, <2>2 DEF Cell, Cells
    <3> QED
      BY <3>1, <3>2
  <2>3. CASE ~Wrapped(b)
    <3>1. o < b.wrap - b.start /\ o < d.wrap - d.start
      BY <1>1, <1>2, <1>3, <1>6, <1>10, <2>1, <2>3
    <3>2. Cell(d, o) = b.start + o /\ Cell(b, o) = b.start + o
      BY <3>1 DEF Cell
    <3> QED
      BY <3>1, <3>2, <1>2, <1>3, <1>6, <2>1, <2>3 DEF Cells
  <2> QED
    BY <2>2, <2>3
<1>7. ASSUME NEW o \in O, o < b.used
      PROVE  /\ d.mem[Cell(d, o)] \in 0 .. Mtu
             /\ Stop(d, o) \in O
             /\ o < d.wrap - d.start => Stop(d, o) <= d.wrap - d.start
  <2>1. d.mem[Cell(d, o)] = b.mem[Cell(b, o)]
    BY <1>6, <1>7, BufferType
  <2>2. /\ b.mem[Cell(b, o)] \in 0 .. Mtu
        /\ Stop(b, o) \in O
        /\ o < b.wrap - b.start => Stop(b, o) <= b.wrap - b.start
    BY <1>7 DEF Chain
  <2>3. Stop(d, o) = Stop(b, o)
    BY <2>1 DEF Stop
  <2>4. o < d.wrap - d.start => Stop(d, o) <= d.wrap - d.start
    <3>1. CASE Wrapped(b)
      BY <2>2, <2>3, <3>1
    <3>2. CASE ~Wrapped(b)
      <4>1. Stop(b, o) <= b.used
        BY <1>4, <2>2
      <4>2. d.used <= d.wrap - d.start /\ b.used <= d.used
        BY <1>1, <1>2, <1>10, <3>2
      <4>3. Stop(b, o) \in Nat
        BY <1>4, <2>2
      <4> QED
        BY <4>1, <4>2, <4>3, <2>3, <1>2
    <3> QED
      BY <3>1, <3>2
  <2> QED
    BY <2>1, <2>2, <2>3, <2>4
<1>8. /\ d.mem[Cell(d, b.used)] \in 0 .. Mtu
      /\ Stop(d, b.used) = d.used
      /\ b.used < d.wrap - d.start => d.used <= d.wrap - d.start
  <2>1. Cell(d, b.used) = End(b)
    <3>1. CASE Wrapped(b)
      BY <1>2, <1>3, <3>1 DEF Cell, Wrapped
    <3>2. CASE ~Wrapped(b)
      BY <1>1, <1>2, <1>3, <1>10, <3>2 DEF Cell, Wrapped
    <3> QED
      BY <3>1, <3>2
  <2>2. d.mem[Cell(d, b.used)] = len
    BY <2>1, BufferType
  <2>3. Stop(d, b.used) = d.used
    BY <2>2 DEF Stop
  <2>4. b.used < d.wrap - d.start => d.used <= d.wrap - d.start
    BY <1>2 DEF Wrapped
  <2> QED
    BY <2>2, <2>3, <2>4
<1> HIDE DEF n
<1>9. ASSUME NEW o \in P, o < d.used
      PROVE  /\ d.mem[Cell(d, o)] \in 0 .. Mtu
             /\ Stop(d, o) \in P
             /\ o < d.wrap - d.start => Stop(d, o) <= d.wrap - d.start
  <2>1. o \in O /\ (o < b.used \/ o = b.used)
    BY <1>2, <1>4, <1>9
  <2>2. CASE o < b.used
    BY <1>7, <2>1, <2>2
  <2>3. CASE o = b.used
    BY <1>8, <2>3
  <2> QED
    BY <2>1, <2>2, <2>3
<1> QED
  BY <1>5, <1>9 DEF Chain

\* ChunkBuffer2_SubmitPacket in the terms of this module.
LEMMA SubmitForm ==
    ASSUME NEW b \in Buffer, Geometry(b), NEW len \in 0 .. Mtu
    PROVE  LET n == 1 + Blocks(len)
               u == b.used + n
               w == IF u <= b.wrap - b.start /\ Blocks(Mtu) > Size - (End(b) + n) - 1
                    THEN End(b) + n ELSE b.wrap
               e == UpdateInput(Submitted(b, len, u, w))
           IN  SubmitPacket(b, len) = IF e.used = n THEN UpdateOutput(e) ELSE e
<1> DEFINE n == 1 + Blocks(len)
           u == b.used + n
           w == IF u <= b.wrap - b.start /\ Blocks(Mtu) > Size - (End(b) + n) - 1
                THEN End(b) + n ELSE b.wrap
           c == [b EXCEPT !.mem[End(b)] = len, !.used = u]
           d == IF c.used <= c.wrap - c.start /\ Blocks(Mtu) > Size - (End(b) + n) - 1
                THEN [c EXCEPT !.wrap = End(b) + n] ELSE c
           e == UpdateInput(d)
<1>1. SubmitPacket(b, len) = IF e.used = n THEN UpdateOutput(e) ELSE e
  BY DEF SubmitPacket, Buffer
<1>2. c.used = u /\ c.wrap = b.wrap /\ c.start = b.start
  BY DEF Buffer
<1>3. d = Submitted(b, len, u, w)
  <2>1. CASE u <= b.wrap - b.start /\ Blocks(Mtu) > Size - (End(b) + n) - 1
    BY <1>2, <2>1 DEF Submitted, Buffer
  <2>2. CASE ~(u <= b.wrap - b.start /\ Blocks(Mtu) > Size - (End(b) + n) - 1)
    BY <1>2, <2>2 DEF Submitted, Buffer
  <2> QED
    BY <2>1, <2>2
<1> QED
  BY <1>1, <1>3

\* ChunkBuffer2_SubmitPacket keeps the ring sound, and the packet on offer.
LEMMA SubmitLemma ==
    ASSUME NEW b \in Buffer, Sound(b), b.inAvail >= Mtu, NEW len \in 0 .. Mtu
    PROVE  /\ SubmitPacket(b, len) \in Buffer
           /\ Sound(SubmitPacket(b, len))
           /\ b.used > 0 => /\ SubmitPacket(b, len).outDest = b.outDest
                            /\ SubmitPacket(b, len).outAvail = b.outAvail
<1> DEFINE end == End(b)
           n == 1 + Blocks(len)
           u == b.used + n
           w == IF u <= b.wrap - b.start /\ Blocks(Mtu) > Size - (end + n) - 1
                THEN end + n ELSE b.wrap
           d == Submitted(b, len, u, w)
           e == UpdateInput(d)
<1>1. /\ Geometry(b) /\ InputCached(b) /\ OutputCached(b)
  BY DEF Sound
<1>2. PICK O \in SUBSET (0 .. Size) : Chain(b, O)
  BY DEF Sound
<1>3. /\ b.wrap \in Nat /\ b.start \in Nat /\ b.used \in Nat /\ Size \in Nat
      /\ b.wrap <= Size /\ b.start < b.wrap /\ b.used <= b.wrap
      /\ Blocks(Mtu) \in Nat /\ n \in Nat /\ n > 0 /\ n <= 1 + Blocks(Mtu)
  BY <1>1, BufferType, SizesLemma DEF Geometry
<1>4. /\ end \in Nat /\ Free(b) \in Nat /\ end + Free(b) <= Size
      /\ Wrapped(b) => /\ end = b.used - (b.wrap - b.start)
                       /\ Free(b) = b.start - end
                       /\ b.used >= b.wrap - b.start
      /\ ~Wrapped(b) => /\ end = b.start + b.used
                        /\ Free(b) = Size - end
                        /\ b.wrap = Size
                        /\ b.used < b.wrap - b.start
  BY <1>1, <1>3, EndLemma DEF Wrapped
<1>5. Free(b) > Blocks(Mtu)
  BY <1>1, RoomLemma
<1>6. end \in Cells
  BY <1>3, <1>4, <1>5 DEF Cells
<1>7. /\ u \in Nat /\ u = b.used + n
      /\ Wrapped(b) => w = b.wrap
      /\ ~Wrapped(b) => /\ u <= b.wrap - b.start
                        /\ w = b.start + u \/ (w = Size /\ u < Size - b.start)
  <2>1. CASE Wrapped(b)
    BY <1>3, <1>4, <2>1
  <2>2. CASE ~Wrapped(b)
    BY <1>3, <1>4, <1>5, <2>2
  <2> QED
    BY <2>1, <2>2
<1> HIDE DEF n, u, w
<1>8. u \in 0 .. Size /\ w \in 1 .. Size
  BY <1>3, <1>4, <1>5, <1>7
<1>9. /\ d \in Buffer
      /\ d.mem = [b.mem EXCEPT ![end] = len]
      /\ d.used = u /\ d.wrap = w /\ d.start = b.start
      /\ d.outDest = b.outDest /\ d.outAvail = b.outAvail
  BY <1>6, <1>8, SubmittedType
<1> HIDE DEF d
<1>10. Geometry(d)
  <2>1. CASE Wrapped(b)
    BY <1>3, <1>4, <1>5, <1>7, <1>9, <2>1 DEF Geometry, Wrapped
  <2>2. CASE ~Wrapped(b)
    BY <1>3, <1>4, <1>5, <1>7, <1>9, <2>2 DEF Geometry, Wrapped
  <2> QED
    BY <2>1, <2>2
<1>11. Chain(d, O \cup {u})
  <2>1. d.used = b.used + 1 + Blocks(len)
    BY <1>3, <1>7, <1>9, SizesLemma DEF n
  <2>2. Wrapped(b) => end < b.start /\ d.wrap = b.wrap
    BY <1>3, <1>4, <1>5, <1>7, <1>9
  <2>3. ~Wrapped(b) => d.used <= d.wrap - d.start
    BY <1>3, <1>7, <1>9
  <2> QED
    BY <1>1, <1>2, <1>6, <1>9, <1>10, <2>1, <2>2, <2>3, SubmittedChain
<1>12. b.used > 0 => OutputCached(d)
  <2>1. ASSUME b.used > 0 PROVE d.mem[d.start] = b.mem[b.start] /\ d.used > 0
    <3>1. b.start # end
      BY <1>3, <1>4, <1>5, <2>1
    <3> QED
      BY <1>3, <1>7, <1>9, <2>1, <3>1, BufferType DEF Cells
  <2> QED
    BY <1>1, <1>9, <2>1 DEF OutputCached
<1>13. /\ e \in Buffer /\ e.wrap = d.wrap /\ e.start = d.start
       /\ e.used = d.used /\ e.mem = d.mem
       /\ e.outDest = d.outDest /\ e.outAvail = d.outAvail
       /\ InputCached(e)
  BY <1>9, <1>10, UpdateInputLemma
<1> HIDE DEF e
<1>14. /\ Geometry(e) /\ Chain(e, O \cup {u})
       /\ b.used > 0 => OutputCached(e)
  BY <1>10, <1>11, <1>12, <1>13, SameRing
<1>15. O \cup {u} \in SUBSET (0 .. Size)
  BY <1>8
<1>16. SubmitPacket(b, len) = IF e.used = n THEN UpdateOutput(e) ELSE e
  BY <1>1, SubmitForm DEF e, d, u, w, n
<1>17. e.used = n <=> b.used = 0
  BY <1>3, <1>7, <1>9, <1>13
<1>18. CASE b.used = 0
  <2> DEFINE f == UpdateOutput(e)
  <2>1. e.mem[e.start] \in 0 .. Mtu
    <3>1. Cell(e, 0) = e.start
      BY <1>13, BufferType, <1>14 DEF Cell, Geometry
    <3>2. 0 \in O \cup {u} /\ 0 < e.used
      BY <1>2, <1>3, <1>7, <1>9, <1>13 DEF Chain
    <3> QED
      BY <3>1, <3>2, <1>14 DEF Chain
  <2>2. /\ f \in Buffer /\ f.wrap = e.wrap /\ f.start = e.start
        /\ f.used = e.used /\ f.mem = e.mem
        /\ f.inDest = e.inDest /\ f.inAvail = e.inAvail /\ OutputCached(f)
    BY <2>1, <1>13, UpdateOutputLemma
  <2> HIDE DEF f
  <2>3. Geometry(f) /\ InputCached(f) /\ Chain(f, O \cup {u})
    BY <1>13, <1>14, <2>2, SameRing
  <2>4. SubmitPacket(b, len) = f
    BY <1>16, <1>17, <1>18 DEF f
  <2> QED
    BY <1>15, <1>18, <2>2, <2>3, <2>4 DEF Sound
<1>19. CASE b.used # 0
  <2>1. b.used > 0 /\ SubmitPacket(b, len) = e
    BY <1>3, <1>16, <1>17, <1>19
  <2> QED
    BY <1>9, <1>13, <1>14, <1>15, <2>1 DEF Sound
<1> QED
  BY <1>18, <1>19

-----------------------------------------------------------------------------
(* ConsumePacket *)

\* The ring after its first n blocks are freed, when it then starts at s.
Consumed(b, n, s, w) ==
    [b EXCEPT !.start = s, !.used = b.used - n, !.wrap = w,
              !.mem = [i \in Cells |-> IF i \in b.start .. b.start + n - 1
                                       THEN Junk ELSE b.mem[i]]]

\* It is a ring, and only these fields are new.
LEMMA ConsumedType ==
    ASSUME NEW b \in Buffer, NEW n \in Nat, NEW s \in Cells, NEW w \in 1 .. Size,
           b.used - n \in 0 .. Size
    PROVE  LET d == Consumed(b, n, s, w)
           IN  /\ d \in Buffer
               /\ d.mem = [i \in Cells |-> IF i \in b.start .. b.start + n - 1
                                           THEN Junk ELSE b.mem[i]]
               /\ d.used = b.used - n /\ d.wrap = w /\ d.start = s
               /\ d.inDest = b.inDest /\ d.inAvail = b.inAvail
BY DEF Buffer, Consumed

\* ChunkBuffer2_ConsumePacket in the terms of this module.
LEMMA ConsumeForm ==
    ASSUME NEW b \in Buffer
    PROVE  LET n == 1 + Blocks(b.mem[b.start])
               over == b.start + n = b.wrap
               d == Consumed(b, n, IF over THEN 0 ELSE b.start + n,
                                   IF over THEN Size ELSE b.wrap)
           IN  ConsumePacket(b) = UpdateOutput(IF Wrapped(b) THEN UpdateInput(d) ELSE d)
<1> DEFINE n == 1 + Blocks(b.mem[b.start])
           over == b.start + n = b.wrap
           mem == [i \in Cells |-> IF i \in b.start .. b.start + n - 1
                                   THEN Junk ELSE b.mem[i]]
           c == [b EXCEPT !.start = b.start + n, !.used = b.used - n, !.mem = mem]
           d == IF c.start = c.wrap THEN [c EXCEPT !.start = 0, !.wrap = Size] ELSE c
<1>1. ConsumePacket(b) = UpdateOutput(IF Wrapped(b) THEN UpdateInput(d) ELSE d)
  BY DEF ConsumePacket, Wrapped
<1>2. c.start = b.start + n /\ c.wrap = b.wrap
  BY DEF Buffer
<1>3. d = Consumed(b, n, IF over THEN 0 ELSE b.start + n,
                         IF over THEN Size ELSE b.wrap)
  <2>1. CASE over
    BY <1>2, <2>1 DEF Consumed, Buffer
  <2>2. CASE ~over
    BY <1>2, <2>2 DEF Consumed, Buffer
  <2> QED
    BY <2>1, <2>2
<1> QED
  BY <1>1, <1>3

\* The first packet ends within the blocks in use, and before `wrap`.
LEMMA FirstPacket ==
    ASSUME NEW b \in Buffer, Geometry(b), NEW O, Chain(b, O), b.used > 0
    PROVE  LET n == 1 + Blocks(b.mem[b.start])
           IN  /\ b.mem[b.start] \in 0 .. Mtu
               /\ n \in Nat /\ n > 0
               /\ n \in O /\ n <= b.used /\ n <= b.wrap - b.start
<1>1. /\ b.wrap \in Nat /\ b.start \in Nat /\ b.used \in Nat /\ b.start < b.wrap
  BY BufferType DEF Geometry
<1>2. Cell(b, 0) = b.start
  BY <1>1 DEF Cell
<1>3. /\ 0 \in O /\ b.mem[Cell(b, 0)] \in 0 .. Mtu
      /\ Stop(b, 0) \in O /\ O \subseteq 0 .. b.used
      /\ 0 < b.wrap - b.start => Stop(b, 0) <= b.wrap - b.start
  BY DEF Chain
<1>4. Blocks(b.mem[b.start]) \in Nat
  BY <1>2, <1>3, SizesLemma
<1>5. Stop(b, 0) = 1 + Blocks(b.mem[b.start])
  BY <1>2, <1>4 DEF Stop
<1> QED
  BY <1>1, <1>2, <1>3, <1>4, <1>5

\* The chain without its first packet.
LEMMA ConsumedChain ==
    ASSUME NEW b \in Buffer, Geometry(b), NEW O, Chain(b, O),
           NEW n \in O, n > 0, n <= b.used, n <= b.wrap - b.start,
           NEW d \in Buffer, Geometry(d), d.used = b.used - n,
           d.mem = [i \in Cells |-> IF i \in b.start .. b.start + n - 1
                                    THEN Junk ELSE b.mem[i]],
           \/ d.start = b.start + n /\ d.wrap = b.wrap
           \/ b.start + n = b.wrap /\ d.start = 0 /\ d.wrap = Size
    PROVE  Chain(d, {o \in 0 .. d.used : o + n \in O})
<1> DEFINE P == {o \in 0 .. d.used : o + n \in O}
<1>1. /\ b.wrap \in Nat /\ b.start \in Nat /\ b.used \in Nat
      /\ d.wrap \in Nat /\ d.start \in Nat /\ d.used \in Nat
      /\ b.start < b.wrap /\ b.used <= b.wrap
      /\ d.start < d.wrap /\ d.used <= d.wrap
      /\ b.wrap <= Size /\ d.wrap <= Size /\ Size \in Nat
  BY BufferType DEF Geometry
<1>2. n \in Nat /\ O \subseteq Nat /\ \A o \in O : o <= b.used
  <2>1. O \subseteq 0 .. b.used
    BY DEF Chain
  <2> QED
    BY <2>1, <1>1
<1>3. P \subseteq 0 .. d.used /\ 0 \in P /\ d.used \in P
  <2>1. 0 + n = n /\ d.used + n = b.used /\ b.used \in O
    BY <1>1, <1>2 DEF Chain
  <2> QED
    BY <2>1, <1>1
<1>4. ASSUME NEW o \in P, o < d.used
      PROVE  /\ d.mem[Cell(d, o)] \in 0 .. Mtu
             /\ Stop(d, o) \in P
             /\ o < d.wrap - d.start => Stop(d, o) <= d.wrap - d.start
  <2> DEFINE x == o + n
  <2>1. o \in Nat /\ x \in O /\ x \in Nat /\ x < b.used /\ x = o + n
    BY <1>1, <1>2, <1>4
  <2> HIDE DEF x
  <2>2. Cell(d, o) = Cell(b, x)
    <3>1. CASE d.start = b.start + n /\ d.wrap = b.wrap
      BY <1>1, <1>2, <2>1, <3>1 DEF Cell
    <3>2. CASE b.start + n = b.wrap /\ d.start = 0 /\ d.wrap = Size
      BY <1>1, <1>2, <1>4, <2>1, <3>2 DEF Cell
    <3> QED
      BY <3>1, <3>2
  <2>3. Cell(b, x) \in Cells /\ Cell(b, x) \notin b.start .. b.start + n - 1
    <3>1. CASE x < b.wrap - b.start
      <4>1. Cell(b, x) = b.start + x
        BY <3>1 DEF Cell
      <4> QED
        BY <1>1, <1>2, <2>1, <3>1, <4>1, SMTT(30) DEF Cells
    <3>2. CASE ~(x < b.wrap - b.start)
      <4>1. Cell(b, x) = x - (b.wrap - b.start)
        BY <3>2 DEF Cell
      <4> QED
        BY <1>1, <1>2, <2>1, <3>2, <4>1, SMTT(30) DEF Cells
    <3> QED
      BY <3>1, <3>2
  <2>4. d.mem[Cell(d, o)] = b.mem[Cell(b, x)]
    BY <2>2, <2>3
  <2>5. /\ b.mem[Cell(b, x)] \in 0 .. Mtu
        /\ Stop(b, x) \in O
        /\ x < b.wrap - b.start => Stop(b, x) <= b.wrap - b.start
    BY <2>1 DEF Chain
  <2>6. Blocks(b.mem[Cell(b, x)]) \in Nat
    BY <2>5, SizesLemma
  <2>7. Stop(d, o) \in Nat /\ Stop(d, o) + n = Stop(b, x)
    BY <1>2, <2>1, <2>4, <2>6 DEF Stop
  <2>8. Stop(b, x) <= b.used /\ Stop(b, x) \in Nat
    BY <1>2, <2>5
  <2>9. Stop(d, o) \in P
    BY <1>1, <1>2, <2>5, <2>7, <2>8
  <2>10. o < d.wrap - d.start => Stop(d, o) <= d.wrap - d.start
    <3>1. CASE d.start = b.start + n /\ d.wrap = b.wrap
      BY <1>1, <1>2, <2>1, <2>5, <2>7, <2>8, <3>1
    <3>2. CASE b.start + n = b.wrap /\ d.start = 0 /\ d.wrap = Size
      BY <1>1, <1>2, <2>7, <2>8, <3>2
    <3> QED
      BY <3>1, <3>2
  <2> QED
    BY <2>4, <2>5, <2>9, <2>10
<1> QED
  BY <1>3, <1>4 DEF Chain

\* ChunkBuffer2_ConsumePacket keeps the ring sound; the input pointer stays
\* where it is if a packet of Mtu bytes had room there, and still has.
LEMMA ConsumeLemma ==
    ASSUME NEW b \in Buffer, Sound(b), b.used > 0
    PROVE  /\ ConsumePacket(b) \in Buffer
           /\ Sound(ConsumePacket(b))
           /\ b.inAvail >= Mtu => /\ ConsumePacket(b).inDest = b.inDest
                                  /\ ConsumePacket(b).inAvail >= Mtu
<1> DEFINE n == 1 + Blocks(b.mem[b.start])
           over == b.start + n = b.wrap
           s == IF over THEN 0 ELSE b.start + n
           w == IF over THEN Size ELSE b.wrap
           d == Consumed(b, n, s, w)
           e == IF Wrapped(b) THEN UpdateInput(d) ELSE d
           f == UpdateOutput(e)
<1>1. Geometry(b) /\ InputCached(b) /\ OutputCached(b)
  BY DEF Sound
<1>2. PICK O \in SUBSET (0 .. Size) : Chain(b, O)
  BY DEF Sound
<1>3. /\ b.wrap \in Nat /\ b.start \in Nat /\ b.used \in Nat /\ Size \in Nat
      /\ b.wrap <= Size /\ b.start < b.wrap /\ b.used <= b.wrap
      /\ b.wrap = Size \/ b.used >= b.wrap - b.start
      /\ Blocks(Mtu) \in Nat /\ Mtu \in Nat
  BY <1>1, BufferType DEF Geometry, Wrapped
<1>4. n \in Nat /\ n > 0 /\ n \in O /\ n <= b.used /\ n <= b.wrap - b.start
  BY <1>1, <1>2, FirstPacket
<1>5. ConsumePacket(b) = f
  BY ConsumeForm
<1>6. \/ s = b.start + n /\ w = b.wrap /\ s < b.wrap
      \/ b.start + n = b.wrap /\ s = 0 /\ w = Size
  BY <1>3, <1>4
<1> HIDE DEF n, s, w
<1>7. s \in Cells /\ w \in 1 .. Size /\ b.used - n \in 0 .. Size
  BY <1>3, <1>4, <1>6 DEF Cells
<1>8. /\ d \in Buffer
      /\ d.mem = [i \in Cells |-> IF i \in b.start .. b.start + n - 1
                                  THEN Junk ELSE b.mem[i]]
      /\ d.used = b.used - n /\ d.wrap = w /\ d.start = s
      /\ d.inDest = b.inDest /\ d.inAvail = b.inAvail
  BY <1>4, <1>7, ConsumedType
<1> HIDE DEF d
<1>9. Geometry(d)
  BY <1>3, <1>4, <1>6, <1>8 DEF Geometry, Wrapped
<1> DEFINE P == {o \in 0 .. d.used : o + n \in O}
<1>10. Chain(d, P)
  BY <1>1, <1>2, <1>4, <1>6, <1>8, <1>9, ConsumedChain
<1>11. P \in SUBSET (0 .. Size)
  BY <1>8, BufferType
<1> HIDE DEF P
<1>12. /\ End(d) = End(b) /\ Free(d) >= Free(b)
       /\ End(d) \in Nat /\ Free(d) \in Nat /\ Free(b) \in Nat
       /\ End(d) + Free(d) <= Size
       /\ ~Wrapped(b) => Free(d) = Free(b)
  <2>1. /\ End(d) \in Nat /\ Free(d) \in Nat /\ Free(b) \in Nat
        /\ End(d) + Free(d) <= Size
    BY <1>1, <1>8, <1>9, EndLemma
  <2>2. /\ Wrapped(b) => /\ End(b) = b.used - (b.wrap - b.start)
                         /\ Free(b) = b.start - End(b)
        /\ ~Wrapped(b) => /\ End(b) = b.start + b.used
                          /\ Free(b) = Size - End(b)
        /\ Wrapped(d) => /\ End(d) = d.used - (d.wrap - d.start)
                         /\ Free(d) = d.start - End(d)
        /\ ~Wrapped(d) => /\ End(d) = d.start + d.used
                          /\ Free(d) = Size - End(d)
    BY <1>1, <1>8, <1>9, EndLemma
  <2>3. CASE s = b.start + n /\ w = b.wrap /\ s < b.wrap
    <3>1. Wrapped(d) <=> Wrapped(b)
      BY <1>3, <1>4, <1>8, <2>3 DEF Wrapped
    <3> QED
      BY <2>1, <2>2, <2>3, <3>1, <1>3, <1>4, <1>8
  <2>4. CASE b.start + n = b.wrap /\ s = 0 /\ w = Size
    <3>1. ~Wrapped(d) /\ Wrapped(b)
      BY <1>3, <1>4, <1>8, <2>4 DEF Wrapped
    <3> QED
      BY <2>1, <2>2, <2>4, <3>1, <1>3, <1>4, <1>8
  <2> QED
    BY <2>1, <2>3, <2>4, <1>6
<1>13. /\ e \in Buffer /\ e.wrap = d.wrap /\ e.start = d.start
       /\ e.used = d.used /\ e.mem = d.mem /\ InputCached(e)
  <2>1. CASE Wrapped(b)
    BY <1>8, <1>9, <2>1, UpdateInputLemma
  <2>2. CASE ~Wrapped(b)
    <3>1. Fits(d) <=> Fits(b)
      BY <1>12, <2>2 DEF Fits
    <3>2. InputCached(d)
      BY <1>1, <1>8, <1>12, <2>2, <3>1 DEF InputCached
    <3> QED
      BY <1>8, <2>2, <3>2
  <2> QED
    BY <2>1, <2>2
<1> HIDE DEF e
<1>14. Geometry(e) /\ Chain(e, P)
  BY <1>9, <1>10, <1>13, SameRing
<1>15. e.used > 0 => e.mem[e.start] \in 0 .. Mtu
  BY <1>13, <1>14, FirstPacket
<1>16. /\ f \in Buffer /\ f.wrap = e.wrap /\ f.start = e.start
       /\ f.used = e.used /\ f.mem = e.mem
       /\ f.inDest = e.inDest /\ f.inAvail = e.inAvail /\ OutputCached(f)
  BY <1>13, <1>15, UpdateOutputLemma
<1> HIDE DEF f
<1>17. Geometry(f) /\ InputCached(f) /\ Chain(f, P)
  BY <1>13, <1>14, <1>16, SameRing
<1>18. Sound(f)
  BY <1>11, <1>16, <1>17 DEF Sound
<1>19. ASSUME b.inAvail >= Mtu PROVE f.inDest = b.inDest /\ f.inAvail >= Mtu
  <2>1. Fits(b) /\ Free(b) > Blocks(Mtu) /\ b.inDest = End(b) + 1
    BY <1>1, <1>19, RoomLemma
  <2>2. End(f) = End(d) /\ Free(f) = Free(d)
    BY <1>13, <1>16 DEF End, Free, Wrapped
  <2>3. Fits(f)
    BY <1>3, <1>12, <2>1, <2>2 DEF Fits
  <2>4. f.inDest = End(f) + 1 /\ f.inAvail = (Free(f) - 1) * Block
    BY <1>17, <2>3 DEF InputCached
  <2>5. Free(f) > Blocks(Mtu) /\ Free(f) \in Nat /\ Free(f) <= Size /\ Free(f) > 0
    BY <1>3, <1>12, <2>1, <2>2
  <2> QED
    BY <1>12, <2>1, <2>2, <2>4, <2>5, AvailLemma
<1> QED
  BY <1>5, <1>16, <1>18, <1>19

-----------------------------------------------------------------------------
(* The input writes *)

\* The ring after x is written to m blocks from block `dest` on.
Filled(b, dest, m, x) ==
    [b EXCEPT !.mem = [i \in Cells |-> IF i \in dest .. dest + m - 1
                                       THEN x ELSE b.mem[i]]]

\* It is a ring, and only its memory is new.
LEMMA FilledType ==
    ASSUME NEW b \in Buffer, NEW dest \in Int, NEW m \in Nat, NEW x \in Data
    PROVE  LET d == Filled(b, dest, m, x)
           IN  /\ d \in Buffer
               /\ d.mem = [i \in Cells |-> IF i \in dest .. dest + m - 1
                                           THEN x ELSE b.mem[i]]
               /\ d.used = b.used /\ d.wrap = b.wrap /\ d.start = b.start
               /\ d.inDest = b.inDest /\ d.inAvail = b.inAvail
               /\ d.outDest = b.outDest /\ d.outAvail = b.outAvail
BY DEF Buffer, Filled

\* In particular what is cached for the two sides stays.
LEMMA FilledFields ==
    ASSUME NEW b \in Buffer, NEW dest \in Int, NEW m \in Nat, NEW x \in Data
    PROVE  /\ Filled(b, dest, m, x) \in Buffer
           /\ Filled(b, dest, m, x).inDest = b.inDest
           /\ Filled(b, dest, m, x).inAvail = b.inAvail
           /\ Filled(b, dest, m, x).outDest = b.outDest
           /\ Filled(b, dest, m, x).outAvail = b.outAvail
BY DEF Buffer, Filled

\* Writing where the receive points to leaves every header alone.
LEMMA FillLemma ==
    ASSUME NEW b \in Buffer, Sound(b), b.inAvail >= Mtu,
           NEW len \in 0 .. Mtu, NEW x \in Data
    PROVE  Sound(Filled(b, b.inDest, Blocks(len), x))
<1> DEFINE d == Filled(b, b.inDest, Blocks(len), x)
           W == b.inDest .. b.inDest + Blocks(len) - 1
<1>1. Geometry(b) /\ InputCached(b) /\ OutputCached(b)
  BY DEF Sound
<1>2. PICK O \in SUBSET (0 .. Size) : Chain(b, O)
  BY DEF Sound
<1>3. /\ b.wrap \in Nat /\ b.start \in Nat /\ b.used \in Nat /\ Size \in Nat
      /\ b.wrap <= Size /\ b.start < b.wrap /\ b.used <= b.wrap
      /\ Blocks(Mtu) \in Nat /\ Blocks(len) \in Nat /\ Blocks(len) <= Blocks(Mtu)
  BY <1>1, BufferType, SizesLemma DEF Geometry
<1>4. Free(b) > Blocks(Mtu) /\ b.inDest = End(b) + 1
  BY <1>1, RoomLemma
<1>5. /\ End(b) \in Nat /\ Free(b) \in Nat
      /\ Wrapped(b) => /\ End(b) = b.used - (b.wrap - b.start)
                       /\ Free(b) = b.start - End(b)
      /\ ~Wrapped(b) => End(b) = b.start + b.used
  BY <1>1, EndLemma
<1>6. /\ d \in Buffer
      /\ d.mem = [i \in Cells |-> IF i \in W THEN x ELSE b.mem[i]]
      /\ d.used = b.used /\ d.wrap = b.wrap /\ d.start = b.start
      /\ d.inDest = b.inDest /\ d.inAvail = b.inAvail
      /\ d.outDest = b.outDest /\ d.outAvail = b.outAvail
  <2>1. b.inDest \in Int /\ Blocks(len) \in Nat
    BY <1>3, <1>4, <1>5
  <2> QED
    BY <2>1, FilledType, ZenonT(30)
<1> HIDE DEF d
<1>7. O \subseteq 0 .. b.used
  BY <1>2 DEF Chain
<1>8. ASSUME NEW o \in O, o < b.used
      PROVE  Cell(b, o) \in Cells /\ Cell(b, o) \notin W
  <2>1. o \in Nat
    BY <1>3, <1>7
  <2>2. CASE o < b.wrap - b.start
    <3>1. Cell(b, o) = b.start + o
      BY <2>2 DEF Cell
    <3>2. CASE Wrapped(b)
      BY <1>3, <1>4, <1>5, <1>8, <2>1, <2>2, <3>1, <3>2 DEF Cells
    <3>3. CASE ~Wrapped(b)
      BY <1>3, <1>4, <1>5, <1>8, <2>1, <2>2, <3>1, <3>3 DEF Cells
    <3> QED
      BY <3>2, <3>3
  <2>3. CASE ~(o < b.wrap - b.start)
    <3>1. Cell(b, o) = o - (b.wrap - b.start)
      BY <2>3 DEF Cell
    <3>2. Wrapped(b)
      BY <1>3, <1>8, <2>1, <2>3 DEF Wrapped
    <3> QED
      BY <1>3, <1>4, <1>5, <1>8, <2>1, <2>3, <3>1, <3>2 DEF Cells
  <2> QED
    BY <2>2, <2>3
<1> HIDE DEF W
<1>9. ASSUME NEW o \in O, o < b.used
      PROVE  /\ Cell(d, o) = Cell(b, o) /\ d.mem[Cell(d, o)] = b.mem[Cell(b, o)]
             /\ Stop(d, o) = Stop(b, o)
  <2>1. Cell(d, o) = Cell(b, o)
    BY <1>6 DEF Cell
  <2>2. d.mem[Cell(d, o)] = b.mem[Cell(b, o)]
    BY <1>6, <1>8, <1>9, <2>1
  <2> QED
    BY <2>1, <2>2 DEF Stop
<1>10. Chain(d, O)
  BY <1>2, <1>6, <1>9 DEF Chain
<1>11. Geometry(d) /\ InputCached(d)
  BY <1>1, <1>6 DEF Geometry, Wrapped, InputCached, Fits, Free, End
<1>12. OutputCached(d)
  <2>1. ASSUME b.used > 0 PROVE d.mem[d.start] = b.mem[b.start]
    <3>1. 0 \in O /\ 0 < b.used
      BY <1>2, <2>1 DEF Chain
    <3>2. Cell(b, 0) = b.start /\ Cell(d, 0) = d.start
      BY <1>3, <1>6 DEF Cell
    <3> QED
      BY <1>9, <3>1, <3>2
  <2> QED
    BY <1>1, <1>6, <2>1 DEF OutputCached
<1> QED
  BY <1>2, <1>10, <1>11, <1>12 DEF Sound, d

-----------------------------------------------------------------------------
(* The specification *)

\* ChunkBuffer2_Init and PacketBuffer_Init: an empty ring with room.
LEMMA InitLemma == Init => Inv
<1> SUFFICES ASSUME Init PROVE Inv
  OBVIOUS
<1> DEFINE b == [wrap |-> Size, start |-> 0, used |-> 0,
                 mem |-> [i \in Cells |-> Junk],
                 inDest |-> None, inAvail |-> None,
                 outDest |-> None, outAvail |-> None]
           c == UpdateInput(b)
           d == UpdateOutput(c)
<1>1. Size \in Nat /\ Blocks(Mtu) \in Nat /\ Size >= 2 + 2 * Blocks(Mtu) /\ Mtu \in Nat
  BY SizesLemma
<1>2. b \in Buffer /\ b.wrap = Size /\ b.start = 0 /\ b.used = 0
  BY <1>1 DEF Buffer, Cells
<1> HIDE DEF b
<1>3. Geometry(b) /\ Chain(b, {0})
  BY <1>1, <1>2 DEF Geometry, Chain
<1>4. /\ c \in Buffer /\ c.wrap = b.wrap /\ c.start = b.start
      /\ c.used = b.used /\ c.mem = b.mem /\ InputCached(c)
  BY <1>2, <1>3, UpdateInputLemma
<1> HIDE DEF c
<1>5. /\ d \in Buffer /\ d.wrap = c.wrap /\ d.start = c.start
      /\ d.used = c.used /\ d.mem = c.mem
      /\ d.inDest = c.inDest /\ d.inAvail = c.inAvail /\ OutputCached(d)
  BY <1>2, <1>4, UpdateOutputLemma
<1>6. buf = d /\ recv = Receive(buf) /\ send = [dest |-> None, len |-> None]
  BY DEF Init, b, c
<1> HIDE DEF d
<1>7. Geometry(d) /\ InputCached(d) /\ Chain(d, {0})
  BY <1>3, <1>4, <1>5, SameRing
<1>8. Sound(buf)
  BY <1>1, <1>5, <1>6, <1>7 DEF Sound
<1>9. End(d) = 0 /\ Free(d) = Size /\ Fits(d)
  BY <1>1, <1>2, <1>4, <1>5 DEF End, Free, Fits, Wrapped
<1>10. d.inAvail = (Size - 1) * Block
  BY <1>7, <1>9 DEF InputCached
<1>11. d.inAvail >= Mtu
  BY <1>1, <1>10, AvailLemma
<1>12. d.outDest = None /\ d.outAvail = None
  BY <1>2, <1>4, <1>5 DEF OutputCached
<1>13. recv.dest = buf.inDest /\ recv.filled = None /\ send = Send(buf)
  BY <1>6, <1>12 DEF Receive, Send
<1>14. TypeOK
  BY <1>1, <1>5, <1>6, <1>13 DEF TypeOK, Buffer, Receive
<1> QED
  BY <1>6, <1>8, <1>11, <1>13, <1>14 DEF Inv

\* The output is offered a packet exactly if there is one.
LEMMA OfferLemma ==
    ASSUME NEW b \in Buffer, Sound(b)
    PROVE  /\ b.outDest # None <=> b.used > 0
           /\ b.outAvail < 0 <=> b.used = 0
<1>1. b.used \in Nat /\ b.start \in Nat /\ Mtu \in Nat
  BY BufferType
<1>2. Geometry(b) /\ OutputCached(b)
  BY DEF Sound
<1>3. CASE b.used > 0
  <2>1. b.mem[b.start] \in 0 .. Mtu
    BY <1>2, <1>3, FirstPacket DEF Sound
  <2>2. b.outDest = b.start + 1 /\ b.outAvail = b.mem[b.start]
    BY <1>2, <1>3 DEF OutputCached
  <2> QED
    BY <1>1, <1>3, <2>1, <2>2 DEF None
<1>4. CASE ~(b.used > 0)
  <2>1. b.outDest = None /\ b.outAvail = None
    BY <1>2, <1>4 DEF OutputCached
  <2> QED
    BY <1>1, <1>4, <2>1 DEF None
<1> QED
  BY <1>3, <1>4

\* Every step of the two sides preserves the invariant.
LEMMA NextLemma == Inv /\ [Next]_vars => Inv'
<1> SUFFICES ASSUME Inv, [Next]_vars PROVE Inv'
  OBVIOUS
<1>1. /\ buf \in Buffer /\ Sound(buf)
      /\ recv \in [dest: {None} \cup 1 .. Size, filled: {None} \cup 0 .. Mtu]
      /\ send \in [dest: {None} \cup 1 .. Size, len: {None} \cup 0 .. Mtu]
      /\ recv.dest # None => recv.dest = buf.inDest /\ buf.inAvail >= Mtu
      /\ recv.filled # None => recv.dest # None
      /\ send = Send(buf)
  BY DEF Inv, TypeOK, Buffer
<1>2. Size \in Nat /\ Mtu \in Nat /\ Blocks(Mtu) \in Nat
  BY SizesLemma
\* A buffer gives pointers of their types to either side.
<1>3. ASSUME NEW b \in Buffer
      PROVE  /\ Receive(b) \in [dest: {None} \cup 1 .. Size, filled: {None} \cup 0 .. Mtu]
             /\ Receive(b).dest = b.inDest /\ Receive(b).filled = None
             /\ Send(b) \in [dest: {None} \cup 1 .. Size, len: {None} \cup 0 .. Mtu]
  BY DEF Buffer, Receive, Send
<1>4. ASSUME NEW len \in 0 .. Mtu, NEW x \in Data, Fill(len, x) PROVE Inv'
  <2> DEFINE d == Filled(buf, recv.dest, Blocks(len), x)
  <2>1. recv.dest # None /\ buf' = d /\ send' = send /\ recv' = [recv EXCEPT !.filled = len]
    BY <1>4 DEF Fill, Filled
  <2>2. recv.dest = buf.inDest /\ buf.inAvail >= Mtu
    BY <1>1, <2>1
  <2>3. d \in Buffer /\ d.inDest = buf.inDest /\ d.inAvail = buf.inAvail
        /\ d.outDest = buf.outDest /\ d.outAvail = buf.outAvail
    <3>1. recv.dest \in Int /\ Blocks(len) \in Nat
      BY <1>1, <1>2, SizesLemma DEF None
    <3>2. buf \in Buffer
      BY <1>1
    <3> QED
      BY <3>1, <3>2, FilledFields
  <2>4. Sound(d)
    BY <1>1, <2>2, FillLemma
  <2> HIDE DEF d
  <2>5. recv'.dest = recv.dest /\ recv'.filled = len
        /\ recv' \in [dest: {None} \cup 1 .. Size, filled: {None} \cup 0 .. Mtu]
    BY <1>1, <2>1
  <2>6. send' = Send(buf')
    BY <1>1, <2>1, <2>3 DEF Send
  <2>7. TypeOK'
    BY <1>1, <2>1, <2>3, <2>5 DEF TypeOK, Buffer
  <2> QED
    BY <2>1, <2>2, <2>3, <2>4, <2>5, <2>6, <2>7 DEF Inv
<1>5. CASE InputDone
  <2> DEFINE d == SubmitPacket(buf, recv.filled)
  <2>1. /\ recv.filled # None /\ buf' = d
        /\ recv' = IF d.inAvail >= Mtu THEN Receive(d) ELSE NoReceive
        /\ send' = IF buf.outAvail < 0 THEN Send(d) ELSE send
    BY <1>5 DEF InputDone
  <2>2. recv.filled \in 0 .. Mtu /\ buf.inAvail >= Mtu
    BY <1>1, <2>1
  <2>3. /\ d \in Buffer /\ Sound(d)
        /\ buf.used > 0 => d.outDest = buf.outDest /\ d.outAvail = buf.outAvail
    BY <1>1, <2>2, SubmitLemma
  <2> HIDE DEF d
  <2>4. /\ recv' \in [dest: {None} \cup 1 .. Size, filled: {None} \cup 0 .. Mtu]
        /\ recv'.dest # None => recv'.dest = d.inDest /\ d.inAvail >= Mtu
        /\ recv'.filled = None
    BY <1>3, <2>1, <2>3 DEF NoReceive
  <2>5. send' = Send(d)
    <3>1. CASE buf.used = 0
      BY <1>1, <2>1, <3>1, OfferLemma
    <3>2. CASE buf.used > 0
      <4>1. ~(buf.outAvail < 0)
        BY <1>1, <3>2, OfferLemma, BufferType
      <4> QED
        BY <1>1, <2>1, <2>3, <3>2, <4>1 DEF Send
    <3> QED
      BY <1>1, <3>1, <3>2, BufferType
  <2>6. TypeOK'
    BY <1>3, <2>1, <2>3, <2>4, <2>5 DEF TypeOK, Buffer
  <2> QED
    BY <2>1, <2>3, <2>4, <2>5, <2>6 DEF Inv
<1>6. CASE OutputDone
  <2> DEFINE d == ConsumePacket(buf)
  <2>1. /\ send.dest # None /\ buf' = d /\ send' = Send(d)
        /\ recv' = IF buf.inAvail < Mtu /\ d.inAvail >= Mtu THEN Receive(d) ELSE recv
    BY <1>6 DEF OutputDone
  <2>2. buf.used > 0
    BY <1>1, <2>1, OfferLemma DEF Send
  <2>3. /\ d \in Buffer /\ Sound(d)
        /\ buf.inAvail >= Mtu => d.inDest = buf.inDest /\ d.inAvail >= Mtu
    BY <1>1, <2>2, ConsumeLemma
  <2> HIDE DEF d
  <2>4. /\ recv' \in [dest: {None} \cup 1 .. Size, filled: {None} \cup 0 .. Mtu]
        /\ recv'.dest # None => recv'.dest = d.inDest /\ d.inAvail >= Mtu
        /\ recv'.filled # None => recv'.dest # None
    <3>1. CASE recv' = Receive(d) /\ d.inAvail >= Mtu
      BY <1>3, <2>3, <3>1
    <3>2. CASE recv' = recv
      BY <1>1, <2>3, <3>2
    <3> QED
      BY <2>1, <3>1, <3>2
  <2>5. TypeOK'
    BY <1>3, <2>1, <2>3, <2>4 DEF TypeOK, Buffer
  <2> QED
    BY <2>1, <2>3, <2>4, <2>5 DEF Inv
<1>7. CASE UNCHANGED vars
  <2>1. buf' = buf /\ recv' = recv /\ send' = send
    BY <1>7 DEF vars
  <2>2. TypeOK'
    BY <2>1 DEF Inv, TypeOK
  <2> QED
    BY <1>1, <2>1, <2>2 DEF Inv
<1> QED
  BY <1>4, <1>5, <1>6, <1>7 DEF Next

\* The ring keeps its geometry, its caches and the chain of its packets, and the
\* pointers lent to both sides stay the ones the ring would give out now.
THEOREM Invariance == Spec => []Inv
BY InitLemma, NextLemma, PTL DEF Spec

\* The assertions of ChunkBuffer2.h that the build leaves out hold: the packets
\* stay within the ring and the pointers computed at different moments agree
\* with a computation from scratch.
THEOREM AssertBufferHolds == Spec => []AssertBuffer
<1>1. Inv => AssertBuffer
  <2> SUFFICES ASSUME Inv PROVE AssertBuffer
    OBVIOUS
  <2>1. TypeOK /\ buf \in Buffer /\ Geometry(buf) /\ InputCached(buf) /\ OutputCached(buf)
    BY DEF Inv, TypeOK, Sound, Buffer
  <2>2. buf = UpdateInput(buf) /\ buf = UpdateOutput(buf)
    BY <2>1, CachedLemma
  <2> QED
    BY <2>1, <2>2 DEF AssertBuffer, Geometry, Wrapped
<1> QED
  BY <1>1, Invariance, PTL

\* A pointer lent to one side is not invalidated by what the other side does: the
\* input always has room for Mtu bytes outside the stored packets, the output
\* always reads the first packet.
THEOREM PointersStayValidHolds == Spec => []PointersStayValid
<1>1. Inv => PointersStayValid
  <2> SUFFICES ASSUME Inv PROVE PointersStayValid
    OBVIOUS
  <2>1. /\ buf \in Buffer /\ Geometry(buf) /\ InputCached(buf) /\ send = Send(buf)
        /\ recv.dest # None => recv.dest = buf.inDest /\ buf.inAvail >= Mtu
    BY DEF Inv, TypeOK, Sound, Buffer
  <2>2. ASSUME recv.dest # None, NEW i \in recv.dest .. recv.dest + Blocks(Mtu) - 1
        PROVE  /\ i \in Cells
               /\ IF End(buf) <= buf.start /\ buf.used > 0
                  THEN i < buf.start ELSE i > End(buf)
    <3>1. /\ End(buf) \in Nat /\ Free(buf) \in Nat /\ Size \in Nat /\ Blocks(Mtu) \in Nat
          /\ End(buf) + Free(buf) <= Size
          /\ buf.start \in Nat /\ buf.used \in Nat
          /\ Wrapped(buf) => Free(buf) = buf.start - End(buf)
          /\ ~Wrapped(buf) => End(buf) = buf.start + buf.used
      BY <2>1, EndLemma, BufferType
    <3>2. Free(buf) > Blocks(Mtu) /\ recv.dest = End(buf) + 1
      BY <2>1, <2>2, RoomLemma
    <3>3. i \in Int /\ i > End(buf) /\ i <= End(buf) + Blocks(Mtu)
      BY <2>2, <3>1, <3>2
    <3>4. Wrapped(buf) => i < buf.start
      BY <3>1, <3>2, <3>3
    <3>5. ~Wrapped(buf) /\ buf.used > 0 => ~(End(buf) <= buf.start)
      BY <3>1
    <3> QED
      BY <3>1, <3>2, <3>3, <3>4, <3>5 DEF Cells
  <2> QED
    BY <2>1, <2>2 DEF PointersStayValid
<1> QED
  BY <1>1, Invariance, PTL

-----------------------------------------------------------------------------
(* Induction *)

\* A set of numbers has a least element: numbers are well-founded under <.
LEMMA Least ==
    ASSUME NEW T \in SUBSET Nat, T # {}
    PROVE  \E x \in T : \A y \in T : x <= y
<1> DEFINE R == OpToRel(<, Nat)
<1>1. IsWellFoundedOn(R, Nat)
  BY NatLessThanWellFounded
<1>2. R = {ss \in Nat \X Nat : ss[1] < ss[2]}
  BY DEF OpToRel
<1>3. \A x, y \in Nat : x < y => <<x, y>> \in R
  BY <1>2
<1> HIDE DEF R
<1>4. PICK x \in T : \A y \in T : ~(<<y, x>> \in R)
  BY <1>1, WFMin
<1>5. ASSUME NEW y \in T PROVE x <= y
  <2>1. ~(<<y, x>> \in R)
    BY <1>4
  <2>2. x \in Nat /\ y \in Nat
    OBVIOUS
  <2>3. ~(y < x)
    BY <2>1, <2>2, <1>3
  <2> QED
    BY <2>2, <2>3
<1> QED
  BY <1>5

\* Induction over the numbers up to a bound.
LEMMA Induction ==
    ASSUME NEW N \in Nat, NEW T, 0 \in T, \A n \in 0 .. N : n < N /\ n \in T => n + 1 \in T
    PROVE  0 .. N \subseteq T
<1> DEFINE F == (0 .. N) \ T
<1>1. SUFFICES ASSUME F # {} PROVE FALSE
  OBVIOUS
<1>2. F \in SUBSET Nat
  OBVIOUS
<1>3. PICK x \in F : \A y \in F : x <= y
  BY <1>1, <1>2, Least
<1>4. x \in 0 .. N /\ x \notin T /\ x # 0
  OBVIOUS
<1>5. x - 1 \in 0 .. N /\ x - 1 < N /\ x - 1 < x /\ (x - 1) + 1 = x
  BY <1>4
<1>6. x - 1 \in T
  BY <1>3, <1>4, <1>5
<1> QED
  BY <1>4, <1>5, <1>6

-----------------------------------------------------------------------------
(* Following the headers *)

\* One step along the headers, when f follows those of fewer blocks.
Hop(b, f, left, at) ==
    IF left = 0 THEN <<>>
    ELSE LET n == 1 + Blocks(b.mem[at])
             next == IF at + n = b.wrap THEN 0 ELSE at + n
         IN  IF n \in 1 .. left
             THEN <<ReadFrom(b, at + 1, b.mem[at])>> \o f[left - n][next]
             ELSE <<>>

Row(b, f, left) == [at \in 0 .. Size |-> Hop(b, f, left, at)]

\* Follow in these terms: a recursive function is a solution of its equation.
LEMMA FollowForm ==
    ASSUME NEW b
    PROVE  Follow(b) = CHOOSE f : f = [left \in 0 .. Size |-> Row(b, f, left)]
BY DEF Follow, Row, Hop

\* Only what f says of fewer blocks matters.
LEMMA RowLocal ==
    ASSUME NEW b, NEW f, NEW g, NEW left \in Nat, \A k \in 0 .. left - 1 : f[k] = g[k]
    PROVE  Row(b, f, left) = Row(b, g, left)
<1>1. ASSUME NEW at \in 0 .. Size PROVE Hop(b, f, left, at) = Hop(b, g, left, at)
  <2> DEFINE n == 1 + Blocks(b.mem[at])
  <2>1. CASE left = 0 \/ n \notin 1 .. left
    BY <2>1 DEF Hop
  <2>2. CASE left # 0 /\ n \in 1 .. left
    <3>1. left - n \in 0 .. left - 1
      BY <2>2
    <3>2. f[left - n] = g[left - n]
      BY <3>1
    <3> QED
      BY <3>2 DEF Hop
  <2> QED
    BY <2>1, <2>2
<1> QED
  BY <1>1 DEF Row

\* The equation has a solution, built up one number of blocks at a time.
LEMMA FollowLemma ==
    ASSUME NEW b
    PROVE  Follow(b) = [left \in 0 .. Size |-> Row(b, Follow(b), left)]
<1> DEFINE Solves(f, n) == f = [left \in 0 .. n |-> Row(b, f, left)]
           T == {n \in Nat : \E f : Solves(f, n)}
<1>1. Size \in Nat
  BY SizesLemma
<1>2. 0 \in T
  <2> DEFINE f == [left \in 0 .. 0 |-> Row(b, <<>>, 0)]
  <2>1. Row(b, f, 0) = Row(b, <<>>, 0)
    BY RowLocal
  <2>2. \A left \in 0 .. 0 : left = 0
    OBVIOUS
  <2>3. f = [left \in 0 .. 0 |-> Row(b, f, left)]
    BY <2>1, <2>2
  <2>4. Solves(f, 0)
    BY <2>3
  <2> HIDE DEF f
  <2> QED
    BY <2>4
<1>3. ASSUME NEW n \in T PROVE n + 1 \in T
  <2>1. PICK f : Solves(f, n)
    OBVIOUS
  <2>2. f = [left \in 0 .. n |-> Row(b, f, left)]
    BY <2>1
  <2>3. n \in Nat /\ n + 1 \in Nat
    OBVIOUS
  <2> DEFINE g == [left \in 0 .. n + 1 |-> IF left <= n THEN f[left] ELSE Row(b, f, left)]
  <2>4. ASSUME NEW left \in 0 .. n + 1 PROVE g[left] = Row(b, g, left)
    <3>1. \A k \in 0 .. left - 1 : f[k] = g[k]
      BY <2>3
    <3>2. Row(b, f, left) = Row(b, g, left)
      BY <2>3, <3>1, RowLocal
    <3>3. left \in 0 .. n => f[left] = Row(b, f, left)
      BY <2>2
    <3> QED
      BY <2>3, <3>2, <3>3
  <2>5. g = [left \in 0 .. n + 1 |-> Row(b, g, left)]
    BY <2>4
  <2>6. Solves(g, n + 1)
    BY <2>5
  <2> HIDE DEF g
  <2> QED
    BY <2>3, <2>6
<1> HIDE DEF T
<1>4. Size \in T
  <2>1. 0 .. Size \subseteq T
    BY <1>1, <1>2, <1>3, Induction
  <2> QED
    BY <2>1, <1>1
<1>5. \E f : f = [left \in 0 .. Size |-> Row(b, f, left)]
  BY <1>4 DEF T
<1> QED
  BY <1>5, FollowForm

-----------------------------------------------------------------------------
(* The chain *)

\* A header of the chain, and the blocks of its packet.
LEMMA ChainFacts ==
    ASSUME NEW b \in Buffer, Geometry(b), NEW O, Chain(b, O), NEW o \in O
    PROVE  /\ o \in 0 .. b.used /\ Cell(b, o) \in 0 .. Size
           /\ o < b.used =>
                 /\ Cell(b, o) \in Cells
                 /\ b.mem[Cell(b, o)] \in 0 .. Mtu
                 /\ Blocks(b.mem[Cell(b, o)]) \in 0 .. Blocks(Mtu)
                 /\ Stop(b, o) \in O /\ Stop(b, o) \in 0 .. b.used /\ o < Stop(b, o)
                 /\ Stop(b, o) = o + 1 + Blocks(b.mem[Cell(b, o)])
<1>1. /\ b.wrap \in Nat /\ b.start \in Nat /\ b.used \in Nat /\ Size \in Nat
      /\ b.start < b.wrap /\ b.used <= b.wrap /\ b.wrap <= Size
      /\ Blocks(Mtu) \in Nat
  BY BufferType DEF Geometry
<1>2. O \subseteq 0 .. b.used
  BY DEF Chain
<1>3. o \in 0 .. b.used /\ Cell(b, o) \in 0 .. Size /\ (o < b.used => Cell(b, o) \in Cells)
  BY <1>1, <1>2 DEF Cell, Cells
<1>4. ASSUME o < b.used
      PROVE  /\ b.mem[Cell(b, o)] \in 0 .. Mtu
             /\ Stop(b, o) \in O
  BY <1>4 DEF Chain
<1>5. ASSUME o < b.used
      PROVE  /\ Blocks(b.mem[Cell(b, o)]) \in 0 .. Blocks(Mtu)
             /\ Stop(b, o) = o + 1 + Blocks(b.mem[Cell(b, o)])
  BY <1>4, <1>5, SizesLemma DEF Stop
<1>6. ASSUME o < b.used
      PROVE  Stop(b, o) \in 0 .. b.used /\ o < Stop(b, o)
  <2>1. Stop(b, o) \in 0 .. b.used
    BY <1>2, <1>4, <1>6
  <2>2. Blocks(b.mem[Cell(b, o)]) \in Nat /\ o \in Nat
    BY <1>1, <1>3, <1>5, <1>6
  <2> QED
    BY <1>5, <1>6, <2>1, <2>2
<1> QED
  BY <1>3, <1>4, <1>5, <1>6

\* Induction along the chain, from its end to its start.
LEMMA ChainInduction ==
    ASSUME NEW b \in Buffer, Geometry(b), NEW O, Chain(b, O), NEW T, b.used \in T,
           \A o \in O : o < b.used /\ Stop(b, o) \in T => o \in T
    PROVE  O \subseteq T
<1> DEFINE F == {n \in Nat : b.used - n \in O \ T}
<1>1. SUFFICES ASSUME NEW x \in O, x \notin T PROVE FALSE
  OBVIOUS
<1>2. b.used \in Nat /\ x \in 0 .. b.used
  BY BufferType, ChainFacts
<1>3. b.used - x \in F
  <2>1. b.used - x \in Nat /\ b.used - (b.used - x) = x
    BY <1>2
  <2> QED
    BY <2>1, <1>1
<1>4. F \in SUBSET Nat /\ F # {}
  BY <1>3
<1>5. PICK m \in F : \A n \in F : m <= n
  BY <1>4, Least
<1> DEFINE o == b.used - m
<1>6. m \in Nat /\ o \in O /\ o \notin T
  BY <1>5
<1>7. o \in 0 .. b.used /\ o # b.used /\ o < b.used
  <2>1. o \in 0 .. b.used
    BY <1>6, ChainFacts
  <2>2. o # b.used
    BY <1>6
  <2> QED
    BY <1>2, <2>1, <2>2
<1>8. Stop(b, o) \in O /\ Stop(b, o) \in 0 .. b.used /\ o < Stop(b, o)
  BY <1>6, <1>7, ChainFacts
<1>9. Stop(b, o) \notin T
  BY <1>6, <1>7
<1> DEFINE n == b.used - Stop(b, o)
<1>10. n \in Nat /\ n < m /\ b.used - n = Stop(b, o)
  BY <1>2, <1>6, <1>7, <1>8
<1>11. n \in F
  BY <1>8, <1>9, <1>10
<1> HIDE DEF n, F, o
<1>12. m <= n
  BY <1>5, <1>11
<1> QED
  BY <1>6, <1>10, <1>12

\* The packet with its header at offset o, and the packets from there on.
Pkt(b, o) == ReadFrom(b, Cell(b, o) + 1, b.mem[Cell(b, o)])
From(b, o) == Follow(b)[b.used - o][Cell(b, o)]

\* The first of them, and the others.
LEMMA FromStep ==
    ASSUME NEW b \in Buffer, Geometry(b), NEW O, Chain(b, O)
    PROVE  /\ From(b, b.used) = <<>>
           /\ \A o \in O : o < b.used => From(b, o) = <<Pkt(b, o)>> \o From(b, Stop(b, o))
<1>1. /\ b.wrap \in Nat /\ b.start \in Nat /\ b.used \in Nat /\ Size \in Nat
      /\ b.start < b.wrap /\ b.used <= b.wrap /\ b.wrap <= Size
      /\ b.used \in 0 .. Size
  BY BufferType DEF Geometry
<1>2. ASSUME NEW left \in 0 .. Size, NEW at \in 0 .. Size
      PROVE  Follow(b)[left][at] = Hop(b, Follow(b), left, at)
  <2>1. Follow(b)[left] = Row(b, Follow(b), left)
    BY FollowLemma
  <2> QED
    BY <2>1 DEF Row
<1>3. From(b, b.used) = <<>>
  <2>1. b.used \in O
    BY DEF Chain
  <2>2. Cell(b, b.used) \in 0 .. Size /\ b.used - b.used = 0 /\ 0 \in 0 .. Size
    BY <1>1, <2>1, ChainFacts
  <2>3. Follow(b)[0][Cell(b, b.used)] = Hop(b, Follow(b), 0, Cell(b, b.used))
    BY <1>2, <2>2
  <2> QED
    BY <2>2, <2>3 DEF From, Hop
<1>4. ASSUME NEW o \in O, o < b.used
      PROVE  From(b, o) = <<Pkt(b, o)>> \o From(b, Stop(b, o))
  <2> DEFINE at == Cell(b, o)
             n == 1 + Blocks(b.mem[at])
             left == b.used - o
             next == IF at + n = b.wrap THEN 0 ELSE at + n
  <2>1. /\ o \in 0 .. b.used /\ at \in 0 .. Size
        /\ Blocks(b.mem[at]) \in 0 .. Blocks(Mtu)
        /\ Stop(b, o) \in 0 .. b.used
        /\ Stop(b, o) = o + 1 + Blocks(b.mem[at])
    BY <1>4, ChainFacts
  <2>2. o < b.wrap - b.start => Stop(b, o) <= b.wrap - b.start
    BY <1>4 DEF Chain
  <2>3. n \in Nat /\ n > 0 /\ Stop(b, o) = o + n
    BY <1>1, <2>1, SizesLemma
  <2>4. at = IF o < b.wrap - b.start THEN b.start + o ELSE o - (b.wrap - b.start)
    BY DEF Cell
  <2>5. Cell(b, Stop(b, o)) = IF Stop(b, o) < b.wrap - b.start THEN b.start + Stop(b, o)
                              ELSE Stop(b, o) - (b.wrap - b.start)
    BY DEF Cell
  <2> HIDE DEF n, at
  <2>6. left \in 0 .. Size /\ left # 0 /\ n \in 1 .. left /\ left - n = b.used - Stop(b, o)
    BY <1>1, <1>4, <2>1, <2>3
  <2>7. next = Cell(b, Stop(b, o))
    <3>1. CASE o < b.wrap - b.start
      BY <1>1, <2>1, <2>2, <2>3, <2>4, <2>5, <3>1
    <3>2. CASE ~(o < b.wrap - b.start)
      BY <1>1, <2>1, <2>2, <2>3, <2>4, <2>5, <3>2
    <3> QED
      BY <3>1, <3>2
  <2> HIDE DEF left, next
  <2>8. From(b, o) = Hop(b, Follow(b), left, at)
    BY <1>2, <2>1, <2>6 DEF From, left, at
  <2>9. Hop(b, Follow(b), left, at)
          = <<ReadFrom(b, at + 1, b.mem[at])>> \o Follow(b)[left - n][next]
    BY <2>6 DEF Hop, n, next
  <2>10. From(b, Stop(b, o)) = Follow(b)[left - n][next]
    BY <2>6, <2>7 DEF From
  <2> QED
    BY <2>8, <2>9, <2>10 DEF Pkt, at
<1> QED
  BY <1>3, <1>4

\* They are as many as it takes to fill the blocks in use.
LEMMA FromSeq ==
    ASSUME NEW b \in Buffer, Geometry(b), NEW O, Chain(b, O), NEW o \in O
    PROVE  /\ From(b, o) \in Seq({Pkt(b, x) : x \in O})
           /\ b.used - o <= Len(From(b, o)) * (1 + Blocks(Mtu))
<1> DEFINE S == {Pkt(b, x) : x \in O}
           s == 1 + Blocks(Mtu)
           T == {x \in O : /\ From(b, x) \in Seq(S)
                           /\ b.used - x <= Len(From(b, x)) * s}
<1>1. b.used \in Nat /\ s \in Nat /\ b.used \in O
  BY BufferType DEF Chain
<1>2. b.used \in T
  <2>1. From(b, b.used) = <<>>
    BY FromStep
  <2>2. Len(<<>>) = 0 /\ <<>> \in Seq(S) /\ 0 * s = 0 /\ b.used - b.used <= 0
    BY <1>1
  <2> QED
    BY <1>1, <2>1, <2>2
<1>3. ASSUME NEW x \in O, x < b.used, Stop(b, x) \in T PROVE x \in T
  <2> DEFINE q == From(b, Stop(b, x))
  <2>1. q \in Seq(S) /\ b.used - Stop(b, x) <= Len(q) * s
    BY <1>3
  <2>2. From(b, x) = <<Pkt(b, x)>> \o q
    BY <1>3, FromStep
  <2>3. /\ x \in 0 .. b.used
        /\ Stop(b, x) = x + 1 + Blocks(b.mem[Cell(b, x)])
        /\ Blocks(b.mem[Cell(b, x)]) \in 0 .. Blocks(Mtu)
    BY <1>3, ChainFacts
  <2>4. Pkt(b, x) \in S
    OBVIOUS
  <2> HIDE DEF q, S
  <2>5. From(b, x) \in Seq(S) /\ Len(From(b, x)) = Len(q) + 1 /\ Len(q) \in Nat
    BY <2>1, <2>2, <2>4
  <2>6. (Len(q) + 1) * s = Len(q) * s + s /\ Len(q) * s \in Int
    BY <1>1, <2>5
  <2>7. b.used - x <= Len(q) * s + s
    <3>1. Stop(b, x) - x <= s /\ Stop(b, x) \in Int /\ x \in Int
      BY <1>1, <2>3, SizesLemma
    <3> HIDE DEF s
    <3> QED
      BY <1>1, <2>1, <2>6, <3>1
  <2> QED
    BY <2>5, <2>6, <2>7
<1>4. O \subseteq T
  <2> HIDE DEF T
  <2> QED
    BY <1>2, <1>3, ChainInduction
<1> QED
  BY <1>4

\* The packets of the ring.
Queue(b) == From(b, 0)

\* The packets of b from offset k on are those of d.
Moved(b, O, d, P, k) ==
    \A o \in O : k <= o /\ o < b.used =>
        /\ o - k \in P /\ o - k < d.used
        /\ Pkt(d, o - k) = Pkt(b, o) /\ Stop(d, o - k) = Stop(b, o) - k

\* They are what d stores, up to what it stores behind them.
LEMMA Alike ==
    ASSUME NEW b \in Buffer, Geometry(b), NEW O, Chain(b, O),
           NEW d \in Buffer, Geometry(d), NEW P, Chain(d, P),
           NEW k \in O, Moved(b, O, d, P, k),
           NEW S, From(d, b.used - k) \in Seq(S)
    PROVE  Queue(d) = From(b, k) \o From(d, b.used - k)
<1> DEFINE tail == From(d, b.used - k)
           T == {o \in O : k <= o => From(d, o - k) = From(b, o) \o tail}
<1>1. b.used \in Nat /\ b.used \in O /\ k \in Nat
  BY BufferType, ChainFacts DEF Chain
<1>2. b.used \in T
  <2>1. From(b, b.used) = <<>>
    BY FromStep
  <2>2. <<>> \o tail = tail
    OBVIOUS
  <2> QED
    BY <1>1, <2>1, <2>2
<1>3. ASSUME NEW o \in O, o < b.used, Stop(b, o) \in T, k <= o
      PROVE  From(d, o - k) = From(b, o) \o tail
  <2> DEFINE p == Pkt(b, o)
             q == From(b, Stop(b, o))
  <2>1. /\ o \in 0 .. b.used /\ o < Stop(b, o) /\ Stop(b, o) \in 0 .. b.used
        /\ Stop(b, o) \in O
    BY <1>3, ChainFacts
  <2>2. From(b, o) = <<p>> \o q
    BY <1>3, FromStep
  <2>3. k <= Stop(b, o)
    BY <1>1, <1>3, <2>1
  <2>4. From(d, Stop(b, o) - k) = q \o tail
    BY <1>3, <2>3
  <2>5. From(d, o - k) = <<p>> \o From(d, Stop(b, o) - k)
    BY <1>3, FromStep DEF Moved
  <2>6. q \in Seq({Pkt(b, x) : x \in O}) /\ p \in {Pkt(b, x) : x \in O}
    BY <2>1, FromSeq
  <2> DEFINE U == S \cup {Pkt(b, x) : x \in O}
  <2>7. q \in Seq(U) /\ tail \in Seq(U) /\ <<p>> \in Seq(U)
    BY <2>6
  <2> HIDE DEF p, q, U, tail
  <2>8. <<p>> \o (q \o tail) = (<<p>> \o q) \o tail
    BY <2>7
  <2> QED
    BY <2>2, <2>4, <2>5, <2>8
<1>4. O \subseteq T
  <2>1. \A o \in O : o < b.used /\ Stop(b, o) \in T => o \in T
    BY <1>3
  <2> HIDE DEF T
  <2> QED
    BY <1>2, <2>1, ChainInduction
<1>5. k \in T /\ k <= k /\ k - k = 0
  BY <1>1, <1>4
<1> QED
  BY <1>5 DEF Queue

\* The blocks of a packet are consecutive, and among those in use.
LEMMA PacketCells ==
    ASSUME NEW b \in Buffer, Geometry(b), NEW O, Chain(b, O), NEW o \in O, o < b.used,
           NEW i \in 0 .. Blocks(b.mem[Cell(b, o)])
    PROVE  /\ o + i \in 0 .. b.used - 1
           /\ Cell(b, o + i) = Cell(b, o) + i
<1>1. /\ b.wrap \in Nat /\ b.start \in Nat /\ b.used \in Nat
      /\ b.start < b.wrap /\ b.used <= b.wrap
  BY BufferType DEF Geometry
<1>2. /\ o \in 0 .. b.used /\ Stop(b, o) \in 0 .. b.used
      /\ Stop(b, o) = o + 1 + Blocks(b.mem[Cell(b, o)])
      /\ Blocks(b.mem[Cell(b, o)]) \in 0 .. Blocks(Mtu)
  BY ChainFacts
<1>3. o < b.wrap - b.start => Stop(b, o) <= b.wrap - b.start
  BY DEF Chain
<1>4. i \in Nat /\ o \in Nat /\ o + i < Stop(b, o)
  BY <1>1, <1>2, SizesLemma
<1>5. o + i \in 0 .. b.used - 1
  BY <1>1, <1>2, <1>4
<1>6. CASE o < b.wrap - b.start
  BY <1>1, <1>2, <1>3, <1>4, <1>6 DEF Cell
<1>7. CASE ~(o < b.wrap - b.start)
  BY <1>1, <1>2, <1>4, <1>7 DEF Cell
<1> QED
  BY <1>5, <1>6, <1>7

\* A block in use is not one of the free ones, nor one of the first n if it is
\* behind them.
LEMMA UsedCells ==
    ASSUME NEW b \in Buffer, Geometry(b), NEW j \in 0 .. b.used - 1
    PROVE  /\ Cell(b, j) \in Cells
           /\ Cell(b, j) \notin End(b) .. End(b) + Free(b) - 1
           /\ \A n \in Nat : n <= j /\ n <= b.wrap - b.start =>
                 Cell(b, j) \notin b.start .. b.start + n - 1
<1>1. /\ b.wrap \in Nat /\ b.start \in Nat /\ b.used \in Nat /\ Size \in Nat
      /\ b.start < b.wrap /\ b.used <= b.wrap /\ b.wrap <= Size
  BY BufferType DEF Geometry
<1>2. /\ End(b) \in Nat /\ Free(b) \in Nat
      /\ Wrapped(b) => /\ End(b) = b.used - (b.wrap - b.start)
                       /\ Free(b) = b.start - End(b)
      /\ ~Wrapped(b) => /\ End(b) = b.start + b.used
  BY EndLemma
<1>3. j \in Nat /\ j < b.used
  BY <1>1
<1>4. CASE j < b.wrap - b.start
  <2>1. Cell(b, j) = b.start + j
    BY <1>4 DEF Cell
  <2>2. Cell(b, j) \in Cells
    BY <1>1, <1>3, <1>4, <2>1 DEF Cells
  <2>3. Cell(b, j) \notin End(b) .. End(b) + Free(b) - 1
    <3>1. CASE Wrapped(b)
      BY <1>1, <1>2, <1>3, <2>1, <3>1
    <3>2. CASE ~Wrapped(b)
      BY <1>1, <1>2, <1>3, <2>1, <3>2
    <3> QED
      BY <3>1, <3>2
  <2>4. ASSUME NEW n \in Nat, n <= j, n <= b.wrap - b.start
        PROVE  Cell(b, j) \notin b.start .. b.start + n - 1
    BY <1>1, <1>3, <2>1, <2>4
  <2> QED
    BY <2>2, <2>3, <2>4
<1>5. CASE ~(j < b.wrap - b.start)
  <2>1. Cell(b, j) = j - (b.wrap - b.start)
    BY <1>5 DEF Cell
  <2>2. Wrapped(b)
    BY <1>1, <1>3, <1>5 DEF Wrapped
  <2>3. Cell(b, j) \in Cells
    BY <1>1, <1>3, <1>5, <2>1 DEF Cells
  <2>4. Cell(b, j) \notin End(b) .. End(b) + Free(b) - 1
    BY <1>1, <1>2, <1>3, <2>1, <2>2
  <2>5. ASSUME NEW n \in Nat, n <= j, n <= b.wrap - b.start
        PROVE  Cell(b, j) \notin b.start .. b.start + n - 1
    BY <1>1, <1>3, <1>5, <2>1, <2>5
  <2> QED
    BY <2>3, <2>4, <2>5
<1> QED
  BY <1>4, <1>5

\* A packet is the same in two rings that agree on its blocks.
LEMMA PktAlike ==
    ASSUME NEW b \in Buffer, Geometry(b), NEW O, Chain(b, O), NEW o \in O, o < b.used,
           NEW d, NEW k \in Nat, k <= o, Cell(d, o - k) = Cell(b, o),
           \A j \in o .. b.used - 1 : d.mem[Cell(b, j)] = b.mem[Cell(b, j)]
    PROVE  Pkt(d, o - k) = Pkt(b, o) /\ Stop(d, o - k) = Stop(b, o) - k
<1> DEFINE c == Cell(b, o)
           n == Blocks(b.mem[c])
<1>1. /\ o \in 0 .. b.used /\ n \in 0 .. Blocks(Mtu) /\ c \in Cells
      /\ Stop(b, o) = o + 1 + n
      /\ b.used \in Nat /\ Blocks(Mtu) \in Nat /\ c \in Int
  BY ChainFacts, BufferType DEF Cells
<1>2. ASSUME NEW i \in 0 .. n PROVE d.mem[c + i] = b.mem[c + i]
  <2>1. o + i \in 0 .. b.used - 1 /\ Cell(b, o + i) = c + i
    BY PacketCells
  <2>2. o + i \in o .. b.used - 1
    BY <1>1, <2>1
  <2> QED
    BY <2>1, <2>2
<1>3. d.mem[c] = b.mem[c]
  <2>1. 0 \in 0 .. n /\ c + 0 = c
    BY <1>1
  <2> QED
    BY <1>2, <2>1
<1>4. Stop(d, o - k) = Stop(b, o) - k
  <2>1. Stop(d, o - k) = (o - k) + 1 + n
    BY <1>3 DEF Stop
  <2> HIDE DEF n
  <2> QED
    BY <1>1, <2>1
<1>5. \A i \in 1 .. n : d.mem[(c + 1) + i - 1] = b.mem[(c + 1) + i - 1]
  <2>1. \A i \in 1 .. n : i \in 0 .. n /\ (c + 1) + i - 1 = c + i
    BY <1>1
  <2> HIDE DEF n, c
  <2> QED
    BY <2>1, <1>2
<1>6. Pkt(d, o - k) = Pkt(b, o)
  <2>1. Pkt(d, o - k) = ReadFrom(d, c + 1, b.mem[c])
    BY <1>3 DEF Pkt
  <2>2. ReadFrom(d, c + 1, b.mem[c]) = ReadFrom(b, c + 1, b.mem[c])
    BY <1>5 DEF ReadFrom
  <2> QED
    BY <2>1, <2>2 DEF Pkt
<1> QED
  BY <1>4, <1>6

-----------------------------------------------------------------------------
(* Room in the ring *)

\* Every header is where a packet of Mtu bytes has room before the end of the ring.
Threaded(b, O) ==
    /\ Chain(b, O)
    /\ \A o \in O : o < b.used => Cell(b, o) + Blocks(Mtu) < Size

\* The ring wraps only where no packet of Mtu bytes has room, and unless it wrapped
\* there is room for one behind the last.
Snug(b) ==
    /\ Size - b.wrap <= Blocks(Mtu)
    /\ ~Wrapped(b) => Size - End(b) > Blocks(Mtu)

Roomy(b) == Snug(b) /\ \E O \in SUBSET (0 .. Size) : Threaded(b, O)

\* The cached pointers are all that is refreshed.
LEMMA UpdatesKeep ==
    ASSUME NEW b \in Buffer
    PROVE  /\ UpdateInput(b).wrap = b.wrap /\ UpdateInput(b).start = b.start
           /\ UpdateInput(b).used = b.used /\ UpdateInput(b).mem = b.mem
           /\ UpdateOutput(b).wrap = b.wrap /\ UpdateOutput(b).start = b.start
           /\ UpdateOutput(b).used = b.used /\ UpdateOutput(b).mem = b.mem
<1>1. /\ UpdateInput(b).wrap = b.wrap /\ UpdateInput(b).start = b.start
      /\ UpdateInput(b).used = b.used /\ UpdateInput(b).mem = b.mem
  <2>1. CASE Fits(b)
    <3> DEFINE avail == (Free(b) - 1) * Block
               dest == End(b) + 1
    <3>1. UpdateInput(b) = [b EXCEPT !.inDest = dest, !.inAvail = avail]
      BY <2>1, InputForm
    <3> HIDE DEF avail, dest
    <3> QED
      BY <3>1 DEF Buffer
  <2>2. CASE ~Fits(b)
    <3>1. UpdateInput(b) = [b EXCEPT !.inDest = None, !.inAvail = None]
      BY <2>2, InputForm
    <3> QED
      BY <3>1 DEF Buffer
  <2> QED
    BY <2>1, <2>2
<1>2. /\ UpdateOutput(b).wrap = b.wrap /\ UpdateOutput(b).start = b.start
      /\ UpdateOutput(b).used = b.used /\ UpdateOutput(b).mem = b.mem
  BY DEF UpdateOutput, Buffer
<1> QED
  BY <1>1, <1>2

\* A packet is written where the receive points to: the queue stays, and the blocks
\* written are those of the receive.
LEMMA FillQueue ==
    ASSUME NEW b \in Buffer, Sound(b), Roomy(b), b.inAvail >= Mtu,
           NEW len \in 0 .. Mtu, NEW x \in Data,
           NEW d, d = Filled(b, b.inDest, Blocks(len), x)
    PROVE  /\ Roomy(d) /\ Queue(d) = Queue(b)
           /\ \A i \in b.inDest .. b.inDest + Blocks(len) - 1 : d.mem[i] = x
<1>1. Geometry(b) /\ InputCached(b)
  BY DEF Sound
<1>2. PICK O \in SUBSET (0 .. Size) : Threaded(b, O)
  BY DEF Roomy
<1>3. Chain(b, O)
  BY <1>2 DEF Threaded
<1>4. /\ b.wrap \in Nat /\ b.start \in Nat /\ b.used \in Nat /\ Size \in Nat
      /\ Blocks(Mtu) \in Nat /\ Blocks(len) \in Nat /\ Blocks(len) <= Blocks(Mtu)
  BY BufferType, SizesLemma
<1>5. Free(b) > Blocks(Mtu) /\ b.inDest = End(b) + 1
  BY <1>1, RoomLemma
<1>6. End(b) \in Nat /\ Free(b) \in Nat /\ End(b) + Free(b) <= Size
  BY <1>1, EndLemma
<1>7. /\ d \in Buffer
      /\ d.mem = [i \in Cells |-> IF i \in b.inDest .. b.inDest + Blocks(len) - 1
                                  THEN x ELSE b.mem[i]]
      /\ d.used = b.used /\ d.wrap = b.wrap /\ d.start = b.start
  <2> DEFINE dest == b.inDest
             m == Blocks(len)
  <2>1. dest \in Int /\ m \in Nat /\ d = Filled(b, dest, m, x)
    BY <1>4, <1>5, <1>6
  <2> HIDE DEF dest, m
  <2>2. /\ d \in Buffer
        /\ d.mem = [i \in Cells |-> IF i \in dest .. dest + m - 1 THEN x ELSE b.mem[i]]
        /\ d.used = b.used /\ d.wrap = b.wrap /\ d.start = b.start
    BY <2>1 DEF Buffer, Filled
  <2> QED
    BY <2>2 DEF dest, m
<1>8. Sound(d)
  BY FillLemma
<1>9. Geometry(d) /\ (Wrapped(d) <=> Wrapped(b)) /\ End(d) = End(b)
  BY <1>7, <1>8 DEF Sound, Wrapped, End
<1>10. \A o : Cell(d, o) = Cell(b, o)
  BY <1>7 DEF Cell
<1>11. ASSUME NEW j \in 0 .. b.used - 1 PROVE d.mem[Cell(b, j)] = b.mem[Cell(b, j)]
  <2>1. Cell(b, j) \in Cells /\ Cell(b, j) \notin End(b) .. End(b) + Free(b) - 1
    BY <1>1, UsedCells
  <2>2. Cell(b, j) \notin b.inDest .. b.inDest + Blocks(len) - 1
    BY <1>4, <1>5, <1>6, <2>1
  <2> QED
    BY <1>7, <2>1, <2>2
<1>12. ASSUME NEW o \in O, o < b.used
       PROVE  Pkt(d, o - 0) = Pkt(b, o) /\ Stop(d, o - 0) = Stop(b, o) - 0 /\ o - 0 = o
              /\ Stop(b, o) - 0 = Stop(b, o) /\ d.mem[Cell(d, o)] = b.mem[Cell(b, o)]
  <2>1. o \in 0 .. b.used /\ o - 0 = o /\ 0 <= o /\ o \in 0 .. b.used - 1
        /\ Stop(b, o) \in 0 .. b.used
    BY <1>1, <1>3, <1>4, <1>12, ChainFacts
  <2>2. \A j \in o .. b.used - 1 : d.mem[Cell(b, j)] = b.mem[Cell(b, j)]
    BY <1>4, <1>11, <2>1
  <2>3. Cell(d, o - 0) = Cell(b, o)
    BY <1>10, <2>1
  <2>4. Pkt(d, o - 0) = Pkt(b, o) /\ Stop(d, o - 0) = Stop(b, o) - 0
    BY <1>1, <1>3, <1>12, <2>1, <2>2, <2>3, PktAlike
  <2> QED
    BY <1>10, <1>11, <2>1, <2>4
<1>13. Chain(d, O)
  BY <1>3, <1>7, <1>12 DEF Chain
<1>14. Threaded(d, O)
  BY <1>2, <1>7, <1>10, <1>13 DEF Threaded
<1>15. Roomy(d)
  BY <1>7, <1>9, <1>14 DEF Roomy, Snug
<1>16. Queue(d) = Queue(b)
  <2>1. From(d, b.used - 0) = <<>>
    <3>1. b.used - 0 = d.used
      BY <1>4, <1>7
    <3> QED
      BY <3>1, <1>7, <1>9, <1>13, FromStep
  <2>2. From(d, b.used - 0) \in Seq({})
    <3>1. <<>> \in Seq({})
      OBVIOUS
    <3> QED
      BY <2>1, <3>1, Zenon
  <2>3. 0 \in O
    BY <1>3 DEF Chain
  <2>4. Moved(b, O, d, O, 0)
    BY <1>7, <1>12 DEF Moved
  <2>5. From(b, 0) \in Seq({Pkt(b, o) : o \in O})
    BY <1>1, <1>3, <2>3, FromSeq
  <2>6. From(b, 0) \o <<>> = From(b, 0)
    BY <2>5
  <2>7. Queue(d) = From(b, 0) \o From(d, b.used - 0)
    BY <1>1, <1>3, <1>7, <1>9, <1>13, <2>2, <2>3, <2>4, Alike
  <2> QED
    BY <2>1, <2>6, <2>7 DEF Queue
<1>17. \A i \in b.inDest .. b.inDest + Blocks(len) - 1 : i \in Cells
  BY <1>4, <1>5, <1>6 DEF Cells
<1> QED
  BY <1>7, <1>15, <1>16, <1>17

\* What ChunkBuffer2_SubmitPacket does to the ring.
LEMMA SubmitRing ==
    ASSUME NEW b \in Buffer, Sound(b), b.inAvail >= Mtu, NEW len \in 0 .. Mtu,
           NEW c, c = SubmitPacket(b, len)
    PROVE  /\ c.mem = [b.mem EXCEPT ![End(b)] = len] /\ End(b) \in Cells
           /\ c.start = b.start /\ c.used = b.used + 1 + Blocks(len)
           /\ Wrapped(b) => End(b) < b.start /\ c.wrap = b.wrap /\ Wrapped(c)
           /\ ~Wrapped(b) =>
                 /\ c.used <= c.wrap - c.start
                 /\ \/ c.wrap = c.start + c.used /\ Size - c.wrap <= Blocks(Mtu)
                    \/ c.wrap = Size /\ Size - (c.start + c.used) > Blocks(Mtu)
<1> DEFINE end == End(b)
           n == 1 + Blocks(len)
           u == b.used + n
           w == IF u <= b.wrap - b.start /\ Blocks(Mtu) > Size - (end + n) - 1
                THEN end + n ELSE b.wrap
           d == Submitted(b, len, u, w)
           e == UpdateInput(d)
<1>1. Geometry(b) /\ InputCached(b)
  BY DEF Sound
<1>2. /\ b.wrap \in Nat /\ b.start \in Nat /\ b.used \in Nat /\ Size \in Nat
      /\ b.wrap <= Size /\ b.start < b.wrap /\ b.used <= b.wrap
      /\ Blocks(Mtu) \in Nat /\ Blocks(len) \in Nat /\ n \in Nat /\ n > 0
      /\ n <= 1 + Blocks(Mtu)
  BY <1>1, BufferType, SizesLemma DEF Geometry
<1>3. /\ end \in Nat /\ Free(b) \in Nat /\ end + Free(b) <= Size
      /\ Wrapped(b) => /\ end = b.used - (b.wrap - b.start)
                       /\ Free(b) = b.start - end
                       /\ b.used >= b.wrap - b.start
      /\ ~Wrapped(b) => /\ end = b.start + b.used
                        /\ Free(b) = Size - end
                        /\ b.wrap = Size
                        /\ b.used < b.wrap - b.start
  BY <1>1, <1>2, EndLemma DEF Wrapped
<1>4. Free(b) > Blocks(Mtu)
  BY <1>1, RoomLemma
<1>5. end \in Cells
  BY <1>2, <1>3, <1>4 DEF Cells
<1>6. /\ u \in Nat /\ u = b.used + n
      /\ Wrapped(b) => w = b.wrap /\ end < b.start
      /\ ~Wrapped(b) => /\ u <= b.wrap - b.start
                        /\ \/ w = b.start + u /\ Size - w <= Blocks(Mtu)
                           \/ w = Size /\ Size - (b.start + u) > Blocks(Mtu)
  <2>1. CASE Wrapped(b)
    BY <1>2, <1>3, <1>4, <2>1
  <2>2. CASE ~Wrapped(b)
    BY <1>2, <1>3, <1>4, <2>2
  <2> QED
    BY <2>1, <2>2
<1> HIDE DEF u, w
<1>7. u \in 0 .. Size /\ w \in 1 .. Size
  BY <1>2, <1>3, <1>4, <1>6
<1>8. /\ d \in Buffer
      /\ d.mem = [b.mem EXCEPT ![end] = len]
      /\ d.used = u /\ d.wrap = w /\ d.start = b.start
  BY <1>5, <1>7, SubmittedType
<1> HIDE DEF d
<1>9. c = IF e.used = n THEN UpdateOutput(e) ELSE e
  BY <1>1, SubmitForm DEF d, u, w
<1>10. /\ e.wrap = d.wrap /\ e.start = d.start /\ e.used = d.used /\ e.mem = d.mem
  BY <1>8, UpdatesKeep
<1>11. e \in Buffer
  <2>1. Geometry(d)
    <3>1. CASE Wrapped(b)
      <4>1. w = b.wrap /\ u = b.used + n /\ u <= b.wrap /\ u >= b.wrap - b.start
        BY <1>2, <1>3, <1>4, <1>6, <3>1
      <4> QED
        BY <1>2, <1>8, <4>1 DEF Geometry, Wrapped
    <3>2. CASE ~Wrapped(b)
      BY <1>2, <1>3, <1>4, <1>6, <1>8, <3>2 DEF Geometry, Wrapped
    <3> QED
      BY <3>1, <3>2
  <2> QED
    BY <1>8, <2>1, UpdateInputLemma
<1> HIDE DEF e
<1>12. /\ c.wrap = w /\ c.start = b.start /\ c.used = u /\ c.mem = [b.mem EXCEPT ![end] = len]
  BY <1>8, <1>9, <1>10, <1>11, UpdatesKeep
<1>13. Wrapped(b) => Wrapped(c)
  BY <1>2, <1>3, <1>6, <1>12 DEF Wrapped
<1>14. u = b.used + 1 + Blocks(len)
  BY <1>2, <1>6
<1>15. ~Wrapped(b) => u <= w - b.start
  BY <1>2, <1>3, <1>6
<1> QED
  BY <1>5, <1>6, <1>12, <1>13, <1>14, <1>15

\* ChunkBuffer2_SubmitPacket appends the packet the input wrote.
LEMMA SubmitQueue ==
    ASSUME NEW b \in Buffer, Sound(b), Roomy(b), b.inAvail >= Mtu, NEW len \in 0 .. Mtu,
           NEW c, c = SubmitPacket(b, len)
    PROVE  Roomy(c) /\ Queue(c) = Append(Queue(b), ReadFrom(b, b.inDest, len))
<1>1. Geometry(b) /\ InputCached(b)
  BY DEF Sound
<1>2. PICK O \in SUBSET (0 .. Size) : Threaded(b, O)
  BY DEF Roomy
<1>3. Chain(b, O)
  BY <1>2 DEF Threaded
<1>4. c \in Buffer /\ Sound(c) /\ Geometry(c)
  BY SubmitLemma DEF Sound
<1>5. /\ c.mem = [b.mem EXCEPT ![End(b)] = len] /\ End(b) \in Cells
      /\ c.start = b.start /\ c.used = b.used + 1 + Blocks(len)
      /\ Wrapped(b) => End(b) < b.start /\ c.wrap = b.wrap /\ Wrapped(c)
      /\ ~Wrapped(b) =>
            /\ c.used <= c.wrap - c.start
            /\ \/ c.wrap = c.start + c.used /\ Size - c.wrap <= Blocks(Mtu)
               \/ c.wrap = Size /\ Size - (c.start + c.used) > Blocks(Mtu)
  BY SubmitRing
<1>6. /\ b.wrap \in Nat /\ b.start \in Nat /\ b.used \in Nat /\ Size \in Nat
      /\ b.start < b.wrap /\ b.used <= b.wrap /\ b.wrap <= Size
      /\ c.wrap \in Nat /\ c.used \in Nat /\ c.wrap <= Size
      /\ Blocks(Mtu) \in Nat /\ Blocks(len) \in Nat /\ Blocks(len) <= Blocks(Mtu)
      /\ b.mem \in [Cells -> Data \cup {Junk} \cup 0 .. Mtu]
  BY <1>1, <1>4, BufferType, SizesLemma DEF Geometry
<1>7. Fits(b) /\ Free(b) > Blocks(Mtu) /\ b.inDest = End(b) + 1
  BY <1>1, RoomLemma
<1>8. /\ End(b) \in Nat /\ Free(b) \in Nat /\ End(b) + Free(b) <= Size
      /\ Wrapped(b) => End(b) = b.used - (b.wrap - b.start)
      /\ ~Wrapped(b) => End(b) = b.start + b.used /\ b.wrap = Size
      /\ Size - End(b) - 1 >= Blocks(Mtu)
  BY <1>1, <1>7, EndLemma DEF Fits
<1> DEFINE P == O \cup {c.used}
<1>9. Chain(c, P)
  BY <1>1, <1>3, <1>4, <1>5, SubmittedChain
<1>10. O \subseteq 0 .. b.used /\ 0 \in O /\ b.used \in O
  BY <1>3 DEF Chain
<1>11. ASSUME NEW o \in 0 .. b.used - 1 PROVE Cell(c, o) = Cell(b, o)
  <2>1. CASE Wrapped(b)
    BY <1>5, <2>1 DEF Cell
  <2>2. CASE ~Wrapped(b)
    BY <1>5, <1>6, <1>8, <1>11, <2>2 DEF Cell, Wrapped
  <2> QED
    BY <2>1, <2>2
<1>12. Cell(c, b.used) = End(b)
  <2>1. CASE Wrapped(b)
    BY <1>5, <1>6, <1>8, <2>1 DEF Cell, Wrapped
  <2>2. CASE ~Wrapped(b)
    BY <1>5, <1>6, <1>8, <2>2 DEF Cell, Wrapped
  <2> QED
    BY <2>1, <2>2
<1>13. ASSUME NEW j \in 0 .. b.used - 1 PROVE c.mem[Cell(b, j)] = b.mem[Cell(b, j)]
  <2>1. Cell(b, j) \in Cells /\ Cell(b, j) \notin End(b) .. End(b) + Free(b) - 1
    BY <1>1, UsedCells
  <2>2. Cell(b, j) # End(b)
    BY <1>6, <1>7, <1>8, <2>1
  <2> QED
    BY <1>5, <1>6, <2>1, <2>2
<1>14. ASSUME NEW o \in O, 0 <= o, o < b.used
       PROVE  /\ o - 0 \in P /\ o - 0 < c.used
              /\ Pkt(c, o - 0) = Pkt(b, o) /\ Stop(c, o - 0) = Stop(b, o) - 0
  <2>1. o \in 0 .. b.used - 1 /\ o - 0 = o
    BY <1>6, <1>10, <1>14
  <2>2. \A j \in o .. b.used - 1 : c.mem[Cell(b, j)] = b.mem[Cell(b, j)]
    BY <1>6, <1>13, <2>1
  <2>3. Cell(c, o - 0) = Cell(b, o)
    BY <1>11, <2>1
  <2>4. o < c.used
    BY <1>5, <1>6, <1>14, <2>1
  <2>5. Pkt(c, o - 0) = Pkt(b, o) /\ Stop(c, o - 0) = Stop(b, o) - 0
    BY <1>1, <1>3, <1>14, <2>2, <2>3, PktAlike
  <2> QED
    BY <2>1, <2>4, <2>5
<1> DEFINE p == ReadFrom(b, End(b) + 1, len)
<1>15. Pkt(c, b.used) = p
  <2>1. c.mem[End(b)] = len
    BY <1>5, <1>6
  <2>2. \A i \in 1 .. Blocks(len) : c.mem[(End(b) + 1) + i - 1] = b.mem[(End(b) + 1) + i - 1]
    <3>1. ASSUME NEW i \in 1 .. Blocks(len)
          PROVE  (End(b) + 1) + i - 1 \in Cells /\ (End(b) + 1) + i - 1 # End(b)
      <4>1. i \in Nat /\ i >= 1 /\ i <= Blocks(len)
        BY <1>6
      <4>2. (End(b) + 1) + i - 1 = End(b) + i
        BY <1>8, <4>1
      <4>3. End(b) + i \in Nat /\ End(b) + i # End(b) /\ End(b) + i <= Size - 1
        BY <1>6, <1>8, <4>1
      <4> QED
        BY <1>6, <4>2, <4>3 DEF Cells
    <3> QED
      BY <1>5, <1>6, <3>1
  <2>3. ReadFrom(c, End(b) + 1, len) = p
    BY <2>2 DEF ReadFrom
  <2> QED
    BY <1>12, <2>1, <2>3 DEF Pkt
<1>16. From(c, b.used - 0) = <<p>>
  <2>1. b.used \in P /\ b.used < c.used /\ b.used - 0 = b.used
    BY <1>5, <1>6, <1>10
  <2>2. Stop(c, b.used) = c.used
    <3>1. c.mem[End(b)] = len
      BY <1>5, <1>6
    <3> QED
      BY <1>5, <1>12, <3>1 DEF Stop
  <2>3. From(c, b.used) = <<Pkt(c, b.used)>> \o From(c, Stop(c, b.used)) /\ From(c, c.used) = <<>>
    BY <1>4, <1>9, <2>1, FromStep
  <2> HIDE DEF p
  <2>4. <<p>> \o <<>> = <<p>>
    OBVIOUS
  <2> QED
    BY <1>15, <2>1, <2>2, <2>3, <2>4
<1> HIDE DEF p
<1>17. Queue(c) = Append(Queue(b), p)
  <2>1. From(c, b.used - 0) \in Seq({p})
    <3>1. <<p>> \in Seq({p})
      OBVIOUS
    <3> QED
      BY <1>16, <3>1, Zenon
  <2>2. Moved(b, O, c, P, 0)
    BY <1>14 DEF Moved
  <2> HIDE DEF P
  <2>3. Queue(c) = From(b, 0) \o From(c, b.used - 0)
    BY <1>1, <1>3, <1>4, <1>9, <1>10, <2>1, <2>2, Alike
  <2>4. From(b, 0) \in Seq({Pkt(b, o) : o \in O})
    BY <1>1, <1>3, <1>10, FromSeq
  <2>5. From(b, 0) \o <<p>> = Append(From(b, 0), p)
    BY <2>4
  <2>6. Queue(c) = From(b, 0) \o <<p>>
    BY <1>16, <2>3, Zenon
  <2> QED
    BY <2>5, <2>6 DEF Queue
<1>18. Threaded(c, P)
  <2>1. ASSUME NEW o \in P, o < c.used PROVE Cell(c, o) + Blocks(Mtu) < Size
    <3>1. o \in O /\ (o \in 0 .. b.used - 1 \/ o = b.used)
      <4>1. o \in O
        BY <1>6, <2>1
      <4>2. o \in 0 .. b.used
        BY <1>10, <4>1
      <4> QED
        BY <1>6, <4>1, <4>2
    <3>2. CASE o \in 0 .. b.used - 1
      BY <1>2, <1>6, <1>11, <3>1, <3>2 DEF Threaded
    <3>3. CASE o = b.used
      BY <1>6, <1>8, <1>12, <3>3
    <3> QED
      BY <3>1, <3>2, <3>3
  <2> QED
    BY <1>9, <2>1 DEF Threaded
<1>19. P \in SUBSET (0 .. Size)
  <2>1. c.used \in 0 .. Size
    BY <1>4 DEF Buffer
  <2> QED
    BY <2>1
<1>20. Snug(c)
  <2>1. CASE Wrapped(b)
    BY <1>5, <2>1 DEF Roomy, Snug
  <2>2. CASE ~Wrapped(b)
    <3>1. CASE c.wrap = c.start + c.used /\ Size - c.wrap <= Blocks(Mtu)
      BY <1>5, <1>6, <3>1 DEF Snug, Wrapped
    <3>2. CASE c.wrap = Size /\ Size - (c.start + c.used) > Blocks(Mtu)
      BY <1>5, <1>6, <3>2 DEF Snug, Wrapped, End
    <3> QED
      BY <1>5, <2>2, <3>1, <3>2
  <2> QED
    BY <2>1, <2>2
<1> QED
  BY <1>7, <1>17, <1>18, <1>19, <1>20 DEF Roomy, p

\* What ChunkBuffer2_ConsumePacket does to the ring.
LEMMA ConsumeRing ==
    ASSUME NEW b \in Buffer, Sound(b), b.used > 0, NEW c, c = ConsumePacket(b),
           NEW n, n = 1 + Blocks(b.mem[b.start])
    PROVE  /\ n \in Nat /\ n > 0 /\ n <= b.used /\ n <= b.wrap - b.start
           /\ c.mem = [i \in Cells |-> IF i \in b.start .. b.start + n - 1
                                       THEN Junk ELSE b.mem[i]]
           /\ c.used = b.used - n
           /\ \/ c.start = b.start + n /\ c.wrap = b.wrap
              \/ b.start + n = b.wrap /\ c.start = 0 /\ c.wrap = Size
<1> DEFINE over == b.start + n = b.wrap
           s == IF over THEN 0 ELSE b.start + n
           w == IF over THEN Size ELSE b.wrap
           d == Consumed(b, n, s, w)
           e == IF Wrapped(b) THEN UpdateInput(d) ELSE d
<1>1. Geometry(b)
  BY DEF Sound
<1>2. PICK O \in SUBSET (0 .. Size) : Chain(b, O)
  BY DEF Sound
<1>3. /\ b.wrap \in Nat /\ b.start \in Nat /\ b.used \in Nat /\ Size \in Nat
      /\ b.wrap <= Size /\ b.start < b.wrap /\ b.used <= b.wrap
      /\ b.wrap = Size \/ b.used >= b.wrap - b.start
  BY <1>1, BufferType DEF Geometry, Wrapped
<1>4. n \in Nat /\ n > 0 /\ n <= b.used /\ n <= b.wrap - b.start
  BY <1>1, <1>2, FirstPacket
<1>5. c = UpdateOutput(e)
  BY ConsumeForm
<1>6. \/ s = b.start + n /\ w = b.wrap /\ s < b.wrap
      \/ b.start + n = b.wrap /\ s = 0 /\ w = Size
  BY <1>3, <1>4
<1> HIDE DEF s, w
<1>7. s \in Cells /\ w \in 1 .. Size /\ b.used - n \in 0 .. Size
  BY <1>3, <1>4, <1>6 DEF Cells
<1>8. /\ d \in Buffer
      /\ d.mem = [i \in Cells |-> IF i \in b.start .. b.start + n - 1
                                  THEN Junk ELSE b.mem[i]]
      /\ d.used = b.used - n /\ d.wrap = w /\ d.start = s
  BY <1>4, <1>7, ConsumedType
<1> HIDE DEF d
<1>9. Geometry(d)
  BY <1>3, <1>4, <1>6, <1>8 DEF Geometry, Wrapped
<1>10. /\ e \in Buffer /\ e.wrap = d.wrap /\ e.start = d.start
       /\ e.used = d.used /\ e.mem = d.mem
  BY <1>8, <1>9, UpdateInputLemma
<1> HIDE DEF e
<1>11. /\ c.wrap = d.wrap /\ c.start = d.start /\ c.used = d.used /\ c.mem = d.mem
  BY <1>5, <1>10, UpdatesKeep
<1> QED
  BY <1>4, <1>6, <1>8, <1>11

\* ChunkBuffer2_ConsumePacket takes the first packet away, and touches no free block.
LEMMA ConsumeQueue ==
    ASSUME NEW b \in Buffer, Sound(b), Roomy(b), b.used > 0, NEW c, c = ConsumePacket(b)
    PROVE  /\ Roomy(c)
           /\ Queue(b) # <<>> /\ Queue(c) = Tail(Queue(b))
           /\ \A i \in Cells : i \in End(b) .. End(b) + Free(b) - 1 => c.mem[i] = b.mem[i]
<1> DEFINE n == 1 + Blocks(b.mem[b.start])
<1>1. Geometry(b)
  BY DEF Sound
<1>2. PICK O \in SUBSET (0 .. Size) : Threaded(b, O)
  BY DEF Roomy
<1>3. Chain(b, O) /\ 0 \in O /\ b.used \in O /\ O \subseteq 0 .. b.used
  BY <1>2 DEF Threaded, Chain
<1>4. c \in Buffer /\ Sound(c) /\ Geometry(c)
  BY ConsumeLemma DEF Sound
<1>5. /\ n \in Nat /\ n > 0 /\ n <= b.used /\ n <= b.wrap - b.start
      /\ c.mem = [i \in Cells |-> IF i \in b.start .. b.start + n - 1
                                  THEN Junk ELSE b.mem[i]]
      /\ c.used = b.used - n
      /\ \/ c.start = b.start + n /\ c.wrap = b.wrap
         \/ b.start + n = b.wrap /\ c.start = 0 /\ c.wrap = Size
  BY ConsumeRing
<1>6. /\ b.wrap \in Nat /\ b.start \in Nat /\ b.used \in Nat /\ Size \in Nat
      /\ b.start < b.wrap /\ b.used <= b.wrap /\ b.wrap <= Size
      /\ c.wrap \in Nat /\ c.used \in Nat /\ c.start \in Nat
      /\ c.start < c.wrap /\ c.wrap <= Size /\ Blocks(Mtu) \in Nat
  BY <1>1, <1>4, BufferType DEF Geometry
<1>7. /\ End(b) \in Nat /\ Free(b) \in Nat /\ End(b) + Free(b) <= Size
      /\ Wrapped(b) => /\ End(b) = b.used - (b.wrap - b.start)
                       /\ Free(b) = b.start - End(b)
      /\ ~Wrapped(b) => End(b) = b.start + b.used /\ b.wrap = Size
  BY <1>1, EndLemma
<1>8. Cell(b, 0) = b.start /\ Stop(b, 0) = n /\ n \in O
  <2>1. Cell(b, 0) = b.start
    BY <1>6 DEF Cell
  <2>2. Stop(b, 0) = n
    BY <1>5, <2>1 DEF Stop
  <2>3. Stop(b, 0) \in O
    BY <1>1, <1>3, ChainFacts
  <2> QED
    BY <2>1, <2>2, <2>3
<1> HIDE DEF n
<1> DEFINE P == {o \in 0 .. c.used : o + n \in O}
<1>9. Chain(c, P)
  BY <1>1, <1>3, <1>4, <1>5, <1>8, ConsumedChain
<1>10. ASSUME NEW o \in O, n <= o, o < b.used
       PROVE  /\ o - n \in P /\ o - n < c.used /\ Cell(c, o - n) = Cell(b, o)
              /\ Pkt(c, o - n) = Pkt(b, o) /\ Stop(c, o - n) = Stop(b, o) - n
  <2>1. o \in Nat /\ o - n \in 0 .. c.used /\ o - n < c.used /\ (o - n) + n = o
    BY <1>3, <1>5, <1>6, <1>10
  <2>2. Cell(c, o - n) = Cell(b, o)
    <3>1. CASE c.start = b.start + n /\ c.wrap = b.wrap
      BY <1>5, <1>6, <1>10, <2>1, <3>1 DEF Cell
    <3>2. CASE b.start + n = b.wrap /\ c.start = 0 /\ c.wrap = Size
      BY <1>5, <1>6, <1>10, <2>1, <3>2 DEF Cell
    <3> QED
      BY <1>5, <3>1, <3>2
  <2>3. ASSUME NEW j \in o .. b.used - 1 PROVE c.mem[Cell(b, j)] = b.mem[Cell(b, j)]
    <3>1. j \in 0 .. b.used - 1 /\ n <= j
      BY <1>5, <1>6, <1>10, <2>1
    <3>2. Cell(b, j) \in Cells /\ Cell(b, j) \notin b.start .. b.start + n - 1
      BY <1>1, <1>5, <3>1, UsedCells
    <3> QED
      BY <1>5, <3>2
  <2>4. Pkt(c, o - n) = Pkt(b, o) /\ Stop(c, o - n) = Stop(b, o) - n
    BY <1>1, <1>3, <1>5, <1>10, <2>2, <2>3, PktAlike
  <2> QED
    BY <2>1, <2>2, <2>4
<1>11. Queue(b) # <<>> /\ Queue(c) = Tail(Queue(b))
  <2>1. From(c, b.used - n) = <<>>
    <3>1. b.used - n = c.used
      BY <1>5
    <3> QED
      BY <3>1, <1>4, <1>9, FromStep
  <2>2. From(c, b.used - n) \in Seq({})
    <3>1. <<>> \in Seq({})
      OBVIOUS
    <3> QED
      BY <2>1, <3>1, Zenon
  <2>3. Moved(b, O, c, P, n)
    BY <1>10 DEF Moved
  <2> HIDE DEF P
  <2>4. Queue(c) = From(b, n) \o From(c, b.used - n)
    BY <1>1, <1>3, <1>4, <1>8, <1>9, <2>2, <2>3, Alike
  <2>5. From(b, n) \in Seq({Pkt(b, o) : o \in O})
    BY <1>1, <1>3, <1>8, FromSeq
  <2>6. Queue(c) = From(b, n)
    <3>1. Queue(c) = From(b, n) \o <<>>
      BY <2>1, <2>4, Zenon
    <3> QED
      BY <2>5, <3>1
  <2>7. Queue(b) = <<Pkt(b, 0)>> \o From(b, n)
    BY <1>1, <1>3, <1>8, FromStep DEF Queue
  <2> DEFINE q == From(b, n)
             p == Pkt(b, 0)
  <2>8. p \in {Pkt(b, o) : o \in O}
    BY <1>3
  <2> HIDE DEF q, p
  <2>9. <<p>> \o q # <<>> /\ Tail(<<p>> \o q) = q
    BY <2>5, <2>8 DEF q
  <2> QED
    BY <2>6, <2>7, <2>9 DEF q, p
<1>12. Threaded(c, P)
  <2>1. ASSUME NEW o \in P, o < c.used PROVE Cell(c, o) + Blocks(Mtu) < Size
    <3> DEFINE x == o + n
    <3>1. x \in O /\ o \in 0 .. c.used /\ n <= x /\ x < b.used /\ x - n = o
      BY <1>5, <1>6, <2>1
    <3> HIDE DEF x
    <3>2. Cell(c, o) = Cell(b, x)
      BY <1>10, <3>1
    <3> QED
      BY <1>2, <3>1, <3>2 DEF Threaded
  <2> QED
    BY <1>9, <2>1 DEF Threaded
<1>13. P \in SUBSET (0 .. Size)
  <2>1. c.used <= Size
    BY <1>4, BufferType
  <2> QED
    BY <1>6, <2>1
<1>14. Snug(c)
  <2>1. CASE c.start = b.start + n /\ c.wrap = b.wrap
    <3>1. (Wrapped(c) <=> Wrapped(b)) /\ End(c) = End(b)
      BY <1>5, <1>6, <2>1 DEF Wrapped, End
    <3> QED
      BY <2>1, <3>1 DEF Roomy, Snug
  <2>2. CASE b.start + n = b.wrap /\ c.start = 0 /\ c.wrap = Size
    <3>1. b.start + Blocks(Mtu) < Size
      BY <1>2, <1>3, <1>6, <1>8 DEF Threaded
    <3>2. Wrapped(b) /\ End(b) <= b.start
      BY <1>5, <1>6, <1>7, <2>2 DEF Wrapped
    <3>3. End(c) = c.used /\ c.used = End(b)
      <4>1. c.used = b.used - n /\ n = b.wrap - b.start
        BY <1>5, <1>6, <2>2
      <4>2. ~(c.used >= c.wrap - c.start) /\ c.start + c.used = c.used
        BY <1>5, <1>6, <2>2, <4>1
      <4> QED
        BY <1>7, <3>2, <4>1, <4>2 DEF End
    <3> QED
      BY <1>6, <1>7, <2>2, <3>1, <3>2, <3>3 DEF Snug
  <2> QED
    BY <1>5, <2>1, <2>2
<1>15. ASSUME NEW i \in Cells, i \in End(b) .. End(b) + Free(b) - 1
       PROVE  c.mem[i] = b.mem[i]
  <2>1. i \notin b.start .. b.start + n - 1
    <3>1. CASE Wrapped(b)
      BY <1>5, <1>6, <1>7, <1>15, <3>1
    <3>2. CASE ~Wrapped(b)
      BY <1>5, <1>6, <1>7, <1>15, <3>2
    <3> QED
      BY <3>1, <3>2
  <2> QED
    BY <1>5, <2>1
<1> QED
  BY <1>11, <1>12, <1>13, <1>14, <1>15 DEF Roomy

\* The promise of ChunkBuffer2_calc_blocks: if a packet of Mtu bytes has no room, there
\* are num_packets.
LEMMA FullLemma ==
    ASSUME NEW b \in Buffer, Sound(b), Roomy(b), ~(b.inAvail >= Mtu)
    PROVE  Len(Queue(b)) \in Nat /\ Len(Queue(b)) >= Num
<1> DEFINE s == 1 + Blocks(Mtu)
<1>1. Geometry(b) /\ InputCached(b)
  BY DEF Sound
<1>2. PICK O \in SUBSET (0 .. Size) : Threaded(b, O)
  BY DEF Roomy
<1>3. Chain(b, O) /\ 0 \in O
  BY <1>2 DEF Threaded, Chain
<1>4. /\ b.wrap \in Nat /\ b.start \in Nat /\ b.used \in Nat /\ Size \in Nat
      /\ b.start < b.wrap /\ b.used <= b.wrap /\ b.wrap <= Size
      /\ Blocks(Mtu) \in Nat /\ s \in Nat /\ s > 0 /\ Num \in Nat /\ Num > 0
  BY <1>1, BufferType, SizesAssumption DEF Geometry
<1>5. /\ End(b) \in Nat /\ Free(b) \in Nat /\ End(b) + Free(b) <= Size
      /\ Wrapped(b) => /\ End(b) = b.used - (b.wrap - b.start)
                       /\ Free(b) = b.start - End(b)
      /\ ~Wrapped(b) => /\ End(b) = b.start + b.used
                        /\ Free(b) = Size - End(b)
  BY <1>1, EndLemma
<1>6. Free(b) <= Blocks(Mtu)
  <2>1. SUFFICES ASSUME Free(b) > Blocks(Mtu) PROVE FALSE
    BY <1>4, <1>5
  <2>2. Fits(b)
    BY <1>4, <1>5, <2>1 DEF Fits
  <2>3. b.inAvail = (Free(b) - 1) * Block
    BY <1>1, <2>2 DEF InputCached
  <2>4. Free(b) > 0 /\ Free(b) <= Size
    BY <1>4, <1>5, <2>1
  <2> QED
    BY <1>5, <2>1, <2>3, <2>4, AvailLemma
<1>7. Wrapped(b)
  BY <1>4, <1>5, <1>6 DEF Roomy, Snug
<1>8. Size - b.wrap <= Blocks(Mtu)
  BY DEF Roomy, Snug
<1>9. b.used >= Size - 2 * Blocks(Mtu)
  BY <1>4, <1>5, <1>6, <1>7, <1>8
<1> DEFINE q == Queue(b)
<1>10. q \in Seq({Pkt(b, o) : o \in O}) /\ b.used - 0 <= Len(q) * s
  BY <1>1, <1>3, FromSeq DEF Queue
<1>11. Len(q) \in Nat
  BY <1>10
<1>12. Size = s * (Num + 1)
  BY DEF Size, CalcBlocks
<1>13. 2 * Blocks(Mtu) = s + s - 2
  BY <1>4
<1> HIDE DEF q, s
<1>14. /\ s * (Num + 1) = (Num - 1) * s + s + s
       /\ (Num - 1) * s \in Int /\ Len(q) * s \in Int
  BY <1>4, <1>11
<1>15. (Num - 1) * s < Len(q) * s
  <2> DEFINE x == (Num - 1) * s
             y == Len(q) * s
             z == s * (Num + 1)
  <2>1. Size = z /\ z = x + s + s /\ x \in Int /\ y \in Int
    BY <1>12, <1>14
  <2>2. b.used <= y
    BY <1>4, <1>10
  <2> HIDE DEF x, y, z
  <2>3. x < y
    BY <1>4, <1>9, <1>13, <2>1, <2>2
  <2> QED
    BY <2>3 DEF x, y
<1>16. Len(q) <= Num - 1 => Len(q) * s <= (Num - 1) * s
  <2>1. Len(q) \in Int /\ Num - 1 \in Int /\ s \in Nat
    BY <1>4, <1>11
  <2> QED
    BY <2>1, Times
<1>17. ~(Len(q) <= Num - 1)
  BY <1>14, <1>15, <1>16
<1> QED
  BY <1>4, <1>11, <1>17 DEF q

-----------------------------------------------------------------------------
(* The ring implements the queue *)

\* The blocks the input has written so far are those of a packet.
WrittenIsData ==
    recv.filled # None =>
        \A i \in recv.dest .. recv.dest + Blocks(recv.filled) - 1 : buf.mem[i] \in Data

\* The inductive invariant of the refinement.
FifoInv ==
    /\ Inv /\ Roomy(buf)
    /\ buf.inAvail >= Mtu => recv.dest # None
    /\ WrittenIsData

\* The state of the abstract queue in a state of the ring.
Mapped ==
    /\ Stored = Queue(buf)
    /\ Stored \in Seq({Read(i + 1, buf.mem[i]) : i \in Cells})
    /\ Offered = Fifo!First(Stored)
    /\ Len(Stored) < Num => recv.dest # None

\* It is the one that the refinement mapping gives.
LEMMA MapLemma == FifoInv => Mapped
<1> SUFFICES ASSUME FifoInv PROVE Mapped
  OBVIOUS
<1>1. buf \in Buffer /\ Sound(buf) /\ Roomy(buf) /\ send = Send(buf)
  BY DEF FifoInv, Inv, TypeOK, Buffer
<1>2. Geometry(buf) /\ OutputCached(buf)
  BY <1>1 DEF Sound
<1>3. PICK O \in SUBSET (0 .. Size) : Chain(buf, O)
  BY <1>1 DEF Sound
<1>4. buf.used \in Nat /\ buf.start \in Nat /\ buf.start < buf.wrap /\ buf.wrap \in Nat
  BY <1>1, <1>2, BufferType DEF Geometry
<1>5. Cell(buf, 0) = buf.start /\ buf.used - 0 = buf.used
  BY <1>4 DEF Cell
<1>6. Stored = Queue(buf)
  BY <1>5 DEF Stored, Queue, From
<1>7. 0 \in O
  BY <1>3 DEF Chain
<1>8. Offered = Fifo!First(Stored)
  <2>1. CASE buf.used = 0
    <3>1. Stored = <<>>
      BY <1>1, <1>2, <1>3, <1>6, <2>1, FromStep DEF Queue
    <3>2. send.dest = None
      BY <1>1, <2>1, OfferLemma DEF Send
    <3> QED
      BY <3>1, <3>2 DEF Offered, Fifo!First
  <2>2. CASE buf.used > 0
    <3> DEFINE p == Pkt(buf, 0)
               q == From(buf, Stop(buf, 0))
    <3>1. Stored = <<p>> \o q
      BY <1>1, <1>2, <1>3, <1>6, <1>7, <2>2, FromStep DEF Queue
    <3>2. q \in Seq({Pkt(buf, o) : o \in O})
      <4>1. Stop(buf, 0) \in O
        BY <1>1, <1>2, <1>3, <1>7, <2>2, ChainFacts
      <4> QED
        BY <1>1, <1>2, <1>3, <4>1, FromSeq
    <3>3. p \in {Pkt(buf, o) : o \in O}
      BY <1>7
    <3>4. /\ send.dest # None /\ send.dest = buf.start + 1
          /\ send.len = buf.mem[buf.start]
      <4>1. send.dest = buf.outDest /\ send.len = buf.outAvail
        BY <1>1 DEF Send
      <4> QED
        BY <1>1, <1>2, <2>2, <4>1, OfferLemma DEF OutputCached
    <3>5. Offered = <<p>>
      BY <1>5, <3>4 DEF Offered, Read, Pkt
    <3> HIDE DEF p, q
    <3>6. <<p>> \o q # <<>> /\ Head(<<p>> \o q) = p
      BY <3>2, <3>3
    <3> QED
      BY <3>1, <3>5, <3>6 DEF Fifo!First
  <2> QED
    BY <1>4, <2>1, <2>2
<1>9. Stored \in Seq({Read(i + 1, buf.mem[i]) : i \in Cells})
  <2> DEFINE T == {o \in O : From(buf, o) \in Seq({Read(i + 1, buf.mem[i]) : i \in Cells})}
             S == {Read(i + 1, buf.mem[i]) : i \in Cells}
  <2>1. buf.used \in T
    <3>1. From(buf, buf.used) = <<>> /\ buf.used \in O
      BY <1>1, <1>2, <1>3, FromStep DEF Chain
    <3>2. <<>> \in Seq(S)
      OBVIOUS
    <3> HIDE DEF S
    <3> QED
      BY <3>1, <3>2 DEF S
  <2>2. ASSUME NEW o \in O, o < buf.used, Stop(buf, o) \in T PROVE o \in T
    <3> DEFINE q == From(buf, Stop(buf, o))
               p == Pkt(buf, o)
    <3>1. From(buf, o) = <<p>> \o q
      BY <1>1, <1>2, <1>3, <2>2, FromStep
    <3>2. Cell(buf, o) \in Cells
      BY <1>1, <1>2, <1>3, <2>2, ChainFacts
    <3>3. p \in S
      BY <3>2 DEF Pkt, Read
    <3>4. q \in Seq(S)
      BY <2>2
    <3> HIDE DEF S, p, q
    <3>5. <<p>> \o q \in Seq(S)
      BY <3>3, <3>4
    <3> QED
      BY <3>1, <3>5 DEF S
  <2> HIDE DEF T
  <2>3. O \subseteq T
    BY <1>1, <1>2, <1>3, <2>1, <2>2, ChainInduction
  <2> QED
    BY <1>6, <1>7, <2>3 DEF T, Queue
<1>10. Len(Stored) < Num => recv.dest # None
  <2>1. CASE buf.inAvail >= Mtu
    BY <2>1 DEF FifoInv
  <2>2. CASE ~(buf.inAvail >= Mtu)
    BY <1>1, <1>6, <2>2, FullLemma, SizesAssumption
  <2> QED
    BY <2>1, <2>2
<1> QED
  BY <1>6, <1>8, <1>9, <1>10 DEF Mapped

\* The same of the state after a step.
LEMMA MapNext == FifoInv' => Mapped'
BY MapLemma, PTL

\* The ring is made empty, with a receive outstanding.
LEMMA FifoInit == Init => FifoInv /\ Fifo!Init
<1> SUFFICES ASSUME Init PROVE FifoInv /\ Fifo!Init
  OBVIOUS
<1>1. Inv
  BY InitLemma
<1> DEFINE b == [wrap |-> Size, start |-> 0, used |-> 0,
                 mem |-> [i \in Cells |-> Junk],
                 inDest |-> None, inAvail |-> None,
                 outDest |-> None, outAvail |-> None]
           c == UpdateInput(b)
<1>2. Size \in Nat /\ Blocks(Mtu) \in Nat /\ Size >= 2 + 2 * Blocks(Mtu) /\ Mtu \in Nat
  BY SizesLemma
<1>3. b \in Buffer /\ b.wrap = Size /\ b.start = 0 /\ b.used = 0
  BY <1>2 DEF Buffer, Cells
<1>4. buf = UpdateOutput(c) /\ recv = Receive(buf) /\ send = [dest |-> None, len |-> None]
  BY DEF Init
<1> HIDE DEF b
<1>5. Geometry(b)
  BY <1>2, <1>3 DEF Geometry
<1>6. c \in Buffer /\ c.wrap = Size /\ c.start = 0 /\ c.used = 0
  BY <1>3, <1>5, UpdateInputLemma
<1> HIDE DEF c
<1>7. buf \in Buffer /\ buf.wrap = Size /\ buf.start = 0 /\ buf.used = 0
  BY <1>1, <1>4, <1>6, UpdatesKeep DEF Inv, TypeOK, Buffer
<1>8. ~Wrapped(buf) /\ End(buf) = 0
  BY <1>2, <1>7 DEF Wrapped, End
<1>9. Threaded(buf, {0}) /\ {0} \in SUBSET (0 .. Size)
  BY <1>2, <1>7 DEF Threaded, Chain
<1>10. Roomy(buf)
  BY <1>2, <1>7, <1>8, <1>9 DEF Roomy, Snug
<1>11. Sound(buf) /\ InputCached(buf) /\ Geometry(buf)
  BY <1>1 DEF Inv, Sound
<1>12. recv.dest # None /\ recv.filled = None
  <2>1. Fits(buf)
    BY <1>2, <1>7, <1>8 DEF Fits, Free
  <2>2. buf.inDest = 1
    BY <1>8, <1>11, <2>1 DEF InputCached
  <2> QED
    BY <1>4, <2>2 DEF Receive, None
<1>13. FifoInv
  BY <1>1, <1>10, <1>12 DEF FifoInv, WrittenIsData
<1>14. Stored = <<>>
  <2>1. Chain(buf, {0})
    BY <1>9 DEF Threaded
  <2>2. Queue(buf) = <<>>
    BY <1>7, <1>11, <2>1, FromStep DEF Queue
  <2> QED
    BY <1>13, <2>2, MapLemma DEF Mapped
<1>15. Offered = <<>>
  BY <1>4 DEF Offered
<1> QED
  BY <1>12, <1>13, <1>14, <1>15 DEF Fifo!Init

\* A step of the ring leaves the queue alone or is a step of it.
LEMMA FifoStep == FifoInv /\ [Next]_vars => FifoInv' /\ [Fifo!Next]_(Fifo!vars)
<1> SUFFICES ASSUME FifoInv, [Next]_vars PROVE FifoInv' /\ [Fifo!Next]_(Fifo!vars)
  OBVIOUS
<1>1. Inv'
  BY NextLemma DEF FifoInv
<1>2. /\ buf \in Buffer /\ Sound(buf) /\ Roomy(buf)
      /\ recv \in [dest: {None} \cup 1 .. Size, filled: {None} \cup 0 .. Mtu]
      /\ recv.dest # None => recv.dest = buf.inDest /\ buf.inAvail >= Mtu
      /\ recv.filled # None => recv.dest # None
      /\ buf.inAvail >= Mtu => recv.dest # None
      /\ send = Send(buf) /\ WrittenIsData
  BY DEF FifoInv, Inv, TypeOK, Buffer
<1>3. /\ Mapped /\ Stored = Queue(buf)
  BY MapLemma DEF Mapped
<1>4. buf' \in Buffer /\ Sound(buf')
  BY <1>1 DEF Inv, TypeOK, Buffer
<1>5. Size \in Nat /\ Mtu \in Nat /\ Blocks(Mtu) \in Nat
  BY SizesLemma
<1>6. ASSUME NEW b \in Buffer, Sound(b), b.inAvail >= Mtu PROVE b.inDest # None
  <2>1. b.inDest = End(b) + 1 /\ End(b) \in Nat
    BY <1>6, RoomLemma, EndLemma DEF Sound
  <2> QED
    BY <2>1 DEF None
\* In the terms of the queue a step is what it does to the packets and to `ready`.
<1>7. ASSUME FifoInv', NEW p \in Packet, Queue(buf') = Append(Queue(buf), p),
             recv.dest # None
      PROVE  Fifo!Next
  <2>1. /\ Stored' = Queue(buf') /\ Offered' = Fifo!First(Stored')
        /\ Len(Stored') < Num => recv'.dest # None
    <3>1. Mapped'
      BY <1>7, MapNext
    <3> QED
      BY <3>1 DEF Mapped, Fifo!First
  <2>2. Stored' = Append(Stored, p)
    BY <1>3, <1>7, <2>1
  <2> QED
    BY <1>7, <2>1, <2>2 DEF Fifo!Next, Fifo!Enqueue, Fifo!Becomes, Fifo!First
<1>8. ASSUME FifoInv', Queue(buf) # <<>>, Queue(buf') = Tail(Queue(buf)),
             recv.dest # None => recv'.dest # None
      PROVE  Fifo!Next
  <2>1. /\ Stored' = Queue(buf') /\ Offered' = Fifo!First(Stored')
        /\ Len(Stored') < Num => recv'.dest # None
    <3>1. Mapped'
      BY <1>8, MapNext
    <3> QED
      BY <3>1 DEF Mapped, Fifo!First
  <2>2. Stored' = Tail(Stored) /\ Stored # <<>>
    BY <1>3, <1>8, <2>1
  <2> QED
    BY <1>8, <2>1, <2>2 DEF Fifo!Next, Fifo!Dequeue, Fifo!Becomes, Fifo!First
<1>9. ASSUME NEW len \in 0 .. Mtu, NEW x \in Data, Fill(len, x)
      PROVE  FifoInv' /\ UNCHANGED Fifo!vars
  <2>1. /\ recv.dest # None /\ send' = send /\ recv' = [recv EXCEPT !.filled = len]
        /\ buf' = Filled(buf, recv.dest, Blocks(len), x)
    BY <1>9 DEF Fill, Filled
  <2>2. recv.dest = buf.inDest /\ buf.inAvail >= Mtu
    BY <1>2, <2>1
  <2>3. /\ Roomy(buf') /\ Queue(buf') = Queue(buf)
        /\ \A i \in recv.dest .. recv.dest + Blocks(len) - 1 : buf'.mem[i] = x
    BY <1>2, <2>1, <2>2, FillQueue
  <2>4. recv'.dest = recv.dest /\ recv'.filled = len
    BY <1>2, <2>1
  <2>5. WrittenIsData'
    BY <2>3, <2>4 DEF WrittenIsData
  <2>6. FifoInv'
    BY <1>1, <2>1, <2>3, <2>4, <2>5 DEF FifoInv
  <2>7. Stored' = Stored /\ Offered' = Offered
    <3>1. Mapped'
      BY <2>6, MapNext
    <3>2. Stored' = Stored
      BY <1>3, <2>3, <3>1 DEF Mapped
    <3> QED
      BY <1>3, <3>1, <3>2 DEF Mapped, Fifo!First
  <2> QED
    BY <2>4, <2>6, <2>7 DEF Fifo!vars
<1>10. CASE InputDone
  <2> DEFINE len == recv.filled
             p == ReadFrom(buf, buf.inDest, len)
  <2>1. /\ len # None /\ buf' = SubmitPacket(buf, len)
        /\ recv' = IF buf'.inAvail >= Mtu THEN Receive(buf') ELSE NoReceive
    BY <1>10 DEF InputDone
  <2>2. len \in 0 .. Mtu /\ buf.inAvail >= Mtu /\ recv.dest # None /\ recv.dest = buf.inDest
    BY <1>2, <2>1
  <2>3. Roomy(buf') /\ Queue(buf') = Append(Queue(buf), p)
    BY <1>2, <2>1, <2>2, SubmitQueue
  <2>4. recv'.filled = None /\ (buf'.inAvail >= Mtu => recv'.dest # None)
    BY <1>4, <1>6, <2>1 DEF Receive, NoReceive
  <2>5. FifoInv'
    BY <1>1, <2>3, <2>4 DEF FifoInv, WrittenIsData
  <2>6. p \in Packet
    <3>1. Blocks(len) \in 0 .. Blocks(Mtu) /\ Blocks(len) \in Nat
      BY <2>2, SizesLemma
    <3>2. \A i \in recv.dest .. recv.dest + Blocks(len) - 1 : buf.mem[i] \in Data
      BY <1>2, <2>1 DEF WrittenIsData
    <3>3. ASSUME NEW i \in 1 .. Blocks(len) PROVE buf.mem[buf.inDest + i - 1] \in Data
      <4>1. recv.dest \in Nat
        BY <1>2, <1>5, <2>2 DEF None
      <4>2. buf.inDest + i - 1 \in recv.dest .. recv.dest + Blocks(len) - 1
        BY <2>2, <3>1, <4>1
      <4> QED
        BY <3>2, <4>2
    <3>4. [i \in 1 .. Blocks(len) |-> buf.mem[buf.inDest + i - 1]] \in [1 .. Blocks(len) -> Data]
      BY <3>3
    <3> QED
      BY <2>2, <3>1, <3>4 DEF Packet, ReadFrom
  <2> HIDE DEF p
  <2>7. Fifo!Next
    BY <1>7, <2>2, <2>3, <2>5, <2>6
  <2> QED
    BY <2>5, <2>7
<1>11. CASE OutputDone
  <2>1. /\ send.dest # None /\ buf' = ConsumePacket(buf)
        /\ recv' = IF buf.inAvail < Mtu /\ buf'.inAvail >= Mtu THEN Receive(buf') ELSE recv
    BY <1>11 DEF OutputDone
  <2>2. buf.used > 0
    BY <1>2, <2>1, OfferLemma DEF Send
  <2>3. /\ Roomy(buf') /\ Queue(buf) # <<>> /\ Queue(buf') = Tail(Queue(buf))
        /\ \A i \in Cells : i \in End(buf) .. End(buf) + Free(buf) - 1 => buf'.mem[i] = buf.mem[i]
    BY <1>2, <2>1, <2>2, ConsumeQueue
  <2>4. CASE recv' = Receive(buf') /\ buf'.inAvail >= Mtu /\ buf.inAvail < Mtu
    <3>1. recv'.dest # None /\ recv'.filled = None
      BY <1>4, <1>6, <2>4 DEF Receive
    <3>2. FifoInv'
      BY <1>1, <2>3, <3>1 DEF FifoInv, WrittenIsData
    <3> QED
      BY <1>8, <2>3, <3>1, <3>2
  <2>5. CASE recv' = recv /\ ~(buf.inAvail < Mtu /\ buf'.inAvail >= Mtu)
    <3>1. buf'.inAvail >= Mtu => recv'.dest # None
      <4>1. buf.inAvail \in Int
        BY <1>2, <1>5 DEF Buffer, None
      <4> QED
        BY <1>2, <1>5, <2>5, <4>1
    <3>2. WrittenIsData'
      <4>1. SUFFICES ASSUME recv.filled # None,
                            NEW i \in recv.dest .. recv.dest + Blocks(recv.filled) - 1
                     PROVE  buf'.mem[i] \in Data
        BY <2>5 DEF WrittenIsData
      <4>2. recv.dest = buf.inDest /\ buf.inAvail >= Mtu /\ recv.filled \in 0 .. Mtu
        BY <1>2, <4>1
      <4>3. Free(buf) > Blocks(Mtu) /\ buf.inDest = End(buf) + 1
        BY <1>2, <4>2, RoomLemma DEF Sound
      <4>4. End(buf) \in Nat /\ Free(buf) \in Nat /\ End(buf) + Free(buf) <= Size
        BY <1>2, EndLemma DEF Sound
      <4>5. Blocks(recv.filled) \in 0 .. Blocks(Mtu)
        BY <4>2, SizesLemma
      <4>6. i \in Cells /\ i \in End(buf) .. End(buf) + Free(buf) - 1
        BY <1>5, <4>1, <4>2, <4>3, <4>4, <4>5 DEF Cells
      <4>7. buf.mem[i] \in Data
        BY <1>2, <4>1 DEF WrittenIsData
      <4> QED
        BY <2>3, <4>6, <4>7
    <3>3. FifoInv'
      BY <1>1, <2>3, <3>1, <3>2 DEF FifoInv
    <3> QED
      BY <1>8, <2>3, <2>5, <3>3
  <2> QED
    BY <2>1, <2>4, <2>5
<1>12. CASE UNCHANGED vars
  <2>1. buf' = buf /\ recv' = recv /\ send' = send
    BY <1>12 DEF vars
  <2>2. FifoInv'
    BY <1>1, <1>2, <2>1 DEF FifoInv, WrittenIsData
  <2>3. Stored' = Stored /\ Offered' = Offered
    BY <2>1 DEF Stored, Offered, Read
  <2> QED
    BY <2>1, <2>2, <2>3 DEF Fifo!vars
<1> QED
  BY <1>9, <1>10, <1>11, <1>12 DEF Next

\* PacketBuffer over ChunkBuffer2 is a FIFO of whole packets for every block size, MTU
\* and number of packets: what the output reads is the oldest packet as the input wrote
\* it, wherever the ring wrapped, and a receive is outstanding whenever fewer than
\* num_packets are stored.
THEOREM RingIsFifo == Spec => IsFifo
<1>1. Spec => Fifo!Init /\ [][Fifo!Next]_(Fifo!vars)
  BY FifoInit, FifoStep, PTL DEF Spec
<1> QED
  BY <1>1 DEF IsFifo, Fifo!Spec
=============================================================================
