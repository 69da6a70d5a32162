----------------------- MODULE Tun2SocksClientProofs -----------------------
(***************************************************************************)
(* Proofs about Tun2SocksClient, for any finite set of clients and any     *)
(* sizes of the buffers and of the window.                                 *)
(*                                                                         *)
(* The inductive invariant says, of every client, what holds of it         *)
(* whatever tcp_input is doing (Sound), how its counters relate to the     *)
(* part of the segment still in flight (Room, Acked), and what tcp_input   *)
(* may rely on when it goes on with the pcb (Held).  Every operation of    *)
(* tun2socks.c has a lemma; those that run as a job show Follows, which    *)
(* is all a step has to know about them (JobLemma), those that run in a    *)
(* callback end in CallbackReturnLemma.                                    *)
(***************************************************************************)
EXTENDS Tun2SocksClient, FiniteSetTheorems, TLAPS

-----------------------------------------------------------------------------
(* The inductive invariant *)

\* A client has something to wait for: NothingStuck for one client.
Served(w) ==
    /\ w.sending <=> w.up /\ ~w.socksClosed /\ w.buf > 0
    /\ w.closed => ~w.socksClosed /\ w.buf > 0
    /\ w.socksClosed => w.up /\ w.pending > 0
    /\ w.up /\ ~w.closed /\ ~w.socksClosed => (w.recving <=> w.rbuf = -1)
    /\ w.up /\ ~w.closed /\ w.rbuf > 0
          => w.waiting /\ w.pending > 0 /\ w.rsent < w.rbuf

\* Until it is up nothing came from the SOCKS server, and only an open SOCKS
\* connection that is up receives.
Begun(w) ==
    /\ ~w.up => w.rbuf = -1 /\ w.pending = 0 /\ w.queued = 0
    /\ w.recving => w.up /\ ~w.socksClosed

\* The callbacks registered are exactly those the client's flags call for, and
\* the pcb is attached exactly as long as the client is not closed.
Wired(w) ==
    /\ Attached(w) <=> w.alive /\ ~w.closed
    /\ w.errCb <=> w.alive /\ ~w.closed
    /\ w.sentCb <=> w.alive /\ ~w.closed /\ w.up
    /\ w.recvCb <=> w.alive /\ ~w.closed /\ ~w.socksClosed

\* What holds of a client whatever tcp_input is doing.
Sound(w) ==
    /\ w \in Conn
    /\ w.refused = 0
    /\ Wired(w)
    /\ w.aborted => w.alive /\ w.pcb = "freed"
    /\ w.alive => Served(w) /\ Begun(w)

\* Between the entry of a callback and its return: dead_aborted says whether
\* tcp_abort was called, and only tcp_abort deallocated the pcb.
InCallback(w) ==
    /\ w.pcb # "none"
    /\ w.tcpAbort <=> w.dead = 1
    /\ w.tcpAbort <=> w.pcb = "freed"
    /\ w.alive => (w.aborted <=> w.tcpAbort)

\* The room in the window, and what lwIP has queued, in the middle of `in`.
Room(w, in) ==
    w.recvCb => w.buf + w.rcvWnd
                + (IF in.sync /\ in.phase = "recv" THEN 0 ELSE in.data)
                + (IF in.fin THEN 1 ELSE 0) = Wnd
Acked(w, in) ==
    w.sentCb => w.pending = w.queued + (IF in.sync THEN 0 ELSE in.acked)

\* lwIP's view of the pcb in the middle of `in`.
Held(w, in) ==
    in.who # NoClient =>
        IF in.sync THEN InCallback(w) ELSE w.pcb \notin {"none", "freed"}

ClientOK(w, in) == Sound(w) /\ Room(w, in) /\ Acked(w, in) /\ Held(w, in)

\* The segment as far as it concerns client c.
View(in, c) == IF in.who = c THEN in ELSE Idle

InputType ==
    [who: Clients \cup {NoClient}, phase: Phases,
     acked: 0 .. SndBuf, data: 0 .. Wnd, fin: BOOLEAN, sync: BOOLEAN]

\* A phase is entered only with what is left for it to do.
InputOK(in) ==
    /\ in \in InputType
    /\ in.who = NoClient => in = Idle
    /\ in.who # NoClient => in.phase # "idle"
    /\ in.phase # "sent" => in.acked = 0
    /\ in.phase \in {"accept", "fin", "end"} => in.data = 0
    /\ in.phase \in {"accept", "end"} => ~in.fin
    /\ in.phase \in {"fin", "end"} => ~in.sync
    /\ in.phase = "accept" => in.sync
    /\ in.phase = "recv" => in.data > 0

\* The clients and the segment being processed.
ConnInv ==
    /\ conn \in [Clients -> Conn]
    /\ \A c \in Clients : conn[c].frees = 0
    /\ numClients = Cardinality({c \in Clients : conn[c].alive})
    /\ InputOK(input)
    /\ \A c \in Clients : ClientOK(conn[c], View(input, c))

Inv ==
    /\ ConnInv
    /\ ret \in Returned /\ ErrAbrtIffAborted
    /\ quitting \in BOOLEAN /\ (quitting => input = Idle)

-----------------------------------------------------------------------------
(* What the operations do to a client *)

\* A client that may be closed now.
Closable(w) ==
    /\ w \in Conn /\ w.frees = 0
    /\ w.alive /\ w.refused = 0 /\ ~w.aborted
    /\ ~w.socksClosed => (w.sending <=> w.up /\ w.buf > 0)
    /\ Begun(w)

\* r is a client that has let go of its pcb, freed at most once.
LetGo(r) ==
    /\ Sound(r)
    /\ r.frees = (IF r.alive THEN 0 ELSE 1)
    /\ r.closed

\* A free slot is a client.
LEMMA UnusedLemma == Unused \in Conn
  BY SizesAssumption DEF SizesAssumption, Conn, Unused, Pcb

\* What client_dealloc leaves has the right type.
Remains(u, p, n, t, d) ==
    [u EXCEPT !.pcb = p, !.rcvWnd = n, !.tcpAbort = t, !.dead = d, !.frees = 1]

\* It is still a connection.
LEMMA DeallocType ==
    ASSUME NEW u \in Conn, NEW p \in Pcb, NEW n \in 0 .. Wnd,
           NEW t \in BOOLEAN, NEW d \in {-1, 0, 1}
    PROVE  Remains(u, p, n, t, d) \in Conn
  BY DEF Conn, Remains

\* client_dealloc: dead_aborted still tells what happened to the pcb.
LEMMA DeallocLemma ==
    ASSUME NEW w, w \in Conn, w.frees = 0, w.alive, ~Attached(w)
    PROVE  /\ LetGo(Dealloc(w))
           /\ Dealloc(w).pcb = w.pcb
           /\ InCallback(w) => InCallback(Dealloc(w))
<1> DEFINE r == Dealloc(w)
           d == IF w.aborted THEN w.dead ELSE -1
<1> SUFFICES LetGo(r) /\ r.pcb = w.pcb /\ (InCallback(w) => InCallback(r))
  OBVIOUS
<1>1. d \in {-1, 0, 1} /\ w.pcb \in Pcb /\ w.rcvWnd \in 0 .. Wnd /\ w.tcpAbort \in BOOLEAN
  BY DEF Conn
<1> HIDE DEF d
<1>2. r = Remains(Unused, w.pcb, w.rcvWnd, w.tcpAbort, d)
  BY DEF Dealloc, Remains, d
<1> HIDE DEF r
<1>3. r \in Conn
  BY <1>1, <1>2, UnusedLemma, DeallocType
<1>4. /\ r.pcb = w.pcb /\ r.tcpAbort = w.tcpAbort /\ r.dead = d /\ ~r.alive
      /\ r.closed /\ r.frees = 1 /\ r.refused = 0 /\ ~r.aborted
      /\ ~r.errCb /\ ~r.recvCb /\ ~r.sentCb
  BY <1>2 DEF Unused, Remains
<1>5. LetGo(r) /\ r.pcb = w.pcb
  BY <1>3, <1>4 DEF LetGo, Sound, Wired, Attached
<1>6. InCallback(w) => (w.tcpAbort <=> d = 1)
  BY DEF InCallback, d
<1> QED
  BY <1>4, <1>5, <1>6 DEF InCallback

\* client_handle_freed_client frees the client or leaves it with something to
\* send, and keeps what tcp_input must be told about the pcb.
LEMMA HandleFreedClientLemma ==
    ASSUME NEW w, w \in Conn, w.frees = 0, w.alive, w.refused = 0,
           ~w.errCb, ~w.recvCb, ~w.sentCb, ~Attached(w),
           w.aborted => w.pcb = "freed",
           ~w.socksClosed => (w.sending <=> w.up /\ w.buf > 0), Begun(w)
    PROVE  /\ LetGo(HandleFreedClient(w))
           /\ HandleFreedClient(w).pcb = w.pcb
           /\ InCallback(w) => InCallback(HandleFreedClient(w))
<1> DEFINE r == HandleFreedClient(w)
<1> SUFFICES LetGo(r) /\ r.pcb = w.pcb /\ (InCallback(w) => InCallback(r))
  OBVIOUS
<1>1. CASE w.buf > 0 /\ ~w.socksClosed
  <2>1. r = [w EXCEPT !.closed = TRUE]
    BY <1>1 DEF HandleFreedClient
  <2>2. r \in Conn
    BY <2>1, ZenonT(30) DEF Conn
  <2> QED
    <3> HIDE DEF r
    <3>1. /\ r.pcb = w.pcb /\ r.closed /\ r.alive /\ r.frees = 0 /\ r.refused = 0
          /\ ~r.errCb /\ ~r.recvCb /\ ~r.sentCb /\ r.aborted = w.aborted
          /\ r.dead = w.dead /\ r.tcpAbort = w.tcpAbort
          /\ r.socksClosed = w.socksClosed /\ r.buf = w.buf
      BY <2>1 DEF Conn
    <3>2. r.sending <=> r.up /\ ~r.socksClosed /\ r.buf > 0
      BY <1>1, <2>1 DEF Conn
    <3>3. Begun(r)
      BY <2>1 DEF Conn, Begun
    <3>4. Served(r)
      BY <1>1, <3>1, <3>2 DEF Served
    <3>5. Wired(r)
      BY <3>1 DEF Wired, Attached
    <3> QED
      BY <2>2, <3>1, <3>3, <3>4, <3>5 DEF LetGo, Sound, InCallback
<1>2. CASE ~(w.buf > 0 /\ ~w.socksClosed)
  <2> DEFINE s == SocksFree([w EXCEPT !.closed = TRUE])
  <2>1. r = Dealloc(s)
    BY <1>2 DEF HandleFreedClient
  <2>2. s = [w EXCEPT !.closed = TRUE, !.socksClosed = TRUE,
                      !.sending = FALSE, !.recving = FALSE]
    BY DEF SocksFree, Conn
  <2> HIDE DEF s, r
  <2>3. s \in Conn
    BY <2>2, ZenonT(30) DEF Conn
  <2>4. /\ s.frees = 0 /\ s.alive /\ s.pcb = w.pcb /\ s.tcpAbort = w.tcpAbort
        /\ s.dead = w.dead /\ s.aborted = w.aborted
    BY <2>2 DEF Conn
  <2>5. ~Attached(s) /\ (InCallback(w) => InCallback(s))
    BY <2>4 DEF Attached, InCallback
  <2> QED
    BY <2>1, <2>3, <2>4, <2>5, DeallocLemma
<1> QED BY <1>1, <1>2

\* client_abort_client: the pcb is gone, and the callback returns ERR_ABRT.
LEMMA AbortClientLemma ==
    ASSUME NEW w, Closable(w)
    PROVE  /\ LetGo(AbortClient(w))
           /\ AbortClient(w).pcb = "freed"
           /\ InCallback(AbortClient(w))
<1> DEFINE v == AbortPcb(RemoveCallbacks(w))
<1>0. w \in Conn
  BY DEF Closable
<1>1. v = [w EXCEPT !.errCb = FALSE, !.recvCb = FALSE, !.sentCb = FALSE,
                    !.pcb = "freed", !.tcpAbort = TRUE, !.aborted = TRUE, !.dead = 1]
  BY <1>0 DEF AbortPcb, RemoveCallbacks, TcpAbort, Conn
<1>2. v \in Conn
  <2> HIDE DEF v
  <2> QED
    BY <1>0, <1>1, ZenonT(30) DEF Conn, Pcb
<1>3. /\ v.frees = 0 /\ v.alive /\ v.refused = 0
      /\ ~v.errCb /\ ~v.recvCb /\ ~v.sentCb /\ v.aborted /\ v.pcb = "freed"
      /\ ~v.socksClosed => (v.sending <=> v.up /\ v.buf > 0)
      /\ Begun(v) /\ InCallback(v)
  BY <1>1 DEF Closable, Conn, Begun, InCallback
<1> HIDE DEF v
<1>4. ~Attached(v)
  BY <1>3 DEF Attached
<1>5. AbortClient(w) = HandleFreedClient(v)
  BY DEF AbortClient, v
<1> QED
  BY <1>2, <1>3, <1>4, <1>5, HandleFreedClientLemma

\* client_free_client: inside tcp_input the pcb is left to it.
LEMMA FreeClientLemma ==
    ASSUME NEW w, Closable(w), Attached(w),
           NEW inInput \in BOOLEAN, NEW closeErr \in BOOLEAN
    PROVE  /\ LetGo(FreeClient(w, inInput, closeErr))
           /\ inInput /\ InCallback(w) => InCallback(FreeClient(w, inInput, closeErr))
<1> DEFINE u == RemoveCallbacks(w)
           v == TcpClose(u, inInput)
<1>1. CASE closeErr
  <2>1. FreeClient(w, inInput, closeErr) = AbortClient(w)
    BY <1>1 DEF FreeClient, AbortClient
  <2> QED BY <2>1, AbortClientLemma
<1>2. CASE ~closeErr
  <2>1. /\ u \in Conn
        /\ u = [w EXCEPT !.errCb = FALSE, !.recvCb = FALSE, !.sentCb = FALSE]
    BY DEF RemoveCallbacks, Closable, Conn
  <2>2. PICK p \in {"delayed", "freed", "detached"} :
           v = [u EXCEPT !.pcb = p] /\ (inInput => p # "freed")
    BY DEF TcpClose
  <2>3. v \in Conn
    BY <2>1, <2>2, ZenonT(30) DEF Conn, Pcb
  <2>4. /\ v.frees = 0 /\ v.alive /\ v.refused = 0
        /\ ~v.errCb /\ ~v.recvCb /\ ~v.sentCb /\ ~v.aborted /\ v.pcb = p
        /\ ~v.socksClosed => (v.sending <=> v.up /\ v.buf > 0)
        /\ Begun(v)
        /\ v.tcpAbort = w.tcpAbort /\ v.dead = w.dead
    <3>1. w \in Conn
      BY DEF Closable
    <3>2. v = [w EXCEPT !.errCb = FALSE, !.recvCb = FALSE, !.sentCb = FALSE, !.pcb = p]
      BY <2>1, <2>2, <3>1 DEF Conn
    <3> HIDE DEF v
    <3> QED BY <3>1, <3>2 DEF Closable, Conn, Begun
  <2>5. FreeClient(w, inInput, closeErr) = HandleFreedClient(v)
    BY <1>2 DEF FreeClient
  <2> HIDE DEF v
  <2>6. ~Attached(v)
    BY <2>4 DEF Attached
  <2>7. inInput /\ InCallback(w) => InCallback(v)
    BY <2>2, <2>4 DEF InCallback, Closable, Attached
  <2> QED
    BY <2>3, <2>4, <2>5, <2>6, <2>7, HandleFreedClientLemma
<1> QED BY <1>1, <1>2

\* r is what a handler of an open client w left behind: nothing it could still
\* be called back for is lost, the window and what lwIP has queued still agree
\* with the buffers, and it closed the app's connection only after a flush.
Follows(w, r, inInput) ==
    /\ Sound(r)
    /\ r.frees = (IF r.alive THEN 0 ELSE 1)
    /\ r.recvCb => w.recvCb /\ r.buf + r.rcvWnd = w.buf + w.rcvWnd
    /\ r.sentCb => r.pending = r.queued
    /\ inInput /\ InCallback(w) => InCallback(r)
    /\ Attached(w) /\ r.pcb \in {"detached", "delayed"} => w.queued = 0 /\ w.rbuf = -1

\* A client whose job may run.
Ready(w) ==
    /\ Sound(w) /\ w.frees = 0 /\ w.alive
    /\ w.sentCb => w.pending = w.queued
    /\ w.recvCb => w.buf + w.rcvWnd <= Wnd

\* client_free_socks
LEMMA FreeSocksLemma ==
    ASSUME NEW w, Ready(w), ~w.socksClosed,
           NEW inInput \in BOOLEAN, NEW closeErr \in BOOLEAN
    PROVE  Follows(w, FreeSocks(w, inInput, closeErr), inInput)
<1> DEFINE cb == w.recvCb /\ (w.closed \/ ~w.up)
           v == SocksFree([w EXCEPT !.recvCb = cb])
           r == FreeSocks(w, inInput, closeErr)
<1> SUFFICES Follows(w, r, inInput)
  OBVIOUS
<1>0. w \in Conn /\ cb \in BOOLEAN
  BY DEF Ready, Sound
<1>1. v = [w EXCEPT !.recvCb = cb, !.socksClosed = TRUE,
                    !.sending = FALSE, !.recving = FALSE]
  BY <1>0 DEF SocksFree, Conn
<1>2. r = IF v.up /\ (v.rbuf >= 0 \/ v.pending > 0) /\ ~v.closed THEN v
          ELSE IF ~v.closed THEN FreeClient(v, inInput, closeErr)
          ELSE Dealloc(v)
  BY DEF FreeSocks
<1> HIDE DEF v, r
<1>3. v \in Conn
  <2> HIDE DEF cb
  <2> QED BY <1>0, <1>1, ZenonT(30) DEF Conn
<1>4. /\ v.up = w.up /\ v.rbuf = w.rbuf /\ v.pending = w.pending /\ v.queued = w.queued
      /\ v.closed = w.closed /\ v.alive = w.alive /\ v.frees = 0 /\ v.refused = w.refused
      /\ v.pcb = w.pcb /\ v.tcpAbort = w.tcpAbort /\ v.dead = w.dead
      /\ v.aborted = w.aborted /\ v.errCb = w.errCb /\ v.sentCb = w.sentCb
      /\ v.waiting = w.waiting /\ v.rsent = w.rsent /\ v.buf = w.buf
      /\ v.socksClosed /\ ~v.sending /\ ~v.recving
      /\ v.recvCb = cb
  BY <1>0, <1>1, ZenonT(30) DEF Conn, Ready
<1>5. Attached(v) <=> Attached(w)
  BY <1>4 DEF Attached
<1>6. InCallback(w) => InCallback(v)
  BY <1>4 DEF InCallback
<1>7. CASE v.up /\ (v.rbuf >= 0 \/ v.pending > 0) /\ ~v.closed
  <2>1. r = v
    BY <1>2, <1>7
  <2>2. Wired(v)
    BY <1>4, <1>5, <1>7 DEF Ready, Sound, Wired
  <2>3. Served(w)
    BY DEF Ready, Sound
  <2>4. v.rbuf \in {-1} \cup 1 .. RecvBuf
    BY <1>3 DEF Conn
  <2>5. v.pending > 0
    BY <1>4, <1>7, <2>3, <2>4, SizesAssumption DEF Served, SizesAssumption
  <2>6. Served(v) /\ Begun(v)
    BY <1>4, <1>7, <2>3, <2>5 DEF Served, Begun
  <2>7. Sound(v) /\ v.alive
    BY <1>3, <1>4, <1>5, <2>2, <2>6 DEF Ready, Sound
  <2>8. ~v.recvCb /\ v.pcb \notin {"detached", "delayed"}
    BY <1>4, <1>5, <1>7, <2>2, <2>7 DEF Wired, Attached
  <2> QED
    BY <1>4, <1>6, <2>1, <2>7, <2>8 DEF Follows, Ready
<1>8. CASE ~(v.up /\ (v.rbuf >= 0 \/ v.pending > 0)) /\ ~v.closed
  <2>1. r = FreeClient(v, inInput, closeErr)
    BY <1>2, <1>8
  <2>2. Attached(w) /\ ~w.aborted
    BY <1>4, <1>8 DEF Ready, Sound, Wired, Attached
  <2>3. Closable(v)
    BY <1>3, <1>4, <2>2 DEF Closable, Ready, Sound, Begun
  <2>4. w.rbuf \in {-1} \cup 1 .. RecvBuf /\ w.pending \in 0 .. SndBuf
    BY <1>0 DEF Conn
  <2>5. CASE w.up
    <3>1. w.sentCb /\ w.rbuf = -1 /\ w.pending = 0
      BY <1>4, <1>8, <2>4, <2>5, SizesAssumption DEF Ready, Sound, Wired, SizesAssumption
    <3>2. w.queued = 0
      BY <3>1 DEF Ready
    <3>3. LetGo(r) /\ (inInput /\ InCallback(v) => InCallback(r))
      BY <1>5, <2>1, <2>2, <2>3, FreeClientLemma
    <3> QED
      BY <1>6, <3>1, <3>2, <3>3 DEF Follows, LetGo, Sound, Wired
  <2>6. CASE ~w.up
    <3>1. w.rbuf = -1 /\ w.queued = 0
      BY <2>6 DEF Ready, Sound, Begun
    <3>3. LetGo(r) /\ (inInput /\ InCallback(v) => InCallback(r))
      BY <1>5, <2>1, <2>2, <2>3, FreeClientLemma
    <3> QED
      BY <1>6, <3>1, <3>3 DEF Follows, LetGo, Sound, Wired
  <2> QED BY <2>5, <2>6
<1>9. CASE v.closed
  <2>1. r = Dealloc(v)
    BY <1>2, <1>9
  <2>2. ~Attached(w)
    BY <1>4, <1>9 DEF Ready, Sound, Wired
  <2>3. LetGo(r) /\ (InCallback(v) => InCallback(r))
    BY <1>3, <1>4, <1>5, <2>1, <2>2, DeallocLemma DEF Ready
  <2> QED
    BY <1>6, <2>2, <2>3 DEF Follows, LetGo, Sound, Wired
<1> QED BY <1>7, <1>8, <1>9

\* A client that has just received from the SOCKS server, or been acknowledged,
\* and has something to queue.
Sending(w) ==
    /\ Closable(w) /\ Wired(w) /\ ~w.closed /\ w.up /\ ~w.recving
    /\ w.rbuf > 0 /\ w.rsent < w.rbuf
    /\ w.pending = w.queued
    /\ w.sending <=> ~w.socksClosed /\ w.buf > 0

\* w after a bytes of what was received remain, b of them queued, p in all.
Queued(w, a, b, p, x) ==
    [w EXCEPT !.rbuf = a, !.rsent = b, !.pending = p, !.queued = p, !.waiting = x]

\* It is still a connection.
LEMMA QueuedType ==
    ASSUME NEW w \in Conn, NEW a \in {-1} \cup 1 .. RecvBuf, NEW b \in 0 .. RecvBuf,
           NEW p \in 0 .. SndBuf, NEW x \in BOOLEAN
    PROVE  Queued(w, a, b, p, x) \in Conn
  BY DEF Conn, Queued

\* client_socks_recv_send_out aborts, or leaves something unacknowledged, and
\* waits for it exactly if not all was queued.
LEMMA SendOutLemma ==
    ASSUME NEW w, Sending(w), NEW wrote \in Wrote, NEW outErr \in BOOLEAN
    PROVE  \/ /\ LetGo(SendOut(w, wrote, outErr))
              /\ SendOut(w, wrote, outErr).pcb = "freed"
              /\ InCallback(SendOut(w, wrote, outErr))
           \/ \E a \in {-1} \cup 1 .. RecvBuf, b \in 0 .. RecvBuf,
                 p \in 1 .. SndBuf, x \in BOOLEAN :
                    /\ SendOut(w, wrote, outErr) = Queued(w, a, b, p, x)
                    /\ a # -1 => x /\ b < a
<1> DEFINE n == Least(w.rbuf - w.rsent, SndBuf - w.queued)
           v == IF n = 0 \/ wrote = "mem" THEN w
                ELSE [w EXCEPT !.rsent = @ + n, !.pending = @ + n, !.queued = @ + n]
           r == SendOut(w, wrote, outErr)
<1>1. /\ w \in Conn /\ w.rbuf \in 1 .. RecvBuf /\ w.rsent \in 0 .. RecvBuf
      /\ w.queued \in 0 .. SndBuf /\ w.pending = w.queued
      /\ w.rsent < w.rbuf /\ w.waiting \in BOOLEAN
  BY SizesAssumption DEF Sending, Closable, Conn, SizesAssumption
<1>2. /\ n \in Nat /\ n <= w.rbuf - w.rsent /\ n <= SndBuf - w.queued
      /\ n = w.rbuf - w.rsent \/ n = SndBuf - w.queued
  BY <1>1, SizesAssumption DEF Least, SizesAssumption
<1>3. r = IF (n > 0 /\ wrote = "err") \/ outErr THEN AbortClient(v)
          ELSE IF v.rsent < v.rbuf
          THEN IF v.pending = 0 THEN AbortClient(v)
               ELSE [v EXCEPT !.waiting = TRUE]
          ELSE [v EXCEPT !.rbuf = -1, !.rsent = 0]
  BY DEF SendOut
<1> HIDE DEF n
<1>4. PICK m \in Nat :
         /\ v = Queued(w, w.rbuf, w.rsent + m, w.queued + m, w.waiting)
         /\ m <= w.rbuf - w.rsent /\ m <= SndBuf - w.queued
         /\ ~(n > 0 /\ wrote = "mem") => m = n
         /\ m = 0 \/ m = n
  <2>1. CASE n = 0 \/ wrote = "mem"
    <3>1. w = Queued(w, w.rbuf, w.rsent + 0, w.queued + 0, w.waiting)
      <4>1. w.rsent + 0 = w.rsent /\ w.queued + 0 = w.queued
        BY <1>1, SizesAssumption DEF SizesAssumption
      <4>2. w = Queued(w, w.rbuf, w.rsent, w.queued, w.waiting)
        BY <1>1 DEF Queued, Conn
      <4> QED BY <4>1, <4>2
    <3>2. v = w
      BY <2>1
    <3> HIDE DEF v
    <3>3. /\ 0 \in Nat /\ 0 <= w.rbuf - w.rsent /\ 0 <= SndBuf - w.queued
          /\ ~(n > 0 /\ wrote = "mem") => 0 = n
      BY <1>1, <1>2, <2>1, SizesAssumption DEF SizesAssumption
    <3>4. v = Queued(w, w.rbuf, w.rsent + 0, w.queued + 0, w.waiting)
      BY <3>1, <3>2
    <3> QED BY <3>3, <3>4
  <2>2. CASE ~(n = 0 \/ wrote = "mem")
    <3>1. v = [w EXCEPT !.rsent = @ + n, !.pending = @ + n, !.queued = @ + n]
      BY <2>2
    <3>2. v = Queued(w, w.rbuf, w.rsent + n, w.queued + n, w.waiting)
      BY <1>1, <3>1 DEF Queued, Conn
    <3> HIDE DEF v
    <3> QED BY <1>2, <3>2
  <2> QED BY <2>1, <2>2
<1> HIDE DEF v, r
<1>5. /\ w.rsent + m \in 0 .. RecvBuf /\ w.queued + m \in 0 .. SndBuf
      /\ w.rbuf \in {-1} \cup 1 .. RecvBuf
  BY <1>1, <1>4, SizesAssumption DEF SizesAssumption
<1>6. v \in Conn
  BY <1>1, <1>4, <1>5, QueuedType
<1>7. /\ v.rbuf = w.rbuf /\ v.rsent = w.rsent + m /\ v.pending = w.queued + m
      /\ v.queued = w.queued + m
  BY <1>1, <1>4 DEF Queued, Conn
<1>8. Closable(v)
  <2>1. /\ v.frees = 0 /\ v.alive /\ v.refused = 0 /\ ~v.aborted /\ v.up /\ ~v.recving
        /\ v.sending = w.sending /\ v.socksClosed = w.socksClosed /\ v.buf = w.buf
    BY <1>1, <1>4 DEF Queued, Conn, Sending, Closable
  <2> QED BY <1>6, <2>1 DEF Closable, Begun, Sending
<1>9. CASE r = AbortClient(v)
  BY <1>8, <1>9, AbortClientLemma DEF r
<1>10. CASE v.rsent < v.rbuf /\ v.pending # 0 /\ r = [v EXCEPT !.waiting = TRUE]
  <2>1. r = Queued(w, w.rbuf, w.rsent + m, w.queued + m, TRUE)
    BY <1>1, <1>4, <1>10 DEF Queued, Conn
  <2>2. w.queued + m \in 1 .. SndBuf
    BY <1>5, <1>7, <1>10, SizesAssumption DEF SizesAssumption
  <2>3. \E a \in {-1} \cup 1 .. RecvBuf, b \in 0 .. RecvBuf, p \in 1 .. SndBuf, x \in BOOLEAN :
            /\ r = Queued(w, a, b, p, x)
            /\ a # -1 => x /\ b < a
    BY <1>5, <1>7, <1>10, <2>1, <2>2
  <2> QED BY <2>3 DEF r
<1>11. CASE ~(v.rsent < v.rbuf) /\ r = [v EXCEPT !.rbuf = -1, !.rsent = 0]
  <2>1. r = Queued(w, -1, 0, w.queued + m, w.waiting)
    BY <1>1, <1>4, <1>11 DEF Queued, Conn
  <2>2. w.queued + m \in 1 .. SndBuf
    BY <1>1, <1>4, <1>5, <1>7, <1>11, SizesAssumption DEF SizesAssumption
  <2>3. 0 \in 0 .. RecvBuf
    BY SizesAssumption DEF SizesAssumption
  <2>4. \E a \in {-1} \cup 1 .. RecvBuf, b \in 0 .. RecvBuf, p \in 1 .. SndBuf, x \in BOOLEAN :
            /\ r = Queued(w, a, b, p, x)
            /\ a # -1 => x /\ b < a
    BY <1>1, <2>1, <2>2, <2>3
  <2> QED BY <2>4 DEF r
<1> QED BY <1>3, <1>9, <1>10, <1>11

\* Receiving goes on if y.
Resumed(q, y) == IF y THEN [q EXCEPT !.recving = TRUE] ELSE q

\* Receiving goes on exactly when everything was queued and the SOCKS
\* connection is still there: then nobody waits for nothing.
LEMMA ResumedLemma ==
    ASSUME NEW w, Sending(w), NEW a \in {-1} \cup 1 .. RecvBuf, NEW b \in 0 .. RecvBuf,
           NEW p \in 1 .. SndBuf, NEW x \in BOOLEAN, a # -1 => x /\ b < a,
           NEW y \in BOOLEAN, y <=> ~w.socksClosed /\ a = -1
    PROVE  LET t == Resumed(Queued(w, a, b, p, x), y)
           IN  /\ Sound(t) /\ t.frees = 0 /\ t.alive /\ Attached(t)
               /\ t.recvCb = w.recvCb /\ t.buf = w.buf /\ t.rcvWnd = w.rcvWnd
               /\ t.pending = t.queued
               /\ InCallback(w) => InCallback(t)
<1> DEFINE q == Queued(w, a, b, p, x)
           t == Resumed(q, y)
<1> SUFFICES /\ Sound(t) /\ t.frees = 0 /\ t.alive /\ Attached(t)
             /\ t.recvCb = w.recvCb /\ t.buf = w.buf /\ t.rcvWnd = w.rcvWnd
             /\ t.pending = t.queued
             /\ InCallback(w) => InCallback(t)
  OBVIOUS
<1>1. w \in Conn /\ p \in 0 .. SndBuf
  BY SizesAssumption DEF Sending, Closable, SizesAssumption
<1>2. q \in Conn
  BY <1>1, QueuedType
<1>3. /\ q.rbuf = a /\ q.rsent = b /\ q.pending = p /\ q.queued = p /\ q.waiting = x
      /\ q.alive = w.alive /\ q.closed = w.closed /\ q.up = w.up
      /\ q.socksClosed = w.socksClosed /\ q.aborted = w.aborted /\ q.dead = w.dead
      /\ q.buf = w.buf /\ q.sending = w.sending /\ q.recving = w.recving
  BY <1>1 DEF Queued, Conn
<1>4. /\ q.pcb = w.pcb /\ q.recvCb = w.recvCb /\ q.sentCb = w.sentCb /\ q.errCb = w.errCb
      /\ q.rcvWnd = w.rcvWnd /\ q.refused = w.refused /\ q.tcpAbort = w.tcpAbort
      /\ q.frees = w.frees
  BY <1>1 DEF Queued, Conn
<1> HIDE DEF q
<1>5. t \in Conn
  <2>1. CASE y
    BY <1>2, <2>1 DEF Resumed, Conn
  <2>2. CASE ~y
    BY <1>2, <2>2 DEF Resumed
  <2> QED BY <2>1, <2>2
<1>6. /\ t.rbuf = a /\ t.rsent = b /\ t.pending = p /\ t.queued = p /\ t.waiting = x
      /\ t.alive = w.alive /\ t.closed = w.closed /\ t.up = w.up
      /\ t.socksClosed = w.socksClosed /\ t.aborted = w.aborted /\ t.dead = w.dead
      /\ t.buf = w.buf /\ t.sending = w.sending
  BY <1>2, <1>3 DEF Resumed, Conn
<1>7. /\ t.pcb = w.pcb /\ t.recvCb = w.recvCb /\ t.sentCb = w.sentCb /\ t.errCb = w.errCb
      /\ t.rcvWnd = w.rcvWnd /\ t.refused = w.refused /\ t.tcpAbort = w.tcpAbort
      /\ t.frees = w.frees
  BY <1>2, <1>4 DEF Resumed, Conn
<1>8. t.recving <=> y
  BY <1>2, <1>3 DEF Resumed, Conn, Sending
<1> HIDE DEF t
<1>9. Wired(t) /\ Attached(t) /\ t.alive /\ ~t.closed /\ t.up
  BY <1>6, <1>7 DEF Sending, Closable, Wired, Attached
<1>10. p > 0
  BY SizesAssumption DEF SizesAssumption
<1>11. Served(t)
  BY <1>6, <1>8, <1>9, <1>10 DEF Served, Sending
<1>12. Begun(t)
  BY <1>6, <1>8, <1>9 DEF Begun
<1>13. Sound(t) /\ t.frees = 0
  BY <1>5, <1>6, <1>7, <1>9, <1>11, <1>12 DEF Sound, Sending, Closable
<1> QED
  BY <1>6, <1>7, <1>9, <1>13 DEF InCallback

\* n bytes were received.
Received(w, n) ==
    [w EXCEPT !.rbuf = n, !.rsent = 0, !.waiting = FALSE, !.recving = FALSE]

\* It is still a connection.
LEMMA ReceivedType ==
    ASSUME NEW w \in Conn, NEW n \in 1 .. RecvBuf
    PROVE  Received(w, n) \in Conn
<1>1. n \in {-1} \cup 1 .. RecvBuf
  OBVIOUS
<1>2. 0 \in 0 .. RecvBuf
  BY SizesAssumption DEF SizesAssumption
<1> QED BY <1>1, <1>2 DEF Conn, Received

\* client_socks_recv_handler_done
LEMMA RecvHandlerDoneLemma ==
    ASSUME NEW w, Ready(w), w.recving, NEW n \in 1 .. RecvBuf,
           NEW wrote \in Wrote, NEW outErr \in BOOLEAN, NEW inInput \in BOOLEAN
    PROVE  Follows(w, RecvHandlerDone(w, n, wrote, outErr), inInput)
<1> DEFINE u == [w EXCEPT !.rbuf = n, !.rsent = 0, !.waiting = FALSE, !.recving = FALSE]
           s == SendOut(u, wrote, outErr)
           r == RecvHandlerDone(w, n, wrote, outErr)
<1> SUFFICES Follows(w, r, inInput)
  OBVIOUS
<1>0. w \in Conn
  BY DEF Ready, Sound
<1>1. /\ w \in Conn /\ w.alive /\ Sound(w) /\ Wired(w) /\ Served(w) /\ Begun(w)
      /\ w.frees = 0
  BY DEF Ready, Sound
<1>2. w.up /\ ~w.socksClosed
  BY <1>1 DEF Begun
<1>3. CASE w.closed
  <2>1. r = [w EXCEPT !.recving = FALSE]
    BY <1>3 DEF RecvHandlerDone
  <2> HIDE DEF r
  <2>2. r \in Conn
    BY <1>0, <2>1 DEF Conn
  <2>3. /\ r.alive /\ r.closed /\ r.up = w.up /\ r.socksClosed = w.socksClosed
        /\ r.aborted = w.aborted /\ r.dead = w.dead /\ r.buf = w.buf
        /\ r.rbuf = w.rbuf /\ r.pending = w.pending /\ r.sending = w.sending /\ ~r.recving
        /\ r.pcb = w.pcb /\ r.recvCb = w.recvCb /\ r.sentCb = w.sentCb
        /\ r.errCb = w.errCb /\ r.refused = w.refused /\ r.tcpAbort = w.tcpAbort
        /\ r.frees = 0 /\ r.queued = w.queued
    BY <1>1, <1>3, <2>1 DEF Conn
  <2>4. Wired(r) /\ ~Attached(w) /\ ~r.recvCb /\ ~r.sentCb
    BY <1>1, <1>3, <2>3 DEF Wired, Attached
  <2>5. Served(r) /\ Begun(r)
    <3>1. Served(r)
      BY <1>1, <1>3, <2>3 DEF Served
    <3>2. Begun(r)
      BY <1>2, <2>3 DEF Begun
    <3> QED BY <3>1, <3>2
  <2>6. Sound(r)
    BY <1>1, <2>2, <2>3, <2>4, <2>5 DEF Sound
  <2>7. InCallback(w) => InCallback(r)
    BY <2>3, <1>1 DEF InCallback
  <2> QED
    BY <2>3, <2>4, <2>6, <2>7 DEF Follows
<1>4. CASE ~w.closed
  <2>1. r = Resumed(s, ~s.closed /\ s.rbuf = -1)
    BY <1>4 DEF RecvHandlerDone, Resumed
  <2>2. u \in Conn
    BY <1>0, ReceivedType DEF Received
  <2>3. /\ u.alive /\ ~u.closed /\ u.up = w.up /\ u.socksClosed = w.socksClosed
        /\ u.aborted = w.aborted /\ u.dead = w.dead /\ u.buf = w.buf
        /\ u.rbuf = n /\ u.rsent = 0 /\ u.pending = w.pending /\ u.sending = w.sending
        /\ ~u.recving
    BY <1>1, <1>4 DEF Conn
  <2>4. /\ u.pcb = w.pcb /\ u.recvCb = w.recvCb /\ u.sentCb = w.sentCb
        /\ u.errCb = w.errCb /\ u.refused = w.refused /\ u.tcpAbort = w.tcpAbort
        /\ u.frees = 0 /\ u.queued = w.queued /\ u.rcvWnd = w.rcvWnd
    BY <1>1, <1>4 DEF Conn
  <2> HIDE DEF u, r
  <2>5. Attached(w) /\ w.sentCb /\ ~w.aborted
    BY <1>1, <1>2, <1>4 DEF Sound, Wired, Attached
  <2>6. Wired(u) /\ Begun(u)
    <3>1. Wired(u)
      BY <1>1, <1>4, <2>3, <2>4 DEF Wired, Attached
    <3>2. Begun(u)
      BY <1>2, <2>3 DEF Begun
    <3> QED BY <3>1, <3>2
  <2>7. n > 0
    BY SizesAssumption DEF SizesAssumption
  <2>8. Closable(u)
    BY <1>1, <1>2, <2>2, <2>3, <2>4, <2>5, <2>6 DEF Closable, Sound, Served
  <2>9. Sending(u)
    BY <1>1, <1>2, <2>3, <2>4, <2>5, <2>6, <2>7, <2>8 DEF Sending, Served, Ready
  <2>10. InCallback(w) => InCallback(u)
    BY <1>1, <2>3, <2>4 DEF InCallback
  <2> HIDE DEF s
  <2>11. CASE LetGo(s) /\ s.pcb = "freed" /\ InCallback(s)
    <3>1. r = s
      BY <2>1, <2>11 DEF Resumed, LetGo
    <3> QED BY <2>11, <3>1 DEF Follows, LetGo, Sound, Wired
  <2>12. ASSUME NEW a \in {-1} \cup 1 .. RecvBuf, NEW b \in 0 .. RecvBuf,
                NEW p \in 1 .. SndBuf, NEW x \in BOOLEAN,
                s = Queued(u, a, b, p, x), a # -1 => x /\ b < a
         PROVE  Follows(w, r, inInput)
    <3> DEFINE y == a = -1
    <3>1. ~s.closed /\ s.rbuf = a
      BY <2>2, <2>3, <2>12 DEF Queued, Conn
    <3>2. r = Resumed(Queued(u, a, b, p, x), y)
      BY <2>1, <2>12, <3>1
    <3>3. y \in BOOLEAN /\ (y <=> ~u.socksClosed /\ a = -1)
      BY <1>2, <2>3
    <3> HIDE DEF y
    <3>4. /\ Sound(r) /\ r.frees = 0 /\ r.alive /\ Attached(r)
          /\ r.recvCb = u.recvCb /\ r.buf = u.buf /\ r.rcvWnd = u.rcvWnd
          /\ r.pending = r.queued
          /\ InCallback(u) => InCallback(r)
      BY <2>9, <2>12, <3>2, <3>3, ResumedLemma
    <3> QED
      BY <2>3, <2>4, <2>10, <3>4 DEF Follows, Attached
  <2> QED
    BY <2>9, <2>11, <2>12, SendOutLemma DEF s
<1> QED BY <1>3, <1>4

\* n bytes were acknowledged.
Acknowledged(w, n) == [w EXCEPT !.pending = @ - n]
NotWaiting(v) == [v EXCEPT !.waiting = FALSE]

\* It is still a connection, and so it is when it no longer waits.
LEMMA AcknowledgedType ==
    ASSUME NEW w \in Conn, NEW n, w.pending - n \in 0 .. SndBuf
    PROVE  Acknowledged(w, n) \in Conn /\ NotWaiting(Acknowledged(w, n)) \in Conn
<1>1. Acknowledged(w, n) \in Conn
  BY DEF Conn, Acknowledged
<1>2. \A v \in Conn : NotWaiting(v) \in Conn
  BY ZenonT(30) DEF Conn, NotWaiting
<1> QED BY <1>1, <1>2

\* client_sent_func, with n bytes acknowledged.
LEMMA SentFuncLemma ==
    ASSUME NEW w, Sound(w), w.frees = 0, w.sentCb, NEW n \in 0 .. SndBuf,
           w.pending = w.queued + n,
           NEW wrote \in Wrote, NEW outErr \in BOOLEAN, NEW closeErr \in BOOLEAN
    PROVE  Follows(w, SentFunc(w, n, wrote, outErr, closeErr), TRUE)
<1> DEFINE v == Acknowledged(w, n)
           u == NotWaiting(v)
           s == SendOut(u, wrote, outErr)
           r == SentFunc(w, n, wrote, outErr, closeErr)
<1> SUFFICES Follows(w, r, TRUE)
  OBVIOUS
<1>0. w \in Conn
  BY DEF Sound
<1>1. /\ w.alive /\ ~w.closed /\ w.up /\ Attached(w) /\ ~w.aborted /\ w.errCb
      /\ Wired(w) /\ Served(w) /\ Begun(w) /\ w.refused = 0
  BY DEF Sound, Wired, Attached
<1>2. /\ w.queued \in 0 .. SndBuf /\ w.pending \in 0 .. SndBuf
      /\ w.rbuf \in {-1} \cup 1 .. RecvBuf
  BY <1>0 DEF Conn
<1>3. w.pending - n = w.queued
  BY <1>2, SizesAssumption DEF SizesAssumption
<1>4. v \in Conn /\ u \in Conn
  BY <1>0, <1>2, <1>3, AcknowledgedType
<1>5. r = IF v.rbuf > 0 THEN Resumed(s, ~s.closed /\ s.rbuf = -1 /\ ~s.socksClosed)
          ELSE IF v.socksClosed /\ v.pending = 0
               THEN FreeClient(v, TRUE, closeErr)
               ELSE v
  BY DEF SentFunc, Resumed, Acknowledged, NotWaiting
<1>6. /\ v.alive = w.alive /\ v.closed = w.closed /\ v.up = w.up
      /\ v.socksClosed = w.socksClosed /\ v.aborted = w.aborted /\ v.dead = w.dead
      /\ v.buf = w.buf /\ v.rbuf = w.rbuf /\ v.rsent = w.rsent
      /\ v.pending = w.queued /\ v.sending = w.sending /\ v.recving = w.recving
  BY <1>0, <1>3 DEF Acknowledged, Conn
<1>7. /\ v.pcb = w.pcb /\ v.recvCb = w.recvCb /\ v.sentCb = w.sentCb
      /\ v.errCb = w.errCb /\ v.refused = w.refused /\ v.tcpAbort = w.tcpAbort
      /\ v.frees = 0 /\ v.queued = w.queued /\ v.rcvWnd = w.rcvWnd
  BY <1>0 DEF Acknowledged, Conn
<1>8. Attached(v) /\ Wired(v) /\ Begun(v) /\ (InCallback(w) => InCallback(v))
  <2>1. Attached(v) /\ Wired(v)
    BY <1>1, <1>6, <1>7 DEF Attached, Wired
  <2>2. Begun(v)
    BY <1>1, <1>6 DEF Begun
  <2>3. InCallback(w) => InCallback(v)
    BY <1>1, <1>6, <1>7 DEF InCallback
  <2> QED BY <2>1, <2>2, <2>3
<1> HIDE DEF v, r
<1>9. CASE v.rbuf > 0
  <2>1. r = Resumed(s, ~s.closed /\ s.rbuf = -1 /\ ~s.socksClosed)
    BY <1>5, <1>9
  <2>2. /\ u.alive /\ ~u.closed /\ u.up
        /\ u.socksClosed = w.socksClosed /\ u.aborted = w.aborted /\ u.dead = w.dead
        /\ u.buf = w.buf /\ u.rbuf = w.rbuf /\ u.rsent = w.rsent
        /\ u.pending = w.queued /\ u.sending = w.sending /\ u.recving = w.recving
    BY <1>1, <1>4, <1>6 DEF NotWaiting, Conn
  <2>3. /\ u.pcb = w.pcb /\ u.recvCb = w.recvCb /\ u.sentCb = w.sentCb
        /\ u.errCb = w.errCb /\ u.refused = w.refused /\ u.tcpAbort = w.tcpAbort
        /\ u.frees = 0 /\ u.queued = w.queued /\ u.rcvWnd = w.rcvWnd
    BY <1>4, <1>7 DEF NotWaiting, Conn
  <2> HIDE DEF u
  <2>4. w.rbuf > 0 /\ w.rbuf # -1
    BY <1>2, <1>6, <1>9, SizesAssumption DEF SizesAssumption
  <2>5. ~w.recving
    BY <1>1, <2>4 DEF Served, Begun
  <2>6. Wired(u)
    BY <1>1, <2>2, <2>3 DEF Wired, Attached
  <2>7. Begun(u)
    BY <1>1, <2>2, <2>5 DEF Begun
  <2>8. Closable(u)
    BY <1>1, <1>4, <2>2, <2>3, <2>7 DEF Closable, Served
  <2>9. Sending(u)
    BY <1>1, <2>2, <2>3, <2>4, <2>5, <2>6, <2>8 DEF Sending, Served
  <2>10. InCallback(w) => InCallback(u)
    BY <1>1, <2>2, <2>3 DEF InCallback
  <2> HIDE DEF s
  <2>11. CASE LetGo(s) /\ s.pcb = "freed" /\ InCallback(s)
    <3>1. r = s
      BY <2>1, <2>11 DEF Resumed, LetGo
    <3> QED BY <2>11, <3>1 DEF Follows, LetGo, Sound, Wired
  <2>12. CASE \E a \in {-1} \cup 1 .. RecvBuf, b \in 0 .. RecvBuf,
                 p \in 1 .. SndBuf, x \in BOOLEAN :
                    s = Queued(u, a, b, p, x) /\ (a # -1 => x /\ b < a)
    <3>0. PICK a \in {-1} \cup 1 .. RecvBuf, b \in 0 .. RecvBuf,
               p \in 1 .. SndBuf, x \in BOOLEAN :
                  s = Queued(u, a, b, p, x) /\ (a # -1 => x /\ b < a)
      BY <2>12
    <3> DEFINE y == a = -1 /\ ~u.socksClosed
    <3>1. ~s.closed /\ s.rbuf = a /\ s.socksClosed = u.socksClosed
      BY <1>4, <2>2, <3>0 DEF Queued, Conn
    <3>2. r = Resumed(Queued(u, a, b, p, x), y)
      BY <2>1, <3>0, <3>1 DEF Resumed
    <3>3. y \in BOOLEAN /\ (y <=> ~u.socksClosed /\ a = -1)
      OBVIOUS
    <3> HIDE DEF y
    <3>4. /\ Sound(r) /\ r.frees = 0 /\ r.alive /\ Attached(r)
          /\ r.recvCb = u.recvCb /\ r.buf = u.buf /\ r.rcvWnd = u.rcvWnd
          /\ r.pending = r.queued
          /\ InCallback(u) => InCallback(r)
      BY <2>9, <3>0, <3>2, <3>3, ResumedLemma
    <3> QED
      BY <2>2, <2>3, <2>10, <3>4 DEF Follows, Attached
  <2>13. \/ LetGo(s) /\ s.pcb = "freed" /\ InCallback(s)
         \/ \E a \in {-1} \cup 1 .. RecvBuf, b \in 0 .. RecvBuf,
               p \in 1 .. SndBuf, x \in BOOLEAN :
                  s = Queued(u, a, b, p, x) /\ (a # -1 => x /\ b < a)
    BY <2>9, SendOutLemma DEF s
  <2> QED
    BY <2>11, <2>12, <2>13
<1>10. CASE ~(v.rbuf > 0) /\ v.socksClosed /\ v.pending = 0
  <2>1. r = FreeClient(v, TRUE, closeErr)
    BY <1>5, <1>10
  <2>2. Closable(v)
    BY <1>1, <1>4, <1>6, <1>7, <1>8, <1>10 DEF Closable
  <2>3. LetGo(r) /\ (InCallback(v) => InCallback(r))
    BY <1>8, <2>1, <2>2, FreeClientLemma
  <2>4. w.rbuf = -1 /\ w.queued = 0
    BY <1>2, <1>6, <1>10, SizesAssumption DEF SizesAssumption
  <2> QED
    BY <1>8, <2>3, <2>4 DEF Follows, LetGo, Sound, Wired
<1>11. CASE ~(v.rbuf > 0) /\ ~(v.socksClosed /\ v.pending = 0)
  <2>1. r = v
    BY <1>5, <1>11
  <2>2. v.pending \in 0 .. SndBuf
    BY <1>4 DEF Conn
  <2>3. v.socksClosed => v.pending > 0
    BY <1>11, <2>2, SizesAssumption DEF SizesAssumption
  <2>4. Served(v)
    BY <1>1, <1>6, <1>11, <2>3 DEF Served
  <2>5. Sound(v)
    BY <1>1, <1>4, <1>6, <1>7, <1>8, <2>4 DEF Sound
  <2> QED
    BY <1>1, <1>6, <1>7, <1>8, <2>1, <2>5 DEF Follows, Attached
<1> QED BY <1>9, <1>10, <1>11

\* What a send moves: n bytes out of the buffer, m of window given back.
Moved(w, b, m, y) == [w EXCEPT !.buf = b, !.rcvWnd = m, !.sending = y]

\* It is still a connection.
LEMMA MovedType ==
    ASSUME NEW w \in Conn, NEW b \in 0 .. Wnd, NEW m \in 0 .. Wnd, NEW y \in BOOLEAN
    PROVE  Moved(w, b, m, y) \in Conn
  BY DEF Moved, Conn

\* A send keeps a client in order if it is under way exactly while there is data.
LEMMA MovedLemma ==
    ASSUME NEW w, Sound(w), w.alive, w.frees = 0,
           NEW b \in 0 .. Wnd, NEW m \in 0 .. Wnd, NEW y \in BOOLEAN,
           y <=> w.up /\ ~w.socksClosed /\ b > 0, w.closed => b > 0
    PROVE  LET t == Moved(w, b, m, y)
           IN  /\ Sound(t) /\ t.frees = 0 /\ t.alive
               /\ t.pcb = w.pcb /\ t.recvCb = w.recvCb /\ t.sentCb = w.sentCb
               /\ t.pending = w.pending /\ t.queued = w.queued
               /\ t.buf = b /\ t.rcvWnd = m
               /\ InCallback(w) => InCallback(t)
<1> DEFINE t == Moved(w, b, m, y)
<1> SUFFICES /\ Sound(t) /\ t.frees = 0 /\ t.alive
             /\ t.pcb = w.pcb /\ t.recvCb = w.recvCb /\ t.sentCb = w.sentCb
             /\ t.pending = w.pending /\ t.queued = w.queued
             /\ t.buf = b /\ t.rcvWnd = m
             /\ InCallback(w) => InCallback(t)
  OBVIOUS
<1>0. w \in Conn
  BY DEF Sound
<1>1. t \in Conn
  BY <1>0, MovedType
<1>2. /\ t.alive = w.alive /\ t.closed = w.closed /\ t.up = w.up
      /\ t.socksClosed = w.socksClosed /\ t.aborted = w.aborted /\ t.dead = w.dead
      /\ t.buf = b /\ t.rbuf = w.rbuf /\ t.rsent = w.rsent /\ t.waiting = w.waiting
      /\ t.pending = w.pending /\ t.sending = y /\ t.recving = w.recving
  BY <1>0, ZenonT(30) DEF Moved, Conn
<1>3. /\ t.pcb = w.pcb /\ t.recvCb = w.recvCb /\ t.sentCb = w.sentCb
      /\ t.errCb = w.errCb /\ t.refused = w.refused /\ t.tcpAbort = w.tcpAbort
      /\ t.frees = 0 /\ t.queued = w.queued /\ t.rcvWnd = m
  BY <1>0 DEF Moved, Conn
<1> HIDE DEF t
<1>4. Wired(t)
  BY <1>2, <1>3 DEF Sound, Wired, Attached
<1>5. Served(t)
  <2>1. Served(w)
    BY DEF Sound
  <2> QED BY <1>2, <2>1 DEF Served
<1>6. Begun(t)
  <2>1. Begun(w)
    BY DEF Sound
  <2> QED BY <1>2, <1>3, <2>1 DEF Begun
<1>7. Sound(t)
  BY <1>1, <1>2, <1>3, <1>4, <1>5, <1>6 DEF Sound
<1> QED
  BY <1>2, <1>3, <1>7 DEF InCallback

\* client_socks_send_handler_done: what went out of the buffer is given back to
\* the window.
LEMMA SendHandlerDoneLemma ==
    ASSUME NEW w, Ready(w), w.sending, NEW n \in 1 .. w.buf,
           NEW inInput \in BOOLEAN, NEW closeErr \in BOOLEAN
    PROVE  Follows(w, SendHandlerDone(w, n, inInput, closeErr), inInput)
<1> DEFINE r == SendHandlerDone(w, n, inInput, closeErr)
           u == [w EXCEPT !.buf = @ - n]
           b == w.buf - n
<1> SUFFICES Follows(w, r, inInput)
  OBVIOUS
<1>0. w \in Conn
  BY DEF Ready, Sound
<1>1. /\ w.buf \in 0 .. Wnd /\ w.rcvWnd \in 0 .. Wnd /\ b \in 0 .. Wnd
  BY <1>0, SizesAssumption DEF Conn, SizesAssumption
<1>2. w.up /\ ~w.socksClosed /\ w.alive /\ Sound(w) /\ w.frees = 0
  BY DEF Ready, Sound, Served
<1>3. /\ u \in Conn /\ u.closed = w.closed /\ u.buf = b
      /\ u.rcvWnd = w.rcvWnd /\ u.alive /\ u.frees = 0 /\ u.sending
  BY <1>0, <1>1, <1>2 DEF Conn
<1>4. CASE w.closed
  <2>0. ~Attached(w) /\ ~w.recvCb
    BY <1>2, <1>4 DEF Sound, Wired
  <2>1. CASE b > 0
    <3>1. r = u
      BY <1>3, <1>4, <2>1 DEF SendHandlerDone
    <3> DEFINE y == TRUE
    <3>2. u = Moved(w, b, w.rcvWnd, y)
      BY <1>0, <1>2 DEF Moved, Conn, Sound, Served
    <3>a. y \in BOOLEAN /\ (y <=> w.up /\ ~w.socksClosed /\ b > 0) /\ (w.closed => b > 0)
      BY <1>2, <2>1
    <3> HIDE DEF u, r, b, y
    <3>3. /\ Sound(r) /\ r.frees = 0 /\ r.alive /\ r.recvCb = w.recvCb /\ r.sentCb = w.sentCb
          /\ r.pending = w.pending /\ r.queued = w.queued
          /\ InCallback(w) => InCallback(r)
      BY <1>1, <1>2, <3>1, <3>2, <3>a, MovedLemma
    <3> QED BY <2>0, <3>3 DEF Follows, Ready
  <2>2. CASE ~(b > 0)
    <3> DEFINE cb == u.recvCb /\ (u.closed \/ ~u.up)
               v == SocksFree([u EXCEPT !.recvCb = cb])
    <3>1. r = Dealloc(v)
      <4>1. r = FreeSocks(u, inInput, closeErr)
        BY <1>3, <1>4, <2>2 DEF SendHandlerDone
      <4>2. v.closed
        BY <1>3, <1>4 DEF SocksFree, Conn
      <4> QED BY <4>1, <4>2 DEF FreeSocks
    <3>2. v = [u EXCEPT !.recvCb = cb, !.socksClosed = TRUE,
                        !.sending = FALSE, !.recving = FALSE]
      BY <1>3 DEF SocksFree, Conn
    <3>3. cb \in BOOLEAN
      OBVIOUS
    <3>4. /\ u.pcb = w.pcb /\ u.tcpAbort = w.tcpAbort /\ u.dead = w.dead
          /\ u.aborted = w.aborted
      BY <1>0 DEF Conn
    <3> HIDE DEF u, r, cb, v
    <3>5. v \in Conn
      <4>1. u \in Conn
        BY <1>3
      <4> QED BY <3>2, <3>3, <4>1, ZenonT(30) DEF Conn
    <3>6. /\ v.frees = 0 /\ v.alive /\ v.pcb = w.pcb /\ v.tcpAbort = w.tcpAbort
          /\ v.dead = w.dead /\ v.aborted = w.aborted
      BY <1>3, <3>2, <3>4 DEF Conn
    <3>7. ~Attached(v) /\ (InCallback(w) => InCallback(v))
      BY <1>2, <2>0, <3>6 DEF Attached, InCallback
    <3>8. LetGo(r) /\ (InCallback(v) => InCallback(r))
      BY <3>1, <3>5, <3>6, <3>7, DeallocLemma
    <3> QED BY <2>0, <3>7, <3>8 DEF Follows, LetGo, Sound, Wired
  <2> QED BY <2>1, <2>2
<1>5. CASE ~w.closed
  <2> DEFINE m == w.rcvWnd + n
             y == b > 0
             v == TcpRecved(u, n)
  <2>1. w.recvCb /\ w.buf + w.rcvWnd <= Wnd
    BY <1>2, <1>5 DEF Sound, Wired, Ready
  <2>2. m \in 0 .. Wnd /\ b + m = w.buf + w.rcvWnd
    BY <1>1, <2>1, SizesAssumption DEF SizesAssumption
  <2>3. v = [u EXCEPT !.rcvWnd = m]
    <3>1. m <= Wnd
      BY <2>2, SizesAssumption DEF SizesAssumption
    <3>2. Least(u.rcvWnd + n, Wnd) = m
      BY <1>3, <3>1 DEF Least
    <3> QED BY <3>2 DEF TcpRecved
  <2>4. r = IF v.buf > 0 THEN v ELSE [v EXCEPT !.sending = FALSE]
    <3>1. v.closed = FALSE
      BY <1>3, <1>5, <2>3 DEF Conn
    <3> QED BY <1>3, <1>5, <3>1 DEF SendHandlerDone
  <2>5. r = Moved(w, b, m, y)
    <3> HIDE DEF v, m, r
    <3>1. u = [w EXCEPT !.buf = b]
      BY <1>0 DEF Conn
    <3>2. v.buf = b /\ v.sending = TRUE
      BY <1>0, <1>3, <2>3, <3>1 DEF Conn
    <3>3. v = Moved(w, b, m, TRUE)
      BY <1>0, <2>3, <3>1 DEF Moved, Conn
    <3>4. CASE b > 0
      BY <2>4, <3>2, <3>3, <3>4
    <3>5. CASE ~(b > 0)
      <4>1. r = [v EXCEPT !.sending = FALSE] /\ y = FALSE
        BY <2>4, <3>2, <3>5
      <4> QED BY <1>0, <3>3, <4>1 DEF Moved, Conn
    <3> QED BY <3>4, <3>5
  <2>6. y \in BOOLEAN /\ (y <=> w.up /\ ~w.socksClosed /\ b > 0) /\ (w.closed => b > 0)
    BY <1>2, <1>5
  <2> HIDE DEF r, m, y, u, v, b
  <2>7. /\ Sound(r) /\ r.frees = 0 /\ r.alive /\ r.recvCb = w.recvCb /\ r.sentCb = w.sentCb
        /\ r.pending = w.pending /\ r.queued = w.queued /\ r.pcb = w.pcb
        /\ r.buf = b /\ r.rcvWnd = m
        /\ InCallback(w) => InCallback(r)
    BY <1>1, <1>2, <2>2, <2>5, <2>6, MovedLemma
  <2> QED BY <2>1, <2>2, <2>7 DEF Follows, Ready, Attached
<1> QED BY <1>4, <1>5

\* client_recv_func with data that fits, which it always does.
LEMMA RecvFuncLemma ==
    ASSUME NEW w, Sound(w), w.frees = 0, w.recvCb, NEW n \in 1 .. Wnd, n <= Wnd - w.buf
    PROVE  LET r == RecvFunc(w, n)
           IN  /\ Sound(r) /\ r.frees = 0 /\ r.alive
               /\ r.pcb = w.pcb /\ r.sentCb = w.sentCb /\ r.recvCb
               /\ r.pending = w.pending /\ r.queued = w.queued
               /\ r.buf = w.buf + n /\ r.rcvWnd = w.rcvWnd
               /\ InCallback(w) => InCallback(r)
<1> DEFINE r == RecvFunc(w, n)
           b == w.buf + n
           m == w.rcvWnd
           y == w.sending \/ (w.buf = 0 /\ w.up)
<1>0. /\ w \in Conn /\ w.alive /\ ~w.closed /\ ~w.socksClosed
      /\ w.sending <=> w.up /\ w.buf > 0
  BY DEF Sound, Wired, Served
<1>1. /\ w.buf \in 0 .. Wnd /\ w.rcvWnd \in 0 .. Wnd /\ b \in 0 .. Wnd /\ b > 0
      /\ ~(n > Wnd - w.buf)
  BY <1>0, SizesAssumption DEF Conn, SizesAssumption
<1>2. y \in BOOLEAN /\ (y <=> w.up /\ ~w.socksClosed /\ b > 0) /\ (w.closed => b > 0)
  BY <1>0, <1>1, SizesAssumption DEF Conn, SizesAssumption
<1>3. r = Moved(w, b, m, y)
  <2>1. r = [w EXCEPT !.buf = b, !.sending = y]
    BY <1>1 DEF RecvFunc
  <2> HIDE DEF r, b, y
  <2> QED BY <1>0, <2>1 DEF Moved, Conn
<1>4. w.alive /\ b \in 0 .. Wnd /\ m \in 0 .. Wnd
  BY <1>0, <1>1
<1> HIDE DEF b, y, m, r
<1>5. /\ Sound(r) /\ r.frees = 0 /\ r.alive
      /\ r.pcb = w.pcb /\ r.sentCb = w.sentCb
      /\ r.pending = w.pending /\ r.queued = w.queued
      /\ r.buf = b /\ r.rcvWnd = m
      /\ InCallback(w) => InCallback(r)
  BY <1>2, <1>3, <1>4, MovedLemma
<1>6. r.recvCb
  BY <1>3, <1>0 DEF Moved, Conn
<1> QED BY <1>5, <1>6 DEF r, b, m

\* client_socks_handler: the SOCKS connection is up.
LEMMA SocksUpType ==
    ASSUME NEW w \in Conn, NEW s \in BOOLEAN, NEW t \in BOOLEAN, NEW y \in BOOLEAN
    PROVE  [w EXCEPT !.rbuf = -1, !.pending = 0, !.sentCb = s, !.up = TRUE,
                     !.sending = t, !.recving = y] \in Conn
<1>1. -1 \in {-1} \cup 1 .. RecvBuf
  OBVIOUS
<1>2. 0 \in 0 .. SndBuf
  BY SizesAssumption DEF SizesAssumption
<1> QED BY <1>1, <1>2 DEF Conn

\* client_socks_handler, BSOCKSCLIENT_EVENT_UP, leaves a client in order.
LEMMA SocksUpLemma ==
    ASSUME NEW w, Ready(w), ~w.up, ~w.socksClosed, NEW inInput \in BOOLEAN
    PROVE  Follows(w, SocksUpHandler(w), inInput)
<1> DEFINE r == SocksUpHandler(w)
<1> SUFFICES Follows(w, r, inInput)
  OBVIOUS
<1>0. w \in Conn
  BY DEF Ready, Sound
<1>1. /\ w.alive /\ Wired(w) /\ Served(w) /\ Begun(w) /\ w.refused = 0 /\ w.frees = 0
      /\ w.aborted => w.pcb = "freed"
  BY DEF Ready, Sound
<1>2. r \in Conn
  <2> DEFINE s == ~w.closed
             t == w.buf > 0
  <2>1. s \in BOOLEAN /\ t \in BOOLEAN
    OBVIOUS
  <2>2. r = [w EXCEPT !.rbuf = -1, !.pending = 0, !.sentCb = s, !.up = TRUE,
                      !.sending = t, !.recving = s]
    BY DEF SocksUpHandler
  <2> HIDE DEF s, t, r
  <2>3. [w EXCEPT !.rbuf = -1, !.pending = 0, !.sentCb = s, !.up = TRUE,
                  !.sending = t, !.recving = s] \in Conn
    BY <1>0, <2>1, SocksUpType
  <2> QED BY <2>2, <2>3
<1>3. /\ r.alive = w.alive /\ r.closed = w.closed /\ r.up
      /\ r.socksClosed = w.socksClosed /\ r.aborted = w.aborted /\ r.dead = w.dead
      /\ r.buf = w.buf /\ r.rbuf = -1 /\ r.pending = 0
      /\ r.sending <=> w.buf > 0
      /\ r.recving <=> ~w.closed
  BY <1>0 DEF SocksUpHandler, Conn
<1>4. /\ r.pcb = w.pcb /\ r.recvCb = w.recvCb /\ r.errCb = w.errCb
      /\ r.sentCb <=> ~w.closed
      /\ r.refused = w.refused /\ r.tcpAbort = w.tcpAbort
      /\ r.frees = w.frees /\ r.queued = w.queued /\ r.rcvWnd = w.rcvWnd
  BY <1>0 DEF SocksUpHandler, Conn
<1> HIDE DEF r
<1>5. Wired(r)
  BY <1>1, <1>3, <1>4 DEF Wired, Attached
<1>6. Served(r)
  <2>1. ~(r.rbuf > 0)
    BY <1>3
  <2> QED BY <1>1, <1>3, <2>1 DEF Served
<1>7. Begun(r)
  BY <1>3 DEF Begun
<1>8. Sound(r)
  BY <1>1, <1>2, <1>3, <1>4, <1>5, <1>6, <1>7 DEF Sound
<1>9. r.pending = r.queued /\ w.rbuf = -1 /\ w.queued = 0
  BY <1>1, <1>3, <1>4 DEF Begun
<1>10. InCallback(w) => InCallback(r)
  BY <1>1, <1>3, <1>4 DEF InCallback
<1> QED
  BY <1>1, <1>3, <1>4, <1>8, <1>9, <1>10 DEF Follows

\* client_murder: the client is freed, once.
LEMMA MurderLemma ==
    ASSUME NEW w, Ready(w)
    PROVE  Follows(w, Murder(w), FALSE)
<1> DEFINE q == IF w.closed THEN w ELSE AbortPcb(RemoveCallbacks(w))
           v == SocksFree([q EXCEPT !.closed = TRUE])
           r == Murder(w)
<1> SUFFICES Follows(w, r, FALSE)
  OBVIOUS
<1>0. w \in Conn
  BY DEF Ready, Sound
<1>1. r = Dealloc(v)
  BY DEF Murder
<1>2. q \in Conn /\ q.alive = w.alive /\ q.frees = w.frees /\ ~Attached(q)
      /\ (Attached(w) => q.pcb = "freed")
  <2>1. CASE w.closed
    BY <1>0, <2>1 DEF Ready, Sound, Wired
  <2>2. CASE ~w.closed
    <3>1. q = [w EXCEPT !.errCb = FALSE, !.recvCb = FALSE, !.sentCb = FALSE,
                        !.pcb = "freed", !.tcpAbort = TRUE, !.aborted = TRUE, !.dead = 1]
      BY <1>0, <2>2 DEF AbortPcb, RemoveCallbacks, TcpAbort, Conn
    <3> HIDE DEF q
    <3>2. q \in Conn
      BY <1>0, <3>1, ZenonT(30) DEF Conn, Pcb
    <3>3. q.alive = w.alive /\ q.frees = w.frees /\ q.pcb = "freed"
      BY <1>0, <3>1 DEF Conn
    <3> QED BY <3>2, <3>3 DEF Attached
  <2> QED BY <2>1, <2>2
<1> HIDE DEF q
<1>3. v = [q EXCEPT !.closed = TRUE, !.socksClosed = TRUE,
                    !.sending = FALSE, !.recving = FALSE]
  BY <1>2 DEF SocksFree, Conn
<1> HIDE DEF v, r
<1>4. v \in Conn
  <2>1. q \in Conn
    BY <1>2
  <2> QED BY <1>3, <2>1 DEF Conn
<1>5. v.alive /\ v.frees = 0 /\ v.pcb = q.pcb
  BY <1>2, <1>3, ZenonT(30) DEF Conn, Ready
<1>6. ~Attached(v)
  BY <1>2, <1>5 DEF Attached
<1>7. LetGo(r) /\ r.pcb = q.pcb
  BY <1>1, <1>4, <1>5, <1>6, DeallocLemma
<1> QED
  BY <1>2, <1>7 DEF Follows, LetGo, Sound, Wired

\* client_err_func: lwIP has deallocated the pcb.
LEMMA ClientErrLemma ==
    ASSUME NEW w, Ready(w), w.errCb
    PROVE  Follows(w, HandleFreedClient(RemoveCallbacks([w EXCEPT !.pcb = "freed"])), FALSE)
<1> DEFINE v == RemoveCallbacks([w EXCEPT !.pcb = "freed"])
           r == HandleFreedClient(v)
<1> SUFFICES Follows(w, r, FALSE)
  OBVIOUS
<1>0. w \in Conn
  BY DEF Ready, Sound
<1>1. v = [w EXCEPT !.pcb = "freed", !.errCb = FALSE, !.recvCb = FALSE, !.sentCb = FALSE]
  BY <1>0 DEF RemoveCallbacks, Conn
<1>2. /\ w.alive /\ ~w.closed /\ w.frees = 0 /\ w.refused = 0
      /\ Served(w) /\ Begun(w)
  BY DEF Ready, Sound, Wired
<1> HIDE DEF v
<1>3. v \in Conn
  BY <1>0, <1>1, ZenonT(30) DEF Conn, Pcb
<1>4. /\ v.alive /\ v.frees = 0 /\ v.refused = 0
      /\ ~v.errCb /\ ~v.recvCb /\ ~v.sentCb /\ v.pcb = "freed"
      /\ v.socksClosed = w.socksClosed /\ v.sending = w.sending
      /\ v.up = w.up /\ v.buf = w.buf /\ v.rbuf = w.rbuf /\ v.pending = w.pending
      /\ v.queued = w.queued /\ v.recving = w.recving
  BY <1>0, <1>1, <1>2 DEF Conn
<1>5. ~Attached(v) /\ Begun(v)
  BY <1>2, <1>4 DEF Attached, Begun
<1>6. ~v.socksClosed => (v.sending <=> v.up /\ v.buf > 0)
  BY <1>2, <1>4 DEF Served
<1>7. LetGo(r) /\ r.pcb = "freed"
  BY <1>3, <1>4, <1>5, <1>6, HandleFreedClientLemma
<1> HIDE DEF r
<1> QED
  BY <1>7 DEF Follows, LetGo, Sound, Wired

-----------------------------------------------------------------------------
(* Steps *)

\* num_clients counts the clients when one is freed, and when one is accepted.
LEMMA CountLemma ==
    ASSUME NEW f \in [Clients -> Conn], NEW c \in Clients, NEW s \in Conn,
           NEW g, g = [f EXCEPT ![c] = s], NEW num,
           num = Cardinality({d \in Clients : f[d].alive})
    PROVE  /\ f[c].alive /\ ~s.alive => num - 1 = Cardinality({d \in Clients : g[d].alive})
           /\ ~f[c].alive /\ s.alive => num + 1 = Cardinality({d \in Clients : g[d].alive})
           /\ (f[c].alive <=> s.alive) => num = Cardinality({d \in Clients : g[d].alive})
<1> DEFINE A == {d \in Clients : f[d].alive}
           B == {d \in Clients : g[d].alive}
<1>1. \A d \in Clients : d # c => g[d] = f[d]
  OBVIOUS
<1>2. g[c] = s
  OBVIOUS
<1>3. IsFiniteSet(A)
  <2>1. A \subseteq Clients
    OBVIOUS
  <2> QED BY <2>1, ClientsAssumption, FS_Subset DEF ClientsAssumption
<1>4. Cardinality(A) \in Nat
  BY <1>3, FS_CardinalityType
<1>5. ASSUME f[c].alive, ~s.alive
      PROVE  num - 1 = Cardinality(B)
  <2>1. c \in A /\ B = A \ {c}
    BY <1>1, <1>2, <1>5
  <2> HIDE DEF A, B
  <2>2. Cardinality(A \ {c}) = Cardinality(A) - 1
    BY <1>3, <2>1, FS_RemoveElement
  <2> QED BY <2>1, <2>2 DEF A
<1>6. ASSUME ~f[c].alive, s.alive
      PROVE  num + 1 = Cardinality(B)
  <2>1. c \notin A /\ B = A \cup {c}
    BY <1>1, <1>2, <1>6
  <2> HIDE DEF A, B
  <2>2. Cardinality(A \cup {c}) = Cardinality(A) + 1
    BY <1>3, <2>1, FS_AddElement
  <2> QED BY <2>1, <2>2 DEF A
<1>7. ASSUME f[c].alive <=> s.alive
      PROVE  num = Cardinality(B)
  <2>1. B = A
    BY <1>1, <1>2, <1>7
  <2> QED BY <2>1
<1> QED BY <1>5, <1>6, <1>7

\* Every deallocation of client c is counted.
Accounted(c, w) ==
    /\ w.frees = (IF conn[c].alive /\ ~w.alive THEN 1 ELSE 0)
    /\ w.alive => conn[c].alive

\* The app's connection is closed only after a flush: FlushBeforeClose for one
\* step, and for what client c becomes in it.
FlushStep ==
    \A c \in Clients :
        /\ Attached(conn[c])
        /\ conn'[c].pcb \in {"detached", "delayed"}
        /\ input.phase # "fin"
        => conn[c].queued = 0 /\ conn[c].rbuf = -1
Flushed(c, w) ==
    /\ Attached(conn[c])
    /\ w.pcb \in {"detached", "delayed"}
    /\ input.phase # "fin"
    => conn[c].queued = 0 /\ conn[c].rbuf = -1

\* A slot is reused only when its client is freed and lwIP is done with it.
LEMMA SettleLemma ==
    ASSUME NEW w, NEW in, ClientOK(w, in), InputOK(in)
    PROVE  LET s == Settle(w, in.phase = "idle")
           IN  /\ ClientOK(s, in) /\ s \in Conn /\ s.frees = 0 /\ s.alive = w.alive
               /\ s.pcb \in {w.pcb, "none"}
<1> DEFINE s == Settle(w, in.phase = "idle")
<1> SUFFICES /\ ClientOK(s, in) /\ s \in Conn /\ s.frees = 0 /\ s.alive = w.alive
             /\ s.pcb \in {w.pcb, "none"}
  OBVIOUS
<1>0. w \in Conn /\ w.alive \in BOOLEAN
  BY DEF ClientOK, Sound, Conn
<1>1. CASE in.phase = "idle" /\ ~w.alive
  <2>1. s = Unused
    BY <1>1 DEF Settle
  <2>2. /\ ~Unused.alive /\ Unused.frees = 0 /\ Unused.pcb = "none" /\ Unused.refused = 0
        /\ ~Unused.recvCb /\ ~Unused.sentCb /\ ~Unused.errCb /\ ~Unused.aborted
    BY DEF Unused
  <2>3. in.who = NoClient
    BY <1>1 DEF InputOK
  <2>4. Sound(Unused)
    BY <2>2, UnusedLemma DEF Sound, Wired, Attached
  <2>5. ClientOK(Unused, in)
    BY <2>2, <2>3, <2>4 DEF ClientOK, Room, Acked, Held
  <2>6. w.alive = FALSE /\ Unused.alive = FALSE
    BY <1>0, <1>1 DEF Unused
  <2> QED BY <2>1, <2>2, <2>5, <2>6, UnusedLemma
<1>2. CASE ~(in.phase = "idle" /\ ~w.alive)
  <2>1. s = [w EXCEPT !.frees = 0]
    BY <1>2 DEF Settle
  <2> HIDE DEF s
  <2>2. s \in Conn
    BY <1>0, <2>1 DEF Conn
  <2>3. /\ s.alive = w.alive /\ s.closed = w.closed /\ s.up = w.up
        /\ s.socksClosed = w.socksClosed /\ s.aborted = w.aborted /\ s.dead = w.dead
        /\ s.buf = w.buf /\ s.rbuf = w.rbuf /\ s.rsent = w.rsent /\ s.waiting = w.waiting
        /\ s.pending = w.pending /\ s.sending = w.sending /\ s.recving = w.recving
    BY <1>0, <2>1 DEF Conn
  <2>4. /\ s.pcb = w.pcb /\ s.recvCb = w.recvCb /\ s.sentCb = w.sentCb /\ s.errCb = w.errCb
        /\ s.rcvWnd = w.rcvWnd /\ s.refused = w.refused /\ s.tcpAbort = w.tcpAbort
        /\ s.frees = 0 /\ s.queued = w.queued
    BY <1>0, <2>1 DEF Conn
  <2>5. Wired(w) => Wired(s)
    BY <2>3, <2>4 DEF Wired, Attached
  <2>6. Served(w) => Served(s)
    BY <2>3 DEF Served
  <2>7. Begun(w) => Begun(s)
    BY <2>3, <2>4 DEF Begun
  <2>8. Sound(s)
    BY <2>2, <2>3, <2>4, <2>5, <2>6, <2>7 DEF ClientOK, Sound
  <2>9. InCallback(w) => InCallback(s)
    BY <2>3, <2>4 DEF InCallback
  <2>10. Room(s, in) /\ Acked(s, in)
    BY <2>3, <2>4 DEF ClientOK, Room, Acked
  <2>11. Held(s, in)
    BY <2>4, <2>9 DEF ClientOK, Held
  <2> QED BY <2>2, <2>3, <2>4, <2>8, <2>10, <2>11 DEF ClientOK
<1> QED BY <1>1, <1>2

\* A step of client c inside, into or out of a segment of its own leaves every
\* other client as it was.
LEMMA StepLemma ==
    ASSUME ConnInv, NEW c \in Clients, NEW w, NEW in, Step(c, w, in),
           input.who \in {c, NoClient}, in.who \in {c, NoClient}, InputOK(in),
           ClientOK(w, in), Accounted(c, w), Flushed(c, w)
    PROVE  ConnInv' /\ FlushStep
<1> DEFINE s == Settle(w, in.phase = "idle")
<1>1. /\ ClientOK(s, in) /\ s \in Conn /\ s.frees = 0 /\ s.alive = w.alive
      /\ s.pcb \in {w.pcb, "none"}
  BY SettleLemma
<1>2. conn' = [conn EXCEPT ![c] = s] /\ numClients' = numClients - w.frees /\ input' = in
  BY DEF Step
<1> HIDE DEF s
<1>3. conn \in [Clients -> Conn]
  BY DEF ConnInv
<1>4. conn' \in [Clients -> Conn]
  BY <1>1, <1>2, <1>3
<1>5. conn'[c] = s /\ \A d \in Clients : d # c => conn'[d] = conn[d]
  BY <1>2, <1>3
<1>6. \A d \in Clients : conn'[d].frees = 0
  BY <1>1, <1>5 DEF ConnInv
<1>7. numClients' = Cardinality({d \in Clients : conn'[d].alive})
  <2>1. numClients = Cardinality({d \in Clients : conn[d].alive})
    BY DEF ConnInv
  <2>2. numClients \in Nat
    <3>1. {d \in Clients : conn[d].alive} \subseteq Clients
      OBVIOUS
    <3> QED BY <2>1, <3>1, ClientsAssumption, FS_Subset, FS_CardinalityType DEF ClientsAssumption
  <2>a. /\ conn[c].alive /\ ~s.alive
            => numClients - 1 = Cardinality({d \in Clients : conn'[d].alive})
        /\ (conn[c].alive <=> s.alive)
            => numClients = Cardinality({d \in Clients : conn'[d].alive})
    <3>1. s \in Conn /\ conn' = [conn EXCEPT ![c] = s]
      BY <1>1, <1>2
    <3> QED BY <1>3, <2>1, <3>1, CountLemma
  <2>3. CASE conn[c].alive /\ ~w.alive
    <3>1. numClients' = numClients - 1
      BY <1>2, <2>3 DEF Accounted
    <3>2. ~s.alive
      BY <1>1, <2>3
    <3> QED BY <2>a, <2>3, <3>1, <3>2
  <2>4. CASE ~(conn[c].alive /\ ~w.alive)
    <3>1. numClients' = numClients
      BY <1>2, <2>2, <2>4 DEF Accounted
    <3>2. conn[c].alive <=> s.alive
      BY <1>1, <2>4 DEF Accounted
    <3> QED BY <2>a, <3>1, <3>2
  <2> QED BY <2>3, <2>4
<1>8. \A d \in Clients : ClientOK(conn'[d], View(input', d))
  <2>1. View(in, c) = in
    BY DEF View, InputOK
  <2>2. ASSUME NEW d \in Clients, d # c
        PROVE  View(in, d) = Idle /\ View(input, d) = Idle
    BY <2>2, ClientsAssumption DEF View, ClientsAssumption
  <2>3. \A d \in Clients : ClientOK(conn[d], View(input, d))
    BY DEF ConnInv
  <2> QED BY <1>1, <1>2, <1>5, <2>1, <2>2, <2>3
<1>9. FlushStep
  BY <1>1, <1>5 DEF FlushStep, Flushed, Attached
<1> QED BY <1>2, <1>4, <1>6, <1>7, <1>8, <1>9 DEF ConnInv

\* When a job of client c runs, tcp_input is not at work, or waits for it in a
\* SYNC section of c; a job then finds its client in order.
AtWork(c) == input = Idle \/ (input.who = c /\ input.sync)

\* A handler of client c runs only then.
LEMMA RunsLemma ==
    ASSUME Inv, NEW c \in Clients, NEW callbacks, Runs(c, callbacks)
    PROVE  AtWork(c)
<1>1. CASE input.phase = "idle"
  BY <1>1 DEF Inv, ConnInv, InputOK, AtWork
<1> QED BY <1>1 DEF Runs, AtWork

\* Such a handler finds its client in order.
LEMMA ReadyLemma ==
    ASSUME Inv, NEW c \in Clients, AtWork(c), conn[c].alive
    PROVE  /\ Ready(conn[c]) /\ ClientOK(conn[c], input) /\ input.who \in {c, NoClient}
           /\ InputOK(input)
<1>1. InputOK(input) /\ ClientOK(conn[c], View(input, c)) /\ conn[c].frees = 0
  BY DEF Inv, ConnInv
<1>2. Idle.who = NoClient /\ Idle.data = 0 /\ ~Idle.fin /\ Idle.acked = 0 /\ ~Idle.sync
  BY DEF Idle
<1>3. View(input, c) = input /\ input.who \in {c, NoClient}
  BY <1>2 DEF AtWork, View
<1>4. Sound(conn[c]) /\ conn[c] \in Conn /\ Room(conn[c], input) /\ Acked(conn[c], input)
  BY <1>1, <1>3 DEF ClientOK, Sound
<1>5. conn[c].sentCb => conn[c].pending = conn[c].queued
  <2>1. conn[c].queued \in 0 .. SndBuf
    BY <1>4 DEF Conn
  <2> QED BY <1>2, <1>4, <2>1, SizesAssumption DEF Acked, AtWork, SizesAssumption
<1>6. conn[c].recvCb => conn[c].buf + conn[c].rcvWnd <= Wnd
  <2>1. conn[c].buf \in 0 .. Wnd /\ conn[c].rcvWnd \in 0 .. Wnd
    BY <1>4 DEF Conn
  <2>2. input.data \in 0 .. Wnd
    BY <1>1 DEF InputOK, InputType
  <2> QED BY <1>4, <2>1, <2>2, SizesAssumption DEF Room, SizesAssumption
<1> QED BY <1>1, <1>3, <1>4, <1>5, <1>6 DEF Ready

\* A job that does what Follows says keeps the invariant.
LEMMA JobLemma ==
    ASSUME Inv, NEW c \in Clients, AtWork(c), conn[c].alive, NEW r,
           Follows(conn[c], r, InInput(c)), JobStep(c, r)
    PROVE  Inv' /\ FlushStep
<1>1. /\ Ready(conn[c]) /\ ClientOK(conn[c], input) /\ input.who \in {c, NoClient}
      /\ InputOK(input)
  BY ReadyLemma
<1>2. Idle.who = NoClient /\ Idle.data = 0 /\ ~Idle.fin /\ Idle.acked = 0 /\ ~Idle.sync
  BY DEF Idle
<1>3. Step(c, r, input) /\ ret' = ret /\ quitting' = quitting /\ input' = input
  BY DEF JobStep, Step
<1>4. Sound(r) /\ r \in Conn /\ conn[c] \in Conn
  BY <1>1 DEF Follows, Ready, Sound
<1>5. Room(r, input)
  <2>1. r.recvCb => conn[c].recvCb /\ r.buf + r.rcvWnd = conn[c].buf + conn[c].rcvWnd
    BY DEF Follows
  <2> QED BY <1>1, <2>1 DEF Room, ClientOK
<1>6. Acked(r, input)
  <2>1. r.sentCb => r.pending = r.queued
    BY DEF Follows
  <2>2. r.queued \in 0 .. SndBuf
    BY <1>4 DEF Conn
  <2> QED BY <1>2, <2>1, <2>2, SizesAssumption DEF Acked, AtWork, SizesAssumption
<1>7. Held(r, input)
  <2>1. CASE input = Idle
    BY <1>2, <2>1 DEF Held
  <2>2. CASE input.who = c /\ input.sync
    <3>1. InCallback(conn[c])
      BY <1>1, <2>2, ClientsAssumption DEF ClientOK, Held, ClientsAssumption
    <3> QED BY <2>2, <3>1 DEF Follows, InInput, Held
  <2> QED BY <2>1, <2>2 DEF AtWork
<1>8. Accounted(c, r)
  BY DEF Follows, Accounted
<1>9. ConnInv' /\ FlushStep
  <2>1. Flushed(c, r)
    BY DEF Follows, Flushed
  <2> QED BY <1>1, <1>3, <1>4, <1>5, <1>6, <1>7, <1>8, <2>1, StepLemma DEF Inv, ClientOK
<1> QED BY <1>3, <1>9 DEF Inv, ErrAbrtIffAborted

\* lwIP's own changes to a connection.
Touched(w, p, m, q, d, x) ==
    [w EXCEPT !.pcb = p, !.rcvWnd = m, !.queued = q, !.dead = d, !.tcpAbort = x]

\* It is still a connection.
LEMMA TouchedType ==
    ASSUME NEW w \in Conn, NEW p \in Pcb, NEW m \in 0 .. Wnd, NEW q \in 0 .. SndBuf,
           NEW d \in {-1, 0, 1}, NEW x \in BOOLEAN
    PROVE  Touched(w, p, m, q, d, x) \in Conn
  BY DEF Touched, Conn

\* The fields of the client itself.
SameClient(w, t) ==
    /\ t.alive = w.alive /\ t.closed = w.closed /\ t.up = w.up
    /\ t.socksClosed = w.socksClosed /\ t.aborted = w.aborted
    /\ t.buf = w.buf /\ t.rbuf = w.rbuf /\ t.rsent = w.rsent /\ t.waiting = w.waiting
    /\ t.pending = w.pending /\ t.sending = w.sending /\ t.recving = w.recving
    /\ t.recvCb = w.recvCb /\ t.sentCb = w.sentCb /\ t.errCb = w.errCb
    /\ t.refused = w.refused /\ t.frees = w.frees

\* lwIP's changes keep a client in order if they respect what the client holds.
LEMMA TouchedLemma ==
    ASSUME NEW w, Sound(w), NEW p \in Pcb, NEW m \in 0 .. Wnd, NEW q \in 0 .. SndBuf,
           NEW d \in {-1, 0, 1}, NEW x \in BOOLEAN,
           p \in {"open", "closewait"} <=> Attached(w),
           w.aborted => p = "freed",
           w.alive /\ ~w.up => q = 0
    PROVE  LET t == Touched(w, p, m, q, d, x)
           IN  /\ Sound(t) /\ SameClient(w, t)
               /\ t.pcb = p /\ t.rcvWnd = m /\ t.queued = q /\ t.dead = d /\ t.tcpAbort = x
<1> DEFINE t == Touched(w, p, m, q, d, x)
<1> SUFFICES /\ Sound(t) /\ SameClient(w, t)
             /\ t.pcb = p /\ t.rcvWnd = m /\ t.queued = q /\ t.dead = d /\ t.tcpAbort = x
  OBVIOUS
<1>0. w \in Conn
  BY DEF Sound
<1>1. t \in Conn
  BY <1>0, TouchedType
<1>2. SameClient(w, t)
  BY <1>0 DEF Touched, Conn, SameClient
<1>3. t.pcb = p /\ t.rcvWnd = m /\ t.queued = q /\ t.dead = d /\ t.tcpAbort = x
  BY <1>0 DEF Touched, Conn
<1> HIDE DEF t
<1>4. Attached(t) <=> Attached(w)
  BY <1>3 DEF Attached
<1>5. Wired(t)
  BY <1>2, <1>4 DEF Sound, Wired, SameClient
<1>6. Served(w) => Served(t)
  BY <1>2 DEF Served, SameClient
<1>7. Begun(w) /\ w.alive => Begun(t)
  BY <1>2, <1>3 DEF Begun, SameClient
<1>8. Sound(t)
  BY <1>1, <1>2, <1>3, <1>5, <1>6, <1>7 DEF Sound, SameClient
<1> QED BY <1>2, <1>3, <1>8

\* Entering a callback: nothing has been aborted yet.
LEMMA EnterLemma ==
    ASSUME NEW w, Sound(w), w.pcb \notin {"none", "freed"}
    PROVE  LET t == Enter(w)
           IN  /\ Sound(t) /\ SameClient(w, t) /\ InCallback(t)
               /\ t.pcb = w.pcb /\ t.rcvWnd = w.rcvWnd /\ t.queued = w.queued
<1> DEFINE p == w.pcb
           m == w.rcvWnd
           q == w.queued
           d == 0
           x == FALSE
           t == Enter(w)
<1>0. w \in Conn
  BY DEF Sound
<1>1. t = Touched(w, p, m, q, d, x)
  BY <1>0 DEF Enter, Touched, Conn
<1>2. /\ p \in Pcb /\ m \in 0 .. Wnd /\ q \in 0 .. SndBuf /\ d \in {-1, 0, 1} /\ x \in BOOLEAN
      /\ p \in {"open", "closewait"} <=> Attached(w)
      /\ w.aborted => p = "freed"
      /\ w.alive /\ ~w.up => q = 0
      /\ ~w.aborted
  BY <1>0 DEF Conn, Sound, Attached, Begun
<1>3. d = 0 /\ x = FALSE /\ p \notin {"none", "freed"}
  OBVIOUS
<1> SUFFICES /\ Sound(t) /\ SameClient(w, t) /\ InCallback(t)
             /\ t.pcb = p /\ t.rcvWnd = m /\ t.queued = q
  OBVIOUS
<1> HIDE DEF p, m, q, d, x, t
<1>4. /\ Sound(t) /\ SameClient(w, t)
      /\ t.pcb = p /\ t.rcvWnd = m /\ t.queued = q /\ t.dead = d /\ t.tcpAbort = x
  BY <1>1, <1>2, TouchedLemma
<1>5. InCallback(t)
  BY <1>2, <1>3, <1>4 DEF InCallback, SameClient
<1> QED BY <1>4, <1>5

\* tcp_recved
LEMMA TcpRecvedLemma ==
    ASSUME NEW w, Sound(w), NEW n \in Nat
    PROVE  LET t == TcpRecved(w, n)
           IN  /\ Sound(t) /\ SameClient(w, t) /\ (InCallback(w) => InCallback(t))
               /\ t.pcb = w.pcb /\ t.queued = w.queued
<1> DEFINE p == w.pcb
           m == Least(w.rcvWnd + n, Wnd)
           q == w.queued
           d == w.dead
           x == w.tcpAbort
           t == TcpRecved(w, n)
<1>0. w \in Conn
  BY DEF Sound
<1>1. t = Touched(w, p, m, q, d, x)
  <2>1. t = [w EXCEPT !.rcvWnd = m]
    BY DEF TcpRecved
  <2> HIDE DEF m, t
  <2> QED BY <1>0, <2>1 DEF Touched, Conn
<1>2. m \in 0 .. Wnd
  <2>1. w.rcvWnd \in 0 .. Wnd
    BY <1>0 DEF Conn
  <2> QED BY <2>1, SizesAssumption DEF Least, SizesAssumption
<1>3. /\ p \in Pcb /\ q \in 0 .. SndBuf /\ d \in {-1, 0, 1} /\ x \in BOOLEAN
      /\ p \in {"open", "closewait"} <=> Attached(w)
      /\ w.aborted => p = "freed"
      /\ w.alive /\ ~w.up => q = 0
  BY <1>0 DEF Conn, Sound, Attached, Begun
<1>4. InCallback(w) => /\ p # "none" /\ (x <=> d = 1) /\ (x <=> p = "freed")
                       /\ w.alive => (w.aborted <=> x)
  BY DEF InCallback
<1> SUFFICES /\ Sound(t) /\ SameClient(w, t) /\ (InCallback(w) => InCallback(t))
             /\ t.pcb = p /\ t.queued = q
  OBVIOUS
<1> HIDE DEF p, m, q, d, x, t
<1>5. /\ Sound(t) /\ SameClient(w, t)
      /\ t.pcb = p /\ t.rcvWnd = m /\ t.queued = q /\ t.dead = d /\ t.tcpAbort = x
  BY <1>1, <1>2, <1>3, TouchedLemma
<1>6. InCallback(w) => InCallback(t)
  BY <1>4, <1>5 DEF InCallback, SameClient
<1> QED BY <1>5, <1>6

\* A pcb that is closed already is deallocated, by tcp_abort (x) or by tcp_input.
LEMMA DropLemma ==
    ASSUME NEW w, Sound(w), ~Attached(w), NEW x \in BOOLEAN
    PROVE  LET t == [w EXCEPT !.pcb = "freed", !.tcpAbort = x]
           IN  Sound(t) /\ SameClient(w, t) /\ t.pcb = "freed"
<1> DEFINE p == "freed"
           m == w.rcvWnd
           q == w.queued
           d == w.dead
           t == [w EXCEPT !.pcb = p, !.tcpAbort = x]
<1>0. w \in Conn
  BY DEF Sound
<1>1. t = Touched(w, p, m, q, d, x)
  BY <1>0 DEF Touched, Conn
<1>3. /\ p \in Pcb /\ m \in 0 .. Wnd /\ q \in 0 .. SndBuf /\ d \in {-1, 0, 1}
      /\ p \in {"open", "closewait"} <=> Attached(w)
      /\ w.aborted => p = "freed"
      /\ w.alive /\ ~w.up => q = 0
  BY <1>0 DEF Conn, Pcb, Sound, Attached, Begun
<1>4. p = "freed"
  OBVIOUS
<1> SUFFICES Sound(t) /\ SameClient(w, t) /\ t.pcb = p
  OBVIOUS
<1> HIDE DEF p, m, q, d, t
<1> QED BY <1>1, <1>3, TouchedLemma

\* Between segments a client that has let go of its pcb is in order.
LEMMA IdleLemma ==
    /\ InputOK(Idle) /\ Idle.who = NoClient /\ Idle.phase = "idle"
    /\ Idle.data = 0 /\ ~Idle.fin /\ Idle.acked = 0 /\ ~Idle.sync
<1>1. /\ Idle.who = NoClient /\ Idle.phase = "idle"
      /\ Idle.data = 0 /\ ~Idle.fin /\ Idle.acked = 0 /\ ~Idle.sync
  BY DEF Idle
<1>2. Idle \in InputType
  BY SizesAssumption DEF Idle, InputType, Phases, SizesAssumption
<1> QED BY <1>1, <1>2 DEF InputOK

\* A client without a pcb does not mind what tcp_input is at.
LEMMA LetGoIdleLemma ==
    ASSUME NEW w, Sound(w), ~Attached(w)
    PROVE  ClientOK(w, Idle)
<1>1. ~w.recvCb /\ ~w.sentCb
  BY DEF Sound, Wired
<1> QED BY <1>1, IdleLemma DEF ClientOK, Room, Acked, Held

\* Whatever the callback did, its return value tells tcp_input whether it may
\* go on with the pcb.
LEMMA CallbackReturnLemma ==
    ASSUME Inv, NEW c \in Clients, input.who = c, NEW w, NEW in,
           CallbackReturn(c, w, in), InputOK(in), in.who = c, ~in.sync,
           Sound(w), InCallback(w), Accounted(c, w), Room(w, in), Acked(w, in),
           Flushed(c, w)
    PROVE  Inv' /\ FlushStep
<1> DEFINE err == IF w.dead > 0 THEN "abrt" ELSE "ok"
           close == w.pcb = "delayed" /\ input.phase = "sent"
<1>0. w \in Conn /\ w.refused = 0
  BY DEF Sound
<1>1. w.dead \in {-1, 0, 1} /\ w.tcpAbort \in BOOLEAN
  BY <1>0 DEF Conn
<1>2. /\ ret' = [err |-> err, aborted |-> w.tcpAbort]
      /\ Step(c, IF err # "abrt" /\ close THEN [w EXCEPT !.pcb = "freed"] ELSE w,
                 IF err = "abrt" \/ close THEN Idle ELSE in)
      /\ quitting' = quitting
  BY <1>0 DEF CallbackReturn
<1>3. (w.dead > 0) <=> w.tcpAbort
  BY <1>1 DEF InCallback
<1>4. ret' \in Returned /\ ErrAbrtIffAborted'
  BY <1>1, <1>2, <1>3 DEF Returned, ErrAbrtIffAborted
<1>5. ConnInv
  BY DEF Inv
<1>6. ConnInv' /\ FlushStep
  <2>1. CASE err = "abrt"
    <3>1. Step(c, w, Idle)
      BY <1>2, <2>1
    <3>2. w.pcb = "freed"
      BY <1>3, <2>1 DEF InCallback
    <3>3. ~Attached(w)
      BY <3>2 DEF Attached
    <3>4. ClientOK(w, Idle)
      BY <3>3, LetGoIdleLemma
    <3> QED BY <1>5, <3>1, <3>4, IdleLemma, StepLemma
  <2>2. CASE err # "abrt" /\ close
    <3> DEFINE v == [w EXCEPT !.pcb = "freed"]
               x == w.tcpAbort
    <3>1. Step(c, v, Idle)
      BY <1>2, <2>2
    <3>2. v = [w EXCEPT !.pcb = "freed", !.tcpAbort = x]
      BY <1>0 DEF Conn
    <3> HIDE DEF v
    <3>3. ~Attached(w) /\ x \in BOOLEAN
      BY <1>1, <2>2 DEF Attached
    <3> HIDE DEF x
    <3>4. Sound(v) /\ SameClient(w, v) /\ v.pcb = "freed"
      BY <3>2, <3>3, DropLemma
    <3>5. ClientOK(v, Idle)
      BY <3>4, LetGoIdleLemma DEF Attached
    <3>6. Accounted(c, v) /\ Flushed(c, v)
      BY <3>4 DEF Accounted, SameClient, Flushed
    <3> QED BY <1>5, <3>1, <3>5, <3>6, IdleLemma, StepLemma
  <2>3. CASE err # "abrt" /\ ~close
    <3>1. Step(c, w, in)
      BY <1>2, <2>3
    <3>2. w.pcb \notin {"none", "freed"}
      BY <1>3, <2>3 DEF InCallback
    <3>3. Held(w, in)
      BY <3>2 DEF Held
    <3> QED BY <1>5, <3>1, <3>3, StepLemma DEF ClientOK
  <2> QED BY <2>1, <2>2, <2>3
<1>7. quitting = FALSE
  BY IdleLemma, ClientsAssumption DEF Inv, ClientsAssumption
<1> QED BY <1>2, <1>4, <1>6, <1>7 DEF Inv

\* The phases a segment goes through.
LEMMA AfterLemma ==
    ASSUME NEW in, InputOK(in), in.who # NoClient
    PROVE  /\ in.phase = "sent" =>
                LET t == AfterSent(in)
                IN  /\ InputOK(t) /\ t.who = in.who /\ ~t.sync /\ t.acked = 0
                    /\ t.data = in.data /\ t.fin = in.fin
           /\ in.phase = "recv" =>
                LET t == AfterRecv(in)
                IN  /\ InputOK(t) /\ t.who = in.who /\ ~t.sync /\ t.acked = 0
                    /\ t.data = 0 /\ t.fin = in.fin
<1>0. in \in InputType
  BY DEF InputOK
<1>1. ASSUME in.phase = "sent"
      PROVE  LET t == AfterSent(in)
             IN  /\ InputOK(t) /\ t.who = in.who /\ ~t.sync /\ t.acked = 0
                 /\ t.data = in.data /\ t.fin = in.fin
  <2> DEFINE t == AfterSent(in)
  <2>1. t \in InputType
    <3> DEFINE ph == IF in.data > 0 THEN "recv" ELSE IF in.fin THEN "fin" ELSE "end"
    <3>1. ph \in Phases
      BY DEF Phases
    <3>2. 0 \in 0 .. SndBuf
      BY SizesAssumption DEF SizesAssumption
    <3>3. t = [in EXCEPT !.acked = 0, !.sync = FALSE, !.phase = ph]
      BY DEF AfterSent
    <3> HIDE DEF t, ph
    <3> QED BY <1>0, <3>1, <3>2, <3>3 DEF InputType
  <2>2. /\ t.who = in.who /\ ~t.sync /\ t.acked = 0 /\ t.data = in.data /\ t.fin = in.fin
        /\ t.phase = (IF in.data > 0 THEN "recv" ELSE IF in.fin THEN "fin" ELSE "end")
    BY <1>0 DEF InputType, AfterSent
  <2>3. in.data \in 0 .. Wnd
    BY <1>0 DEF InputType
  <2> HIDE DEF t
  <2>4. (t.phase # "recv" => t.data = 0) /\ (t.phase = "recv" => t.data > 0)
    BY <2>2, <2>3, SizesAssumption DEF SizesAssumption
  <2>5. InputOK(t)
    BY <2>1, <2>2, <2>4 DEF InputOK
  <2> QED BY <2>2, <2>5 DEF t
<1>2. ASSUME in.phase = "recv"
      PROVE  LET t == AfterRecv(in)
             IN  /\ InputOK(t) /\ t.who = in.who /\ ~t.sync /\ t.acked = 0
                 /\ t.data = 0 /\ t.fin = in.fin
  <2> DEFINE t == AfterRecv(in)
  <2>1. t \in InputType
    <3> DEFINE ph == IF in.fin THEN "fin" ELSE "end"
    <3>1. ph \in Phases
      BY DEF Phases
    <3>2. 0 \in 0 .. Wnd
      BY SizesAssumption DEF SizesAssumption
    <3>3. t = [in EXCEPT !.data = 0, !.sync = FALSE, !.phase = ph]
      BY DEF AfterRecv
    <3> HIDE DEF t, ph
    <3> QED BY <1>0, <3>1, <3>2, <3>3 DEF InputType
  <2>2. /\ t.who = in.who /\ ~t.sync /\ t.acked = in.acked /\ t.data = 0 /\ t.fin = in.fin
        /\ t.phase = (IF in.fin THEN "fin" ELSE "end")
    BY <1>0 DEF InputType, AfterRecv
  <2>3. in.acked = 0
    BY <1>2 DEF InputOK
  <2> HIDE DEF t
  <2>4. InputOK(t)
    BY <2>1, <2>2, <2>3 DEF InputOK
  <2> QED BY <2>2, <2>3, <2>4 DEF t
<1> QED BY <1>1, <1>2

-----------------------------------------------------------------------------
(* The actions *)

\* Everything that runs as a job, from the event loop or in a SYNC section.
LEMMA JobActions ==
    ASSUME Inv, NEW c \in Clients,
           \/ SocksError(c) \/ SocksClosed(c) \/ SocksUp(c) \/ SendDone(c)
           \/ RecvDone(c) \/ ClientErr(c) \/ MurderClient(c)
    PROVE  Inv' /\ FlushStep
<1> DEFINE w == conn[c]
<1>0. InInput(c) \in BOOLEAN
  BY DEF InInput
<1>1. ASSUME input = Idle
      PROVE  InInput(c) = FALSE
  BY <1>1, IdleLemma, ClientsAssumption DEF InInput, ClientsAssumption
<1>2. CASE SocksError(c)
  <2>1. PICK e \in BOOLEAN : JobStep(c, FreeSocks(w, InInput(c), e))
    BY <1>2 DEF SocksError
  <2>2. AtWork(c) /\ w.alive /\ ~w.socksClosed
    BY <1>2, RunsLemma DEF SocksError
  <2>3. Ready(w)
    BY <2>2, ReadyLemma
  <2>4. Follows(w, FreeSocks(w, InInput(c), e), InInput(c))
    BY <1>0, <2>2, <2>3, FreeSocksLemma
  <2> QED BY <2>1, <2>2, <2>4, JobLemma
<1>3. CASE SocksClosed(c)
  <2>1. PICK e \in BOOLEAN : JobStep(c, FreeSocks(w, InInput(c), e))
    BY <1>3 DEF SocksClosed
  <2>2. AtWork(c) /\ w.alive /\ w.recving
    BY <1>3, RunsLemma DEF SocksClosed
  <2>3. Ready(w)
    BY <2>2, ReadyLemma
  <2>4. ~w.socksClosed
    BY <2>2, <2>3 DEF Ready, Sound, Begun
  <2>5. Follows(w, FreeSocks(w, InInput(c), e), InInput(c))
    BY <1>0, <2>3, <2>4, FreeSocksLemma
  <2> QED BY <2>1, <2>2, <2>5, JobLemma
<1>4. CASE SocksUp(c)
  <2>1. JobStep(c, SocksUpHandler(w))
    BY <1>4 DEF SocksUp
  <2>2. AtWork(c) /\ w.alive /\ ~w.socksClosed /\ ~w.up
    BY <1>4, RunsLemma DEF SocksUp
  <2>3. Ready(w)
    BY <2>2, ReadyLemma
  <2>4. Follows(w, SocksUpHandler(w), InInput(c))
    BY <1>0, <2>2, <2>3, SocksUpLemma
  <2> QED BY <2>1, <2>2, <2>4, JobLemma
<1>5. CASE SendDone(c)
  <2>1. PICK n \in 1 .. w.buf, e \in BOOLEAN :
            JobStep(c, SendHandlerDone(w, n, InInput(c), e))
    BY <1>5 DEF SendDone
  <2>2. AtWork(c) /\ w.alive /\ w.sending
    BY <1>5, RunsLemma DEF SendDone
  <2>3. Ready(w)
    BY <2>2, ReadyLemma
  <2>4. Follows(w, SendHandlerDone(w, n, InInput(c), e), InInput(c))
    BY <1>0, <2>2, <2>3, SendHandlerDoneLemma
  <2> QED BY <2>1, <2>2, <2>4, JobLemma
<1>6. CASE RecvDone(c)
  <2>1. PICK n \in 1 .. RecvBuf, wr \in Wrote, o \in BOOLEAN :
            JobStep(c, RecvHandlerDone(w, n, wr, o))
    BY <1>6 DEF RecvDone
  <2>2. AtWork(c) /\ w.alive /\ w.recving
    BY <1>6, RunsLemma DEF RecvDone
  <2>3. Ready(w)
    BY <2>2, ReadyLemma
  <2>4. Follows(w, RecvHandlerDone(w, n, wr, o), InInput(c))
    BY <1>0, <2>2, <2>3, RecvHandlerDoneLemma
  <2> QED BY <2>1, <2>2, <2>4, JobLemma
<1>7. CASE ClientErr(c)
  <2> DEFINE r == HandleFreedClient(RemoveCallbacks([w EXCEPT !.pcb = "freed"]))
  <2>1. JobStep(c, r) /\ input.phase = "idle" /\ w.errCb
    BY <1>7 DEF ClientErr
  <2>2. input = Idle
    BY <2>1 DEF Inv, ConnInv, InputOK
  <2>3. w.alive
    BY <2>1 DEF Inv, ConnInv, ClientOK, Sound, Wired
  <2>4. AtWork(c)
    BY <2>2 DEF AtWork
  <2>5. Follows(w, r, FALSE)
    BY <2>1, <2>3, <2>4, ReadyLemma, ClientErrLemma
  <2> HIDE DEF r
  <2> QED BY <1>1, <2>1, <2>2, <2>3, <2>4, <2>5, JobLemma
<1>8. CASE MurderClient(c)
  <2>1. JobStep(c, Murder(w)) /\ w.alive /\ quitting
    BY <1>8 DEF MurderClient
  <2>2. input = Idle
    BY <2>1 DEF Inv
  <2>3. AtWork(c)
    BY <2>2 DEF AtWork
  <2>4. Follows(w, Murder(w), FALSE)
    BY <2>1, <2>3, ReadyLemma, MurderLemma
  <2> QED BY <1>1, <2>1, <2>2, <2>3, <2>4, JobLemma
<1> QED BY <1>2, <1>3, <1>4, <1>5, <1>6, <1>7, <1>8

\* In the middle of a segment of client c.
LEMMA MidLemma ==
    ASSUME Inv, NEW c \in Clients, input.who = c
    PROVE  /\ InputOK(input) /\ input \in InputType /\ input.who # NoClient /\ ConnInv
           /\ Sound(conn[c]) /\ conn[c].frees = 0 /\ conn[c] \in Conn
           /\ Room(conn[c], input) /\ Acked(conn[c], input)
           /\ IF input.sync THEN InCallback(conn[c])
              ELSE conn[c].pcb \notin {"none", "freed"}
           /\ quitting = FALSE
<1>1. InputOK(input) /\ input.who # NoClient /\ ConnInv
  BY ClientsAssumption DEF Inv, ConnInv, ClientsAssumption
<1>2. ClientOK(conn[c], input) /\ conn[c].frees = 0 /\ conn[c] \in Conn
  BY DEF Inv, ConnInv, View
<1>3. quitting = FALSE
  BY <1>1, IdleLemma DEF Inv
<1> QED BY <1>1, <1>2, <1>3 DEF ClientOK, Held, InputOK

\* The end of a SYNC section.
LEMMA SyncReturnLemma ==
    ASSUME Inv, NEW c \in Clients, SyncReturn(c)
    PROVE  Inv' /\ FlushStep
<1> DEFINE w == conn[c]
<1>0. input.who = c /\ input.sync
  BY DEF SyncReturn
<1>1. /\ InputOK(input) /\ input \in InputType /\ input.who # NoClient
      /\ Sound(w) /\ w.frees = 0 /\ w \in Conn
      /\ Room(w, input) /\ Acked(w, input) /\ InCallback(w)
  BY <1>0, MidLemma
<1>2. Accounted(c, w) /\ Flushed(c, w)
  BY <1>1 DEF Accounted, Flushed, Attached
<1>3. w.queued \in 0 .. SndBuf /\ w.buf \in 0 .. Wnd /\ w.rcvWnd \in 0 .. Wnd
  BY <1>1 DEF Conn
<1>4. input.phase \in {"accept", "sent", "recv"}
  BY <1>0, <1>1 DEF InputOK, InputType, Phases
<1>5. CASE input.phase = "accept"
  <2> DEFINE in == [input EXCEPT !.phase = "end", !.sync = FALSE]
  <2>1. CallbackReturn(c, w, in)
    BY <1>5 DEF SyncReturn
  <2>2. input.data = 0 /\ input.fin = FALSE /\ input.acked = 0
    BY <1>1, <1>5 DEF InputOK, InputType
  <2>3. /\ in \in InputType /\ in.who = c /\ in.phase = "end" /\ in.data = 0 /\ ~in.fin
        /\ in.acked = 0 /\ ~in.sync
    BY <1>0, <1>1, <2>2 DEF InputType, Phases
  <2> HIDE DEF in
  <2>4. InputOK(in)
    BY <1>0, <1>1, <2>3 DEF InputOK
  <2>5. Room(w, in)
    BY <1>1, <1>5, <2>2, <2>3 DEF Room
  <2>6. Acked(w, in)
    BY <1>0, <1>1, <2>3 DEF Acked
  <2> QED BY <1>0, <1>1, <1>2, <2>1, <2>3, <2>4, <2>5, <2>6, CallbackReturnLemma
<1>6. CASE input.phase = "sent"
  <2> DEFINE in == AfterSent(input)
  <2>1. CallbackReturn(c, w, in)
    BY <1>6 DEF SyncReturn
  <2>2. /\ InputOK(in) /\ in.who = input.who /\ ~in.sync /\ in.acked = 0
        /\ in.data = input.data /\ in.fin = input.fin
    BY <1>1, <1>6, AfterLemma
  <2> HIDE DEF in
  <2>3. Room(w, in)
    BY <1>1, <1>6, <2>2 DEF Room
  <2>4. Acked(w, in)
    BY <1>0, <1>1, <2>2 DEF Acked
  <2> QED BY <1>0, <1>1, <1>2, <2>1, <2>2, <2>3, <2>4, CallbackReturnLemma
<1>7. CASE input.phase = "recv"
  <2> DEFINE in == AfterRecv(input)
  <2>1. CallbackReturn(c, w, in)
    BY <1>7 DEF SyncReturn
  <2>2. /\ InputOK(in) /\ in.who = input.who /\ ~in.sync /\ in.acked = 0
        /\ in.data = 0 /\ in.fin = input.fin
    BY <1>1, <1>7, AfterLemma
  <2> HIDE DEF in
  <2>3. Room(w, in)
    BY <1>0, <1>1, <1>7, <2>2 DEF Room
  <2>4. Acked(w, in)
    BY <1>0, <1>1, <2>2 DEF Acked
  <2> QED BY <1>0, <1>1, <1>2, <2>1, <2>2, <2>3, <2>4, CallbackReturnLemma
<1> QED BY <1>4, <1>5, <1>6, <1>7

\* The segment while its callback is in a SYNC section.
LEMMA SyncedLemma ==
    ASSUME NEW in, InputOK(in), in.phase \in {"sent", "recv"}
    PROVE  LET t == [in EXCEPT !.sync = TRUE]
           IN  /\ InputOK(t) /\ t.who = in.who /\ t.phase = in.phase /\ t.sync
               /\ t.data = in.data /\ t.fin = in.fin
<1> DEFINE t == [in EXCEPT !.sync = TRUE]
<1>1. in \in InputType
  BY DEF InputOK
<1>2. t \in InputType
  BY <1>1 DEF InputType
<1>3. /\ t.who = in.who /\ t.phase = in.phase /\ t.sync
      /\ t.data = in.data /\ t.fin = in.fin /\ t.acked = in.acked
  BY <1>1 DEF InputType
<1> HIDE DEF t
<1>4. t.who # NoClient
  BY <1>3, IdleLemma DEF InputOK
<1>5. InputOK(t)
  BY <1>2, <1>3, <1>4 DEF InputOK
<1> QED BY <1>3, <1>5 DEF t

\* A callback done with client w, after which the window and the queue agree
\* with the buffers both if it returns and if it stays in a SYNC section.
LEMMA SyncOrReturnLemma ==
    ASSUME Inv, NEW c \in Clients, input.who = c, ~input.sync,
           input.phase \in {"sent", "recv"}, NEW w, NEW sync \in BOOLEAN, NEW in,
           SyncOrReturn(c, w, sync, in), InputOK(in), in.who = c, ~in.sync, in.acked = 0,
           Sound(w), InCallback(w), Accounted(c, w), Flushed(c, w),
           w.sentCb => w.pending = w.queued,
           Room(w, in), Room(w, [input EXCEPT !.sync = TRUE])
    PROVE  Inv' /\ FlushStep
<1>0. InputOK(input) /\ input.who # NoClient /\ ConnInv /\ quitting = FALSE
  BY MidLemma
<1>1. w.queued \in 0 .. SndBuf
  BY DEF Sound, Conn
<1>2. CASE sync
  <2> DEFINE t == [input EXCEPT !.sync = TRUE]
  <2>1. Step(c, w, t) /\ ret' = ret /\ quitting' = quitting
    BY <1>2 DEF SyncOrReturn
  <2>2. /\ InputOK(t) /\ t.who = input.who /\ t.sync /\ Room(w, t)
    BY <1>0, SyncedLemma
  <2> HIDE DEF t
  <2>3. Acked(w, t) /\ Held(w, t)
    BY <1>1, <2>2, SizesAssumption DEF Acked, Held, SizesAssumption
  <2>4. ClientOK(w, t)
    BY <2>2, <2>3 DEF ClientOK
  <2>5. ConnInv' /\ FlushStep
    BY <1>0, <2>1, <2>2, <2>4, StepLemma
  <2> QED BY <1>0, <2>1, <2>5 DEF Inv, ErrAbrtIffAborted
<1>3. CASE ~sync
  <2>1. CallbackReturn(c, w, in)
    BY <1>3 DEF SyncOrReturn
  <2>2. Acked(w, in)
    BY <1>1, SizesAssumption DEF Acked, SizesAssumption
  <2> QED BY <2>1, <2>2, CallbackReturnLemma
<1> QED BY <1>2, <1>3

\* TCP_EVENT_SENT
LEMMA SentPhaseLemma ==
    ASSUME Inv, NEW c \in Clients, SentPhase(c)
    PROVE  Inv' /\ FlushStep
<1> DEFINE v == conn[c]
           E == Enter(v)
           in == AfterSent(input)
           syn == [input EXCEPT !.sync = TRUE]
<1>0. input.who = c /\ input.phase = "sent" /\ ~input.sync
  BY DEF SentPhase
<1>1. /\ InputOK(input) /\ input \in InputType /\ input.who # NoClient
      /\ Sound(v) /\ v.frees = 0 /\ v \in Conn
      /\ Room(v, input) /\ Acked(v, input) /\ v.pcb \notin {"none", "freed"}
  BY <1>0, MidLemma
<1>2. /\ InputOK(in) /\ in.who = input.who /\ ~in.sync /\ in.acked = 0
      /\ in.data = input.data /\ in.fin = input.fin
  BY <1>0, <1>1, AfterLemma
<1>3. /\ Sound(E) /\ SameClient(v, E) /\ InCallback(E)
      /\ E.pcb = v.pcb /\ E.rcvWnd = v.rcvWnd /\ E.queued = v.queued
  BY <1>1, EnterLemma
<1>4. /\ InputOK(syn) /\ syn.who = input.who /\ syn.phase = "sent" /\ syn.sync
      /\ syn.data = input.data /\ syn.fin = input.fin
  BY <1>0, <1>1, SyncedLemma
<1>5. CASE v.sentCb
  <2>1. PICK wr \in Wrote, o \in BOOLEAN, e \in BOOLEAN :
           LET w == SentFunc(E, input.acked, wr, o, e)
           IN  SyncOrReturn(c, w, w.recving /\ ~v.recving, in)
    BY <1>5 DEF SentPhase
  <2> DEFINE w == SentFunc(E, input.acked, wr, o, e)
             sync == w.recving /\ ~v.recving
  <2>2. SyncOrReturn(c, w, sync, in) /\ sync \in BOOLEAN
    BY <2>1
  <2>3. input.acked \in 0 .. SndBuf
    BY <1>1 DEF InputType
  <2>4. E.pending = E.queued + input.acked
    BY <1>0, <1>1, <1>3, <1>5 DEF Acked, SameClient
  <2>5. E.sentCb
    BY <1>3, <1>5 DEF SameClient
  <2>6. E.frees = 0
    BY <1>1, <1>3 DEF SameClient
  <2> HIDE DEF E
  <2>7. Follows(E, w, TRUE)
    BY <1>3, <2>3, <2>4, <2>5, <2>6, SentFuncLemma
  <2> HIDE DEF w, sync, in, syn
  <2>8. Sound(w) /\ InCallback(w) /\ (w.sentCb => w.pending = w.queued)
    BY <1>3, <2>7 DEF Follows
  <2>9. Accounted(c, w)
    <3>1. v.alive
      BY <1>1, <1>5 DEF Sound, Wired
    <3> QED BY <2>7, <3>1 DEF Accounted, Follows
  <2>10. Flushed(c, w)
    BY <1>3, <2>7 DEF Follows, Flushed, SameClient, Attached
  <2>11. w.recvCb => v.recvCb /\ w.buf + w.rcvWnd = v.buf + v.rcvWnd
    BY <1>3, <2>7 DEF Follows, SameClient
  <2>12. Room(w, in) /\ Room(w, syn)
    BY <1>0, <1>1, <1>2, <1>4, <2>11 DEF Room
  <2> QED
    BY <1>0, <1>2, <2>2, <2>8, <2>9, <2>10, <2>12, SyncOrReturnLemma DEF syn
<1>6. CASE ~v.sentCb
  <2>1. CallbackReturn(c, E, in)
    BY <1>6 DEF SentPhase
  <2> HIDE DEF E, in
  <2>2. Accounted(c, E) /\ Flushed(c, E)
    BY <1>1, <1>3 DEF Accounted, SameClient, Flushed, Attached
  <2>3. Room(E, in)
    BY <1>0, <1>1, <1>2, <1>3 DEF Room, SameClient
  <2>4. Acked(E, in)
    BY <1>3, <1>6 DEF Acked, SameClient
  <2> QED BY <1>0, <1>2, <1>3, <2>1, <2>2, <2>3, <2>4, CallbackReturnLemma
<1> QED BY <1>5, <1>6

\* TCP_EVENT_RECV: the data always fits.
LEMMA RecvPhaseLemma ==
    ASSUME Inv, NEW c \in Clients, RecvPhase(c)
    PROVE  Inv' /\ FlushStep
<1> DEFINE v == conn[c]
           E == Enter(v)
           in == AfterRecv(input)
           syn == [input EXCEPT !.sync = TRUE]
<1>0. input.who = c /\ input.phase = "recv" /\ ~input.sync
  BY DEF RecvPhase
<1>1. /\ InputOK(input) /\ input \in InputType /\ input.who # NoClient /\ ConnInv
      /\ Sound(v) /\ v.frees = 0 /\ v \in Conn /\ quitting = FALSE
      /\ Room(v, input) /\ Acked(v, input) /\ v.pcb \notin {"none", "freed"}
  BY <1>0, MidLemma
<1>2. /\ InputOK(in) /\ in.who = input.who /\ ~in.sync /\ in.acked = 0
      /\ in.data = 0 /\ in.fin = input.fin
  BY <1>0, <1>1, AfterLemma
<1>3. /\ Sound(E) /\ SameClient(v, E) /\ InCallback(E)
      /\ E.pcb = v.pcb /\ E.rcvWnd = v.rcvWnd /\ E.queued = v.queued
  BY <1>1, EnterLemma
<1>4. /\ InputOK(syn) /\ syn.who = input.who /\ syn.phase = "recv" /\ syn.sync
      /\ syn.data = input.data /\ syn.fin = input.fin
  BY <1>0, <1>1, SyncedLemma
<1>5. input.data \in 1 .. Wnd /\ input.acked = 0
  <2>1. input.data \in 0 .. Wnd /\ input.data > 0 /\ input.acked = 0
    BY <1>0, <1>1 DEF InputType, InputOK
  <2> QED BY <2>1, SizesAssumption DEF SizesAssumption
<1>6. CASE ~Attached(v)
  <2> DEFINE x == TRUE
             t == TcpAbort(v)
  <2>1. t = [v EXCEPT !.pcb = "freed", !.tcpAbort = x]
    BY DEF TcpAbort
  <2>2. Step(c, t, Idle) /\ ret' = ret /\ quitting' = quitting
    BY <1>6 DEF RecvPhase
  <2>3. x \in BOOLEAN
    OBVIOUS
  <2> HIDE DEF x, t
  <2>4. Sound(t) /\ SameClient(v, t) /\ t.pcb = "freed"
    BY <1>1, <1>6, <2>1, <2>3, DropLemma
  <2>5. ClientOK(t, Idle)
    BY <2>4, LetGoIdleLemma DEF Attached
  <2>6. Accounted(c, t) /\ Flushed(c, t)
    BY <1>1, <2>4 DEF Accounted, SameClient, Flushed
  <2>7. ConnInv' /\ FlushStep
    BY <1>0, <1>1, <2>2, <2>5, <2>6, IdleLemma, StepLemma
  <2> QED BY <1>1, <2>2, <2>7 DEF Inv, ErrAbrtIffAborted
<1>7. CASE Attached(v) /\ v.recvCb
  <2> DEFINE w == RecvFunc(E, input.data)
             sync == w.sending /\ ~v.sending
  <2>1. SyncOrReturn(c, w, sync, in) /\ sync \in BOOLEAN
    BY <1>7 DEF RecvPhase
  <2>2. E.recvCb
    BY <1>3, <1>7 DEF SameClient
  <2>3. v.buf \in 0 .. Wnd /\ v.rcvWnd \in 0 .. Wnd /\ v.queued \in 0 .. SndBuf
    BY <1>1 DEF Conn
  <2>4. v.buf + v.rcvWnd + input.data + (IF input.fin THEN 1 ELSE 0) = Wnd
    BY <1>0, <1>1, <1>7 DEF Room
  <2>5. input.data <= Wnd - v.buf
    BY <1>5, <2>3, <2>4, SizesAssumption DEF SizesAssumption
  <2>6. E.frees = 0 /\ E.buf = v.buf /\ E.pending = v.pending
    BY <1>1, <1>3 DEF SameClient
  <2>a. input.data <= Wnd - E.buf
    BY <2>5, <2>6
  <2> HIDE DEF E
  <2>7. /\ Sound(w) /\ w.frees = 0 /\ w.alive
        /\ w.pcb = E.pcb /\ w.sentCb = E.sentCb
        /\ w.pending = E.pending /\ w.queued = E.queued
        /\ w.buf = E.buf + input.data /\ w.rcvWnd = E.rcvWnd
        /\ InCallback(E) => InCallback(w)
    BY <1>3, <1>5, <2>2, <2>6, <2>a, RecvFuncLemma
  <2> HIDE DEF w, sync, in, syn
  <2>8. Accounted(c, w)
    <3>1. v.alive
      BY <1>1, <1>7 DEF Sound, Wired
    <3> QED BY <2>7, <3>1 DEF Accounted
  <2>9. Flushed(c, w)
    BY <1>3, <2>7 DEF Flushed, Attached
  <2>10. w.sentCb => w.pending = w.queued
    BY <1>0, <1>1, <1>3, <1>5, <2>3, <2>6, <2>7, SizesAssumption
    DEF Acked, SameClient, SizesAssumption
  <2>11. w.buf + w.rcvWnd + 0 + (IF input.fin THEN 1 ELSE 0) = Wnd
    BY <1>3, <1>5, <2>3, <2>4, <2>6, <2>7, SizesAssumption DEF SizesAssumption
  <2>12. Room(w, in) /\ Room(w, syn)
    BY <1>2, <1>4, <2>11 DEF Room
  <2> QED
    BY <1>0, <1>2, <1>3, <2>1, <2>7, <2>8, <2>9, <2>10, <2>12, SyncOrReturnLemma DEF syn
<1>8. CASE Attached(v) /\ ~v.recvCb
  <2> DEFINE w == TcpRecved(E, input.data)
  <2>1. CallbackReturn(c, w, in)
    BY <1>8 DEF RecvPhase
  <2>2. input.data \in Nat
    BY <1>5, SizesAssumption DEF SizesAssumption
  <2> HIDE DEF E
  <2>3. /\ Sound(w) /\ SameClient(E, w) /\ InCallback(w)
        /\ w.pcb = E.pcb /\ w.queued = E.queued
    BY <1>3, <2>2, TcpRecvedLemma
  <2> HIDE DEF w, in
  <2>4. Accounted(c, w) /\ Flushed(c, w)
    BY <1>1, <1>3, <2>3 DEF Accounted, SameClient, Flushed, Attached
  <2>5. Room(w, in)
    BY <1>3, <1>8, <2>3 DEF Room, SameClient
  <2>6. Acked(w, in)
    BY <1>0, <1>1, <1>2, <1>3, <1>5, <2>3 DEF Acked, SameClient
  <2> QED BY <1>0, <1>2, <2>1, <2>3, <2>4, <2>5, <2>6, CallbackReturnLemma
<1> QED BY <1>6, <1>7, <1>8

\* TCP_EVENT_CLOSED: the app has closed its side.
LEMMA FinPhaseLemma ==
    ASSUME Inv, NEW c \in Clients, FinPhase(c)
    PROVE  Inv' /\ FlushStep
<1> DEFINE v == conn[c]
           E == Enter(v)
           w == TcpRecved(E, 1)
           end == [input EXCEPT !.fin = FALSE, !.phase = "end"]
<1>0. input.who = c /\ input.phase = "fin"
  BY DEF FinPhase
<1>1. /\ InputOK(input) /\ input \in InputType /\ input.who # NoClient
      /\ input.sync = FALSE /\ input.acked = 0 /\ input.data = 0
  <2>1. InputOK(input) /\ input \in InputType /\ input.who # NoClient
    BY <1>0, MidLemma
  <2> QED BY <1>0, <2>1 DEF InputOK, InputType
<1>2. /\ Sound(v) /\ v.frees = 0 /\ v \in Conn
      /\ Acked(v, input) /\ v.pcb \notin {"none", "freed"}
  BY <1>0, <1>1, MidLemma
<1>3. /\ end \in InputType /\ end.who = c /\ end.phase = "end" /\ ~end.fin
      /\ ~end.sync /\ end.acked = 0 /\ end.data = 0
  BY <1>0, <1>1 DEF InputType, Phases
<1>4. InputOK(end)
  <2> HIDE DEF end
  <2> QED BY <1>0, <1>1, <1>3 DEF InputOK
<1>5. /\ Sound(E) /\ SameClient(v, E) /\ InCallback(E)
      /\ E.pcb = v.pcb /\ E.queued = v.queued
  BY <1>2, EnterLemma
<1>6. /\ Sound(w) /\ SameClient(E, w) /\ InCallback(w)
      /\ w.pcb = E.pcb /\ w.queued = E.queued
  <2> HIDE DEF E
  <2> QED BY <1>5, TcpRecvedLemma
<1>7. CASE w.recvCb
  <2>1. PICK e \in BOOLEAN : CallbackReturn(c, FreeClient(w, TRUE, e), end)
    BY <1>7 DEF FinPhase
  <2> DEFINE r == FreeClient(w, TRUE, e)
  <2> HIDE DEF w, E, end
  <2>2. w.alive /\ Attached(w) /\ ~w.aborted /\ Served(w) /\ Begun(w) /\ w.refused = 0 /\ w \in Conn
    BY <1>6, <1>7 DEF Sound, Wired, Attached
  <2>3. w.frees = 0 /\ v.alive
    BY <1>2, <1>5, <1>6, <2>2 DEF SameClient
  <2>4. Closable(w)
    BY <2>2, <2>3 DEF Closable, Served
  <2>5. LetGo(r) /\ InCallback(r)
    BY <1>6, <2>2, <2>4, FreeClientLemma
  <2>6. CallbackReturn(c, r, end)
    BY <2>1
  <2> HIDE DEF r
  <2>7. Sound(r) /\ ~r.recvCb /\ ~r.sentCb
    BY <2>5 DEF LetGo, Sound, Wired
  <2>8. Accounted(c, r) /\ Flushed(c, r)
    BY <1>0, <2>3, <2>5 DEF Accounted, LetGo, Flushed
  <2>9. Room(r, end) /\ Acked(r, end)
    BY <2>7 DEF Room, Acked
  <2> QED BY <1>0, <1>3, <1>4, <2>5, <2>6, <2>7, <2>8, <2>9, CallbackReturnLemma
<1>8. CASE ~w.recvCb
  <2>1. CallbackReturn(c, w, end)
    BY <1>8 DEF FinPhase
  <2> HIDE DEF w, E, end
  <2>2. Accounted(c, w) /\ Flushed(c, w)
    BY <1>0, <1>2, <1>5, <1>6 DEF Accounted, SameClient, Flushed
  <2>3. Room(w, end)
    BY <1>8 DEF Room
  <2>4. Acked(w, end)
    BY <1>1, <1>2, <1>3, <1>5, <1>6 DEF Acked, SameClient
  <2> QED BY <1>0, <1>3, <1>4, <1>6, <2>1, <2>2, <2>3, <2>4, CallbackReturnLemma
<1> QED BY <1>7, <1>8

\* The end of tcp_input.
LEMMA EndPhaseLemma ==
    ASSUME Inv, NEW c \in Clients, EndPhase(c)
    PROVE  Inv' /\ FlushStep
<1> DEFINE v == conn[c]
           t == IF v.pcb = "delayed" THEN [v EXCEPT !.pcb = "freed"] ELSE v
<1>0. input.who = c /\ input.phase = "end"
  BY DEF EndPhase
<1>1. Step(c, t, Idle) /\ ret' = ret /\ quitting' = quitting
  BY DEF EndPhase
<1>2. /\ InputOK(input) /\ input \in InputType /\ input.who # NoClient /\ ConnInv
      /\ quitting = FALSE
      /\ Sound(v) /\ v.frees = 0 /\ v \in Conn
      /\ Room(v, input) /\ Acked(v, input)
  BY <1>0, MidLemma
<1>3. /\ input.sync = FALSE /\ input.acked = 0 /\ input.data = 0 /\ input.fin = FALSE
  BY <1>0, <1>2 DEF InputOK, InputType
<1>4. ClientOK(t, Idle) /\ Accounted(c, t) /\ Flushed(c, t)
  <2>1. CASE v.pcb = "delayed"
    <3> DEFINE x == v.tcpAbort
    <3>1. t = [v EXCEPT !.pcb = "freed", !.tcpAbort = x] /\ x \in BOOLEAN
      BY <1>2, <2>1 DEF Conn
    <3>2. ~Attached(v)
      BY <2>1 DEF Attached
    <3> HIDE DEF t, x
    <3>3. Sound(t) /\ SameClient(v, t) /\ t.pcb = "freed"
      BY <1>2, <3>1, <3>2, DropLemma
    <3>4. ClientOK(t, Idle)
      BY <3>3, LetGoIdleLemma DEF Attached
    <3>5. Accounted(c, t) /\ Flushed(c, t)
      BY <1>2, <3>3 DEF Accounted, SameClient, Flushed
    <3> QED BY <3>4, <3>5
  <2>2. CASE v.pcb # "delayed"
    <3>1. t = v
      BY <2>2
    <3>2. Room(v, Idle) /\ Acked(v, Idle)
      BY <1>2, <1>3, IdleLemma DEF Room, Acked
    <3>3. Held(v, Idle)
      BY IdleLemma DEF Held
    <3>4. Accounted(c, v) /\ Flushed(c, v)
      BY <1>2 DEF Accounted, Flushed, Attached
    <3> QED BY <1>2, <3>1, <3>2, <3>3, <3>4 DEF ClientOK
  <2> QED BY <2>1, <2>2
<1> HIDE DEF t
<1>5. ConnInv' /\ FlushStep
  BY <1>0, <1>1, <1>2, <1>4, IdleLemma, StepLemma
<1> QED BY <1>1, <1>2, <1>5 DEF Inv, ErrAbrtIffAborted

\* A segment arrives: what it takes from the window and from the queue is in
\* flight until its phases are through.
LEMMA SegmentLemma ==
    ASSUME Inv, NEW c \in Clients, NEW a \in 0 .. SndBuf, NEW d \in 0 .. Wnd,
           NEW f \in BOOLEAN, Segment(c, a, d, f)
    PROVE  Inv' /\ FlushStep
<1> DEFINE v == conn[c]
           flag == IF f THEN 1 ELSE 0
           p == IF f THEN "closewait" ELSE v.pcb
           m == v.rcvWnd - d - flag
           q == v.queued - a
           t == [v EXCEPT !.queued = @ - a, !.rcvWnd = @ - d - flag,
                          !.pcb = IF f THEN "closewait" ELSE @]
           seg == [who |-> c, phase |-> "sent", acked |-> a, data |-> d,
                   fin |-> f, sync |-> FALSE]
           in == IF a > 0 THEN seg ELSE AfterSent(seg)
<1>0. /\ input.phase = "idle" /\ ~quitting /\ Attached(v)
      /\ a \in 0 .. v.queued /\ d + flag <= v.rcvWnd
      /\ Step(c, t, in) /\ ret' = ret /\ quitting' = quitting
  BY DEF Segment
<1>1. input = Idle /\ ConnInv
  BY <1>0 DEF Inv, ConnInv, InputOK
<1>2. /\ Sound(v) /\ v.frees = 0 /\ v \in Conn
      /\ Room(v, Idle) /\ Acked(v, Idle)
  BY <1>1, IdleLemma DEF Inv, ConnInv, ClientOK, View
<1>3. /\ v.queued \in 0 .. SndBuf /\ v.rcvWnd \in 0 .. Wnd /\ v.buf \in 0 .. Wnd
      /\ v.pcb \in {"open", "closewait"}
      /\ v.dead \in {-1, 0, 1} /\ v.tcpAbort \in BOOLEAN /\ v.pending \in 0 .. SndBuf
  BY <1>0, <1>2 DEF Conn, Attached
<1>4. flag \in {0, 1} /\ (f <=> flag = 1)
  OBVIOUS
<1>5. t = Touched(v, p, m, q, v.dead, v.tcpAbort)
  <2>1. t = [v EXCEPT !.queued = q, !.rcvWnd = m, !.pcb = p]
    OBVIOUS
  <2> HIDE DEF t, p, m, q
  <2> QED BY <1>2, <2>1 DEF Touched, Conn
<1>6. p \in {"open", "closewait"} /\ p \in Pcb
  BY <1>3 DEF Pcb
<1> HIDE DEF flag
<1>7. m \in 0 .. Wnd /\ q \in 0 .. SndBuf
  BY <1>0, <1>3, <1>4, SizesAssumption DEF SizesAssumption
<1>8. v.alive /\ ~v.up => q = 0
  <2>1. v.alive /\ ~v.up => v.queued = 0
    BY <1>2 DEF Sound, Begun
  <2> QED BY <1>0, <2>1
<1>9. ~v.aborted
  BY <1>0, <1>2 DEF Sound, Attached
<1>10. v.sentCb => v.pending = q + a
  BY <1>0, <1>2, <1>3, IdleLemma, SizesAssumption DEF Acked, SizesAssumption
<1>11. v.recvCb => v.buf + m + d + flag = Wnd
  <2>1. v.recvCb => v.buf + v.rcvWnd + 0 + 0 = Wnd
    BY <1>2, IdleLemma DEF Room
  <2> QED BY <1>0, <1>3, <1>4, <1>7, <2>1, SizesAssumption DEF SizesAssumption
<1>12. /\ Sound(t) /\ SameClient(v, t) /\ t.pcb = p /\ t.rcvWnd = m /\ t.queued = q
  <2> DEFINE dd == v.dead
             x == v.tcpAbort
  <2>1. t = Touched(v, p, m, q, dd, x) /\ dd \in {-1, 0, 1} /\ x \in BOOLEAN
    BY <1>3, <1>5
  <2> HIDE DEF t, p, m, q, dd, x
  <2>2. p \in {"open", "closewait"} <=> Attached(v)
    BY <1>0, <1>6
  <2>3. v.aborted => p = "freed"
    BY <1>9
  <2> QED BY <1>2, <1>6, <1>7, <1>8, <2>1, <2>2, <2>3, TouchedLemma
<1> HIDE DEF t, p, m, q
<1>13. /\ seg \in InputType /\ seg.who = c /\ seg.phase = "sent" /\ seg.acked = a
       /\ seg.data = d /\ seg.fin = f /\ ~seg.sync
  BY DEF InputType, Phases
<1> HIDE DEF seg
<1>14. InputOK(seg) /\ seg.who # NoClient
  BY <1>13, ClientsAssumption DEF InputOK, ClientsAssumption
<1>15. /\ InputOK(in) /\ in.who = c /\ ~in.sync /\ in.acked = a
       /\ in.data = d /\ in.fin = f
  <2>1. CASE a > 0
    BY <1>13, <1>14, <2>1
  <2>2. CASE ~(a > 0)
    <3>1. a = 0
      BY <2>2, SizesAssumption DEF SizesAssumption
    <3>2. in = AfterSent(seg)
      BY <2>2
    <3> HIDE DEF in
    <3> QED BY <1>13, <1>14, <3>1, <3>2, AfterLemma
  <2> QED BY <2>1, <2>2
<1> HIDE DEF in
<1>16. Room(t, in)
  <2>1. flag = (IF in.fin THEN 1 ELSE 0)
    BY <1>15 DEF flag
  <2> QED BY <1>11, <1>12, <1>15, <2>1 DEF Room, SameClient
<1>17. Acked(t, in) /\ Held(t, in)
  BY <1>6, <1>10, <1>12, <1>15 DEF Acked, Held, SameClient
<1>18. Accounted(c, t) /\ Flushed(c, t)
  BY <1>2, <1>6, <1>12 DEF Accounted, SameClient, Flushed
<1>19. ClientOK(t, in)
  BY <1>12, <1>16, <1>17 DEF ClientOK
<1>20. ConnInv' /\ FlushStep
  BY <1>0, <1>1, <1>15, <1>18, <1>19, IdleLemma, StepLemma
<1> QED BY <1>0, <1>20 DEF Inv, ErrAbrtIffAborted

\* listener_accept_func
LEMMA ListenerAcceptLemma ==
    ASSUME Inv, NEW c \in Clients, ListenerAccept(c)
    PROVE  Inv' /\ FlushStep
<1> DEFINE s == [Unused EXCEPT !.alive = TRUE, !.closed = FALSE, !.socksClosed = FALSE,
                               !.pcb = "open", !.errCb = TRUE, !.recvCb = TRUE]
           in == [Idle EXCEPT !.who = c, !.phase = "accept", !.sync = TRUE]
<1>0. /\ input.phase = "idle" /\ ~quitting /\ ~conn[c].alive
      /\ conn' = [conn EXCEPT ![c] = s] /\ numClients' = numClients + 1
      /\ input' = in /\ ret' = ret /\ quitting' = quitting
  BY DEF ListenerAccept
<1>1. Idle \in InputType
  BY IdleLemma DEF InputOK
<1>2. /\ in.who = c /\ in.phase = "accept" /\ in.acked = 0 /\ in.data = 0 /\ ~in.fin /\ in.sync
  BY <1>1, IdleLemma DEF InputType
<1>3. in \in InputType
  BY <1>1 DEF InputType, Phases
<1> HIDE DEF in
<1>4. InputOK(in)
  BY <1>2, <1>3, ClientsAssumption DEF InputOK, ClientsAssumption
<1>5. s \in Conn
  BY UnusedLemma DEF Conn, Pcb
<1>6. /\ s.alive /\ ~s.closed /\ ~s.socksClosed /\ ~s.up /\ ~s.sending /\ ~s.recving
      /\ s.buf = 0 /\ s.rbuf = -1 /\ s.pending = 0 /\ s.queued = 0 /\ s.rcvWnd = Wnd
      /\ s.pcb = "open" /\ s.errCb /\ s.recvCb /\ ~s.sentCb /\ s.refused = 0
      /\ ~s.aborted /\ ~s.tcpAbort /\ s.dead = 0 /\ s.frees = 0
  BY DEF Unused
<1> HIDE DEF s
<1>7. Sound(s)
  <2>1. Wired(s)
    BY <1>6 DEF Wired, Attached
  <2>2. Served(s) /\ Begun(s)
    BY <1>6 DEF Served, Begun
  <2> QED BY <1>5, <1>6, <2>1, <2>2 DEF Sound
<1>8. ClientOK(s, in)
  <2>1. Room(s, in)
    BY <1>2, <1>6, SizesAssumption DEF Room, SizesAssumption
  <2>2. Acked(s, in)
    BY <1>6 DEF Acked
  <2>3. Held(s, in)
    BY <1>2, <1>6 DEF Held, InCallback
  <2> QED BY <1>7, <2>1, <2>2, <2>3 DEF ClientOK
<1>9. input = Idle /\ ConnInv /\ conn \in [Clients -> Conn]
  BY <1>0 DEF Inv, ConnInv, InputOK
<1>10. conn'[c] = s /\ \A d \in Clients : d # c => conn'[d] = conn[d]
  BY <1>0, <1>9
<1>11. conn' \in [Clients -> Conn]
  BY <1>0, <1>5, <1>9
<1>12. \A d \in Clients : conn'[d].frees = 0
  BY <1>6, <1>9, <1>10 DEF ConnInv
<1>13. numClients' = Cardinality({d \in Clients : conn'[d].alive})
  <2>1. numClients = Cardinality({d \in Clients : conn[d].alive})
    BY <1>9 DEF ConnInv
  <2>2. conn' = [conn EXCEPT ![c] = s]
    BY <1>0
  <2>3. ~conn[c].alive /\ s.alive
            => numClients + 1 = Cardinality({d \in Clients : conn'[d].alive})
    BY <1>5, <1>9, <2>1, <2>2, CountLemma
  <2> QED BY <1>0, <1>6, <2>3
<1>14. \A d \in Clients : ClientOK(conn'[d], View(input', d))
  <2>1. View(in, c) = in
    BY <1>2 DEF View
  <2>2. ASSUME NEW d \in Clients, d # c
        PROVE  View(in, d) = Idle /\ View(input, d) = Idle
    BY <1>2, <1>9, <2>2, IdleLemma, ClientsAssumption DEF View, ClientsAssumption
  <2>3. \A d \in Clients : ClientOK(conn[d], View(input, d))
    BY <1>9 DEF ConnInv
  <2> QED BY <1>0, <1>8, <1>10, <2>1, <2>2, <2>3
<1>15. FlushStep
  BY <1>6, <1>10 DEF FlushStep, Attached
<1> QED
  BY <1>0, <1>4, <1>11, <1>12, <1>13, <1>14, <1>15 DEF Inv, ConnInv, ErrAbrtIffAborted

-----------------------------------------------------------------------------
(* The theorems *)

\* The invariant holds before the first connection.
LEMMA InitLemma == Init => Inv
<1> SUFFICES ASSUME Init PROVE Inv
  OBVIOUS
<1>1. /\ ~Unused.alive /\ Unused.frees = 0 /\ Unused.pcb = "none" /\ Unused.refused = 0
      /\ ~Unused.recvCb /\ ~Unused.sentCb /\ ~Unused.errCb /\ ~Unused.aborted
  BY DEF Unused
<1>2. Sound(Unused) /\ ~Attached(Unused)
  BY <1>1, UnusedLemma DEF Sound, Wired, Attached
<1>3. ClientOK(Unused, Idle)
  BY <1>2, LetGoIdleLemma
<1>4. \A c \in Clients : conn[c] = Unused
  BY DEF Init
<1>5. \A c \in Clients : View(input, c) = Idle
  BY DEF Init, View
<1>6. numClients = Cardinality({c \in Clients : conn[c].alive})
  <2>1. {c \in Clients : conn[c].alive} = {}
    BY <1>1, <1>4
  <2> QED BY <2>1, FS_EmptySet DEF Init
<1>7. conn \in [Clients -> Conn]
  BY UnusedLemma DEF Init
<1>8. InputOK(input) /\ ret \in Returned /\ ErrAbrtIffAborted /\ quitting = FALSE
  BY IdleLemma DEF Init, Returned, ErrAbrtIffAborted
<1> QED BY <1>1, <1>3, <1>4, <1>5, <1>6, <1>7, <1>8 DEF Inv, ConnInv

\* One step of the program, whichever it is.
LEMMA NextLemma ==
    ASSUME Inv, [Next]_vars
    PROVE  Inv' /\ FlushStep
<1>1. ASSUME NEW c \in Clients, ListenerAccept(c)
      PROVE  Inv' /\ FlushStep
  BY <1>1, ListenerAcceptLemma
<1>2. ASSUME NEW c \in Clients,
             \/ SocksError(c) \/ SocksClosed(c) \/ SocksUp(c) \/ SendDone(c)
             \/ RecvDone(c) \/ ClientErr(c) \/ MurderClient(c)
      PROVE  Inv' /\ FlushStep
  BY <1>2, JobActions
<1>3. ASSUME NEW c \in Clients, SomeSegment(c)
      PROVE  Inv' /\ FlushStep
  <2>1. PICK a \in 0 .. SndBuf, d \in 0 .. Wnd, f \in BOOLEAN : Segment(c, a, d, f)
    BY <1>3 DEF SomeSegment
  <2> QED BY <2>1, SegmentLemma
<1>4. ASSUME NEW c \in Clients, Input(c)
      PROVE  Inv' /\ FlushStep
  <2>1. CASE SyncReturn(c)
    BY <2>1, SyncReturnLemma
  <2>2. CASE SentPhase(c)
    BY <2>2, SentPhaseLemma
  <2>3. CASE RecvPhase(c)
    BY <2>3, RecvPhaseLemma
  <2>4. CASE FinPhase(c)
    BY <2>4, FinPhaseLemma
  <2>5. CASE EndPhase(c)
    BY <2>5, EndPhaseLemma
  <2> QED BY <1>4, <2>1, <2>2, <2>3, <2>4, <2>5 DEF Input
<1>5. CASE Terminate
  <2>1. /\ conn' = conn /\ numClients' = numClients /\ input' = input /\ ret' = ret
        /\ quitting' = TRUE /\ input.phase = "idle"
    BY <1>5 DEF Terminate
  <2>2. input = Idle
    BY <2>1 DEF Inv, ConnInv, InputOK
  <2>3. ConnInv'
    BY <2>1 DEF Inv, ConnInv
  <2>4. FlushStep
    BY <2>1 DEF FlushStep, Attached
  <2> QED BY <2>1, <2>2, <2>3, <2>4 DEF Inv, ErrAbrtIffAborted
<1>6. CASE UNCHANGED vars
  <2>1. /\ conn' = conn /\ numClients' = numClients /\ input' = input /\ ret' = ret
        /\ quitting' = quitting
    BY <1>6 DEF vars
  <2>2. ConnInv'
    BY <2>1 DEF Inv, ConnInv
  <2>3. FlushStep
    BY <2>1 DEF FlushStep, Attached
  <2> QED BY <2>1, <2>2, <2>3 DEF Inv, ErrAbrtIffAborted
<1> QED BY <1>1, <1>2, <1>3, <1>4, <1>5, <1>6 DEF Next

\* The inductive invariant holds in every behaviour.
THEOREM Invariance == Spec => []Inv
<1>1. Inv /\ [Next]_vars => Inv'
  BY NextLemma
<1> QED BY <1>1, InitLemma, PTL DEF Spec

\* lwIP never calls back a client that was freed or has let go of its pcb
\* (client_free_client, client_abort_client, client_dealloc).
THEOREM CallbacksAreLiveHolds == Spec => []CallbacksAreLive
<1>1. Inv => CallbacksAreLive
  <2> SUFFICES ASSUME Inv, NEW c \in Clients
               PROVE  LET w == conn[c]
                      IN  /\ w.errCb \/ w.recvCb \/ w.sentCb
                                => w.alive /\ ~w.closed /\ Attached(w)
                          /\ w.alive /\ ~w.closed => w.errCb /\ Attached(w)
                          /\ w.sentCb => w.up
                          /\ w.alive /\ ~w.closed /\ w.up => w.sentCb
    BY DEF CallbacksAreLive
  <2>1. Wired(conn[c])
    BY DEF Inv, ConnInv, ClientOK, Sound
  <2> QED BY <2>1 DEF Wired
<1> QED BY <1>1, Invariance, PTL

\* tcp_input never goes on with a deallocated pcb, whatever the client's
\* callbacks did to it (client_abort_pcb, tcp_close, dead_aborted).
THEOREM NoUseAfterFreeHolds == Spec => []NoUseAfterFree
<1>1. Inv => NoUseAfterFree
  <2> SUFFICES ASSUME Inv, NEW c \in Clients, input.who = c, ~input.sync
               PROVE  conn[c].pcb \notin {"none", "freed"}
    BY DEF NoUseAfterFree
  <2> QED BY MidLemma
<1> QED BY <1>1, Invariance, PTL

\* A callback returns ERR_ABRT if and only if tcp_abort was called in it, by
\* whichever nested call or job (DEAD_ENTER, client_abort_pcb, client_dealloc).
THEOREM ErrAbrtIffAbortedHolds == Spec => []ErrAbrtIffAborted
<1>1. Inv => ErrAbrtIffAborted
  BY DEF Inv
<1> QED BY <1>1, Invariance, PTL

\* The window advertised is the room in client->buf, so client_recv_func never
\* refuses data; all counters stay in range; num_clients is right.
THEOREM WindowIsRoomHolds == Spec => []WindowIsRoom
<1>1. Inv => WindowIsRoom
  <2> SUFFICES ASSUME Inv PROVE WindowIsRoom
    OBVIOUS
  <2>1. TypeOK
    BY DEF TypeOK, Inv, ConnInv, InputOK, InputType
  <2>2. ASSUME NEW c \in Clients
        PROVE  LET w == conn[c]
                   inflight == IF input.who # c THEN 0
                               ELSE input.data + (IF input.fin THEN 1 ELSE 0)
                   taken == IF input.sync /\ input.phase = "recv" THEN input.data ELSE 0
               IN  /\ w.refused = 0
                   /\ w.recvCb => w.buf + w.rcvWnd + inflight
                                  - (IF input.who = c THEN taken ELSE 0) = Wnd
    <3> DEFINE w == conn[c]
    <3>1. w.refused = 0 /\ w \in Conn /\ Room(w, View(input, c)) /\ input \in InputType
      BY DEF Inv, ConnInv, ClientOK, Sound, InputOK
    <3>2. w.buf \in 0 .. Wnd /\ w.rcvWnd \in 0 .. Wnd /\ input.data \in 0 .. Wnd
      BY <3>1 DEF Conn, InputType
    <3>3. CASE input.who = c
      <4>1. Room(w, input)
        BY <3>1, <3>3 DEF View
      <4> QED BY <3>1, <3>2, <3>3, <4>1, SizesAssumption DEF Room, SizesAssumption
    <3>4. CASE input.who # c
      <4>1. Room(w, Idle)
        BY <3>1, <3>4 DEF View
      <4> QED BY <3>1, <3>2, <3>4, <4>1, IdleLemma, SizesAssumption DEF Room, SizesAssumption
    <3> QED BY <3>3, <3>4
  <2> QED BY <2>1, <2>2 DEF WindowIsRoom
<1> QED BY <1>1, Invariance, PTL

\* socks_recv_tcp_pending is what lwIP has queued: the assertion in
\* client_sent_func never fails.
THEOREM PendingIsQueuedHolds == Spec => []PendingIsQueued
<1>1. Inv => PendingIsQueued
  <2> SUFFICES ASSUME Inv, NEW c \in Clients, conn[c].sentCb
               PROVE  conn[c].pending
                        = conn[c].queued + (IF input.who = c /\ ~input.sync
                                            THEN input.acked ELSE 0)
    BY DEF PendingIsQueued
  <2>1. Acked(conn[c], View(input, c))
    BY DEF Inv, ConnInv, ClientOK
  <2> QED BY <2>1, IdleLemma DEF Acked, View
<1> QED BY <1>1, Invariance, PTL

\* An allocated client always has something outstanding that calls it again,
\* and one with a closed side something left to flush.
THEOREM NothingStuckHolds == Spec => []NothingStuck
<1>1. Inv => NothingStuck
  BY DEF Inv, ConnInv, ClientOK, Sound, Served, NothingStuck
<1> QED BY <1>1, Invariance, PTL

\* Unless the app closed first, its connection is closed in an orderly way only
\* when all data from the SOCKS server is acknowledged (client_free_socks,
\* client_sent_func).
THEOREM FlushBeforeCloseHolds == Spec => FlushBeforeClose
<1>1. Inv /\ [Next]_vars => FlushStep
  BY NextLemma
<1>2. Inv /\ [Next]_vars =>
        [\A c \in Clients :
          /\ Attached(conn[c])
          /\ conn'[c].pcb \in {"detached", "delayed"}
          /\ input.phase # "fin"
          => conn[c].queued = 0 /\ conn[c].rbuf = -1]_vars
  BY <1>1 DEF FlushStep
<1> QED BY <1>2, Invariance, PTL DEF Spec, FlushBeforeClose
=============================================================================
