-------------------------- MODULE Tun2SocksClient --------------------------
(***************************************************************************)
(* badvpn/tun2socks/tun2socks.c: the TCP half of tun2socks.  Every TCP     *)
(* connection an app opens through the tunnel is terminated by lwIP (a     *)
(* pcb) and forwarded over one SOCKS connection; a tcp_client ties the two *)
(* together and outlives whichever of them goes away first.                *)
(*                                                                         *)
(* tun2socks is single threaded.  lwIP calls the client back from inside   *)
(* tcp_input, one callback per phase of the segment, and a callback may    *)
(* itself run the SOCKS jobs it started before it returns (SYNC_COMMIT).   *)
(* `input` is that call stack: while a segment is being processed nothing  *)
(* else runs, and in a SYNC section only the jobs of the client do.  A job *)
(* handler is one atomic step.                                             *)
(*                                                                         *)
(* Abstracted: the bytes (a buffer is the number of bytes in it: every     *)
(* buffer is a FIFO), addresses, logging, TCP sequence numbers and timers. *)
(* What lwIP and the kernel answer (tcp_close, tcp_write, tcp_output, how  *)
(* much a send or a receive moves) is chosen freely within the contract.   *)
(* A failed listener_accept_func (out of memory) leaves no trace and is no *)
(* step.                                                                   *)
(***************************************************************************)
EXTENDS Integers, FiniteSets

CONSTANTS
    Clients,    \* slots for struct tcp_client
    Wnd,        \* TCP_WND: lwIP's receive window, and the size of client->buf
    RecvBuf,    \* CLIENT_SOCKS_RECV_BUF_SIZE
    SndBuf,     \* TCP_SND_BUF
    NoClient    \* no segment is being processed

ASSUME SizesAssumption ==
    /\ Wnd \in Nat \ {0} /\ RecvBuf \in Nat \ {0} /\ SndBuf \in Nat \ {0}
ASSUME ClientsAssumption == IsFiniteSet(Clients) /\ NoClient \notin Clients

VARIABLES
    conn,       \* each client together with its pcb
    numClients, \* num_clients
    input,      \* the call stack: the segment tcp_input is working on
    ret,        \* what the last callback returned, and whether it had aborted
    quitting    \* the event loop was told to exit

vars == <<conn, numClients, input, ret, quitting>>

(***************************************************************************)
(* A connection.  The client: alive (allocated), closed (client_closed),   *)
(* up and socksClosed (socks_up, socks_closed), aborted, dead (the int     *)
(* dead_aborted points to), buf (buf_used), rbuf and rsent (socks_recv_    *)
(* buf_used and _sent), waiting, pending (socks_recv_tcp_pending), sending *)
(* and recving (an operation on the SOCKS stream is outstanding).  The     *)
(* pcb: its life, the three callbacks, rcvWnd (rcv_wnd), queued (bytes not *)
(* yet acknowledged: TCP_SND_BUF minus snd_buf), refused (refused_data).   *)
(* tcpAbort: tcp_abort was called since the callback was entered; frees:   *)
(* client_dealloc calls in this step.                                      *)
(*                                                                         *)
(* pcb: "open" ESTABLISHED, "closewait" CLOSE_WAIT, "detached" closed by   *)
(* tcp_close and left to lwIP, "delayed" closed by tcp_close inside its    *)
(* own tcp_input, to be deallocated there, "freed" deallocated.            *)
(***************************************************************************)
Pcb == {"none", "open", "closewait", "detached", "delayed", "freed"}

Conn ==
    [alive: BOOLEAN, closed: BOOLEAN, up: BOOLEAN, socksClosed: BOOLEAN,
     aborted: BOOLEAN, dead: {-1, 0, 1}, buf: 0 .. Wnd,
     rbuf: {-1} \cup 1 .. RecvBuf, rsent: 0 .. RecvBuf, waiting: BOOLEAN,
     pending: 0 .. SndBuf, sending: BOOLEAN, recving: BOOLEAN,
     pcb: Pcb, recvCb: BOOLEAN, sentCb: BOOLEAN, errCb: BOOLEAN,
     rcvWnd: 0 .. Wnd, queued: 0 .. SndBuf, refused: 0 .. Wnd,
     tcpAbort: BOOLEAN, frees: {0, 1}]

Unused ==
    [alive |-> FALSE, closed |-> TRUE, up |-> FALSE, socksClosed |-> TRUE,
     aborted |-> FALSE, dead |-> 0, buf |-> 0, rbuf |-> -1, rsent |-> 0,
     waiting |-> FALSE, pending |-> 0, sending |-> FALSE, recving |-> FALSE,
     pcb |-> "none", recvCb |-> FALSE, sentCb |-> FALSE, errCb |-> FALSE,
     rcvWnd |-> Wnd, queued |-> 0, refused |-> 0,
     tcpAbort |-> FALSE, frees |-> 0]

Phases == {"idle", "accept", "sent", "recv", "fin", "end"}

Idle ==
    [who |-> NoClient, phase |-> "idle", acked |-> 0, data |-> 0,
     fin |-> FALSE, sync |-> FALSE]

Returned == [err: {"none", "ok", "mem", "abrt"}, aborted: BOOLEAN]

\* Types; and num_clients is the number of allocated clients: none is freed twice.
TypeOK ==
    /\ conn \in [Clients -> Conn]
    /\ \A c \in Clients : conn[c].frees = 0
    /\ numClients = Cardinality({c \in Clients : conn[c].alive})
    /\ input \in [who: Clients \cup {NoClient}, phase: Phases,
                  acked: 0 .. SndBuf, data: 0 .. Wnd, fin: BOOLEAN, sync: BOOLEAN]
    /\ ret \in Returned
    /\ quitting \in BOOLEAN

Init ==
    /\ conn = [c \in Clients |-> Unused]
    /\ numClients = 0
    /\ input = Idle
    /\ ret = [err |-> "none", aborted |-> FALSE]
    /\ quitting = FALSE

Attached(w) == w.pcb \in {"open", "closewait"}
Least(a, b) == IF a <= b THEN a ELSE b

-----------------------------------------------------------------------------
(* lwIP's half of the contract *)

\* tcp_abort: the pcb is deallocated at once.
TcpAbort(w) == [w EXCEPT !.pcb = "freed", !.tcpAbort = TRUE]

\* Mutant of TcpClose: no test of tcp_input_pcb.
TcpCloseAtOnce(w, inInput) ==
    [w EXCEPT !.pcb =
        IF w.pcb = "closewait" /\ (w.refused > 0 \/ w.rcvWnd # Wnd)
        THEN "freed" ELSE "detached"]

\* tcp_close: with unread data in CLOSE_WAIT the pcb is deallocated, by the
\* tcp_input that is using it if there is one; otherwise it goes through the
\* closing states on its own.
TcpClose(w, inInput) ==
    [w EXCEPT !.pcb =
        IF w.pcb = "closewait" /\ (w.refused > 0 \/ w.rcvWnd # Wnd)
        THEN IF inInput THEN "delayed" ELSE "freed"
        ELSE "detached"]

\* tcp_recved: the application has taken n bytes out of the window.
TcpRecved(w, n) == [w EXCEPT !.rcvWnd = Least(@ + n, Wnd)]

-----------------------------------------------------------------------------
(* tun2socks.c: taking a client apart *)

\* Mutant of Dealloc: dead_aborted is killed with -1 whether aborted or not.
DeallocAlwaysKills(w) ==
    [Unused EXCEPT !.pcb = w.pcb, !.rcvWnd = w.rcvWnd, !.tcpAbort = w.tcpAbort,
                   !.dead = -1, !.frees = w.frees + 1]

\* client_dealloc
Dealloc(w) ==
    [Unused EXCEPT
        !.pcb = w.pcb, !.rcvWnd = w.rcvWnd, !.tcpAbort = w.tcpAbort,
        !.dead = IF w.aborted THEN w.dead ELSE -1,
        !.frees = w.frees + 1]

\* client_abort_pcb
AbortPcb(w) == [TcpAbort(w) EXCEPT !.aborted = TRUE, !.dead = 1]

\* Mutant of RemoveCallbacks: tcp_sent(pcb, NULL) is missing.
RemoveCallbacksNotSent(w) == [w EXCEPT !.errCb = FALSE, !.recvCb = FALSE]

RemoveCallbacks(w) ==
    [w EXCEPT !.errCb = FALSE, !.recvCb = FALSE, !.sentCb = FALSE]

\* BSocksClient_Free: no handler of the SOCKS connection runs any more.
SocksFree(w) ==
    [w EXCEPT !.socksClosed = TRUE, !.sending = FALSE, !.recving = FALSE]

\* client_handle_freed_client: the pcb is gone or not ours any more.  What is
\* buffered for the SOCKS server is still sent if it can be.
HandleFreedClient(w) ==
    IF w.buf > 0 /\ ~w.socksClosed
    THEN [w EXCEPT !.closed = TRUE]
    ELSE Dealloc(SocksFree([w EXCEPT !.closed = TRUE]))

\* client_free_client.  closeErr: tcp_close reports that it failed.
FreeClient(w, inInput, closeErr) ==
    HandleFreedClient(IF closeErr
                      THEN AbortPcb(RemoveCallbacks(w))
                      ELSE TcpClose(RemoveCallbacks(w), inInput))

\* client_abort_client
AbortClient(w) == HandleFreedClient(AbortPcb(RemoveCallbacks(w)))

\* Mutant of FreeSocks: unacknowledged data is not waited for.
FreeSocksDropsPending(w, inInput, closeErr) ==
    LET v == SocksFree([w EXCEPT !.recvCb = @ /\ (w.closed \/ ~w.up)])
    IN  IF v.up /\ v.rbuf >= 0 /\ ~v.closed THEN v
        ELSE IF ~v.closed THEN FreeClient(v, inInput, closeErr)
        ELSE Dealloc(v)

\* client_free_socks.  What is buffered for the app is still sent if it can be.
FreeSocks(w, inInput, closeErr) ==
    LET v == SocksFree([w EXCEPT !.recvCb = @ /\ (w.closed \/ ~w.up)])
    IN  IF v.up /\ (v.rbuf >= 0 \/ v.pending > 0) /\ ~v.closed THEN v
        ELSE IF ~v.closed THEN FreeClient(v, inInput, closeErr)
        ELSE Dealloc(v)

\* Mutant of Murder: client_free_socks, which deallocates a closed client, in
\* place of BSocksClient_Free.
MurderTwice(w) ==
    LET v == [(IF w.closed THEN w ELSE AbortPcb(RemoveCallbacks(w)))
              EXCEPT !.closed = TRUE]
    IN  Dealloc(IF v.socksClosed THEN v ELSE FreeSocks(v, FALSE, FALSE))

\* client_murder
Murder(w) ==
    Dealloc(SocksFree([(IF w.closed THEN w ELSE AbortPcb(RemoveCallbacks(w)))
                       EXCEPT !.closed = TRUE]))

-----------------------------------------------------------------------------
(* tun2socks.c: moving data *)

\* Mutant of SendOut: everything received counts as pending.
SendOutCountsAll(w, wrote, outErr) ==
    LET n == Least(w.rbuf - w.rsent, SndBuf - w.queued)
        v == IF n = 0 \/ wrote = "mem" THEN w
             ELSE [w EXCEPT !.rsent = @ + n, !.pending = w.rbuf, !.queued = @ + n]
    IN  IF (n > 0 /\ wrote = "err") \/ outErr THEN AbortClient(v)
        ELSE IF v.rsent < v.rbuf
        THEN IF v.pending = 0 THEN AbortClient(v)
             ELSE [v EXCEPT !.waiting = TRUE]
        ELSE [v EXCEPT !.rbuf = -1, !.rsent = 0]

\* client_socks_recv_send_out: queue what fits into lwIP.  wrote is tcp_write's
\* answer; outErr: tcp_output failed.  The client is closed iff it was aborted.
SendOut(w, wrote, outErr) ==
    LET n == Least(w.rbuf - w.rsent, SndBuf - w.queued)
        v == IF n = 0 \/ wrote = "mem" THEN w
             ELSE [w EXCEPT !.rsent = @ + n, !.pending = @ + n, !.queued = @ + n]
    IN  IF (n > 0 /\ wrote = "err") \/ outErr THEN AbortClient(v)
        ELSE IF v.rsent < v.rbuf
        THEN IF v.pending = 0 THEN AbortClient(v)
             ELSE [v EXCEPT !.waiting = TRUE]
        ELSE [v EXCEPT !.rbuf = -1, !.rsent = 0]

\* Mutant of SentFunc: receiving is not continued.
SentFuncStops(w, n, wrote, outErr, closeErr) ==
    LET v == [w EXCEPT !.pending = @ - n]
    IN  IF v.rbuf > 0 THEN SendOut([v EXCEPT !.waiting = FALSE], wrote, outErr)
        ELSE IF v.socksClosed /\ v.pending = 0
             THEN FreeClient(v, TRUE, closeErr)
             ELSE v

\* client_sent_func: n bytes were acknowledged.
SentFunc(w, n, wrote, outErr, closeErr) ==
    LET v == [w EXCEPT !.pending = @ - n]
        s == SendOut([v EXCEPT !.waiting = FALSE], wrote, outErr)
    IN  IF v.rbuf > 0
        THEN IF ~s.closed /\ s.rbuf = -1 /\ ~s.socksClosed
             THEN [s EXCEPT !.recving = TRUE]
             ELSE s
        ELSE IF v.socksClosed /\ v.pending = 0
             THEN FreeClient(v, TRUE, closeErr)
             ELSE v

\* client_recv_func with data: "no buffer for data !?!" refuses it.
RecvFunc(w, n) ==
    IF n > Wnd - w.buf
    THEN [w EXCEPT !.refused = n]
    ELSE [w EXCEPT !.buf = @ + n,
                   !.sending = @ \/ (w.buf = 0 /\ w.up)]

\* Mutants of SendHandlerDone: the whole buffer is confirmed, not data_len; a
\* client that went down is not removed.
SendHandlerDoneAll(w, n, inInput, closeErr) ==
    LET u == [w EXCEPT !.buf = @ - n]
        v == IF u.closed THEN u ELSE TcpRecved(u, w.buf)
    IN  IF v.buf > 0 THEN v
        ELSE IF v.closed THEN FreeSocks(v, inInput, closeErr)
        ELSE [v EXCEPT !.sending = FALSE]
SendHandlerDoneForgets(w, n, inInput, closeErr) ==
    LET u == [w EXCEPT !.buf = @ - n]
        v == IF u.closed THEN u ELSE TcpRecved(u, n)
    IN  IF v.buf > 0 THEN v ELSE [v EXCEPT !.sending = FALSE]

\* client_socks_send_handler_done: the SOCKS server took n bytes.
SendHandlerDone(w, n, inInput, closeErr) ==
    LET u == [w EXCEPT !.buf = @ - n]
        v == IF u.closed THEN u ELSE TcpRecved(u, n)
    IN  IF v.buf > 0 THEN v
        ELSE IF v.closed THEN FreeSocks(v, inInput, closeErr)
        ELSE [v EXCEPT !.sending = FALSE]

\* client_socks_recv_handler_done: n bytes came from the SOCKS server.
RecvHandlerDone(w, n, wrote, outErr) ==
    LET s == SendOut([w EXCEPT !.rbuf = n, !.rsent = 0, !.waiting = FALSE,
                               !.recving = FALSE], wrote, outErr)
    IN  IF w.closed THEN [w EXCEPT !.recving = FALSE]
        ELSE IF ~s.closed /\ s.rbuf = -1 THEN [s EXCEPT !.recving = TRUE]
        ELSE s

\* client_socks_handler, BSOCKSCLIENT_EVENT_UP
SocksUpHandler(w) ==
    [w EXCEPT !.rbuf = -1, !.pending = 0, !.sentCb = ~w.closed, !.up = TRUE,
              !.sending = w.buf > 0, !.recving = ~w.closed]

-----------------------------------------------------------------------------
(* The event loop *)

\* The jobs of client c run from the event loop, or inside the SYNC section of
\* one of the given callbacks of c.
Runs(c, callbacks) ==
    \/ input.phase = "idle" /\ ~quitting
    \/ input.who = c /\ input.sync /\ input.phase \in callbacks

InInput(c) == input.who = c

\* A deallocated client's slot is free once lwIP is done with its pcb.
Settle(w, idle) ==
    IF idle /\ ~w.alive THEN Unused ELSE [w EXCEPT !.frees = 0]

\* Client c has become w; tcp_input goes on with `in`.
Step(c, w, in) ==
    /\ conn' = [conn EXCEPT ![c] = Settle(w, in.phase = "idle")]
    /\ numClients' = numClients - w.frees
    /\ input' = in

\* A step of a job or of a SYNC section: the call stack stays as it is.
JobStep(c, w) == Step(c, w, input) /\ UNCHANGED <<ret, quitting>>

\* BSocksClient reports an error: before it is up, or on its connection.
SocksError(c) ==
    /\ conn[c].alive /\ ~conn[c].socksClosed
    /\ Runs(c, {"accept", "sent", "recv"})
    /\ \E e \in BOOLEAN : JobStep(c, FreeSocks(conn[c], InInput(c), e))

\* The SOCKS server closed the connection: the outstanding receive found out.
SocksClosed(c) ==
    /\ conn[c].alive /\ conn[c].recving
    /\ Runs(c, {"accept", "sent"})
    /\ \E e \in BOOLEAN : JobStep(c, FreeSocks(conn[c], InInput(c), e))

SocksUp(c) ==
    /\ conn[c].alive /\ ~conn[c].socksClosed /\ ~conn[c].up
    /\ Runs(c, {"accept"})
    /\ JobStep(c, SocksUpHandler(conn[c]))

SendDone(c) ==
    /\ conn[c].alive /\ conn[c].sending
    /\ Runs(c, {"recv"})
    /\ \E n \in 1 .. conn[c].buf, e \in BOOLEAN :
          JobStep(c, SendHandlerDone(conn[c], n, InInput(c), e))

Wrote == {"ok", "mem", "err"}

RecvDone(c) ==
    /\ conn[c].alive /\ conn[c].recving
    /\ Runs(c, {"accept", "sent"})
    /\ \E n \in 1 .. RecvBuf, wr \in Wrote, o \in BOOLEAN :
          JobStep(c, RecvHandlerDone(conn[c], n, wr, o))

\* RST, too many retransmissions, or lwIP short of pcbs: client_err_func.
ClientErr(c) ==
    /\ input.phase = "idle" /\ ~quitting /\ conn[c].errCb
    /\ JobStep(c, HandleFreedClient(RemoveCallbacks([conn[c] EXCEPT !.pcb = "freed"])))

-----------------------------------------------------------------------------
(* tcp_input *)

\* The phase after sent, and after recv, of a segment.
AfterSent(in) ==
    [in EXCEPT !.acked = 0, !.sync = FALSE,
               !.phase = IF in.data > 0 THEN "recv"
                         ELSE IF in.fin THEN "fin" ELSE "end"]
AfterRecv(in) ==
    [in EXCEPT !.data = 0, !.sync = FALSE,
               !.phase = IF in.fin THEN "fin" ELSE "end"]

\* listener_accept_func up to SYNC_COMMIT: the SOCKS client starts connecting.
ListenerAccept(c) ==
    /\ input.phase = "idle" /\ ~quitting /\ ~conn[c].alive
    /\ conn' = [conn EXCEPT ![c] =
           [Unused EXCEPT !.alive = TRUE, !.closed = FALSE, !.socksClosed = FALSE,
                          !.pcb = "open", !.errCb = TRUE, !.recvCb = TRUE]]
    /\ numClients' = numClients + 1
    /\ input' = [Idle EXCEPT !.who = c, !.phase = "accept", !.sync = TRUE]
    /\ UNCHANGED <<ret, quitting>>

\* A segment for an attached pcb: a bytes acknowledged, d bytes of data in the
\* window, f a FIN, which takes one unit of the window until the fin phase.
Segment(c, a, d, f) ==
    LET flag == IF f THEN 1 ELSE 0
    IN  /\ input.phase = "idle" /\ ~quitting /\ Attached(conn[c])
        /\ a \in 0 .. conn[c].queued
        /\ d + flag <= conn[c].rcvWnd
        /\ (d > 0 \/ f) => conn[c].pcb = "open"
        /\ a + d + flag > 0
        /\ Step(c,
                [conn[c] EXCEPT !.queued = @ - a, !.rcvWnd = @ - d - flag,
                                !.pcb = IF f THEN "closewait" ELSE @],
                LET in == [who |-> c, phase |-> "sent", acked |-> a, data |-> d,
                           fin |-> f, sync |-> FALSE]
                IN  IF a > 0 THEN in ELSE AfterSent(in))
        /\ UNCHANGED <<ret, quitting>>

SomeSegment(c) ==
    \E a \in 0 .. SndBuf, d \in 0 .. Wnd, f \in BOOLEAN : Segment(c, a, d, f)

\* DEAD_ENTER
Enter(w) == [w EXCEPT !.dead = 0, !.tcpAbort = FALSE]

\* The callback returns to tcp_input (or tcp_process): ERR_ABRT makes it let go
\* of the pcb, otherwise it goes on with `in`; tcp_input_delayed_close.
CallbackReturn(c, w, in) ==
    LET err   == IF w.refused > 0 THEN "mem" ELSE IF w.dead > 0 THEN "abrt" ELSE "ok"
        close == w.pcb = "delayed" /\ input.phase = "sent"
    IN  /\ ret' = [err |-> err, aborted |-> w.tcpAbort]
        /\ Step(c, IF err # "abrt" /\ close THEN [w EXCEPT !.pcb = "freed"] ELSE w,
                   IF err = "abrt" \/ close THEN Idle ELSE in)
        /\ UNCHANGED quitting

\* The SYNC section of a callback is over: no job it started can go on.
SyncReturn(c) ==
    /\ input.who = c /\ input.sync
    /\ CallbackReturn(c, conn[c],
           CASE input.phase = "accept" -> [input EXCEPT !.phase = "end", !.sync = FALSE]
             [] input.phase = "sent"   -> AfterSent(input)
             [] OTHER                  -> AfterRecv(input))

\* A callback that opened a SYNC section stays in it, any other returns.
SyncOrReturn(c, w, sync, in) ==
    IF sync
    THEN Step(c, w, [input EXCEPT !.sync = TRUE]) /\ UNCHANGED <<ret, quitting>>
    ELSE CallbackReturn(c, w, in)

\* The sent phase: TCP_EVENT_SENT.
SentPhase(c) ==
    /\ input.who = c /\ input.phase = "sent" /\ ~input.sync
    /\ IF conn[c].sentCb
       THEN \E wr \in Wrote, o \in BOOLEAN, e \in BOOLEAN :
               LET w == SentFunc(Enter(conn[c]), input.acked, wr, o, e)
               IN  SyncOrReturn(c, w, w.recving /\ ~conn[c].recving, AfterSent(input))
       ELSE CallbackReturn(c, Enter(conn[c]), AfterSent(input))

\* The recv phase: a closed pcb is aborted, TCP_EVENT_RECV otherwise; without a
\* callback lwIP takes the data itself (tcp_recv_null).
RecvPhase(c) ==
    /\ input.who = c /\ input.phase = "recv" /\ ~input.sync
    /\ \/ /\ ~Attached(conn[c])
          /\ Step(c, TcpAbort(conn[c]), Idle)
          /\ UNCHANGED <<ret, quitting>>
       \/ /\ Attached(conn[c]) /\ conn[c].recvCb
          /\ LET w == RecvFunc(Enter(conn[c]), input.data)
             IN  SyncOrReturn(c, w, w.sending /\ ~conn[c].sending, AfterRecv(input))
       \/ /\ Attached(conn[c]) /\ ~conn[c].recvCb
          /\ CallbackReturn(c, TcpRecved(Enter(conn[c]), input.data), AfterRecv(input))

\* The fin phase: the FIN's unit of window is given back, TCP_EVENT_CLOSED;
\* client_recv_func without data.
FinPhase(c) ==
    /\ input.who = c /\ input.phase = "fin"
    /\ LET w   == TcpRecved(Enter(conn[c]), 1)
           end == [input EXCEPT !.fin = FALSE, !.phase = "end"]
       IN  IF w.recvCb
           THEN \E e \in BOOLEAN : CallbackReturn(c, FreeClient(w, TRUE, e), end)
           ELSE CallbackReturn(c, w, end)

\* The end of tcp_input: delayed close, then tcp_output on the pcb.
EndPhase(c) ==
    /\ input.who = c /\ input.phase = "end"
    /\ Step(c, IF conn[c].pcb = "delayed" THEN [conn[c] EXCEPT !.pcb = "freed"]
               ELSE conn[c], Idle)
    /\ UNCHANGED <<ret, quitting>>

-----------------------------------------------------------------------------
\* terminate()
Terminate ==
    /\ input.phase = "idle" /\ ~quitting
    /\ quitting' = TRUE
    /\ UNCHANGED <<conn, numClients, input, ret>>

\* main(), after the event loop: client_murder for every client left.
MurderClient(c) ==
    /\ quitting /\ conn[c].alive
    /\ JobStep(c, Murder(conn[c]))

Input(c) ==
    SyncReturn(c) \/ SentPhase(c) \/ RecvPhase(c) \/ FinPhase(c) \/ EndPhase(c)

Next ==
    \/ \E c \in Clients :
          \/ ListenerAccept(c)
          \/ SocksError(c)
          \/ SocksClosed(c)
          \/ SocksUp(c)
          \/ SendDone(c)
          \/ RecvDone(c)
          \/ ClientErr(c)
          \/ SomeSegment(c)
          \/ Input(c)
          \/ MurderClient(c)
    \/ Terminate

Spec == Init /\ [][Next]_vars

(***************************************************************************)
(* Fairness.  The event loop never stops in the middle of a segment.  Once *)
(* one side is closed, what is outstanding on the other makes progress or  *)
(* fails: lwIP retransmits what is queued until it is acknowledged or      *)
(* reports ERR_ABRT (tcp_slowtmr), the kernel does the same for the SOCKS  *)
(* connection.  Where nothing is outstanding nothing is promised, neither  *)
(* an error nor a close, and nothing is assumed of a connection both sides *)
(* of which are open.                                                      *)
(***************************************************************************)
Acknowledge(c) ==
    /\ conn[c].queued > 0
    /\ \/ \E a \in 1 .. SndBuf : Segment(c, a, 0, FALSE)
       \/ ClientErr(c)
SocksProgress(c) ==
    \/ ~conn[c].up /\ (SocksUp(c) \/ SocksError(c))
    \/ conn[c].sending /\ (SendDone(c) \/ SocksError(c))

FairSpec ==
    /\ Spec
    /\ \A c \in Clients : /\ WF_vars(Input(c))
                          /\ WF_vars(MurderClient(c))
                          /\ SF_vars(conn[c].socksClosed /\ Acknowledge(c))
                          /\ SF_vars(conn[c].closed /\ SocksProgress(c))

-----------------------------------------------------------------------------
(* Properties *)

\* lwIP never calls a freed client, nor one that has let go of its pcb: while
\* any callback is registered the client is allocated, not closed, and its pcb
\* is neither closed nor deallocated.  (The callbacks' argument is a raw
\* pointer to the client, and stays set when the callbacks are removed.)
CallbacksAreLive ==
    \A c \in Clients :
        LET w == conn[c]
        IN  /\ w.errCb \/ w.recvCb \/ w.sentCb
                  => w.alive /\ ~w.closed /\ Attached(w)
            /\ w.alive /\ ~w.closed => w.errCb /\ Attached(w)
            /\ w.sentCb => w.up
            /\ w.alive /\ ~w.closed /\ w.up => w.sentCb

\* tcp_input, which goes on with the pcb after a callback has closed or aborted
\* it, never touches a deallocated pcb: ERR_ABRT and the delayed close keep it
\* from that on every path.
NoUseAfterFree ==
    \A c \in Clients :
        input.who = c /\ ~input.sync => conn[c].pcb \notin {"none", "freed"}

\* "Return ERR_ABRT if and only if tcp_abort was called from this callback."
\* (tun2socks.c, three times), whichever of the nested calls of the callback,
\* or of the jobs in its SYNC section, aborted.
ErrAbrtIffAborted == (ret.err = "abrt") <=> ret.aborted

\* The window lwIP advertises is exactly the room left in client->buf, so that
\* data is never refused and the branch "no buffer for data !?!" is dead, and
\* no window is ever lost: a client whose buffer is empty has a full window.
\* All counters stay within their buffers (TypeOK).
WindowIsRoom ==
    /\ TypeOK
    /\ \A c \in Clients :
           LET w == conn[c]
               inflight == IF input.who # c THEN 0
                           ELSE input.data + (IF input.fin THEN 1 ELSE 0)
               taken == IF input.sync /\ input.phase = "recv" THEN input.data ELSE 0
           IN  /\ w.refused = 0
               /\ w.recvCb => w.buf + w.rcvWnd + inflight
                              - (IF input.who = c THEN taken ELSE 0) = Wnd

\* socks_recv_tcp_pending is what lwIP still has queued, so that an
\* acknowledgement never exceeds it (the assertion in client_sent_func).
PendingIsQueued ==
    \A c \in Clients :
        LET w == conn[c]
        IN  w.sentCb =>
              w.pending = w.queued + (IF input.who = c /\ ~input.sync
                                      THEN input.acked ELSE 0)

\* A client never waits for nothing.  Every allocated client has something
\* outstanding that will call it again: the SOCKS handshake, a send whenever
\* something is buffered for the server, a receive or unacknowledged data
\* whenever the app is still there; and once one side is closed, something
\* is left to flush on the other.
NothingStuck ==
    \A c \in Clients :
        LET w == conn[c]
        IN  w.alive =>
              /\ w.sending <=> w.up /\ ~w.socksClosed /\ w.buf > 0
              /\ w.closed => ~w.socksClosed /\ w.buf > 0
              /\ w.socksClosed => w.up /\ w.pending > 0
              /\ w.up /\ ~w.closed /\ ~w.socksClosed => (w.recving <=> w.rbuf = -1)
              /\ w.up /\ ~w.closed /\ w.rbuf > 0
                    => w.waiting /\ w.pending > 0 /\ w.rsent < w.rbuf

\* Unless the app itself closed first (the fin phase), its connection is closed
\* in an orderly way only when everything received from the SOCKS server has
\* been queued and acknowledged.
FlushBeforeClose ==
    [][\A c \in Clients :
          /\ Attached(conn[c])
          /\ conn'[c].pcb \in {"detached", "delayed"}
          /\ input.phase # "fin"
          => conn[c].queued = 0 /\ conn[c].rbuf = -1]_vars

\* Once either side of a connection is closed the client is eventually freed.
ClosedSideDrains ==
    \A c \in Clients :
        conn[c].alive /\ (conn[c].closed \/ conn[c].socksClosed)
            ~> ~conn[c].alive

=============================================================================
