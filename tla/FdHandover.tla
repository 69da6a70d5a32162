----------------------------- MODULE FdHandover -----------------------------
(***************************************************************************)
(* How tun2socks gets the file descriptor of the tunnel: wait_for_fd and   *)
(* the start of main in badvpn/tun2socks/tun2socks.c on one side,          *)
(* VpnService.sendFd on the other, a Unix socket in between.  The          *)
(* connecting job calls sendFd once, the pool again after every restart of *)
(* the process; the job's call, if it is still retrying when its process   *)
(* dies, goes on and may reach the next process.  Process p and the call   *)
(* of sendFd made for it have the same number.                             *)
(*                                                                         *)
(* Abstracted: time (tun2socks waits 10 s, sendFd retries after 50, 100,   *)
(* ... ms: a slow device may do either in any order), the path's name, a   *)
(* stop of the service.  wait_for_fd returns `fd` without ever having set  *)
(* it when it fails: an uninitialised int may be -1, no descriptor of the  *)
(* process, or one of its other descriptors.                               *)
(***************************************************************************)
EXTENDS Naturals, Sequences

CONSTANTS
    MaxTries,   \* sendFd's last attempt has tries = MaxTries (6 in the code)
    MaxStarts   \* bound: how often the process is started

Procs == 1 .. MaxStarts

VARIABLES
    tun,        \* where the current tun2socks process is
    fd,         \* the variable fd of wait_for_fd and main
    listener,   \* its socket, as connect() sees it
    backlog,    \* connections made and not accepted: calls of sendFd
    sender,     \* where each call of sendFd is
    tries,      \* the variable tries of each call
    conn,       \* each call's connection
    peer,       \* the process it was made to, 0: none
    accepted,   \* the call whose connection the current process has accepted, 0: none
    missed,     \* processes that left, or died in, wait_for_fd without a descriptor
    took,       \* whose descriptor each process received, 0: nobody's
    starts      \* the current process

vars == <<tun, fd, listener, backlog, sender, tries, conn, peer, accepted, missed,
          took, starts>>

tunVars  == <<tun, fd, listener, accepted, missed, took, starts>>
sendVars == <<sender, tries, peer>>

(***************************************************************************)
(* tun:    "start", "bound", "select", "accept", "recv", "close", "init",  *)
(*         "running" (the event loop), "exited".                           *)
(* fd:     "unset", "tun" (the tunnel), "none" (-1), "bad", "other".       *)
(* conn:   "none", "open", "sent" (with the descriptor), "reset" (by       *)
(*         tun2socks before it received anything), "closed".               *)
(* sender: "idle" (not called), "retry" (in delay), "connected", "done",   *)
(*         "failed".                                                       *)
(***************************************************************************)
TypeOK ==
    /\ tun \in {"start", "bound", "select", "accept", "recv", "close", "init",
                "running", "exited"}
    /\ fd \in {"unset", "tun", "none", "bad", "other"}
    /\ listener \in {"none", "bound", "listening"}
    /\ backlog \in Seq(Procs)
    /\ sender \in [Procs -> {"idle", "retry", "connected", "done", "failed"}]
    /\ tries \in [Procs -> 0 .. MaxTries]
    /\ conn \in [Procs -> {"none", "open", "sent", "reset", "closed"}]
    /\ peer \in [Procs -> 0 .. MaxStarts]
    /\ accepted \in 0 .. MaxStarts
    /\ missed \subseteq Procs
    /\ took \in [Procs -> 0 .. MaxStarts]
    /\ starts \in Procs

Init ==
    /\ tun = "start" /\ fd = "unset" /\ listener = "none" /\ backlog = <<>>
    /\ sender = [p \in Procs |-> IF p = 1 THEN "retry" ELSE "idle"]
    /\ tries = [p \in Procs |-> 0] /\ conn = [p \in Procs |-> "none"]
    /\ peer = [p \in Procs |-> 0] /\ accepted = 0
    /\ missed = {} /\ took = [p \in Procs |-> 0] /\ starts = 1

\* The values an uninitialised int may have.
Garbage == {"none", "bad", "other"}

-----------------------------------------------------------------------------
(* tun2socks *)

\* The loop of wait_for_fd is left without a descriptor.
GivesUp == tun' = "close" /\ missed' = missed \union {starts}

\* The connections in `calls` are closed by tun2socks or its end.
Reset(calls) == conn' = [s \in Procs |-> IF s \in calls THEN "reset" ELSE conn[s]]

Waiting == {backlog[i] : i \in DOMAIN backlog}

\* socket(), unlink() and bind(); each may fail, and -1 is returned.
Bind ==
    /\ tun = "start"
    /\ \/ tun' = "bound" /\ listener' = "bound" /\ UNCHANGED fd
       \/ tun' = "init" /\ fd' = "none" /\ UNCHANGED listener
    /\ UNCHANGED <<backlog, sendVars, conn, accepted, missed, took, starts>>

Listen ==
    /\ tun = "bound"
    /\ \/ tun' = "select" /\ listener' = "listening" /\ UNCHANGED fd
       \/ tun' = "init" /\ listener' = "none" /\ fd' = "none"
    /\ UNCHANGED <<backlog, sendVars, conn, accepted, missed, took, starts>>

\* Bug: select() without a timeout.
SelectForEver ==
    /\ tun = "select" /\ backlog # <<>>
    /\ tun' = "accept"
    /\ UNCHANGED <<fd, listener, backlog, sendVars, conn, accepted, missed, took, starts>>

\* select() returns because somebody connects, or after 10 s all the same, or it
\* fails.
Select ==
    /\ tun = "select"
    /\ \/ tun' = "accept" /\ UNCHANGED missed
       \/ GivesUp
    /\ UNCHANGED <<fd, listener, backlog, sendVars, conn, accepted, took, starts>>

\* Bug: accept() until nobody waits, and only the last connection is kept.
AcceptLatest ==
    /\ tun = "accept"
    /\ \/ /\ backlog # <<>>
          /\ tun' = "recv" /\ backlog' = <<>>
          /\ accepted' = backlog[Len(backlog)]
          /\ UNCHANGED missed
       \/ GivesUp /\ UNCHANGED <<backlog, accepted>>
    /\ UNCHANGED <<fd, listener, sendVars, conn, took, starts>>

\* accept() on the non-blocking socket: it fails if nobody has connected, and may
\* fail all the same.
Accept ==
    /\ tun = "accept"
    /\ \/ /\ backlog # <<>>
          /\ tun' = "recv" /\ backlog' = Tail(backlog)
          /\ accepted' = Head(backlog)
          /\ UNCHANGED missed
       \/ GivesUp /\ UNCHANGED <<backlog, accepted>>
    /\ UNCHANGED <<fd, listener, sendVars, conn, took, starts>>

\* ancil_recv_fd blocks in recvmsg until the descriptor is there; then close(sock2).
AncilRecvFd ==
    /\ tun = "recv" /\ conn[accepted] = "sent"
    /\ fd' = "tun" /\ tun' = "close"
    /\ took' = [took EXCEPT ![starts] = accepted]
    /\ conn' = [conn EXCEPT ![accepted] = "closed"]
    /\ accepted' = 0
    /\ UNCHANGED <<listener, backlog, sendVars, missed, starts>>

\* recvmsg fails, whether or not the descriptor was there: fd is not set.
AncilRecvFails ==
    /\ tun = "recv"
    /\ GivesUp /\ Reset({accepted}) /\ accepted' = 0
    /\ UNCHANGED <<fd, listener, backlog, sendVars, took, starts>>

\* close(sock) and return fd: what is still in the backlog is reset.
Return ==
    /\ tun = "close"
    /\ tun' = "init" /\ listener' = "none" /\ backlog' = <<>>
    /\ IF starts \in missed THEN fd' \in Garbage ELSE UNCHANGED fd
    /\ Reset(Waiting)
    /\ UNCHANGED <<sendVars, accepted, missed, took, starts>>

\* main: -1 is an error, and BTap_Init2 fails on what is no descriptor.
Main ==
    /\ tun = "init"
    /\ tun' = IF fd \in {"none", "bad"} THEN "exited" ELSE "running"
    /\ UNCHANGED <<fd, listener, backlog, sendVars, conn, accepted, missed, took, starts>>

\* The process ends: device error or a signal in the event loop, or it is killed
\* wherever it is.  Its sockets go with it.
Exit ==
    /\ tun # "exited"
    /\ tun' = "exited" /\ listener' = "none" /\ backlog' = <<>> /\ accepted' = 0
    /\ missed' = IF took[starts] = 0 THEN missed \union {starts} ELSE missed
    /\ Reset(Waiting \union {accepted})
    /\ UNCHANGED <<fd, sendVars, took, starts>>

\* The pool starts the process again and calls sendFd back.  The looper calls it
\* in its own turn: the call for a restarted process has returned before the next
\* restart, and a call that failed ended its guard or the session.
Restart ==
    /\ tun = "exited" /\ starts < MaxStarts
    /\ sender[starts] # "failed"
    /\ starts > 1 => sender[starts] = "done"
    /\ tun' = "start" /\ fd' = "unset"
    /\ starts' = starts + 1 /\ sender' = [sender EXCEPT ![starts + 1] = "retry"]
    /\ UNCHANGED <<listener, backlog, tries, conn, peer, accepted, missed, took>>

-----------------------------------------------------------------------------
(* VpnService.sendFd *)

\* catch (e: IOException)
Fails(s) ==
    IF tries[s] >= MaxTries
    THEN sender' = [sender EXCEPT ![s] = "failed"] /\ UNCHANGED tries
    ELSE /\ sender' = [sender EXCEPT ![s] = "retry"]
         /\ tries' = [tries EXCEPT ![s] = @ + 1]

\* delay() is over: connect()
Connect(s) ==
    /\ sender[s] = "retry"
    /\ IF listener = "listening"
       THEN /\ sender' = [sender EXCEPT ![s] = "connected"]
            /\ conn' = [conn EXCEPT ![s] = "open"]
            /\ peer' = [peer EXCEPT ![s] = starts]
            /\ backlog' = Append(backlog, s)
            /\ UNCHANGED tries
       ELSE Fails(s) /\ UNCHANGED <<conn, peer, backlog>>
    /\ UNCHANGED tunVars

\* Bug: an exception of the close() after the write makes it try again.
WriteFdAgain(s) ==
    /\ sender[s] = "connected"
    /\ Fails(s)
    /\ conn' = IF conn[s] = "open" THEN [conn EXCEPT ![s] = "sent"] ELSE conn
    /\ UNCHANGED <<tunVars, peer, backlog>>

\* write(42) with the descriptor attached, then close; on a connection that was
\* reset the write fails.  (The descriptor is valid: a stop ends sendFd in its
\* delay before it closes the tunnel.)
WriteFd(s) ==
    /\ sender[s] = "connected"
    /\ IF conn[s] = "open"
       THEN /\ sender' = [sender EXCEPT ![s] = "done"]
            /\ conn' = [conn EXCEPT ![s] = "sent"]
            /\ UNCHANGED tries
       ELSE Fails(s) /\ UNCHANGED conn
    /\ UNCHANGED <<tunVars, peer, backlog>>

Tun2Socks == Bind \/ Listen \/ Select \/ Accept \/ AncilRecvFd \/ Return \/ Main
SendFd(s) == Connect(s) \/ WriteFd(s)

Next ==
    Tun2Socks \/ AncilRecvFails \/ Exit \/ Restart \/ \E s \in Procs : SendFd(s)

Spec == Init /\ [][Next]_vars

\* Both processes are scheduled; nothing need fail, and the event loop need not end.
FairSpec ==
    Spec /\ WF_vars(Tun2Socks) /\ \A s \in Procs : WF_vars(SendFd(s))

-----------------------------------------------------------------------------
(* Properties *)

\* "wait for the file descriptor sent from JVM" (main): the device tun2socks
\* works on is the tunnel, nothing else.
DeviceIsTunnel == tun = "running" => fd = "tun"

\* When sendFd returns normally, the process it connected to receives the
\* descriptor or still waits for it.  It is lost only if this very process leaves
\* wait_for_fd, or dies in it, without a descriptor, or received that of another
\* call (write(42) returns before anybody has accepted the connection).
SentIsReceived ==
    \A s \in Procs : sender[s] = "done" =>
        \/ /\ conn[s] = "sent" /\ s \in Waiting \union {accepted}
           /\ peer[s] = starts /\ tun \in {"select", "accept", "recv", "close"}
        \/ took[peer[s]] = s
        \/ conn[s] = "reset" /\ (peer[s] \in missed \/ took[peer[s]] \notin {0, s})

\* A descriptor is received only by the process its call connected to, of a call
\* that returns normally: a retry never gives a second process, or the same one
\* again, what another has, and a call that reports failure gave its descriptor to
\* nobody.
FailureIsReal ==
    \A p \in Procs : took[p] # 0 => peer[took[p]] = p /\ sender[took[p]] = "done"

\* Neither side waits for the other for ever.
Settles ==
    []<>(/\ tun \in {"running", "exited"}
         /\ \A s \in Procs : sender[s] \in {"idle", "done", "failed"})

=============================================================================
