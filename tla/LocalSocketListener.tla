------------------------ MODULE LocalSocketListener ------------------------
(***************************************************************************)
(* net/LocalSocketListener.kt and net/ConcurrentLocalSocketListener.kt: a  *)
(* thread that accepts connections on a local socket until shutdown() is   *)
(* called, and handles each one itself (TrafficMonitor) or in a coroutine  *)
(* (ProtectWorker, LocalDnsWorker).                                        *)
(*                                                                         *)
(* The actors are the thread, the main thread in shutdown(), the           *)
(* coroutines and the peers.  A handler is a blocking read of the request  *)
(* followed by work that either ends or is cancelled; socket.use closes    *)
(* the connection however the body ends, and only if the body began.       *)
(* External: the socket.  Connections made before Os.shutdown are still    *)
(* accepted after it, then accept() fails.                                 *)
(***************************************************************************)
EXTENDS Naturals, Sequences

CONSTANTS
    Peers,        \* connections to the listener
    Concurrent    \* ConcurrentLocalSocketListener or plain LocalSocketListener

VARIABLES
    running,      \* the flag `running`
    cancelled,    \* the coroutine scope has been cancelled
    shut,         \* the socket has been shut down
    pc,           \* the thread
    sent,         \* closeChannel holds its element
    backlog,      \* connections not accepted
    current,      \* the connection the thread has accepted
    sock,         \* each connection
    spoken,       \* peers that have sent their request, or closed
    stop          \* the main thread in shutdown()

vars == <<running, cancelled, shut, pc, sent, backlog, current, sock, spoken, stop>>

NoPeer == "none"

(***************************************************************************)
(* pc:   "test" (while), "accept", "handle", "read", "closing", "ended".   *)
(* sock: "new", "queued", "refused", "accepted", "launched" (coroutine not *)
(*       begun), "handled" (the body runs), "closed", "dropped" (cancelled *)
(*       before its body began).                                           *)
(* stop: "no", "flag", "cancel", "shut", "joined".                         *)
(***************************************************************************)
TypeOK ==
    /\ running \in BOOLEAN /\ cancelled \in BOOLEAN /\ shut \in BOOLEAN /\ sent \in BOOLEAN
    /\ pc \in {"test", "accept", "handle", "read", "closing", "ended"}
    /\ backlog \in Seq(Peers)
    /\ current \in Peers \union {NoPeer}
    /\ sock \in [Peers -> {"new", "queued", "refused", "accepted", "launched",
                           "handled", "closed", "dropped"}]
    /\ spoken \subseteq Peers
    /\ stop \in {"no", "flag", "cancel", "shut", "joined"}

Init ==
    /\ running = TRUE /\ cancelled = FALSE /\ shut = FALSE /\ sent = FALSE
    /\ pc = "test" /\ backlog = <<>> /\ current = NoPeer
    /\ sock = [c \in Peers |-> "new"] /\ spoken = {} /\ stop = "no"

-----------------------------------------------------------------------------
(* Peers *)

Connect(c) ==
    /\ sock[c] = "new"
    /\ IF shut
       THEN sock' = [sock EXCEPT ![c] = "refused"] /\ UNCHANGED backlog
       ELSE sock' = [sock EXCEPT ![c] = "queued"] /\ backlog' = Append(backlog, c)
    /\ UNCHANGED <<running, cancelled, shut, pc, sent, current, spoken, stop>>

\* The peer sends its request or closes its end.
Speak(c) ==
    /\ sock[c] \notin {"new", "refused"} /\ c \notin spoken
    /\ spoken' = spoken \union {c}
    /\ UNCHANGED <<running, cancelled, shut, pc, sent, backlog, current, sock, stop>>

-----------------------------------------------------------------------------
(* run() *)

\* while (running); localSocket.use closes the socket at the end.
Test ==
    /\ pc = "test"
    /\ pc' = IF running THEN "accept" ELSE "closing"
    /\ UNCHANGED <<running, cancelled, shut, sent, backlog, current, sock, spoken, stop>>

\* Bug: an IOException of accept() ends the loop without the clean-up.
AcceptThrows ==
    /\ pc = "accept"
    /\ \/ /\ backlog # <<>>
          /\ pc' = "handle" /\ current' = Head(backlog) /\ backlog' = Tail(backlog)
          /\ sock' = [sock EXCEPT ![Head(backlog)] = "accepted"]
       \/ backlog = <<>> /\ shut /\ pc' = "ended" /\ UNCHANGED <<backlog, current, sock>>
    /\ UNCHANGED <<running, cancelled, shut, sent, spoken, stop>>

\* serverSocket.accept(), which blocks; an IOException is logged and ignored.
Accept ==
    /\ pc = "accept"
    /\ \/ /\ backlog # <<>>
          /\ pc' = "handle" /\ current' = Head(backlog) /\ backlog' = Tail(backlog)
          /\ sock' = [sock EXCEPT ![Head(backlog)] = "accepted"]
       \/ backlog = <<>> /\ shut /\ pc' = "test" /\ UNCHANGED <<backlog, current, sock>>
    /\ UNCHANGED <<running, cancelled, shut, sent, spoken, stop>>

\* accept(socket): launch on a cancelled scope never begins the body.
Handle ==
    /\ pc = "handle"
    /\ IF Concurrent
       THEN /\ pc' = "test" /\ current' = NoPeer
            /\ sock' = [sock EXCEPT ![current] = IF cancelled THEN "dropped" ELSE "launched"]
       ELSE /\ pc' = "read" /\ UNCHANGED current
            /\ sock' = [sock EXCEPT ![current] = "handled"]
    /\ UNCHANGED <<running, cancelled, shut, sent, backlog, spoken, stop>>

\* Bug: the connection is left open after the request.
ReadOnly ==
    /\ pc = "read" /\ current \in spoken
    /\ pc' = "test" /\ current' = NoPeer
    /\ UNCHANGED <<running, cancelled, shut, sent, backlog, sock, spoken, stop>>

\* The plain listener: acceptInternal in the thread.
Read ==
    /\ pc = "read" /\ current \in spoken
    /\ pc' = "test" /\ current' = NoPeer
    /\ sock' = [sock EXCEPT ![current] = "closed"]
    /\ UNCHANGED <<running, cancelled, shut, sent, backlog, spoken, stop>>

\* closeChannel.trySendBlocking; the backlog of a closed socket is refused.
Close ==
    /\ pc = "closing"
    /\ pc' = "ended" /\ sent' = TRUE /\ shut' = TRUE /\ backlog' = <<>>
    /\ sock' = [c \in Peers |-> IF sock[c] = "queued" THEN "refused" ELSE sock[c]]
    /\ UNCHANGED <<running, cancelled, current, spoken, stop>>

-----------------------------------------------------------------------------
(* The coroutines of ConcurrentLocalSocketListener *)

Begin(c) ==
    /\ sock[c] = "launched"
    /\ sock' = [sock EXCEPT ![c] = IF cancelled THEN "dropped" ELSE "handled"]
    /\ UNCHANGED <<running, cancelled, shut, pc, sent, backlog, current, spoken, stop>>

\* The read is not cancellable; what follows it ends, or is cancelled.
Finish(c) ==
    /\ Concurrent /\ sock[c] = "handled" /\ c \in spoken
    /\ sock' = [sock EXCEPT ![c] = "closed"]
    /\ UNCHANGED <<running, cancelled, shut, pc, sent, backlog, current, spoken, stop>>

-----------------------------------------------------------------------------
(* shutdown() *)

ClearRunning ==
    /\ stop = "no"
    /\ stop' = IF Concurrent THEN "flag" ELSE "cancel"
    /\ running' = FALSE
    /\ UNCHANGED <<cancelled, shut, pc, sent, backlog, current, sock, spoken>>

Cancel ==
    /\ stop = "flag"
    /\ stop' = "cancel" /\ cancelled' = TRUE
    /\ UNCHANGED <<running, shut, pc, sent, backlog, current, sock, spoken>>

\* Os.shutdown; a socket that is closed already does no harm.
ShutDown ==
    /\ stop = "cancel"
    /\ stop' = "shut" /\ shut' = TRUE
    /\ UNCHANGED <<running, cancelled, pc, sent, backlog, current, sock, spoken>>

\* Bug: the job of the coroutines is not joined.
JoinThreadOnly ==
    /\ stop = "shut" /\ sent
    /\ stop' = "joined" /\ sent' = FALSE
    /\ UNCHANGED <<running, cancelled, shut, pc, backlog, current, sock, spoken>>

\* The caller's scope waits for closeChannel.receive() and for job.join().
Join ==
    /\ stop = "shut" /\ sent
    /\ Concurrent => \A c \in Peers : sock[c] \notin {"launched", "handled"}
    /\ stop' = "joined" /\ sent' = FALSE
    /\ UNCHANGED <<running, cancelled, shut, pc, backlog, current, sock, spoken>>

Thread == Test \/ Accept \/ Handle \/ Read \/ Close
Coroutine(c) == Begin(c) \/ Finish(c)
Shutdown == Cancel \/ ShutDown \/ Join

Next ==
    \/ (\E c \in Peers : Connect(c) \/ Speak(c) \/ Begin(c) \/ Finish(c))
    \/ Test \/ Accept \/ Handle \/ Read \/ Close
    \/ ClearRunning \/ Cancel \/ ShutDown \/ Join

Spec == Init /\ [][Next]_vars

\* Threads are scheduled.  A peer that is connected speaks or closes in the end:
\* the peers are the helper processes, and killProcesses ends those.
FairSpec ==
    /\ Spec
    /\ WF_vars(Thread) /\ WF_vars(Shutdown)
    /\ \A c \in Peers : WF_vars(Speak(c)) /\ WF_vars(Coroutine(c))

-----------------------------------------------------------------------------
(* Properties *)

\* After shutdown() has been waited for nothing of the listener is left: the
\* thread is over, its socket closed, no handler runs and no peer waits in the
\* backlog for an answer.
NothingLeft ==
    stop = "joined" =>
        /\ pc = "ended" /\ shut
        /\ \A c \in Peers : sock[c] \in {"new", "refused", "closed", "dropped"}

\* Whatever the thread was doing when shutdown() was called, between its test of
\* `running` and accept() for one, the caller does not wait for ever.
ShutdownEnds == [](stop # "no" => <>(stop = "joined"))

\* While nobody shuts the listener down every connection is served.
PeersAreServed ==
    \A c \in Peers : sock[c] = "queued" ~> (sock[c] = "closed" \/ stop # "no")

\* "Inherited class do not need to close input/output streams as they will be
\* closed automatically" (LocalSocketListener.accept): when the listener is gone
\* every connection it accepted is closed.
AcceptedAreClosed ==
    stop = "joined" => \A c \in Peers : sock[c] \in {"new", "refused", "closed"}
=============================================================================
