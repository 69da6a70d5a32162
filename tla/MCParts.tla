------------------------------- MODULE MCParts -------------------------------
(***************************************************************************)
(* The smaller components, each on an instance of its own.  They share no  *)
(* state: `part`, chosen at the start, says which of them runs, and the    *)
(* others stay as they begin, so that TLC visits the sum of their state    *)
(* spaces and not the product.  The listener is there twice, as the        *)
(* concurrent one and as the plain one.                                    *)
(***************************************************************************)
EXTENDS Integers, Sequences, FiniteSets

CONSTANTS
    MaxTries, MaxStarts,                                 \* FdHandover
    Services, Nets, Gets, MaxEvents,                     \* DefaultNetworkListener
    BandwidthClients, MaxCounter, MaxReports, MaxTasks,  \* TrafficMonitor
    Peers,                                               \* LocalSocketListener
    Clients, Methods, DestLen, AppendSource,             \* BSocksClient
    Hosts, Subnets, Urls, User, Files, MaxDepth, Failed  \* Acl

VARIABLES
    part,
    \* FdHandover
    tun, fd, listener, backlog, sender, tries, conn, peer, accepted, missed, took,
    starts,
    \* DefaultNetworkListener
    available, calledBack, mail, listeners, network, pending, underlying, session,
    get, events,
    \* TrafficMonitor
    counter, received, unseen, total, dirty, stats, main, bandwidthListeners, looper,
    tasks, shown, persisted, tx, ended, lost, reports,
    \* LocalSocketListener
    running, cancelled, shut, pc, sent, queue, current, sock, spoken, stop,
    \* BSocksClient
    state, buffer, out, recvOff, recvLen, recvTotal, io, con, wire, answers, inLen,
    inPos, username, used,
    \* Acl
    content, job, acl, saved

\* The variables of each component
handoverVars == <<tun, fd, listener, backlog, sender, tries, conn, peer, accepted,
                  missed, took, starts>>
networkVars  == <<available, calledBack, mail, listeners, network, pending, underlying,
                  session, get, events>>
trafficVars  == <<counter, received, unseen, total, dirty, stats, main,
                  bandwidthListeners, looper, tasks, shown, persisted, tx, ended,
                  lost, reports>>
listenerVars == <<running, cancelled, shut, pc, sent, queue, current, sock, spoken, stop>>
socksVars    == <<state, buffer, out, recvOff, recvLen, recvTotal, io, con, wire,
                  answers, inLen, inPos, username, used>>
aclVars      == <<content, job, acl, saved>>

Handover == INSTANCE FdHandover

Network == INSTANCE DefaultNetworkListener

Traffic == INSTANCE TrafficMonitor WITH
               Clients <- BandwidthClients, out <- stats, listeners <- bandwidthListeners

Workers == INSTANCE LocalSocketListener WITH Concurrent <- TRUE, backlog <- queue

Plain == INSTANCE LocalSocketListener WITH Concurrent <- FALSE, backlog <- queue

Socks == INSTANCE BSocksClient

\* Rule files: perhaps a mode, perhaps a heading, a host name and a subnet, perhaps
\* an import; one that throws; ones with an import beside an entry, entries in two
\* lists and the mode at the end; one that lists nothing.
Text(t) == <<[text |-> t, url |-> "no url"]>>
Import(u) == <<[text |-> "empty", url |-> u]>>
RuleFiles ==
    {m \o h \o Text("h") \o Text("s") \o i :
        m \in {<<>>, Text("bypass_all"), Text("proxy_all")},
        h \in {<<>>, Text("bypass_list"), Text("proxy_list")},
        i \in {<<>>} \union {Import(u) : u \in Urls}}
    \union {Text("s") \o Text("unrecognized"), Text("outbound_block_list") \o Text("h")}
    \union {<<[text |-> "s", url |-> u]>> \o Text("bypass_list") \o Text("h")
                \o Text("proxy_all") \o Import(v) : u \in Urls, v \in Urls}

Custom == INSTANCE Acl WITH pc <- job

\* The bounds are numbers, a process is started, and no network, service or key has
\* the name that stands for none; hello fits the longest message, and a destination
\* is an IPv4 or an IPv6 one; rule files are made of lines, and a host name, a subnet
\* and what has a meaning of its own in a file are told apart.
ASSUME PartsAssumption ==
    /\ MaxTries \in Nat /\ MaxStarts \in Nat \ {0} /\ MaxEvents \in Nat
    /\ MaxCounter \in Nat /\ MaxReports \in Nat
    /\ Network!NoNet \notin Nets \union Services /\ Network!Coroutine \notin Services
    /\ IsFiniteSet(Methods) /\ Socks!HelloLen <= Socks!MaxLen
    /\ DestLen \in {6, 18}
    /\ Files \subseteq Seq(Custom!Line) /\ MaxDepth \in Nat \ {0}
    /\ IsFiniteSet(Hosts) /\ IsFiniteSet(Subnets)
    /\ Hosts \intersect Subnets = {}
    /\ (Hosts \union Subnets) \intersect (Custom!Blocks \union {Custom!Empty}) = {}
    /\ Custom!NoUrl \notin Urls /\ Failed \notin Custom!Rules
\* Nothing to read: the rules of the other parts.
NoFiles ==
    /\ content = [f \in Urls \union {User} |-> <<>>]
    /\ job = "read" /\ acl = Custom!NoRules /\ saved = <<>>

Init ==
    /\ part \in {"handover", "network", "traffic", "concurrent", "plain", "socks", "acl"}
    /\ Handover!Init /\ Network!Init /\ Traffic!Init /\ Plain!Init /\ Socks!Init
    /\ part # "network" => available = Network!NoNet
    /\ IF part = "acl" THEN Custom!Init ELSE NoFiles

Next ==
    \/ /\ part = "handover" /\ Handover!Next
       /\ UNCHANGED <<part, networkVars, trafficVars, listenerVars, socksVars, aclVars>>
    \/ /\ part = "network" /\ Network!Next
       /\ UNCHANGED <<part, handoverVars, trafficVars, listenerVars, socksVars, aclVars>>
    \/ /\ part = "traffic" /\ Traffic!Next
       /\ UNCHANGED <<part, handoverVars, networkVars, listenerVars, socksVars, aclVars>>
    \/ /\ part = "concurrent" /\ Workers!Next
       /\ UNCHANGED <<part, handoverVars, networkVars, trafficVars, socksVars, aclVars>>
    \/ /\ part = "plain" /\ Plain!Next
       /\ UNCHANGED <<part, handoverVars, networkVars, trafficVars, socksVars, aclVars>>
    \/ /\ part = "socks" /\ Socks!Next
       /\ UNCHANGED <<part, handoverVars, networkVars, trafficVars, listenerVars, aclVars>>
    \/ /\ part = "acl" /\ Custom!Next
       /\ UNCHANGED <<part, handoverVars, networkVars, trafficVars, listenerVars, socksVars>>

vars == <<part, handoverVars, networkVars, trafficVars, listenerVars, socksVars, aclVars>>

\* The fairness of each component, while it is the one that runs.
Fairness ==
    /\ WF_handoverVars(part = "handover" /\ Handover!Tun2Socks)
    /\ \A s \in 1 .. MaxStarts : WF_handoverVars(part = "handover" /\ Handover!SendFd(s))
    /\ WF_networkVars(part = "network" /\ Network!Actor)
    /\ WF_trafficVars(part = "traffic" /\ Traffic!Looper)
    /\ WF_trafficVars(part = "traffic" /\ Traffic!Tasks)
    /\ \A w \in {"total", "dirty"} :
          WF_trafficVars(part = "traffic" /\ Traffic!Visible(w))
    /\ WF_listenerVars(part = "concurrent" /\ Workers!Thread)
    /\ WF_listenerVars(part = "concurrent" /\ Workers!Shutdown)
    /\ \A p \in Peers :
          /\ WF_listenerVars(part = "concurrent" /\ Workers!Speak(p))
          /\ WF_listenerVars(part = "concurrent" /\ Workers!Coroutine(p))
    /\ WF_listenerVars(part = "plain" /\ Plain!Thread)
    /\ WF_listenerVars(part = "plain" /\ Plain!Shutdown)
    /\ \A p \in Peers : WF_listenerVars(part = "plain" /\ Plain!Speak(p))
    /\ \A c \in Clients : WF_socksVars(part = "socks" /\ Socks!Progress(c))

Spec == Init /\ [][Next]_vars /\ Fairness

-----------------------------------------------------------------------------
(* Properties: those of the components, under one name for each *)

\* sendFd and wait_for_fd, across deaths and restarts of tun2socks: what sendFd
\* reports as sent is received (ancil_recv_fd has returned it) by the process it
\* connected to, or still waits there; it is lost only if this process leaves
\* wait_for_fd or dies in it without a descriptor, or received another call's.
\* What is received was reported as sent: no failed call gave its descriptor away.
HandoverRight ==
    part = "handover" =>
        Handover!TypeOK /\ Handover!SentIsReceived /\ Handover!FailureIsReal

\* DefaultNetworkListener: the actor's check holds, a listening service follows
\* the default network across sessions, and a session that runs is listening,
\* although killProcesses stops with a key that was never started.
NetworkRight ==
    part = "network" =>
        /\ Network!TypeOK /\ Network!GetHasListener
        /\ Network!UnderlyingIsDefault /\ Network!SessionListens

\* TrafficMonitor and the bandwidth listeners: the Binder's checks of the looper
\* hold, and no listener misses a report but in the window of the data race.
TrafficRight ==
    part = "traffic" =>
        Traffic!TypeOK /\ Traffic!LooperIffListeners /\ Traffic!NothingMissed

\* LocalSocketListener: when shutdown() has been waited for nothing is left, and
\* the plain listener has closed every connection it accepted.
ListenerRight ==
    /\ part = "concurrent" => Workers!TypeOK /\ Workers!NothingLeft
    /\ part = "plain" => Plain!TypeOK /\ Plain!NothingLeft /\ Plain!AcceptedAreClosed

\* BSocksClient: what is freed is free, the buffer is never exceeded, and the
\* stream is handed over at the first byte after the server's reply.
SocksRight ==
    part = "socks" =>
        /\ Socks!TypeOK /\ Socks!FreedIsFree
        /\ Socks!WithinBuffer /\ Socks!UpAtData

\* Custom rules: what is saved is in one mode and imports nothing more, has the host
\* names of every file reached, though imports branch, form cycles and change the
\* mode, proxies no subnet that was only to be bypassed, and is read back as it was.
AclRight ==
    part = "acl" =>
        /\ Custom!TypeOK /\ Custom!HostsAreThoseReached
        /\ Custom!SubnetsKeepTheirSide /\ Custom!SavedIsReadBack

\* Nobody waits for ever: the hand-over of the descriptor settles, get() is
\* answered, listeners learn of a rate that is zero, peers are served and
\* shutdown() returns, and the SOCKS handshake ends.
EverythingEnds ==
    /\ part = "handover" => Handover!Settles
    /\ part = "network" => Network!GetIsAnswered
    /\ part = "traffic" => Traffic!RateSettles
    /\ part = "concurrent" => Workers!ShutdownEnds /\ Workers!PeersAreServed
    /\ part = "plain" => Plain!ShutdownEnds /\ Plain!PeersAreServed
    /\ part = "socks" => Socks!HandshakeEnds
=============================================================================
