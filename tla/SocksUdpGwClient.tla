-------------------------- MODULE SocksUdpGwClient --------------------------
(***************************************************************************)
(* badvpn/tun2socks/SocksUdpGwClient.c as built for Android, with the part *)
(* of tun2socks.c that feeds it: the UDP relay.  Every datagram an app     *)
(* sends through the tunnel goes out on a UDP socket of its own local      *)
(* address: DNS queries as they are to the local DNS gateway, everything   *)
(* else behind a SOCKS5 UDP header to the SOCKS server.  At most MaxCon    *)
(* sockets exist, the least recently used one is given up for a new one.   *)
(*                                                                         *)
(* All of it runs in one thread, as jobs on BPendingGroup's stack: a job   *)
(* set last runs first.  The order matters twice: the first packet of a    *)
(* new connection is read by a job from the device's read buffer, which    *)
(* another job on the same stack refills; and it is written into the send  *)
(* buffer, which a third job makes available.                              *)
(*                                                                         *)
(* The send buffer is the FIFO that PacketBuffer implements.  Abstracted:  *)
(* addresses, payloads (a datagram is the flow it belongs to and its       *)
(* length), the parsing and building of IP and UDP headers; a malformed    *)
(* datagram, or one that is not UDP, is dropped and is no step.            *)
(***************************************************************************)
EXTENDS Integers, Sequences, FiniteSets

CONSTANTS
    Locals,     \* local addresses of the apps
    Flows,      \* what apps send: [local, remote, dns, len]
    NoFlow,     \* nothing, or what a buffer holds that is being overwritten
    MaxCon,     \* max_connections
    BufCap,     \* CONNECTION_UDP_BUFFER_SIZE
    Header,     \* the length of the SOCKS5 UDP header
    UdpMtu      \* udp_mtu

ASSUME BoundsAssumption ==
    /\ MaxCon \in Nat \ {0} /\ BufCap \in Nat \ {0}
    /\ Header \in Nat /\ UdpMtu \in Nat
ASSUME FlowsAssumption ==
    /\ \A f \in Flows : f.local \in Locals /\ f.dns \in BOOLEAN /\ f.len \in 0 .. UdpMtu
    /\ NoFlow \notin Flows

VARIABLES
    con,        \* the connection of each local address
    list,       \* connections_list, least recently used first
    num,        \* num_connections
    jobs,       \* the pending jobs, the next one first
    dev,        \* the packet in the device's read buffer
    wire,       \* the datagram sent last, since a packet was read
    given,      \* the reply given to an app last, since a packet was read
    sentTo,     \* the flows a connection has sent and may still get replies to
    drop        \* the last connection_send dropped its packet, and had room

vars == <<con, list, num, jobs, dev, wire, given, sentTo, drop>>

(***************************************************************************)
(* A connection: live, dns (is_dns) and remote (conaddr.remote_addr), via  *)
(* (where the BDatagram sends to), outHave (the BufferWriter has a buffer  *)
(* to write to), writing (the packet written there), queue (the packets in *)
(* udp_send_buffer), wait (sendmsg would block), failed (sendmsg failed);  *)
(* and what it was used for: the flows submitted to it since it was made.  *)
(***************************************************************************)
NoCon ==
    [live |-> FALSE, dns |-> FALSE, remote |-> NoFlow, via |-> "none",
     outHave |-> FALSE, writing |-> NoFlow, queue |-> <<>>,
     wait |-> FALSE, failed |-> FALSE, used |-> {}]

Job(kind, l) == [kind |-> kind, local |-> l]
Kinds == {"submit", "devdone", "first", "writer", "written", "send", "sent"}

Nothing == [res |-> "none"]
NoDrop  == [dropped |-> FALSE, room |-> FALSE]

Init ==
    /\ con = [l \in Locals |-> NoCon]
    /\ list = <<>> /\ num = 0 /\ jobs = <<>> /\ dev = NoFlow
    /\ wire = Nothing /\ given = Nothing
    /\ sentTo = [l \in Locals |-> {}] /\ drop = NoDrop

\* The job at the top of the stack; what it leaves below it, with those it sets.
Top(kind)  == jobs # <<>> /\ Head(jobs).kind = kind
Here       == Head(jobs).local
Push(more) == more \o Tail(jobs)

\* What a connection is used for: DNS or other traffic, not both; one resolver.
OneKind(used)     == \A f, g \in used : f.dns = g.dns
OneResolver(used) == \A f, g \in used : f.dns /\ g.dns => f.remote = g.remote

-----------------------------------------------------------------------------
(* Sending *)

\* connection_send into the buffer of connection k: without a buffer to write
\* to the packet is dropped, otherwise it is written with or without a header.
Sends(k) == k.outHave
Written(k, f) ==
    [hdr |-> ~k.dns, to |-> k.remote, data |-> f,
     len |-> IF f = NoFlow THEN 0 ELSE f.len + (IF k.dns THEN 0 ELSE Header)]
ConnectionSend(k, f) ==
    IF Sends(k) THEN [k EXCEPT !.outHave = FALSE, !.writing = Written(k, f)] ELSE k

Account(k) ==
    drop' = [dropped |-> ~Sends(k), room |-> Len(k.queue) < BufCap]

\* reset_connection
ResetConnection(k, f) ==
    [k EXCEPT !.dns = f.dns, !.remote = f.remote, !.used = @ \cup {f}]

\* LinkedList1_Remove and LinkedList1_Append: connection l is the last one used.
UsedLast(s, l) ==
    LET at == CHOOSE i \in 1 .. Len(s) : s[i] = l
    IN  [i \in 1 .. Len(s) |->
            IF i < at THEN s[i] ELSE IF i < Len(s) THEN s[i + 1] ELSE l]

\* find_connection: is_dns is not looked at (its test needs con to be NULL).
FindConnection(l, isDns) == con[l].live

\* Mutant of NewConnection: every socket is pointed at the SOCKS server.
NewConnectionSocks(f) ==
    [NoCon EXCEPT !.live = TRUE, !.dns = f.dns, !.remote = f.remote, !.via = "socks",
                  !.used = {f}]

\* connection_init: the socket's destination is fixed here.
NewConnection(f) ==
    [NoCon EXCEPT !.live = TRUE, !.dns = f.dns, !.remote = f.remote,
                  !.via = IF f.dns THEN "dnsgw" ELSE "socks", !.used = {f}]

\* Mutant of InitJobs: first_job is set last.
InitJobsLast(l) == <<Job("first", l), Job("writer", l)>>

\* The jobs connection_init sets: first_job before the buffers are set up, so
\* that it runs after the job that gives the BufferWriter its buffer.
InitJobs(l) == <<Job("writer", l), Job("first", l)>>

\* Mutant of DeviceReadJobs: the packet is accepted after it was processed.
DeviceReadJobsAfter(more) == <<Job("devdone", NoFlow)>> \o more

\* device_read_handler_send accepts the packet first, then processes it: the
\* jobs set while processing run before the one that refills the read buffer.
DeviceReadJobs(more) == more \o <<Job("devdone", NoFlow)>>

\* SocksUdpGwClient_SubmitPacket to an existing connection
SubmitExisting ==
    /\ Top("submit")
    /\ FindConnection(dev.local, dev.dns)
    /\ LET l == dev.local
           k == ResetConnection(con[l], dev)
       IN  /\ con' = [con EXCEPT ![l] = ConnectionSend(k, dev)]
           /\ Account(k)
           /\ list' = IF Sends(k) THEN UsedLast(list, l) ELSE list
           /\ jobs' = Push(DeviceReadJobs(
                         IF Sends(k) THEN <<Job("written", l)>> ELSE <<>>))
    /\ UNCHANGED <<num, dev, wire, given, sentTo>>

\* Mutant of SubmitNew: the connection is counted before it is known to exist.
SubmitNewCounts(ok) ==
    /\ Top("submit")
    /\ ~FindConnection(dev.local, dev.dns)
    /\ LET l     == dev.local
           evict == num = MaxCon
           gone  == IF evict THEN {list[1]} ELSE {}
           rest  == IF evict THEN Tail(list) ELSE list
           freed == [x \in Locals |-> IF x \in gone THEN NoCon ELSE con[x]]
       IN  /\ con' = IF ok THEN [freed EXCEPT ![l] = NewConnection(dev)] ELSE freed
           /\ list' = IF ok THEN Append(rest, l) ELSE rest
           /\ num' = num - Cardinality(gone) + 1
           /\ sentTo' = [x \in Locals |-> IF x \in gone THEN {} ELSE sentTo[x]]
           /\ jobs' = Push(DeviceReadJobs(IF ok THEN InitJobs(l) ELSE <<>>))
    /\ UNCHANGED <<dev, wire, given, drop>>

\* SocksUdpGwClient_SubmitPacket to a new one: with the table full the least
\* recently used connection is freed first, and is gone even if connection_init
\* then fails.
SubmitNew(ok) ==
    /\ Top("submit")
    /\ ~FindConnection(dev.local, dev.dns)
    /\ LET l     == dev.local
           evict == num = MaxCon
           gone  == IF evict THEN {list[1]} ELSE {}
           rest  == IF evict THEN Tail(list) ELSE list
           freed == [x \in Locals |-> IF x \in gone THEN NoCon ELSE con[x]]
       IN  /\ con' = IF ok THEN [freed EXCEPT ![l] = NewConnection(dev)] ELSE freed
           /\ list' = IF ok THEN Append(rest, l) ELSE rest
           /\ num' = num - Cardinality(gone) + (IF ok THEN 1 ELSE 0)
           /\ sentTo' = [x \in Locals |-> IF x \in gone THEN {} ELSE sentTo[x]]
           /\ jobs' = Push(DeviceReadJobs(IF ok THEN InitJobs(l) ELSE <<>>))
    /\ UNCHANGED <<dev, wire, given, drop>>

\* connection_first_job_handler: first_data points into the read buffer.
FirstJob ==
    /\ Top("first")
    /\ LET k == con[Here]
       IN  /\ con' = [con EXCEPT ![Here] = ConnectionSend(k, dev)]
           /\ Account(k)
           /\ jobs' = Push(IF Sends(k) THEN <<Job("written", Here)>> ELSE <<>>)
    /\ UNCHANGED <<list, num, dev, wire, given, sentTo>>

-----------------------------------------------------------------------------
(* The send buffer (PacketBuffer between BufferWriter and BDatagram) *)

\* output_handler_recv
WriterJob ==
    /\ Top("writer")
    /\ con' = [con EXCEPT ![Here].outHave = TRUE]
    /\ jobs' = Push(<<>>)
    /\ UNCHANGED <<list, num, dev, wire, given, sentTo, drop>>

\* input_handler_done: the packet is in the buffer.
WrittenJob ==
    /\ Top("written")
    /\ LET k == con[Here]
           q == Append(k.queue, k.writing)
       IN  /\ con' = [con EXCEPT ![Here].queue = q, ![Here].writing = NoFlow]
           /\ jobs' = Push((IF k.queue = <<>> THEN <<Job("send", Here)>> ELSE <<>>)
                           \o (IF Len(q) < BufCap THEN <<Job("writer", Here)>> ELSE <<>>))
    /\ UNCHANGED <<list, num, dev, wire, given, sentTo, drop>>

\* do_send: the datagram leaves, would block, or fails; after a failure the send
\* stays outstanding for ever (dgram_handler only logs the error).
DoSend(l, below) ==
    LET k == con[l]
        p == Head(k.queue)
    IN  \/ /\ con' = [con EXCEPT ![l].wait = FALSE]
           /\ wire' = [res |-> "sent", local |-> l, via |-> k.via, packet |-> p,
                      own |-> OneKind(k.used)]
           /\ sentTo' = [sentTo EXCEPT ![l] = @ \cup {p.data}]
           /\ jobs' = <<Job("sent", l)>> \o below
        \/ /\ con' = [con EXCEPT ![l].wait = TRUE]
           /\ jobs' = below
           /\ UNCHANGED <<wire, sentTo>>
        \/ /\ con' = [con EXCEPT ![l].wait = FALSE, ![l].failed = TRUE]
           /\ jobs' = below
           /\ UNCHANGED <<wire, sentTo>>

SendJob ==
    /\ Top("send")
    /\ DoSend(Here, Tail(jobs))
    /\ UNCHANGED <<list, num, dev, given, drop>>

\* fd_handler, BREACTOR_WRITE
Writable(l) ==
    /\ jobs = <<>> /\ con[l].wait
    /\ DoSend(l, <<>>)
    /\ UNCHANGED <<list, num, dev, given, drop>>

\* Mutant of SentJob: the next packet is not sent.
SentJobStops ==
    /\ Top("sent")
    /\ con' = [con EXCEPT ![Here].queue = Tail(@)]
    /\ jobs' = Push(IF Len(con[Here].queue) >= BufCap
                    THEN <<Job("writer", Here)>> ELSE <<>>)
    /\ UNCHANGED <<list, num, dev, wire, given, sentTo, drop>>

\* output_handler_done: the packet is out of the buffer.
SentJob ==
    /\ Top("sent")
    /\ LET k == con[Here]
       IN  /\ con' = [con EXCEPT ![Here].queue = Tail(@)]
           /\ jobs' = Push((IF Len(k.queue) > 1 THEN <<Job("send", Here)>> ELSE <<>>)
                           \o (IF Len(k.queue) >= BufCap
                               THEN <<Job("writer", Here)>> ELSE <<>>))
    /\ UNCHANGED <<list, num, dev, wire, given, sentTo, drop>>

-----------------------------------------------------------------------------
(* The device and the replies *)

\* A packet is read from the device into the empty read buffer; what is recorded
\* of earlier ones is forgotten.
DeviceRead(f) ==
    /\ jobs = <<>> /\ dev = NoFlow
    /\ dev' = f /\ jobs' = <<Job("submit", NoFlow)>>
    /\ wire' = Nothing /\ given' = Nothing /\ drop' = NoDrop
    /\ UNCHANGED <<con, list, num, sentTo>>

\* The read buffer is given back to the device, which may have the next packet.
DeviceDone ==
    /\ Top("devdone")
    /\ \/ dev' = NoFlow /\ jobs' = Push(<<>>)
       \/ \E f \in Flows : dev' = f /\ jobs' = Push(<<Job("submit", NoFlow)>>)
    /\ UNCHANGED <<con, list, num, wire, given, sentTo, drop>>

\* A reply that is given to the app as one of flow f from address r.
Gives(l, f, r) ==
    given' = [res |-> "given", to |-> l, from |-> r, flow |-> f,
              whole |-> con[l].dns = (con[l].via = "dnsgw"),
              own |-> OneKind(con[l].used) /\ OneResolver(con[l].used)]

\* Mutant of DgramHandlerReceived: the address in the header is not looked at.
DgramHandlerReceivedLatest(l, f) ==
    /\ jobs = <<>> /\ con[l].live /\ f \in sentTo[l]
    /\ con[l].dns \/ con[l].via = "socks"
    /\ Gives(l, f, con[l].remote)
    /\ UNCHANGED <<con, list, num, jobs, dev, wire, sentTo, drop>>

\* dgram_handler_received: a reply to flow f.  Behind a SOCKS header it names
\* its sender, who becomes the connection's remote address; a DNS reply is
\* taken to come from that address.  (What the DNS gateway answers on a
\* connection now used for other traffic is dropped: it has its QR bit where
\* the header has frag.)
DgramHandlerReceived(l, f) ==
    /\ jobs = <<>> /\ con[l].live /\ f \in sentTo[l]
    /\ con[l].dns \/ con[l].via = "socks"
    /\ LET from == IF con[l].dns THEN con[l].remote ELSE f.remote
       IN  /\ con' = [con EXCEPT ![l].remote = from]
           /\ Gives(l, f, from)
    /\ UNCHANGED <<list, num, jobs, dev, wire, sentTo, drop>>

\* SocksUdpGwClient_Free
Free ==
    /\ jobs = <<>>
    /\ con' = [l \in Locals |-> NoCon]
    /\ list' = <<>> /\ num' = num - Len(list)
    /\ sentTo' = [l \in Locals |-> {}]
    /\ UNCHANGED <<jobs, dev, wire, given, drop>>

RunJob ==
    \/ SubmitExisting \/ (\E ok \in BOOLEAN : SubmitNew(ok)) \/ FirstJob
    \/ WriterJob \/ WrittenJob \/ SendJob \/ SentJob \/ DeviceDone

Next ==
    \/ RunJob
    \/ \E f \in Flows : DeviceRead(f)
    \/ \E l \in Locals : Writable(l)
    \/ \E l \in Locals, f \in Flows : DgramHandlerReceived(l, f)
    \/ Free

Spec == Init /\ [][Next]_vars

-----------------------------------------------------------------------------
(* Properties *)

Packets ==
    [hdr: BOOLEAN, to: {f.remote : f \in Flows}, data: Flows,
     len: 0 .. UdpMtu + Header]

TypeOK ==
    /\ \A l \in Locals :
          LET k == con[l]
          IN  /\ k.live \in BOOLEAN /\ k.dns \in BOOLEAN /\ k.outHave \in BOOLEAN
              /\ k.wait \in BOOLEAN /\ k.failed \in BOOLEAN
              /\ k.via \in {"none", "dnsgw", "socks"}
              /\ k.writing \in Packets \cup {NoFlow}
              /\ k.queue \in Seq(Packets) /\ Len(k.queue) <= BufCap
              /\ k.used \subseteq Flows /\ sentTo[l] \subseteq Flows
    /\ num \in 0 .. MaxCon /\ list \in Seq(Locals)
    /\ dev \in Flows \cup {NoFlow}
    /\ \A i \in 1 .. Len(jobs) : jobs[i].kind \in Kinds

\* The tree, the list and the counter agree and stay within max_connections,
\* through evictions and failed connection_init calls, and no job is left for a
\* connection that was freed (connection_free does not remove first_job).
TableConsistent ==
    /\ TypeOK
    /\ {list[i] : i \in 1 .. Len(list)} = {l \in Locals : con[l].live}
    /\ Len(list) = Cardinality({l \in Locals : con[l].live})
    /\ num = Len(list) /\ num <= MaxCon
    /\ \A i \in 1 .. Len(jobs) :
          jobs[i].kind \notin {"submit", "devdone"} => con[jobs[i].local].live

\* What leaves the process is what an app sent, for the address it sent it to:
\* the first packet of a connection is read from the device's buffer before the
\* buffer is refilled, and every packet carries the header of its own flow.
CarriesItsFlow ==
    wire.res = "sent" =>
        LET p == wire.packet
        IN  /\ p.data \in Flows /\ p.data.local = wire.local
            /\ p.hdr = ~p.data.dns
            /\ p.hdr => p.to = p.data.remote

\* A packet is dropped only if the connection's send buffer is full.  In
\* particular the first packet never is, and a second one submitted right after
\* it finds the writer ready again.
DropsOnlyWhenFull == drop.dropped => ~drop.room

\* DNS queries go to the DNS gateway and everything else to the SOCKS server
\* ("any packet arriving at out netif address to port 53 is considered a DNS
\* packet"), whatever the port was used for before.
RoutedRight ==
    wire.res = "sent" =>
        wire.via = IF wire.packet.data.dns THEN "dnsgw" ELSE "socks"

\* BufferWriter_EndPacket's ASSERT(len <= o->d_mtu): with its header the packet
\* still fits into the buffer that was sized for udp_mtu.
WithinMtu ==
    \A l \in Locals : con[l].writing # NoFlow => con[l].writing.len <= UdpMtu

\* Datagrams and replies are confused only within a local port that its app has
\* used, since the port's connection was made, for two things at once: DNS and
\* other traffic (find_connection does not look at is_dns), or two resolvers (a DNS
\* reply is taken to come from the one asked last).  Otherwise DNS queries go to the
\* DNS gateway and everything else to the SOCKS server, and a reply reaches the app
\* as one of the address it had sent to, with the SOCKS header taken off exactly if
\* there is one, whatever the other ports do and whichever connections are evicted.
OnlySharedPortsConfused ==
    /\ wire.res = "sent" /\ wire.own =>
          wire.via = IF wire.packet.data.dns THEN "dnsgw" ELSE "socks"
    /\ given.res = "given" /\ given.own =>
          given.from = given.flow.remote /\ given.whole

\* The events the loop waits for do not overtake the jobs: whenever a packet is
\* in a send buffer, its sending is under way, waits for the socket, or has
\* failed.
SendingUnderWay ==
    \A l \in Locals :
        con[l].queue # <<>> =>
            \/ con[l].wait \/ con[l].failed
            \/ \E i \in 1 .. Len(jobs) :
                  jobs[i].local = l /\ jobs[i].kind \in {"send", "sent"}
=============================================================================
