---------------------------- MODULE BSocksClient ----------------------------
(***************************************************************************)
(* badvpn/socksclient/BSocksClient.c: the SOCKS5 handshake of tun2socks    *)
(* with ss-local, for several clients that share socks_auth_info as        *)
(* listener_accept_func in tun2socks.c sets it up.                         *)
(*                                                                         *)
(* The reactor calls one handler at a time.  What is modelled byte by byte *)
(* are lengths: how much of a packet is sent, how much of an answer has    *)
(* come and where it goes in o->buffer; contents are message names.        *)
(* External: the server, which answers each message it has received whole, *)
(* favourably or not, may send data right behind its last answer, and may  *)
(* close at any time; the connection, which sends and receives any part.   *)
(***************************************************************************)
EXTENDS Integers, Sequences, FiniteSets

CONSTANTS
    Clients,        \* tcp clients, each with its BSocksClient
    Methods,        \* methods of socks_auth_info
    DestLen,        \* length of the destination: 6 (IPv4) or 18 (IPv6)
    AppendSource    \* options.append_source_to_username

\* Lengths on the wire.  A username and password packet is taken to have 9 bytes.
HelloLen      == 2 + Cardinality(Methods)
PasswordLen   == 9
RequestLen    == 4 + DestLen
AnswerLen     == 2          \* to hello and to the password
HeaderLen     == 4          \* of the reply to the request

VARIABLES
    state,     \* o->state, "new" before BSocksClient_Init, "freed" after _Free
    buffer,    \* size of o->buffer, 0: NULL
    out,       \* bytes of the packet being sent that are not sent yet, -1: none
    recvOff,   \* control.recv_dest - o->buffer
    recvLen,   \* control.recv_len
    recvTotal, \* control.recv_total, 0: nothing is being received
    io,        \* "none", "control" or "up" I/O is initialised on the connection
    con,       \* o->con is initialised
    wire,      \* messages the server has received whole
    answers,   \* messages the server has sent
    inLen,     \* bytes the server has sent
    inPos,     \* bytes of those received
    username,  \* whose username socks_auth_info[1] points to
    used       \* whose username each client sent

vars == <<state, buffer, out, recvOff, recvLen, recvTotal, io, con, wire, answers,
          inLen, inPos, username, used>>

ioVars  == <<buffer, out, recvOff, recvLen, recvTotal>>
srvVars == <<answers, inLen>>

Sending   == {"SENDING_HELLO", "SENDING_PASSWORD", "SENDING_REQUEST"}
Receiving == {"SENT_HELLO", "SENT_PASSWORD", "SENT_REQUEST", "RECEIVED_REPLY_HEADER"}
MaxLen    == 22
Nobody    == "nobody"

TypeOK ==
    /\ state \in [Clients -> Sending \union Receiving
                                \union {"new", "CONNECTING", "UP", "freed"}]
    /\ buffer \in [Clients -> 0 .. MaxLen]
    /\ out \in [Clients -> -1 .. MaxLen]
    /\ recvOff \in [Clients -> 0 .. MaxLen]
    /\ recvLen \in [Clients -> 0 .. MaxLen] /\ recvTotal \in [Clients -> 0 .. MaxLen]
    /\ io \in [Clients -> {"none", "control", "up"}] /\ con \in [Clients -> BOOLEAN]
    /\ wire \in [Clients -> Seq({"hello", "password", "request"})]
    /\ answers \in [Clients -> Seq({"none", "password", "bad", "ok", "granted6",
                                    "granted18", "data"})]
    /\ inLen \in [Clients -> Nat] /\ inPos \in [Clients -> Nat]
    /\ username \in Clients \union {Nobody}
    /\ used \in [Clients -> Clients \union {Nobody}]

Init ==
    /\ state = [c \in Clients |-> "new"]
    /\ buffer = [c \in Clients |-> 0] /\ out = [c \in Clients |-> -1]
    /\ recvOff = [c \in Clients |-> 0]
    /\ recvLen = [c \in Clients |-> 0] /\ recvTotal = [c \in Clients |-> 0]
    /\ io = [c \in Clients |-> "none"] /\ con = [c \in Clients |-> FALSE]
    /\ wire = [c \in Clients |-> <<>>] /\ answers = [c \in Clients |-> <<>>]
    /\ inLen = [c \in Clients |-> 0] /\ inPos = [c \in Clients |-> 0]
    /\ username = Nobody /\ used = [c \in Clients |-> Nobody]

-----------------------------------------------------------------------------
(* Parts of the handlers *)

Set(f, c, v) == [f EXCEPT ![c] = v]

\* start_receive
StartReceive(c, off, total) ==
    /\ recvOff' = Set(recvOff, c, off)
    /\ recvLen' = Set(recvLen, c, 0) /\ recvTotal' = Set(recvTotal, c, total)

\* Bug: one byte more is sent than the buffer holds.
SendPacketOver(c, size) ==
    /\ buffer' = Set(buffer, c, size) /\ out' = Set(out, c, size + 1)
    /\ StartReceive(c, 0, 0)

\* reserve_buffer and PacketPassInterface_Sender_Send of the whole buffer
SendPacket(c, size) ==
    /\ buffer' = Set(buffer, c, size) /\ out' = Set(out, c, size)
    /\ StartReceive(c, 0, 0)

\* reserve_buffer, then start_receive at its beginning
ReceiveInto(c, size, total) ==
    /\ buffer' = Set(buffer, c, size) /\ out' = Set(out, c, -1)
    /\ StartReceive(c, 0, total)

\* Bug: the I/O and the connection are freed only when the client is up.
FreeUpOnly(c) ==
    /\ state' = Set(state, c, "freed")
    /\ IF state[c] = "UP"
       THEN io' = Set(io, c, "none") /\ con' = Set(con, c, FALSE)
       ELSE UNCHANGED <<io, con>>
    /\ buffer' = Set(buffer, c, 0) /\ out' = Set(out, c, -1)
    /\ StartReceive(c, 0, 0)

\* BSocksClient_Free: what there is to free follows from the state alone.
Free(c) ==
    /\ state' = Set(state, c, "freed")
    /\ IF state[c] # "CONNECTING"
       THEN io' = Set(io, c, "none") /\ con' = Set(con, c, FALSE)
       ELSE UNCHANGED <<io, con>>
    /\ buffer' = Set(buffer, c, 0) /\ out' = Set(out, c, -1)
    /\ StartReceive(c, 0, 0)

\* report_error: the handler frees the client.
ReportError(c) == Free(c) /\ UNCHANGED used

\* auth_finished; the allocation may fail
AuthFinished(c) ==
    \/ /\ SendPacket(c, RequestLen)
       /\ state' = Set(state, c, "SENDING_REQUEST")
       /\ UNCHANGED <<io, con, used>>
    \/ ReportError(c)

-----------------------------------------------------------------------------
(* tun2socks *)

\* listener_accept_func: BSocksClient_Init; the username is shared.
Accept(c) ==
    /\ state[c] = "new"
    /\ state' = Set(state, c, "CONNECTING")
    /\ username' = IF AppendSource THEN c ELSE username
    /\ UNCHANGED <<ioVars, io, con, wire, srvVars, inPos, used>>

\* client_free_socks at any time
Abandon(c) ==
    /\ state[c] \notin {"new", "freed"}
    /\ Free(c)
    /\ UNCHANGED <<wire, srvVars, inPos, username, used>>

-----------------------------------------------------------------------------
(* Handlers *)

\* connector_handler: connection or allocation failed, or hello is being sent.
\* The failure after BConnection_Init frees the connection itself.
ConnectorHandler(c) ==
    /\ state[c] = "CONNECTING"
    /\ \/ /\ SendPacket(c, HelloLen)
          /\ state' = Set(state, c, "SENDING_HELLO")
          /\ io' = Set(io, c, "control") /\ con' = Set(con, c, TRUE)
          /\ UNCHANGED used
       \/ ReportError(c)
    /\ UNCHANGED <<wire, srvVars, inPos, username>>

\* connection_handler: error, or closed by the server
ConnectionHandler(c) ==
    /\ con[c]
    /\ ReportError(c)
    /\ UNCHANGED <<wire, srvVars, inPos, username>>

\* The connection takes n bytes; output_handler_done of PacketStreamSender.
SendSome(c, n) ==
    /\ out[c] > 0 /\ n \in 1 .. out[c]
    /\ out' = Set(out, c, out[c] - n)
    /\ UNCHANGED <<state, buffer, recvOff, recvLen, recvTotal, io, con, wire, srvVars,
                   inPos, username, used>>

\* send_handler_done, when everything is sent
SendHandlerDone(c) ==
    /\ out[c] = 0
    /\ wire' = Set(wire, c, Append(wire[c],
                  CASE state[c] = "SENDING_HELLO" -> "hello"
                    [] state[c] = "SENDING_PASSWORD" -> "password"
                    [] OTHER -> "request"))
    /\ \/ /\ state[c] = "SENDING_HELLO"
          /\ ReceiveInto(c, AnswerLen, AnswerLen)
          /\ state' = Set(state, c, "SENT_HELLO")
          /\ UNCHANGED <<io, con, used>>
       \/ /\ state[c] = "SENDING_PASSWORD"
          /\ ReceiveInto(c, AnswerLen, AnswerLen)
          /\ state' = Set(state, c, "SENT_PASSWORD")
          /\ UNCHANGED <<io, con, used>>
       \/ /\ state[c] = "SENDING_REQUEST"
          /\ ReceiveInto(c, MaxLen, HeaderLen)
          /\ state' = Set(state, c, "SENT_REQUEST")
          /\ UNCHANGED <<io, con, used>>
       \/ ReportError(c)
    /\ UNCHANGED <<srvVars, inPos, username>>

\* Bug: the rest is not asked for.
ReceiveSomeStops(c, n) ==
    /\ recvTotal[c] > 0 /\ n \in 1 .. inLen[c] - inPos[c]
    /\ recvLen[c] + n < recvTotal[c]
    /\ StartReceive(c, 0, 0) /\ inPos' = Set(inPos, c, inPos[c] + n)
    /\ UNCHANGED <<state, buffer, out, io, con, wire, srvVars, username, used>>

\* Bytes of an answer, not the last ones: recv_handler_done asks for the rest.
ReceiveSome(c, n) ==
    /\ recvTotal[c] > 0 /\ n \in 1 .. inLen[c] - inPos[c]
    /\ recvLen[c] + n < recvTotal[c]
    /\ recvLen' = Set(recvLen, c, recvLen[c] + n) /\ inPos' = Set(inPos, c, inPos[c] + n)
    /\ UNCHANGED <<state, buffer, out, recvOff, recvTotal, io, con, wire, srvVars,
                   username, used>>

\* Bug: the address that follows the header always has the length of an IPv4 one.
RecvHandlerDoneIPv4(c, n) ==
    /\ recvTotal[c] > 0 /\ n \in 1 .. inLen[c] - inPos[c]
    /\ recvLen[c] + n = recvTotal[c]
    /\ inPos' = Set(inPos, c, inPos[c] + n)
    /\ LET answer == answers[c][Len(wire[c])]
       IN \/ /\ state[c] = "SENT_HELLO" /\ answer = "none"
             /\ AuthFinished(c)
          \/ /\ state[c] = "SENT_REQUEST" /\ answer \in {"granted6", "granted18"}
             /\ StartReceive(c, HeaderLen, 6)
             /\ state' = Set(state, c, "RECEIVED_REPLY_HEADER")
             /\ UNCHANGED <<buffer, out, io, con, used>>
          \/ /\ state[c] = "RECEIVED_REPLY_HEADER"
             /\ buffer' = Set(buffer, c, 0) /\ StartReceive(c, 0, 0)
             /\ io' = Set(io, c, "up") /\ state' = Set(state, c, "UP")
             /\ UNCHANGED <<out, con, used>>
    /\ UNCHANGED <<wire, srvVars, username>>

\* The last bytes: recv_handler_done looks at the answer.
RecvHandlerDone(c, n) ==
    /\ recvTotal[c] > 0 /\ n \in 1 .. inLen[c] - inPos[c]
    /\ recvLen[c] + n = recvTotal[c]
    /\ inPos' = Set(inPos, c, inPos[c] + n)
    /\ LET answer == answers[c][Len(wire[c])]
       IN \/ /\ state[c] = "SENT_HELLO" /\ answer = "none"
             /\ AuthFinished(c)
          \/ /\ state[c] = "SENT_HELLO" /\ answer = "password" /\ "password" \in Methods
             /\ SendPacket(c, PasswordLen)
             /\ state' = Set(state, c, "SENDING_PASSWORD")
             /\ used' = Set(used, c, username)
             /\ UNCHANGED <<io, con>>
          \/ /\ state[c] = "SENT_PASSWORD" /\ answer = "ok"
             /\ AuthFinished(c)
          \/ /\ state[c] = "SENT_REQUEST" /\ answer \in {"granted6", "granted18"}
             /\ StartReceive(c, HeaderLen, IF answer = "granted6" THEN 6 ELSE 18)
             /\ state' = Set(state, c, "RECEIVED_REPLY_HEADER")
             /\ UNCHANGED <<buffer, out, io, con, used>>
          \/ /\ state[c] = "RECEIVED_REPLY_HEADER"
             /\ buffer' = Set(buffer, c, 0) /\ StartReceive(c, 0, 0)
             /\ io' = Set(io, c, "up") /\ state' = Set(state, c, "UP")
             /\ UNCHANGED <<out, con, used>>
          \/ /\ state[c] # "RECEIVED_REPLY_HEADER"
             /\ \/ answer = "bad"
                \/ answer = "password" /\ "password" \notin Methods
             /\ ReportError(c)
    /\ UNCHANGED <<wire, srvVars, username>>

-----------------------------------------------------------------------------
(* The server *)

Answer(c) ==
    /\ con[c] /\ Len(answers[c]) < Len(wire[c])
    /\ \E a \in CASE wire[c][Len(wire[c])] = "hello"    -> {"none", "password", "bad"}
                  [] wire[c][Len(wire[c])] = "password" -> {"ok", "bad"}
                  [] OTHER                       -> {"granted6", "granted18", "bad"} :
         /\ answers' = Set(answers, c, Append(answers[c], a))
         /\ inLen' = Set(inLen, c, inLen[c] +
                         CASE a = "granted6"  -> HeaderLen + 6
                           [] a = "granted18" -> HeaderLen + 18
                           [] a = "bad" /\ wire[c][Len(wire[c])] = "request" -> HeaderLen
                           [] OTHER -> AnswerLen)
    /\ UNCHANGED <<state, ioVars, io, con, wire, inPos, username, used>>

\* One byte of data for the tunnelled connection, behind the reply.
ServerData(c) ==
    /\ con[c] /\ answers[c] # <<>>
    /\ answers[c][Len(answers[c])] \in {"granted6", "granted18"}
    /\ answers' = Set(answers, c, Append(answers[c], "data"))
    /\ inLen' = Set(inLen, c, inLen[c] + 1)
    /\ UNCHANGED <<state, ioVars, io, con, wire, inPos, username, used>>

Next == \E c \in Clients :
    \/ Accept(c) \/ Abandon(c)
    \/ ConnectorHandler(c) \/ ConnectionHandler(c) \/ SendHandlerDone(c)
    \/ \E n \in 1 .. MaxLen :
          SendSome(c, n) \/ ReceiveSome(c, n) \/ RecvHandlerDone(c, n)
    \/ Answer(c) \/ ServerData(c)

Spec == Init /\ [][Next]_vars

\* The reactor handles what is ready; the connection succeeds or fails, takes and
\* brings bytes, and the server answers.
Progress(c) ==
    \/ ConnectorHandler(c) \/ SendHandlerDone(c) \/ Answer(c)
    \/ \E n \in 1 .. MaxLen :
          SendSome(c, n) \/ ReceiveSome(c, n) \/ RecvHandlerDone(c, n)

FairSpec == Spec /\ \A c \in Clients : WF_vars(Progress(c))

-----------------------------------------------------------------------------
(* Properties *)

\* What BSocksClient_Free does not free, since it looks at the state alone, is
\* not there: nothing leaks whatever handler fails or whenever tun2socks gives
\* the client up, and I/O is initialised only on a connection.
FreedIsFree ==
    \A c \in Clients :
        /\ state[c] \in {"new", "CONNECTING", "freed"} =>
               ~con[c] /\ io[c] = "none" /\ buffer[c] = 0
        /\ io[c] # "none" => con[c]
        /\ state[c] = "UP" <=> io[c] = "up"

\* What is being sent or received lies within o->buffer at every moment.
WithinBuffer ==
    \A c \in Clients :
        /\ out[c] >= 0 => buffer[c] > 0 /\ out[c] <= buffer[c]
        /\ recvTotal[c] > 0 => recvOff[c] + recvTotal[c] <= buffer[c]
        /\ ~(out[c] >= 0 /\ recvTotal[c] > 0)

\* The handshake ends exactly at the end of the server's reply: the first byte
\* tun2socks gets from the receive interface is the first byte of the data, and
\* the client is up only if the server granted every step.
UpAtData ==
    \A c \in Clients : state[c] = "UP" =>
        /\ inPos[c] = inLen[c] - Cardinality({i \in DOMAIN answers[c] : answers[c][i] = "data"})
        /\ wire[c] \in {<<"hello", "request">>, <<"hello", "password", "request">>}
        /\ \A i \in DOMAIN answers[c] : answers[c][i] # "bad"
        /\ Len(wire[c]) = 3 <=> answers[c][1] = "password"

\* Every handshake ends: the client is up or freed.
HandshakeEnds ==
    \A c \in Clients : state[c] = "CONNECTING" ~> state[c] \in {"UP", "freed"}

\* "add source address to username if requested" (listener_accept_func): a client
\* authenticates with its own source address.
OwnUsername ==
    AppendSource => \A c \in Clients : used[c] \in {Nobody, c}
=============================================================================
