------------------------- MODULE BSocksClientProofs -------------------------
(***************************************************************************)
(* Proofs about BSocksClient, for any clients, methods and destinations.   *)
(***************************************************************************)
EXTENDS BSocksClient, FiniteSetTheorems, TLAPS

States == Sending \union Receiving \union {"new", "CONNECTING", "UP", "freed"}

-----------------------------------------------------------------------------
(* Types *)

Lens    == 0 .. MaxLen
Outs    == -1 .. MaxLen
Levels  == {"none", "control", "up"}
Asks    == {"hello", "password", "request"}
Replies == {"none", "password", "bad", "ok", "granted6", "granted18", "data"}

\* What the handlers change of a client, and what only the server and tun2socks do.
ClientTypes ==
    /\ state \in [Clients -> States]
    /\ buffer \in [Clients -> Lens] /\ out \in [Clients -> Outs]
    /\ recvOff \in [Clients -> Lens]
    /\ recvLen \in [Clients -> Lens] /\ recvTotal \in [Clients -> Lens]
    /\ io \in [Clients -> Levels] /\ con \in [Clients -> BOOLEAN]

OtherTypes ==
    /\ wire \in [Clients -> Seq(Asks)] /\ answers \in [Clients -> Seq(Replies)]
    /\ inLen \in [Clients -> Nat] /\ inPos \in [Clients -> Nat]
    /\ username \in Clients \union {Nobody}
    /\ used \in [Clients -> Clients \union {Nobody}]

\* The two make up TypeOK.
LEMMA TypesSplit == TypeOK <=> ClientTypes /\ OtherTypes
BY DEF TypeOK, ClientTypes, OtherTypes, States, Lens, Outs, Levels, Asks, Replies

\* One client's value is replaced.
LEMMA SetType ==
    ASSUME NEW S, NEW f \in [Clients -> S], NEW c \in Clients, NEW v \in S
    PROVE  Set(f, c, v) \in [Clients -> S]
BY DEF Set

\* Every handler keeps the types, if hello and the request fit the longest message.
LEMMA TypeStep ==
    ASSUME HelloLen \in 1 .. MaxLen, RequestLen \in 1 .. MaxLen, TypeOK, [Next]_vars
    PROVE  TypeOK'
<1>0. ClientTypes /\ OtherTypes
  BY TypesSplit
<1> SUFFICES ClientTypes' /\ OtherTypes'
  BY DEF TypeOK, ClientTypes, OtherTypes, States, Lens, Outs, Levels, Asks, Replies
<1>len. /\ {0, 2, 4, 6, 9, 18, MaxLen, HelloLen, RequestLen} \subseteq Lens
        /\ Lens \subseteq Outs /\ -1 \in Outs
  BY DEF Lens, Outs, MaxLen
<1>start. ASSUME NEW c \in Clients, NEW off \in Lens, NEW n \in Lens,
                 StartReceive(c, off, n)
          PROVE  /\ recvOff' \in [Clients -> Lens] /\ recvLen' \in [Clients -> Lens]
                 /\ recvTotal' \in [Clients -> Lens]
  BY <1>0, <1>len, <1>start, SetType DEF StartReceive, ClientTypes
<1>free. ASSUME NEW c \in Clients, Free(c) PROVE ClientTypes'
  <2>1. state' \in [Clients -> States]
    BY <1>0, <1>free, SetType DEF Free, ClientTypes, States
  <2>2. io' \in [Clients -> Levels] /\ con' \in [Clients -> BOOLEAN]
    <3>1. io \in [Clients -> Levels] /\ con \in [Clients -> BOOLEAN]
      BY <1>0 DEF ClientTypes
    <3>2. Set(io, c, "none") \in [Clients -> Levels] /\ Set(con, c, FALSE) \in [Clients -> BOOLEAN]
      BY <3>1, SetType, Zenon DEF Levels
    <3> QED
      BY <1>free, <3>1, <3>2, Zenon DEF Free
  <2>3. buffer' \in [Clients -> Lens] /\ out' \in [Clients -> Outs]
    BY <1>0, <1>len, <1>free, SetType DEF Free, ClientTypes
  <2> QED
    BY <1>len, <1>free, <1>start, <2>1, <2>2, <2>3 DEF Free, ClientTypes
<1>send. ASSUME NEW c \in Clients, NEW size \in Lens, SendPacket(c, size),
                NEW s \in States, state' = Set(state, c, s),
                io' \in [Clients -> Levels], con' \in [Clients -> BOOLEAN]
         PROVE  ClientTypes'
  <2>1. state' \in [Clients -> States] /\ buffer' \in [Clients -> Lens]
    BY <1>0, <1>send, SetType DEF SendPacket, ClientTypes
  <2>2. out' \in [Clients -> Outs]
    BY <1>0, <1>len, <1>send, SetType DEF SendPacket, ClientTypes
  <2> QED
    BY <1>len, <1>send, <1>start, <2>1, <2>2 DEF SendPacket, ClientTypes
<1>recv. ASSUME NEW c \in Clients, NEW size \in Lens, NEW n \in Lens,
                ReceiveInto(c, size, n), NEW s \in States, state' = Set(state, c, s),
                UNCHANGED <<io, con>>
         PROVE  ClientTypes'
  <2>1. state' \in [Clients -> States] /\ buffer' \in [Clients -> Lens]
    BY <1>0, <1>recv, SetType DEF ReceiveInto, ClientTypes
  <2>2. out' \in [Clients -> Outs]
    BY <1>0, <1>len, <1>recv, SetType DEF ReceiveInto, ClientTypes
  <2> QED
    BY <1>0, <1>len, <1>recv, <1>start, <2>1, <2>2 DEF ReceiveInto, ClientTypes
<1>auth. ASSUME NEW c \in Clients, AuthFinished(c) PROVE ClientTypes' /\ used' = used
  <2>1. "SENDING_REQUEST" \in States
    BY DEF States, Sending
  <2> QED
    BY <1>0, <1>len, <1>auth, <1>free, <1>send, <2>1
    DEF AuthFinished, ReportError, ClientTypes
<1>1. ASSUME NEW c \in Clients, Accept(c) PROVE ClientTypes' /\ OtherTypes'
  <2>1. "CONNECTING" \in States
    BY DEF States
  <2>2. state' \in [Clients -> States]
    BY <1>0, <1>1, <2>1, SetType DEF Accept, ClientTypes
  <2>3. username' \in Clients \union {Nobody}
    BY <1>0, <1>1 DEF Accept, OtherTypes
  <2> QED
    BY <1>0, <1>1, <2>2, <2>3 DEF Accept, ClientTypes, OtherTypes, ioVars, srvVars
<1>2. ASSUME NEW c \in Clients, Abandon(c) PROVE ClientTypes' /\ OtherTypes'
  <2>1. OtherTypes'
    BY <1>0, <1>2 DEF Abandon, OtherTypes, srvVars
  <2> QED
    BY <1>2, <1>free, <2>1 DEF Abandon
<1>3. ASSUME NEW c \in Clients, ConnectorHandler(c) PROVE ClientTypes' /\ OtherTypes'
  <2>1. OtherTypes'
    BY <1>0, <1>3 DEF ConnectorHandler, ReportError, OtherTypes, srvVars
  <2>2. CASE /\ SendPacket(c, HelloLen) /\ state' = Set(state, c, "SENDING_HELLO")
             /\ io' = Set(io, c, "control") /\ con' = Set(con, c, TRUE)
    <3>1. "SENDING_HELLO" \in States /\ HelloLen \in Lens
      BY <1>len DEF States, Sending
    <3>2. io' \in [Clients -> Levels] /\ con' \in [Clients -> BOOLEAN]
      BY <1>0, <2>2, SetType, Zenon DEF ClientTypes, Levels
    <3> QED
      BY <1>send, <2>1, <2>2, <3>1, <3>2
  <2> QED
    BY <1>3, <1>free, <2>1, <2>2 DEF ConnectorHandler, ReportError
<1>4. ASSUME NEW c \in Clients, ConnectionHandler(c) PROVE ClientTypes' /\ OtherTypes'
  <2>1. OtherTypes'
    BY <1>0, <1>4 DEF ConnectionHandler, ReportError, OtherTypes, srvVars
  <2> QED
    BY <1>4, <1>free, <2>1 DEF ConnectionHandler, ReportError
<1>5. ASSUME NEW c \in Clients, SendHandlerDone(c) PROVE ClientTypes' /\ OtherTypes'
  <2>1. PICK m \in Asks : wire' = Set(wire, c, Append(wire[c], m))
    BY <1>5 DEF SendHandlerDone, Asks
  <2>2. wire' \in [Clients -> Seq(Asks)]
    <3>1. wire \in [Clients -> Seq(Asks)]
      BY <1>0 DEF OtherTypes
    <3>2. Append(wire[c], m) \in Seq(Asks)
      BY <3>1
    <3> QED
      BY <2>1, <3>1, <3>2, SetType
  <2>3. OtherTypes'
    BY <1>0, <1>5, <2>2 DEF SendHandlerDone, ReportError, OtherTypes, srvVars
  <2>4. {"SENT_HELLO", "SENT_PASSWORD", "SENT_REQUEST"} \subseteq States
    BY DEF States, Receiving
  <2>5. AnswerLen \in Lens /\ HeaderLen \in Lens /\ MaxLen \in Lens
    BY <1>len DEF AnswerLen, HeaderLen
  <2> QED
    BY <1>5, <1>free, <1>recv, <2>3, <2>4, <2>5 DEF SendHandlerDone, ReportError
<1>6. ASSUME NEW c \in Clients, NEW n \in Nat, SendSome(c, n)
      PROVE  ClientTypes' /\ OtherTypes'
  <2>1. out[c] - n \in Outs
    BY <1>0, <1>6 DEF SendSome, ClientTypes, Outs, MaxLen
  <2>2. out' \in [Clients -> Outs]
    BY <1>0, <1>6, <2>1, SetType DEF SendSome, ClientTypes
  <2> QED
    BY <1>0, <1>6, <2>2 DEF SendSome, ClientTypes, OtherTypes, srvVars
<1>7. ASSUME NEW c \in Clients, NEW n \in Nat, ReceiveSome(c, n)
      PROVE  ClientTypes' /\ OtherTypes'
  <2>1. recvLen[c] + n \in Lens /\ inPos[c] + n \in Nat
    <3>1. recvLen[c] \in 0 .. MaxLen /\ recvTotal[c] \in 0 .. MaxLen /\ inPos[c] \in Nat
      BY <1>0 DEF ClientTypes, OtherTypes, Lens
    <3>2. recvLen[c] + n < recvTotal[c]
      BY <1>7 DEF ReceiveSome
    <3> QED
      BY <3>1, <3>2 DEF Lens, MaxLen
  <2>2. recvLen' \in [Clients -> Lens] /\ inPos' \in [Clients -> Nat]
    BY <1>0, <1>7, <2>1, SetType DEF ReceiveSome, ClientTypes, OtherTypes
  <2> QED
    BY <1>0, <1>7, <2>2 DEF ReceiveSome, ClientTypes, OtherTypes, srvVars
<1>8. ASSUME NEW c \in Clients, NEW n \in Nat, RecvHandlerDone(c, n)
      PROVE  ClientTypes' /\ OtherTypes'
  <2>1. inPos' \in [Clients -> Nat]
    <3>1. inPos[c] + n \in Nat /\ inPos \in [Clients -> Nat]
      BY <1>0 DEF OtherTypes
    <3> QED
      BY <1>8, <3>1, SetType DEF RecvHandlerDone
  <2>2. UNCHANGED <<wire, answers, inLen, username>>
    BY <1>8 DEF RecvHandlerDone, srvVars
  <2>3. used' \in [Clients -> Clients \union {Nobody}] => OtherTypes'
    BY <1>0, <2>1, <2>2 DEF OtherTypes
  <2>4. used \in [Clients -> Clients \union {Nobody}] /\ username \in Clients \union {Nobody}
    BY <1>0 DEF OtherTypes
  <2>5. CASE AuthFinished(c) \/ ReportError(c)
    BY <1>auth, <1>free, <2>3, <2>4, <2>5 DEF ReportError
  <2>6. CASE /\ SendPacket(c, PasswordLen) /\ state' = Set(state, c, "SENDING_PASSWORD")
             /\ used' = Set(used, c, username) /\ UNCHANGED <<io, con>>
    <3>1. "SENDING_PASSWORD" \in States /\ PasswordLen \in Lens
      BY <1>len DEF States, Sending, PasswordLen
    <3>2. used' \in [Clients -> Clients \union {Nobody}]
      BY <2>4, <2>6, SetType
    <3>3. ClientTypes'
      BY <1>0, <1>send, <2>6, <3>1 DEF ClientTypes
    <3> QED
      BY <2>3, <3>2, <3>3
  <2>7. CASE /\ StartReceive(c, HeaderLen, 6) \/ StartReceive(c, HeaderLen, 18)
             /\ state' = Set(state, c, "RECEIVED_REPLY_HEADER")
             /\ UNCHANGED <<buffer, out, io, con, used>>
    <3>1. "RECEIVED_REPLY_HEADER" \in States /\ HeaderLen \in Lens
      BY <1>len DEF States, Receiving, HeaderLen
    <3>2. state' \in [Clients -> States]
      BY <1>0, <2>7, <3>1, SetType DEF ClientTypes
    <3> QED
      BY <1>0, <1>len, <1>start, <2>3, <2>4, <2>7, <3>1, <3>2 DEF ClientTypes
  <2>8. CASE /\ buffer' = Set(buffer, c, 0) /\ StartReceive(c, 0, 0)
             /\ io' = Set(io, c, "up") /\ state' = Set(state, c, "UP")
             /\ UNCHANGED <<out, con, used>>
    <3>1. "UP" \in States /\ "up" \in Levels
      BY DEF States, Levels
    <3>2. /\ state' \in [Clients -> States] /\ io' \in [Clients -> Levels]
          /\ buffer' \in [Clients -> Lens]
      BY <1>0, <1>len, <2>8, <3>1, SetType DEF ClientTypes
    <3> QED
      BY <1>0, <1>len, <1>start, <2>3, <2>4, <2>8, <3>2 DEF ClientTypes
  <2> QED
    BY <1>8, <2>5, <2>6, <2>7, <2>8 DEF RecvHandlerDone
<1>9. ASSUME NEW c \in Clients, Answer(c) PROVE ClientTypes' /\ OtherTypes'
  <2>1. PICK a \in Replies, k \in Nat :
           /\ answers' = Set(answers, c, Append(answers[c], a))
           /\ inLen' = Set(inLen, c, inLen[c] + k)
    BY <1>9 DEF Answer, Replies, HeaderLen, AnswerLen
  <2>2. Append(answers[c], a) \in Seq(Replies) /\ inLen[c] + k \in Nat
    BY <1>0 DEF OtherTypes
  <2>3. answers' \in [Clients -> Seq(Replies)] /\ inLen' \in [Clients -> Nat]
    BY <1>0, <2>1, <2>2, SetType DEF OtherTypes
  <2> QED
    BY <1>0, <1>9, <2>3 DEF Answer, ClientTypes, OtherTypes, ioVars
<1>10. ASSUME NEW c \in Clients, ServerData(c) PROVE ClientTypes' /\ OtherTypes'
  <2>1. Append(answers[c], "data") \in Seq(Replies) /\ inLen[c] + 1 \in Nat
    BY <1>0 DEF OtherTypes, Replies
  <2>2. answers' \in [Clients -> Seq(Replies)] /\ inLen' \in [Clients -> Nat]
    BY <1>0, <1>10, <2>1, SetType DEF ServerData, OtherTypes
  <2> QED
    BY <1>0, <1>10, <2>2 DEF ServerData, ClientTypes, OtherTypes, ioVars
<1>11. CASE UNCHANGED vars
  BY <1>0, <1>11 DEF vars, ClientTypes, OtherTypes
<1> QED
  BY <1>1, <1>2, <1>3, <1>4, <1>5, <1>6, <1>7, <1>8, <1>9, <1>10, <1>11 DEF Next

\* Before any client connects.
LEMMA TypeInit == Init => TypeOK
<1> SUFFICES ASSUME Init PROVE TypeOK
  OBVIOUS
<1>1. 0 \in Lens /\ -1 \in Outs /\ "new" \in States /\ "none" \in Levels
  BY DEF Lens, Outs, MaxLen, States, Levels
<1>2. ClientTypes
  BY <1>1 DEF Init, ClientTypes
<1>3. OtherTypes
  BY DEF Init, OtherTypes
<1> QED
  BY <1>2, <1>3, TypesSplit

-----------------------------------------------------------------------------
(* What BSocksClient_Free frees *)

\* There is a connection in exactly the states in which BSocksClient_Free frees
\* one, with control I/O or, when the client is up, upper I/O on it; there is no
\* buffer where there is no connection.
Owned(c) ==
    /\ con[c] <=> state[c] \notin {"new", "CONNECTING", "freed"}
    /\ con[c] <=> io[c] # "none"
    /\ state[c] = "UP" <=> io[c] = "up"
    /\ ~con[c] => buffer[c] = 0

OwnedInv ==
    /\ state \in [Clients -> States]
    /\ io \in [Clients -> {"none", "control", "up"}]
    /\ con \in [Clients -> BOOLEAN]
    /\ buffer = [c \in Clients |-> buffer[c]]
    /\ \A c \in Clients : Owned(c)

\* Every handler, whatever fails in it, and a BSocksClient_Free at any moment keep
\* what exists and the state in step.
LEMMA OwnedStep == OwnedInv /\ [Next]_vars => OwnedInv'
<1> SUFFICES ASSUME OwnedInv, [Next]_vars PROVE OwnedInv'
  OBVIOUS
<1> USE DEF OwnedInv, Owned, States, Sending, Receiving, Set
<1>0. CASE UNCHANGED vars
  BY <1>0 DEF vars
<1>free. ASSUME NEW c \in Clients, Free(c) PROVE OwnedInv'
  BY <1>free, ZenonT(60) DEF Free
<1>auth. ASSUME NEW c \in Clients, AuthFinished(c),
                state[c] \in {"SENT_HELLO", "SENT_PASSWORD"}
         PROVE  OwnedInv'
  BY <1>auth, <1>free DEF AuthFinished, SendPacket, ReportError
<1>1. ASSUME NEW c \in Clients, Accept(c) PROVE OwnedInv'
  BY <1>1 DEF Accept, ioVars
<1>2. ASSUME NEW c \in Clients, Abandon(c) PROVE OwnedInv'
  BY <1>2, <1>free DEF Abandon
<1>3. ASSUME NEW c \in Clients, ConnectorHandler(c) PROVE OwnedInv'
  BY <1>3, <1>free, ZenonT(30) DEF ConnectorHandler, SendPacket, ReportError
<1>4. ASSUME NEW c \in Clients, ConnectionHandler(c) PROVE OwnedInv'
  BY <1>4, <1>free DEF ConnectionHandler, ReportError
<1>5. ASSUME NEW c \in Clients, SendHandlerDone(c) PROVE OwnedInv'
  BY <1>5, <1>free DEF SendHandlerDone, ReceiveInto, ReportError
<1>6. ASSUME NEW c \in Clients, NEW n, SendSome(c, n) PROVE OwnedInv'
  BY <1>6 DEF SendSome
<1>7. ASSUME NEW c \in Clients, NEW n, ReceiveSome(c, n) PROVE OwnedInv'
  BY <1>7 DEF ReceiveSome
<1>8. ASSUME NEW c \in Clients, NEW n, RecvHandlerDone(c, n) PROVE OwnedInv'
  BY <1>8, <1>free, <1>auth DEF RecvHandlerDone, SendPacket, ReportError
<1>9. ASSUME NEW c \in Clients, Answer(c) PROVE OwnedInv'
  BY <1>9 DEF Answer, ioVars
<1>10. ASSUME NEW c \in Clients, ServerData(c) PROVE OwnedInv'
  BY <1>10 DEF ServerData, ioVars
<1> QED
  BY <1>0, <1>1, <1>2, <1>3, <1>4, <1>5, <1>6, <1>7, <1>8, <1>9, <1>10 DEF Next

\* Before any client connects.
LEMMA OwnedInit == Init => OwnedInv
BY DEF Init, OwnedInv, Owned, States

\* What is freed is free.
LEMMA OwnedPromise == OwnedInv => FreedIsFree
BY DEF OwnedInv, Owned, FreedIsFree

\* Nothing leaks: whatever handler fails, and whenever tun2socks gives the client
\* up, what BSocksClient_Free finds by the state alone is all there is.
THEOREM NothingLeaks == Spec => []FreedIsFree
BY OwnedInit, OwnedStep, OwnedPromise, PTL DEF Spec

-----------------------------------------------------------------------------
(* Where the handlers read and write *)

\* A packet is being sent only in the states SENDING_..., an answer received only
\* in the others, into a buffer it fits in; the buffer for the reply's header is
\* large enough for the longest address that may follow.
Fits(c) ==
    /\ out[c] # -1 => state[c] \in Sending
    /\ recvTotal[c] # 0 => state[c] \in Receiving
    /\ out[c] >= 0 => buffer[c] > 0 /\ out[c] <= buffer[c]
    /\ recvOff[c] + recvTotal[c] <= buffer[c]
    /\ state[c] = "SENT_REQUEST" => buffer[c] = MaxLen

FitsInv ==
    /\ state \in [Clients -> States]
    /\ buffer \in [Clients -> Nat]
    /\ out \in [Clients -> Nat \union {-1}]
    /\ recvOff \in [Clients -> Nat]
    /\ recvTotal \in [Clients -> Nat]
    /\ \A c \in Clients : Fits(c)

\* The lengths of the messages the client sends.
LEMMA Lengths ==
    ASSUME IsFiniteSet(Methods), DestLen \in Nat
    PROVE  HelloLen \in Nat \ {0} /\ RequestLen \in Nat \ {0}
BY FS_CardinalityType DEF HelloLen, RequestLen

\* Every handler keeps what it sends and receives within the buffer it reserved.
LEMMA FitsStep ==
    ASSUME IsFiniteSet(Methods), DestLen \in Nat, FitsInv, [Next]_vars
    PROVE  FitsInv'
<1> USE DEF FitsInv, Fits, States, Sending, Receiving, Set, StartReceive, MaxLen
<1>len. HelloLen \in Nat \ {0} /\ RequestLen \in Nat \ {0}
  BY Lengths
<1>0. CASE UNCHANGED vars
  BY <1>0 DEF vars
<1>free. ASSUME NEW c \in Clients, Free(c) PROVE FitsInv'
  BY <1>free DEF Free
<1>send. ASSUME NEW c \in Clients, NEW size \in Nat \ {0}, SendPacket(c, size),
                NEW s \in Sending, state' = Set(state, c, s)
         PROVE  FitsInv'
  BY <1>send DEF SendPacket
<1>recv. ASSUME NEW c \in Clients, NEW size \in Nat, NEW total \in 0 .. size,
                ReceiveInto(c, size, total),
                NEW s \in Receiving, state' = Set(state, c, s),
                s = "SENT_REQUEST" => size = MaxLen
         PROVE  FitsInv'
  BY <1>recv DEF ReceiveInto
<1>auth. ASSUME NEW c \in Clients, AuthFinished(c) PROVE FitsInv'
  BY <1>auth, <1>free, <1>send, <1>len DEF AuthFinished, ReportError
<1>1. ASSUME NEW c \in Clients, Accept(c) PROVE FitsInv'
  BY <1>1 DEF Accept, ioVars
<1>2. ASSUME NEW c \in Clients, Abandon(c) PROVE FitsInv'
  BY <1>2, <1>free DEF Abandon
<1>3. ASSUME NEW c \in Clients, ConnectorHandler(c) PROVE FitsInv'
  BY <1>3, <1>free, <1>send, <1>len DEF ConnectorHandler, ReportError
<1>4. ASSUME NEW c \in Clients, ConnectionHandler(c) PROVE FitsInv'
  BY <1>4, <1>free DEF ConnectionHandler, ReportError
<1>5. ASSUME NEW c \in Clients, SendHandlerDone(c) PROVE FitsInv'
  <2>1. CASE /\ ReceiveInto(c, AnswerLen, AnswerLen)
             /\ \/ state' = Set(state, c, "SENT_HELLO")
                \/ state' = Set(state, c, "SENT_PASSWORD")
    BY <2>1, <1>recv DEF AnswerLen
  <2>2. CASE /\ ReceiveInto(c, MaxLen, HeaderLen)
             /\ state' = Set(state, c, "SENT_REQUEST")
    BY <2>2 DEF ReceiveInto, HeaderLen
  <2>3. CASE ReportError(c)
    BY <2>3, <1>free DEF ReportError
  <2> HIDE DEF FitsInv
  <2> QED
    BY <1>5, <2>1, <2>2, <2>3 DEF SendHandlerDone
<1>6. ASSUME NEW c \in Clients, NEW n \in Nat, SendSome(c, n) PROVE FitsInv'
  BY <1>6 DEF SendSome
<1>7. ASSUME NEW c \in Clients, NEW n \in Nat, ReceiveSome(c, n) PROVE FitsInv'
  BY <1>7 DEF ReceiveSome
<1>8. ASSUME NEW c \in Clients, NEW n \in Nat, RecvHandlerDone(c, n) PROVE FitsInv'
  <2>1. CASE AuthFinished(c) \/ ReportError(c)
    BY <2>1, <1>free, <1>auth DEF ReportError
  <2>2. CASE /\ SendPacket(c, PasswordLen)
             /\ state' = Set(state, c, "SENDING_PASSWORD")
    BY <2>2 DEF SendPacket, PasswordLen
  <2>3. CASE /\ state[c] = "SENT_REQUEST"
             /\ StartReceive(c, HeaderLen, 6) \/ StartReceive(c, HeaderLen, 18)
             /\ state' = Set(state, c, "RECEIVED_REPLY_HEADER")
             /\ UNCHANGED <<buffer, out>>
    BY <2>3 DEF HeaderLen
  <2>4. CASE /\ state[c] = "RECEIVED_REPLY_HEADER"
             /\ buffer' = Set(buffer, c, 0) /\ StartReceive(c, 0, 0)
             /\ state' = Set(state, c, "UP") /\ UNCHANGED out
    BY <2>4
  <2> HIDE DEF FitsInv
  <2> QED
    BY <1>8, <2>1, <2>2, <2>3, <2>4 DEF RecvHandlerDone
<1>9. ASSUME NEW c \in Clients, Answer(c) PROVE FitsInv'
  BY <1>9 DEF Answer, ioVars
<1>10. ASSUME NEW c \in Clients, ServerData(c) PROVE FitsInv'
  BY <1>10 DEF ServerData, ioVars
<1> QED
  BY <1>0, <1>1, <1>2, <1>3, <1>4, <1>5, <1>6, <1>7, <1>8, <1>9, <1>10 DEF Next

\* Before any client connects.
LEMMA FitsInit == Init => FitsInv
BY DEF Init, FitsInv, Fits, States

\* What is sent and received lies within the buffer.
LEMMA FitsPromise == FitsInv => WithinBuffer
BY DEF FitsInv, Fits, WithinBuffer, Sending, Receiving

\* The buffer that one handshake reuses for all its messages is never exceeded,
\* and is never sent from and received into at the same time.
THEOREM BufferNeverExceeded ==
    ASSUME IsFiniteSet(Methods), DestLen \in Nat
    PROVE  Spec => []WithinBuffer
<1>1. FitsInv /\ [Next]_vars => FitsInv'
  BY FitsStep
<1> QED
  BY <1>1, FitsInit, FitsPromise, PTL DEF Spec

-----------------------------------------------------------------------------
(* The dialogue with the server *)

\* The messages before the request, the answers to them and their length, without
\* and with a password.
Asked(t)  == IF t THEN <<"hello", "password">> ELSE <<"hello">>
Agreed(t) == IF t THEN <<"password", "ok">> ELSE <<"none">>
Taken(t)  == IF t THEN 2 * AnswerLen ELSE AnswerLen

Granted    == {"granted6", "granted18"}
Address(g) == IF g = "granted6" THEN 6 ELSE 18

\* The server has granted the request, and may have sent data behind the reply.
Replied(a, l, t, g) ==
    \/ a = Append(Agreed(t), g) /\ l = Taken(t) + HeaderLen + Address(g)
    \/ a = Append(Append(Agreed(t), g), "data") /\ l = Taken(t) + HeaderLen + Address(g) + 1

\* What both sides have said by the time the client is in state s: w and a are the
\* messages, l bytes were sent by the server, p of them received, the last k of
\* these out of the n that are being received.
Said(s, w, a, l, p, k, n) ==
    CASE s \in {"new", "CONNECTING", "SENDING_HELLO"} ->
            w = <<>> /\ a = <<>> /\ l = 0 /\ p = 0
      [] s = "SENT_HELLO" ->
            /\ w = <<"hello">> /\ n = AnswerLen /\ p = k
            /\ \/ a = <<>> /\ l = 0
               \/ \E x \in {"none", "password", "bad"} : a = <<x>> /\ l = AnswerLen
      [] s = "SENDING_PASSWORD" ->
            w = <<"hello">> /\ a = <<"password">> /\ l = AnswerLen /\ p = AnswerLen
      [] s = "SENT_PASSWORD" ->
            /\ w = <<"hello", "password">> /\ n = AnswerLen /\ p = AnswerLen + k
            /\ \/ a = <<"password">> /\ l = AnswerLen
               \/ \E x \in {"ok", "bad"} : a = <<"password", x>> /\ l = 2 * AnswerLen
      [] s = "SENDING_REQUEST" ->
            \E t \in BOOLEAN : w = Asked(t) /\ a = Agreed(t) /\ l = Taken(t) /\ p = Taken(t)
      [] s = "SENT_REQUEST" ->
            \E t \in BOOLEAN :
               /\ w = Append(Asked(t), "request") /\ n = HeaderLen /\ p = Taken(t) + k
               /\ \/ a = Agreed(t) /\ l = Taken(t)
                  \/ a = Append(Agreed(t), "bad") /\ l = Taken(t) + HeaderLen
                  \/ \E g \in Granted : Replied(a, l, t, g)
      [] s = "RECEIVED_REPLY_HEADER" ->
            \E t \in BOOLEAN, g \in Granted :
               /\ w = Append(Asked(t), "request") /\ n = Address(g)
               /\ p = Taken(t) + HeaderLen + k /\ Replied(a, l, t, g)
      [] s = "UP" ->
            \E t \in BOOLEAN, g \in Granted :
               /\ w = Append(Asked(t), "request")
               /\ p = Taken(t) + HeaderLen + Address(g) /\ Replied(a, l, t, g)
      [] OTHER -> TRUE

Talk(c) ==
    /\ out[c] # -1 => state[c] \in Sending
    /\ recvTotal[c] # 0 => state[c] \in Receiving
    /\ recvLen[c] \in Nat
    /\ Said(state[c], wire[c], answers[c], inLen[c], inPos[c], recvLen[c], recvTotal[c])

OfClients ==
    /\ out = [c \in Clients |-> out[c]] /\ recvLen = [c \in Clients |-> recvLen[c]]
    /\ recvTotal = [c \in Clients |-> recvTotal[c]] /\ wire = [c \in Clients |-> wire[c]]
    /\ answers = [c \in Clients |-> answers[c]]
    /\ inLen = [c \in Clients |-> inLen[c]] /\ inPos = [c \in Clients |-> inPos[c]]

TalkInv == OfClients /\ \A c \in Clients : Talk(c)

\* A message behind another one.
LEMMA Pair ==
    ASSUME NEW x, NEW y
    PROVE  Append(<<x>>, y) = <<x, y>>
<1> DEFINE S == {x, y}
<1>1. x \in S /\ y \in S
  OBVIOUS
<1> HIDE DEF S
<1>2. <<x>> \in Seq(S) /\ <<x, y>> \in Seq(S)
  BY <1>1
<1>3. Append(<<x>>, y) \in Seq(S)
  BY <1>1, <1>2
<1>4. Len(Append(<<x>>, y)) = 2 /\ Len(<<x, y>>) = 2
  BY <1>1
<1>5. \A i \in 1 .. 2 : Append(<<x>>, y)[i] = <<x, y>>[i]
  BY <1>1
<1>6. Append(<<x>>, y) = [i \in 1 .. 2 |-> Append(<<x>>, y)[i]]
  BY <1>3, <1>4
<1>7. <<x, y>> = [i \in 1 .. 2 |-> <<x, y>>[i]]
  BY <1>2, <1>4
<1> QED
  BY <1>5, <1>6, <1>7

\* A message behind two others.
LEMMA Triple ==
    ASSUME NEW x, NEW y, NEW z
    PROVE  Append(<<x, y>>, z) = <<x, y, z>>
<1> DEFINE S == {x, y, z}
<1>1. x \in S /\ y \in S /\ z \in S
  OBVIOUS
<1> HIDE DEF S
<1>2. <<x, y>> \in Seq(S) /\ <<x, y, z>> \in Seq(S)
  BY <1>1
<1>3. Append(<<x, y>>, z) \in Seq(S)
  BY <1>1, <1>2
<1>4. Len(Append(<<x, y>>, z)) = 3 /\ Len(<<x, y, z>>) = 3
  BY <1>1
<1>5. \A i \in 1 .. 3 : Append(<<x, y>>, z)[i] = <<x, y, z>>[i]
  BY <1>1
<1>6. Append(<<x, y>>, z) = [i \in 1 .. 3 |-> Append(<<x, y>>, z)[i]]
  BY <1>3, <1>4
<1>7. <<x, y, z>> = [i \in 1 .. 3 |-> <<x, y, z>>[i]]
  BY <1>2, <1>4
<1> QED
  BY <1>5, <1>6, <1>7

\* A message was sent: the answer to it is received next.
LEMMA SaidSent ==
    ASSUME NEW w, NEW a, NEW l, NEW p, NEW k, NEW n
    PROVE  /\ Said("SENDING_HELLO", w, a, l, p, k, n)
                 => Said("SENT_HELLO", Append(w, "hello"), a, l, p, 0, AnswerLen)
           /\ Said("SENDING_PASSWORD", w, a, l, p, k, n)
                 => Said("SENT_PASSWORD", Append(w, "password"), a, l, p, 0, AnswerLen)
           /\ Said("SENDING_REQUEST", w, a, l, p, k, n)
                 => Said("SENT_REQUEST", Append(w, "request"), a, l, p, 0, HeaderLen)
<1>1. Said("SENDING_HELLO", w, a, l, p, k, n)
         => Said("SENT_HELLO", Append(w, "hello"), a, l, p, 0, AnswerLen)
  BY DEF Said
<1>2. Said("SENDING_PASSWORD", w, a, l, p, k, n)
         => Said("SENT_PASSWORD", Append(w, "password"), a, l, p, 0, AnswerLen)
  <2>1. Append(<<"hello">>, "password") = <<"hello", "password">>
    BY Pair, Zenon
  <2>2. AnswerLen = AnswerLen + 0
    BY DEF AnswerLen
  <2> QED
    BY <2>1, <2>2 DEF Said
<1>3. ASSUME Said("SENDING_REQUEST", w, a, l, p, k, n)
      PROVE  Said("SENT_REQUEST", Append(w, "request"), a, l, p, 0, HeaderLen)
  <2>1. PICK t \in BOOLEAN : w = Asked(t) /\ a = Agreed(t) /\ l = Taken(t) /\ p = Taken(t)
    BY <1>3 DEF Said
  <2>2. Taken(t) = Taken(t) + 0
    BY DEF Taken, AnswerLen
  <2> QED
    BY <2>1, <2>2 DEF Said
<1> QED
  BY <1>1, <1>2, <1>3

\* A part of an answer was received.
LEMMA SaidSome ==
    ASSUME NEW s \in Receiving, NEW w, NEW a, NEW l, NEW p, NEW k \in Nat, NEW n,
           NEW m \in Nat, Said(s, w, a, l, p, k, n)
    PROVE  Said(s, w, a, l, p + m, k + m, n)
<1>1. CASE s = "SENT_HELLO"
  BY <1>1 DEF Said
<1>2. CASE s = "SENT_PASSWORD"
  BY <1>2 DEF Said, AnswerLen
<1>3. CASE s = "SENT_REQUEST"
  <2>1. PICK t \in BOOLEAN :
               /\ w = Append(Asked(t), "request") /\ n = HeaderLen /\ p = Taken(t) + k
               /\ \/ a = Agreed(t) /\ l = Taken(t)
                  \/ a = Append(Agreed(t), "bad") /\ l = Taken(t) + HeaderLen
                  \/ \E g \in Granted : Replied(a, l, t, g)
    BY <1>3 DEF Said
  <2>2. p + m = Taken(t) + (k + m)
    BY <2>1 DEF Taken, AnswerLen
  <2> QED
    BY <1>3, <2>1, <2>2 DEF Said
<1>4. CASE s = "RECEIVED_REPLY_HEADER"
  <2>1. PICK t \in BOOLEAN, g \in Granted :
               /\ w = Append(Asked(t), "request") /\ n = Address(g)
               /\ p = Taken(t) + HeaderLen + k /\ Replied(a, l, t, g)
    BY <1>4 DEF Said
  <2>2. p + m = Taken(t) + HeaderLen + (k + m)
    BY <2>1 DEF Taken, AnswerLen, HeaderLen
  <2> QED
    BY <1>4, <2>1, <2>2 DEF Said
<1> QED
  BY <1>1, <1>2, <1>3, <1>4 DEF Receiving

\* The whole answer to hello, or to the password, was received.
LEMMA SaidAnswered ==
    ASSUME NEW w, NEW a, NEW l, NEW p, NEW k \in Nat, NEW n, NEW m \in Nat,
           m > 0, m <= l - p, k + m = n
    PROVE  /\ Said("SENT_HELLO", w, a, l, p, k, n) /\ a[Len(w)] = "none"
                 => Said("SENDING_REQUEST", w, a, l, p + m, 0, 0)
           /\ Said("SENT_HELLO", w, a, l, p, k, n) /\ a[Len(w)] = "password"
                 => Said("SENDING_PASSWORD", w, a, l, p + m, 0, 0)
           /\ Said("SENT_PASSWORD", w, a, l, p, k, n) /\ a[Len(w)] = "ok"
                 => Said("SENDING_REQUEST", w, a, l, p + m, 0, 0)
<1>1. ASSUME Said("SENT_HELLO", w, a, l, p, k, n)
      PROVE  /\ w = <<"hello">> /\ a = <<a[Len(w)]>> /\ l = AnswerLen /\ p + m = AnswerLen
  BY <1>1 DEF Said, AnswerLen
<1>2. ASSUME Said("SENT_HELLO", w, a, l, p, k, n), a[Len(w)] = "none"
      PROVE  Said("SENDING_REQUEST", w, a, l, p + m, 0, 0)
  <2>1. /\ w = Asked(FALSE) /\ a = Agreed(FALSE) /\ l = Taken(FALSE)
        /\ p + m = Taken(FALSE)
    BY <1>1, <1>2 DEF Asked, Agreed, Taken
  <2> QED
    BY <2>1 DEF Said
<1>3. ASSUME Said("SENT_HELLO", w, a, l, p, k, n), a[Len(w)] = "password"
      PROVE  Said("SENDING_PASSWORD", w, a, l, p + m, 0, 0)
  BY <1>1, <1>3 DEF Said
<1>4. ASSUME Said("SENT_PASSWORD", w, a, l, p, k, n), a[Len(w)] = "ok"
      PROVE  Said("SENDING_REQUEST", w, a, l, p + m, 0, 0)
  <2>1. /\ w = Asked(TRUE) /\ a = Agreed(TRUE) /\ l = Taken(TRUE) /\ p + m = Taken(TRUE)
    BY <1>4 DEF Said, AnswerLen, Asked, Agreed, Taken
  <2> QED
    BY <2>1 DEF Said
<1> QED
  BY <1>2, <1>3, <1>4

\* The request was granted: the answer to it is the server's last but data.
LEMMA RepliedLemma ==
    ASSUME NEW t \in BOOLEAN, NEW g \in Granted, NEW a, NEW l, Replied(a, l, t, g)
    PROVE  /\ a[Len(Append(Asked(t), "request"))] = g
           /\ Len(a) >= Len(Append(Asked(t), "request"))
           /\ a # <<>> /\ Len(a) \in Nat
           /\ a[Len(a)] \in Granted
                 => Replied(Append(a, "data"), l + 1, t, g)
<1>1. CASE t
  BY <1>1 DEF Replied, Asked, Agreed, Taken, Granted, Address, AnswerLen, HeaderLen
<1>2. CASE ~t
  BY <1>2 DEF Replied, Asked, Agreed, Taken, Granted, Address, AnswerLen, HeaderLen
<1> QED
  BY <1>1, <1>2

\* The reply's header was received, and its address.
LEMMA SaidReply ==
    ASSUME NEW w, NEW a, NEW l, NEW p, NEW k \in Nat, NEW n, NEW m \in Nat,
           m > 0, m <= l - p, k + m = n
    PROVE  /\ Said("SENT_REQUEST", w, a, l, p, k, n) /\ a[Len(w)] \in Granted
                 => Said("RECEIVED_REPLY_HEADER", w, a, l, p + m, 0, Address(a[Len(w)]))
           /\ Said("RECEIVED_REPLY_HEADER", w, a, l, p, k, n)
                 => Said("UP", w, a, l, p + m, 0, 0)
<1>1. ASSUME Said("SENT_REQUEST", w, a, l, p, k, n), a[Len(w)] \in Granted
      PROVE  Said("RECEIVED_REPLY_HEADER", w, a, l, p + m, 0, Address(a[Len(w)]))
  <2>1. PICK t \in BOOLEAN :
               /\ w = Append(Asked(t), "request") /\ n = HeaderLen /\ p = Taken(t) + k
               /\ \/ a = Agreed(t) /\ l = Taken(t)
                  \/ a = Append(Agreed(t), "bad") /\ l = Taken(t) + HeaderLen
                  \/ \E g \in Granted : Replied(a, l, t, g)
    BY <1>1 DEF Said
  <2>2. Taken(t) \in Nat
    BY DEF Taken, AnswerLen
  <2>3. ~(a = Agreed(t) /\ l = Taken(t))
    BY <2>1, <2>2
  <2>4. ~(a = Append(Agreed(t), "bad"))
    <3>1. ASSUME a = Append(Agreed(t), "bad") PROVE a[Len(w)] = "bad"
      BY <2>1, <3>1 DEF Agreed, Asked
    <3> QED
      BY <1>1, <3>1 DEF Granted
  <2>5. PICK g \in Granted : Replied(a, l, t, g)
    BY <2>1, <2>3, <2>4
  <2>6. a[Len(w)] = g
    BY <2>1, <2>5, RepliedLemma
  <2>7. p + m = Taken(t) + HeaderLen + 0
    BY <2>1, <2>2 DEF HeaderLen
  <2> QED
    BY <2>1, <2>5, <2>6, <2>7 DEF Said
<1>2. ASSUME Said("RECEIVED_REPLY_HEADER", w, a, l, p, k, n)
      PROVE  Said("UP", w, a, l, p + m, 0, 0)
  <2>1. PICK t \in BOOLEAN, g \in Granted :
               /\ w = Append(Asked(t), "request") /\ n = Address(g)
               /\ p = Taken(t) + HeaderLen + k /\ Replied(a, l, t, g)
    BY <1>2 DEF Said
  <2>2. Taken(t) \in Nat /\ Address(g) \in Nat
    BY DEF Taken, AnswerLen, Address
  <2>3. p + m = Taken(t) + HeaderLen + Address(g)
    BY <2>1, <2>2 DEF HeaderLen
  <2> QED
    BY <2>1, <2>3 DEF Said
<1> QED
  BY <1>1, <1>2

\* The length of answer x to message m.
LenOf(x, m) ==
    CASE x = "granted6"  -> HeaderLen + 6
      [] x = "granted18" -> HeaderLen + 18
      [] x = "bad" /\ m = "request" -> HeaderLen
      [] OTHER -> AnswerLen
AnswersTo(m) ==
    CASE m = "hello"    -> {"none", "password", "bad"}
      [] m = "password" -> {"ok", "bad"}
      [] OTHER          -> {"granted6", "granted18", "bad"}

\* The server answers the last message, once.
LEMMA SaidAnswer ==
    ASSUME NEW s \in States \ {"new", "CONNECTING", "freed"},
           NEW w, NEW a, NEW l, NEW p, NEW k, NEW n,
           Said(s, w, a, l, p, k, n), Len(a) < Len(w), NEW x \in AnswersTo(w[Len(w)])
    PROVE  Said(s, w, Append(a, x), l + LenOf(x, w[Len(w)]), p, k, n)
<1>1. CASE s = "SENDING_HELLO"
  BY <1>1 DEF Said
<1>2. CASE s = "SENT_HELLO"
  <2>1. w = <<"hello">> /\ a = <<>> /\ l = 0 /\ n = AnswerLen /\ p = k
    BY <1>2 DEF Said
  <2>2. w[Len(w)] = "hello" /\ x \in {"none", "password", "bad"}
    BY <2>1 DEF AnswersTo
  <2>3. l + LenOf(x, w[Len(w)]) = AnswerLen /\ Append(a, x) = <<x>>
    BY <2>1, <2>2 DEF LenOf, AnswerLen
  <2> QED
    BY <1>2, <2>1, <2>2, <2>3 DEF Said
<1>3. CASE s = "SENDING_PASSWORD"
  BY <1>3 DEF Said
<1>4. CASE s = "SENT_PASSWORD"
  <2>1. /\ w = <<"hello", "password">> /\ n = AnswerLen /\ p = AnswerLen + k
        /\ a = <<"password">> /\ l = AnswerLen
    BY <1>4 DEF Said
  <2>2. w[Len(w)] = "password" /\ x \in {"ok", "bad"}
    BY <2>1 DEF AnswersTo
  <2>3. l + LenOf(x, w[Len(w)]) = 2 * AnswerLen
    <3>1. LenOf(x, w[Len(w)]) = AnswerLen
      BY <2>2 DEF LenOf
    <3> QED
      BY <2>1, <3>1 DEF AnswerLen
  <2>4. Append(a, x) = <<"password", x>>
    <3>1. Append(<<"password">>, x) = <<"password", x>>
      BY Pair, Zenon
    <3> QED
      BY <2>1, <3>1
  <2> QED
    BY <1>4, <2>1, <2>2, <2>3, <2>4 DEF Said
<1>5. CASE s = "SENDING_REQUEST"
  <2>1. PICK t \in BOOLEAN : w = Asked(t) /\ a = Agreed(t)
    BY <1>5 DEF Said
  <2>2. Len(Asked(t)) = Len(Agreed(t)) /\ Len(Agreed(t)) \in Nat
    BY DEF Asked, Agreed
  <2> QED
    BY <2>1, <2>2
<1>6. CASE s = "SENT_REQUEST"
  <2>1. PICK t \in BOOLEAN :
               /\ w = Append(Asked(t), "request") /\ n = HeaderLen /\ p = Taken(t) + k
               /\ \/ a = Agreed(t) /\ l = Taken(t)
                  \/ a = Append(Agreed(t), "bad") /\ l = Taken(t) + HeaderLen
                  \/ \E g \in Granted : Replied(a, l, t, g)
    BY <1>6 DEF Said
  <2>2. w[Len(w)] = "request" /\ Len(w) = Len(Append(Agreed(t), "bad")) /\ Len(w) \in Nat
    BY <2>1 DEF Asked, Agreed
  <2>3. a = Agreed(t) /\ l = Taken(t)
    <3>1. ~(a = Append(Agreed(t), "bad"))
      BY <2>2
    <3>2. ASSUME NEW g \in Granted, Replied(a, l, t, g) PROVE FALSE
      <4>1. Len(a) >= Len(w) /\ Len(a) \in Nat
        BY <2>1, <3>2, RepliedLemma
      <4> QED
        BY <2>2, <4>1
    <3> QED
      BY <2>1, <3>1, <3>2
  <2>4. x \in {"granted6", "granted18", "bad"}
    BY <2>2 DEF AnswersTo
  <2>5. CASE x = "bad"
    <3>1. LenOf(x, w[Len(w)]) = HeaderLen
      BY <2>2, <2>5 DEF LenOf
    <3> QED
      BY <1>6, <2>1, <2>3, <2>5, <3>1 DEF Said
  <2>6. CASE x \in Granted
    <3>1. LenOf(x, w[Len(w)]) = HeaderLen + Address(x)
      BY <2>6 DEF LenOf, Address, Granted
    <3>2. l + LenOf(x, w[Len(w)]) = Taken(t) + HeaderLen + Address(x)
      BY <2>3, <3>1 DEF Taken, AnswerLen, HeaderLen, Address
    <3>3. Replied(Append(a, x), l + LenOf(x, w[Len(w)]), t, x)
      BY <2>3, <3>2 DEF Replied
    <3> QED
      BY <1>6, <2>1, <2>6, <3>3 DEF Said
  <2> QED
    BY <2>4, <2>5, <2>6 DEF Granted
<1>7. CASE s = "RECEIVED_REPLY_HEADER" \/ s = "UP"
  <2>1. PICK t \in BOOLEAN, g \in Granted :
           w = Append(Asked(t), "request") /\ Replied(a, l, t, g)
    BY <1>7 DEF Said
  <2>2. Len(a) >= Len(w) /\ Len(a) \in Nat
    BY <2>1, RepliedLemma
  <2>3. Len(w) \in Nat
    BY <2>1 DEF Asked
  <2> QED
    BY <2>2, <2>3
<1> QED
  BY <1>1, <1>2, <1>3, <1>4, <1>5, <1>6, <1>7 DEF States, Sending, Receiving

\* The server sends data behind the reply that grants the request.
LEMMA SaidData ==
    ASSUME NEW s \in States \ {"new", "CONNECTING", "freed"},
           NEW w, NEW a, NEW l, NEW p, NEW k, NEW n,
           Said(s, w, a, l, p, k, n), a # <<>>, a[Len(a)] \in Granted
    PROVE  Said(s, w, Append(a, "data"), l + 1, p, k, n)
<1>1. CASE s \in {"SENDING_HELLO", "SENT_HELLO", "SENDING_PASSWORD", "SENT_PASSWORD"}
  BY <1>1 DEF Said, Granted
<1>2. CASE s = "SENDING_REQUEST"
  BY <1>2 DEF Said, Granted, Agreed
<1>3. CASE s = "SENT_REQUEST"
  <2>1. PICK t \in BOOLEAN :
               /\ w = Append(Asked(t), "request") /\ n = HeaderLen /\ p = Taken(t) + k
               /\ \/ a = Agreed(t) /\ l = Taken(t)
                  \/ a = Append(Agreed(t), "bad") /\ l = Taken(t) + HeaderLen
                  \/ \E g \in Granted : Replied(a, l, t, g)
    BY <1>3 DEF Said
  <2>2. a # Agreed(t) /\ a # Append(Agreed(t), "bad")
    BY DEF Granted, Agreed
  <2>3. PICK g \in Granted : Replied(a, l, t, g)
    BY <2>1, <2>2
  <2>4. Replied(Append(a, "data"), l + 1, t, g)
    BY <2>3, RepliedLemma
  <2> QED
    BY <1>3, <2>1, <2>4 DEF Said
<1>4. CASE s = "RECEIVED_REPLY_HEADER"
  <2>1. PICK t \in BOOLEAN, g \in Granted :
               /\ w = Append(Asked(t), "request") /\ n = Address(g)
               /\ p = Taken(t) + HeaderLen + k /\ Replied(a, l, t, g)
    BY <1>4 DEF Said
  <2>2. Replied(Append(a, "data"), l + 1, t, g)
    BY <2>1, RepliedLemma
  <2> QED
    BY <1>4, <2>1, <2>2 DEF Said
<1>5. CASE s = "UP"
  <2>1. PICK t \in BOOLEAN, g \in Granted :
               /\ w = Append(Asked(t), "request")
               /\ p = Taken(t) + HeaderLen + Address(g) /\ Replied(a, l, t, g)
    BY <1>5 DEF Said
  <2>2. Replied(Append(a, "data"), l + 1, t, g)
    BY <2>1, RepliedLemma
  <2> QED
    BY <1>5, <2>1, <2>2 DEF Said
<1> QED
  BY <1>1, <1>2, <1>3, <1>4, <1>5 DEF States, Sending, Receiving

\* A step of client c touches no other client.
Others(c) ==
    /\ OfClients'
    /\ \A x \in Clients \ {c} :
          /\ state'[x] = state[x] /\ out'[x] = out[x] /\ recvLen'[x] = recvLen[x]
          /\ recvTotal'[x] = recvTotal[x] /\ wire'[x] = wire[x]
          /\ answers'[x] = answers[x] /\ inLen'[x] = inLen[x] /\ inPos'[x] = inPos[x]

\* A step of one client leaves the dialogues of the others as they are.
LEMMA OtherStep ==
    ASSUME TalkInv, NEW c \in Clients, Others(c),
           out'[c] # -1 => state'[c] \in Sending,
           recvTotal'[c] # 0 => state'[c] \in Receiving,
           recvLen'[c] \in Nat,
           Said(state'[c], wire'[c], answers'[c], inLen'[c], inPos'[c], recvLen'[c],
                recvTotal'[c])
    PROVE  TalkInv'
<1>1. ASSUME NEW x \in Clients PROVE Talk(x)'
  <2>1. CASE x = c
    BY <2>1 DEF Talk
  <2>2. CASE x # c
    <3>1. Talk(x)
      BY DEF TalkInv
    <3> QED
      BY <2>2, <3>1 DEF Talk, Others
  <2> QED
    BY <2>1, <2>2
<1> QED
  BY <1>1 DEF TalkInv, Others

\* BSocksClient_Free, in whatever state.
LEMMA TalkFree ==
    ASSUME OwnedInv, TalkInv, NEW c \in Clients, Free(c), OfClients',
           \A x \in Clients \ {c} : /\ wire'[x] = wire[x] /\ answers'[x] = answers[x]
                                    /\ inLen'[x] = inLen[x] /\ inPos'[x] = inPos[x]
    PROVE  TalkInv'
<1>1. state \in [Clients -> States] /\ OfClients
  BY DEF OwnedInv, TalkInv
<1>2. /\ state'[c] = "freed" /\ out'[c] = -1 /\ recvTotal'[c] = 0 /\ recvLen'[c] = 0
  BY <1>1 DEF Free, Set, StartReceive, OfClients
<1>3. Others(c)
  BY <1>1 DEF Free, Set, StartReceive, OfClients, Others
<1>4. Said("freed", wire'[c], answers'[c], inLen'[c], inPos'[c], 0, 0)
  BY DEF Said
<1> QED
  BY <1>2, <1>3, <1>4, OtherStep

\* Every handler, and the server, keep the dialogue in step.
LEMMA TalkStep ==
    ASSUME OwnedInv, TalkInv, [Next]_vars
    PROVE  TalkInv'
<1>1. state \in [Clients -> States] /\ OfClients
  BY DEF OwnedInv, TalkInv
<1>2. \A c \in Clients :
         /\ out[c] # -1 => state[c] \in Sending
         /\ recvTotal[c] # 0 => state[c] \in Receiving
         /\ recvLen[c] \in Nat
         /\ Said(state[c], wire[c], answers[c], inLen[c], inPos[c], recvLen[c],
                 recvTotal[c])
  BY DEF TalkInv, Talk
<1>3. \A c \in Clients : con[c] => state[c] \in States \ {"new", "CONNECTING", "freed"}
  BY <1>1 DEF OwnedInv, Owned
<1>4. \A c \in Clients : state[c] \in {"new", "CONNECTING"} => out[c] = -1 /\ recvTotal[c] = 0
  BY <1>2 DEF Sending, Receiving
<1>5. CASE UNCHANGED vars
  BY <1>5 DEF vars, TalkInv, Talk, OfClients
<1>6. ASSUME NEW c \in Clients, Accept(c) PROVE TalkInv'
  <2>1. Others(c)
    BY <1>1, <1>6 DEF Accept, ioVars, srvVars, Others, OfClients, Set
  <2>2. /\ state'[c] = "CONNECTING" /\ state[c] = "new"
        /\ UNCHANGED <<out, recvTotal, recvLen, wire, answers, inLen, inPos>>
    BY <1>1, <1>6 DEF Accept, ioVars, srvVars, Set
  <2>3. Said("CONNECTING", wire'[c], answers'[c], inLen'[c], inPos'[c], recvLen'[c],
             recvTotal'[c])
    BY <1>2, <2>2 DEF Said
  <2>4. out'[c] = -1 /\ recvTotal'[c] = 0 /\ recvLen'[c] \in Nat
    BY <1>2, <1>4, <2>2
  <2> QED
    BY <2>1, <2>2, <2>3, <2>4, OtherStep
<1>7. ASSUME NEW c \in Clients, Abandon(c) PROVE TalkInv'
  <2>1. Free(c) /\ UNCHANGED <<wire, answers, inLen, inPos>>
    BY <1>7 DEF Abandon, srvVars
  <2>2. OfClients'
    BY <1>1, <2>1 DEF Free, Set, StartReceive, OfClients
  <2> QED
    BY <2>1, <2>2, TalkFree
<1>8. ASSUME NEW c \in Clients, ConnectorHandler(c) PROVE TalkInv'
  <2>1. state[c] = "CONNECTING" /\ UNCHANGED <<wire, answers, inLen, inPos>>
    BY <1>8 DEF ConnectorHandler, srvVars
  <2>2. CASE SendPacket(c, HelloLen) /\ state' = Set(state, c, "SENDING_HELLO")
    <3>1. Others(c) /\ state'[c] = "SENDING_HELLO" /\ recvTotal'[c] = 0 /\ recvLen'[c] = 0
      BY <1>1, <2>1, <2>2 DEF SendPacket, StartReceive, Others, OfClients, Set
    <3>2. Said("SENDING_HELLO", wire'[c], answers'[c], inLen'[c], inPos'[c], 0, 0)
      BY <1>2, <2>1 DEF Said
    <3> QED
      BY <3>1, <3>2, OtherStep DEF Sending
  <2>3. CASE Free(c)
    <3>1. OfClients'
      BY <1>1, <2>1, <2>3 DEF Free, Set, StartReceive, OfClients
    <3> QED
      BY <2>1, <2>3, <3>1, TalkFree
  <2> QED
    BY <1>8, <2>2, <2>3 DEF ConnectorHandler, ReportError
<1>9. ASSUME NEW c \in Clients, ConnectionHandler(c) PROVE TalkInv'
  <2>1. Free(c) /\ UNCHANGED <<wire, answers, inLen, inPos>>
    BY <1>9 DEF ConnectionHandler, ReportError, srvVars
  <2>2. OfClients'
    BY <1>1, <2>1 DEF Free, Set, StartReceive, OfClients
  <2> QED
    BY <2>1, <2>2, TalkFree
<1>10. ASSUME NEW c \in Clients, SendHandlerDone(c) PROVE TalkInv'
  <2>1. state[c] \in Sending /\ UNCHANGED <<answers, inLen, inPos>>
    BY <1>2, <1>10 DEF SendHandlerDone, srvVars
  <2> DEFINE m == CASE state[c] = "SENDING_HELLO" -> "hello"
                    [] state[c] = "SENDING_PASSWORD" -> "password"
                    [] OTHER -> "request"
  <2>2. wire' = Set(wire, c, Append(wire[c], m))
    BY <1>10 DEF SendHandlerDone
  <2>3. wire'[c] = Append(wire[c], m) /\ \A x \in Clients \ {c} : wire'[x] = wire[x]
    BY <1>1, <2>2 DEF Set, OfClients
  <2>4. wire' = [x \in Clients |-> wire'[x]]
    BY <1>1, <2>2 DEF Set, OfClients
  <2>5. ASSUME NEW size, NEW total, ReceiveInto(c, size, total),
               NEW s \in Receiving, state' = Set(state, c, s),
               Said(s, wire'[c], answers[c], inLen[c], inPos[c], 0, total)
        PROVE  TalkInv'
    <3>1. /\ Others(c) /\ state'[c] = s /\ out'[c] = -1 /\ recvTotal'[c] = total
          /\ recvLen'[c] = 0
      BY <1>1, <2>1, <2>3, <2>4, <2>5 DEF ReceiveInto, StartReceive, Others, OfClients, Set
    <3> QED
      BY <2>1, <2>5, <3>1, OtherStep
  <2>6. CASE /\ state[c] = "SENDING_HELLO" /\ ReceiveInto(c, AnswerLen, AnswerLen)
             /\ state' = Set(state, c, "SENT_HELLO")
    <3>1. wire'[c] = Append(wire[c], "hello")
      BY <2>3, <2>6
    <3>2. Said("SENT_HELLO", wire'[c], answers[c], inLen[c], inPos[c], 0, AnswerLen)
      BY <1>2, <2>6, <3>1, SaidSent
    <3> QED
      BY <2>5, <2>6, <3>2 DEF Receiving
  <2>7. CASE /\ state[c] = "SENDING_PASSWORD" /\ ReceiveInto(c, AnswerLen, AnswerLen)
             /\ state' = Set(state, c, "SENT_PASSWORD")
    <3>1. wire'[c] = Append(wire[c], "password")
      BY <2>3, <2>7
    <3>2. Said("SENT_PASSWORD", wire'[c], answers[c], inLen[c], inPos[c], 0, AnswerLen)
      BY <1>2, <2>7, <3>1, SaidSent
    <3> QED
      BY <2>5, <2>7, <3>2 DEF Receiving
  <2>8. CASE /\ state[c] = "SENDING_REQUEST" /\ ReceiveInto(c, MaxLen, HeaderLen)
             /\ state' = Set(state, c, "SENT_REQUEST")
    <3>1. wire'[c] = Append(wire[c], "request")
      BY <2>3, <2>8
    <3>2. Said("SENT_REQUEST", wire'[c], answers[c], inLen[c], inPos[c], 0, HeaderLen)
      BY <1>2, <2>8, <3>1, SaidSent
    <3> QED
      BY <2>5, <2>8, <3>2 DEF Receiving
  <2>9. CASE Free(c)
    <3>1. OfClients'
      BY <1>1, <2>1, <2>4, <2>9 DEF Free, Set, StartReceive, OfClients
    <3> QED
      BY <2>1, <2>3, <2>9, <3>1, TalkFree
  <2> QED
    BY <1>10, <2>6, <2>7, <2>8, <2>9 DEF SendHandlerDone, ReportError
<1>11. ASSUME NEW c \in Clients, NEW n \in Nat, SendSome(c, n) PROVE TalkInv'
  <2>1. /\ out[c] > 0
        /\ UNCHANGED <<state, recvTotal, recvLen, wire, answers, inLen, inPos>>
        /\ out' = Set(out, c, out[c] - n)
    BY <1>11 DEF SendSome, srvVars
  <2>2. Others(c)
    BY <1>1, <2>1 DEF Others, OfClients, Set
  <2>3. state[c] \in Sending
    BY <1>2, <2>1
  <2> QED
    BY <1>2, <2>1, <2>2, <2>3, OtherStep
<1>12. ASSUME NEW c \in Clients, NEW n \in Nat, ReceiveSome(c, n) PROVE TalkInv'
  <2>1. /\ recvTotal[c] > 0
        /\ UNCHANGED <<state, out, recvTotal, wire, answers, inLen>>
        /\ recvLen' = Set(recvLen, c, recvLen[c] + n)
        /\ inPos' = Set(inPos, c, inPos[c] + n)
    BY <1>12 DEF ReceiveSome, srvVars
  <2>2. Others(c) /\ recvLen'[c] = recvLen[c] + n /\ inPos'[c] = inPos[c] + n
    BY <1>1, <2>1 DEF Others, OfClients, Set
  <2>3. state[c] \in Receiving
    BY <1>2, <2>1
  <2>4. Said(state[c], wire[c], answers[c], inLen[c], inPos[c] + n, recvLen[c] + n,
             recvTotal[c])
    BY <1>2, <2>3, SaidSome
  <2>5. recvLen[c] + n \in Nat
    BY <1>2
  <2> QED
    BY <1>2, <2>1, <2>2, <2>3, <2>4, <2>5, OtherStep
<1>13. ASSUME NEW c \in Clients, NEW n \in Nat, RecvHandlerDone(c, n) PROVE TalkInv'
  <2> DEFINE answer == answers[c][Len(wire[c])]
             p == inPos[c] + n
  <2>1. /\ recvTotal[c] > 0 /\ n > 0 /\ n <= inLen[c] - inPos[c]
        /\ recvLen[c] + n = recvTotal[c] /\ inPos' = Set(inPos, c, p)
        /\ UNCHANGED <<wire, answers, inLen>>
    BY <1>13 DEF RecvHandlerDone, srvVars
  <2>2. /\ inPos'[c] = p /\ inPos' = [x \in Clients |-> inPos'[x]]
        /\ \A x \in Clients \ {c} : inPos'[x] = inPos[x]
    BY <1>1, <2>1 DEF Set, OfClients
  <2> HIDE DEF p
  <2>3. ASSUME NEW size, SendPacket(c, size), NEW s \in Sending, state' = Set(state, c, s),
               Said(s, wire[c], answers[c], inLen[c], p, 0, 0)
        PROVE  TalkInv'
    <3>1. Others(c) /\ state'[c] = s /\ recvTotal'[c] = 0 /\ recvLen'[c] = 0
      BY <1>1, <2>1, <2>2, <2>3 DEF SendPacket, StartReceive, Others, OfClients, Set
    <3> QED
      BY <2>1, <2>2, <2>3, <3>1, OtherStep
  <2>4. CASE Free(c)
    <3>1. OfClients'
      BY <1>1, <2>1, <2>2, <2>4 DEF Free, Set, StartReceive, OfClients
    <3> QED
      BY <2>1, <2>2, <2>4, <3>1, TalkFree
  <2>5. CASE AuthFinished(c) /\ Said("SENDING_REQUEST", wire[c], answers[c], inLen[c], p, 0, 0)
    BY <2>3, <2>4, <2>5 DEF AuthFinished, ReportError, Sending
  <2>6. CASE state[c] = "SENT_HELLO" /\ answer = "none" /\ AuthFinished(c)
    <3>1. Said("SENDING_REQUEST", wire[c], answers[c], inLen[c], p, 0, 0)
      BY <1>2, <2>1, <2>6, SaidAnswered DEF p
    <3> QED
      BY <2>5, <2>6, <3>1
  <2>7. CASE /\ state[c] = "SENT_HELLO" /\ answer = "password"
             /\ SendPacket(c, PasswordLen) /\ state' = Set(state, c, "SENDING_PASSWORD")
    <3>1. Said("SENDING_PASSWORD", wire[c], answers[c], inLen[c], p, 0, 0)
      BY <1>2, <2>1, <2>7, SaidAnswered DEF p
    <3> QED
      BY <2>3, <2>7, <3>1 DEF Sending
  <2>8. CASE state[c] = "SENT_PASSWORD" /\ answer = "ok" /\ AuthFinished(c)
    <3>1. Said("SENDING_REQUEST", wire[c], answers[c], inLen[c], p, 0, 0)
      BY <1>2, <2>1, <2>8, SaidAnswered DEF p
    <3> QED
      BY <2>5, <2>8, <3>1
  <2>9. CASE /\ state[c] = "SENT_REQUEST" /\ answer \in Granted
             /\ StartReceive(c, HeaderLen, Address(answer))
             /\ state' = Set(state, c, "RECEIVED_REPLY_HEADER") /\ UNCHANGED out
    <3>1. Said("RECEIVED_REPLY_HEADER", wire[c], answers[c], inLen[c], p, 0, Address(answer))
      BY <1>2, <2>1, <2>9, SaidReply DEF p
    <3>2. out[c] = -1
      BY <1>2, <2>9 DEF Sending
    <3> HIDE DEF answer
    <3>3. /\ Others(c) /\ state'[c] = "RECEIVED_REPLY_HEADER" /\ out'[c] = -1
          /\ recvTotal'[c] = Address(answer) /\ recvLen'[c] = 0
      BY <1>1, <2>1, <2>2, <2>9, <3>2 DEF StartReceive, Others, OfClients, Set
    <3> QED
      BY <2>1, <2>2, <3>1, <3>3, OtherStep DEF Receiving
  <2>10. CASE /\ state[c] = "RECEIVED_REPLY_HEADER" /\ StartReceive(c, 0, 0)
              /\ state' = Set(state, c, "UP") /\ UNCHANGED out
    <3>1. Said("UP", wire[c], answers[c], inLen[c], p, 0, 0)
      BY <1>2, <2>1, <2>10, SaidReply DEF p
    <3>2. out[c] = -1
      BY <1>2, <2>10 DEF Sending
    <3>3. /\ Others(c) /\ state'[c] = "UP" /\ out'[c] = -1
          /\ recvTotal'[c] = 0 /\ recvLen'[c] = 0
      BY <1>1, <2>1, <2>2, <2>10, <3>2 DEF StartReceive, Others, OfClients, Set
    <3> QED
      BY <2>1, <2>2, <3>1, <3>3, OtherStep
  <2> HIDE DEF answer
  <2> QED
    BY <1>13, <2>4, <2>6, <2>7, <2>8, <2>9, <2>10
       DEF RecvHandlerDone, ReportError, Granted, Address, answer
<1>14. ASSUME NEW c \in Clients, Answer(c) PROVE TalkInv'
  <2>1. PICK a \in AnswersTo(wire[c][Len(wire[c])]) :
           /\ answers' = Set(answers, c, Append(answers[c], a))
           /\ inLen' = Set(inLen, c, inLen[c] + LenOf(a, wire[c][Len(wire[c])]))
    BY <1>14 DEF Answer, AnswersTo, LenOf
  <2>2. /\ con[c] /\ Len(answers[c]) < Len(wire[c])
        /\ UNCHANGED <<state, out, recvTotal, recvLen, wire, inPos>>
    BY <1>14 DEF Answer, ioVars
  <2>3. /\ Others(c) /\ answers'[c] = Append(answers[c], a)
        /\ inLen'[c] = inLen[c] + LenOf(a, wire[c][Len(wire[c])])
    BY <1>1, <2>1, <2>2 DEF Others, OfClients, Set
  <2>4. Said(state[c], wire[c], Append(answers[c], a),
             inLen[c] + LenOf(a, wire[c][Len(wire[c])]), inPos[c], recvLen[c], recvTotal[c])
    BY <1>2, <1>3, <2>2, SaidAnswer
  <2> QED
    BY <1>2, <2>2, <2>3, <2>4, OtherStep
<1>15. ASSUME NEW c \in Clients, ServerData(c) PROVE TalkInv'
  <2>1. /\ con[c] /\ answers[c] # <<>> /\ answers[c][Len(answers[c])] \in Granted
        /\ answers' = Set(answers, c, Append(answers[c], "data"))
        /\ inLen' = Set(inLen, c, inLen[c] + 1)
        /\ UNCHANGED <<state, out, recvTotal, recvLen, wire, inPos>>
    BY <1>15 DEF ServerData, ioVars, Granted
  <2>2. /\ Others(c) /\ answers'[c] = Append(answers[c], "data")
        /\ inLen'[c] = inLen[c] + 1
    BY <1>1, <2>1 DEF Others, OfClients, Set
  <2>3. Said(state[c], wire[c], Append(answers[c], "data"), inLen[c] + 1, inPos[c],
             recvLen[c], recvTotal[c])
    BY <1>2, <1>3, <2>1, SaidData
  <2> QED
    BY <1>2, <2>1, <2>2, <2>3, OtherStep
<1> QED
  BY <1>5, <1>6, <1>7, <1>8, <1>9, <1>10, <1>11, <1>12, <1>13, <1>14, <1>15 DEF Next

\* How many of the server's messages were data, once it granted the request.
LEMMA DataLemma ==
    ASSUME NEW t \in BOOLEAN, NEW g \in Granted, NEW a, NEW l, Replied(a, l, t, g)
    PROVE  /\ l - Cardinality({i \in DOMAIN a : a[i] = "data"})
                 = Taken(t) + HeaderLen + Address(g)
           /\ \A i \in DOMAIN a : a[i] # "bad"
           /\ t <=> a[1] = "password"
<1> DEFINE D == {i \in DOMAIN a : a[i] = "data"}
<1>1. /\ \A i \in DOMAIN a : a[i] # "bad"
      /\ t <=> a[1] = "password"
  BY DEF Replied, Agreed, Granted
<1>2. Taken(t) \in Nat /\ Address(g) \in Nat
  BY DEF Taken, AnswerLen, Address
<1>3. CASE a = Append(Agreed(t), g) /\ l = Taken(t) + HeaderLen + Address(g)
  <2>1. D = {}
    BY <1>3 DEF Agreed, Granted
  <2>2. Cardinality(D) = 0
    BY <2>1, FS_EmptySet
  <2>3. l - 0 = Taken(t) + HeaderLen + Address(g)
    BY <1>2, <1>3 DEF HeaderLen
  <2> QED
    BY <1>1, <2>2, <2>3
<1>4. CASE /\ a = Append(Append(Agreed(t), g), "data")
           /\ l = Taken(t) + HeaderLen + Address(g) + 1
  <2>1. D = {Len(a)}
    BY <1>4 DEF Agreed, Granted
  <2>2. Cardinality(D) = 1
    BY <2>1, FS_Singleton
  <2>3. l - 1 = Taken(t) + HeaderLen + Address(g)
    BY <1>2, <1>4 DEF HeaderLen
  <2> QED
    BY <1>1, <2>2, <2>3
<1> QED
  BY <1>3, <1>4 DEF Replied

\* Before any client connects.
LEMMA TalkInit == Init => TalkInv
BY DEF Init, TalkInv, Talk, OfClients, Said

\* A client that is up has the whole reply and nothing of the data.
LEMMA TalkPromise == TalkInv => UpAtData
<1>1. SUFFICES ASSUME TalkInv, NEW c \in Clients, state[c] = "UP"
               PROVE  /\ inPos[c] = inLen[c]
                           - Cardinality({i \in DOMAIN answers[c] : answers[c][i] = "data"})
                      /\ wire[c] \in {<<"hello", "request">>,
                                      <<"hello", "password", "request">>}
                      /\ \A i \in DOMAIN answers[c] : answers[c][i] # "bad"
                      /\ Len(wire[c]) = 3 <=> answers[c][1] = "password"
  BY DEF UpAtData
<1>2. PICK t \in BOOLEAN, g \in Granted :
             /\ wire[c] = Append(Asked(t), "request")
             /\ inPos[c] = Taken(t) + HeaderLen + Address(g)
             /\ Replied(answers[c], inLen[c], t, g)
  BY <1>1 DEF TalkInv, Talk, Said
<1>3. /\ wire[c] \in {<<"hello", "request">>, <<"hello", "password", "request">>}
      /\ Len(wire[c]) = 3 <=> t
  <2>1. CASE t
    <3>1. wire[c] = <<"hello", "password", "request">>
      <4>1. Asked(t) = <<"hello", "password">>
        BY <2>1 DEF Asked
      <4>2. Append(<<"hello", "password">>, "request") = <<"hello", "password", "request">>
        BY Triple, Zenon
      <4> QED
        BY <1>2, <4>1, <4>2
    <3> QED
      BY <2>1, <3>1
  <2>2. CASE ~t
    <3>1. wire[c] = <<"hello", "request">>
      <4>1. Asked(t) = <<"hello">>
        BY <2>2 DEF Asked
      <4>2. Append(<<"hello">>, "request") = <<"hello", "request">>
        BY Pair, Zenon
      <4> QED
        BY <1>2, <4>1, <4>2
    <3> QED
      BY <2>2, <3>1
  <2> QED
    BY <2>1, <2>2
<1>4. /\ inLen[c] - Cardinality({i \in DOMAIN answers[c] : answers[c][i] = "data"})
            = Taken(t) + HeaderLen + Address(g)
      /\ \A i \in DOMAIN answers[c] : answers[c][i] # "bad"
      /\ t <=> answers[c][1] = "password"
  BY <1>2, DataLemma, ZenonT(30)
<1> QED
  BY <1>2, <1>3, <1>4

\* UpAtData: when BSOCKSCLIENT_EVENT_UP is reported everything up to the end of
\* the server's reply, and nothing behind it, has been received, whatever the parts
\* it came in and whether or not data came with it; every step was granted, and a
\* password was sent exactly if the server asked for one.
THEOREM HandsOverAtData == Spec => []UpAtData
<1>1. OwnedInv /\ TalkInv /\ [Next]_vars => (OwnedInv /\ TalkInv)'
  BY OwnedStep, TalkStep
<1> QED
  BY <1>1, OwnedInit, TalkInit, TalkPromise, PTL DEF Spec
=============================================================================
