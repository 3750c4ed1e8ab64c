---------------------------- MODULE ClientProofs ----------------------------
(***************************************************************************)
(* For any sizes of messages, chunks and buffers, any number of requests   *)
(* and any faults: what ProcessMessage is given are the replies the server *)
(* wrote, in their order; no chunk is dropped while the stream is whole;   *)
(* and a closed socket is used once at most.                               *)
(***************************************************************************)
EXTENDS Client, SequenceTheorems, TLAPS

LEMMA Sizes ==
  /\ Size \in Nat /\ SizeAt \in Nat /\ Chunk \in Nat /\ SendRoom \in Nat
  /\ 1 < SizeAt /\ SizeAt <= Size /\ Size <= Chunk
  /\ MAX_SOCKET_BUFF_LENGTH \in Nat /\ Chunk <= MAX_SOCKET_BUFF_LENGTH
  /\ MAX_SOCKET_BUFF_LENGTH = 2 * Chunk + 1
  /\ 1 \in Memory /\ SizeAt \in Memory
BY MessageManagerAssumption DEF MAX_SOCKET_BUFF_LENGTH, Memory

LEMMA PartOf ==
  ASSUME NEW S, NEW s \in Seq(S), NEW i \in 1 .. Len(s) + 1,
         NEW j \in i - 1 .. Len(s)
  PROVE  /\ SubSeq(s, i, j) \in Seq(S)
         /\ Len(SubSeq(s, i, j)) = (j - i) + 1
         /\ \A k \in 1 .. (j - i) + 1 : SubSeq(s, i, j)[k] = s[(i + k) - 1]
<1>1. \A k \in i .. j : s[k] \in S OBVIOUS
<1> QED BY <1>1, SubSeqProperties

\* the first n of a sequence, and what is behind them
LEMMA Portion ==
  ASSUME NEW S, NEW s \in Seq(S), NEW n \in 0 .. Len(s)
  PROVE  /\ SubSeq(s, 1, n) \in Seq(S) /\ Len(SubSeq(s, 1, n)) = n
         /\ \A k \in 1 .. n : SubSeq(s, 1, n)[k] = s[k]
         /\ SubSeq(s, n + 1, Len(s)) \in Seq(S)
         /\ Len(SubSeq(s, n + 1, Len(s))) = Len(s) - n
         /\ \A k \in 1 .. Len(s) - n : SubSeq(s, n + 1, Len(s))[k] = s[n + k]
<1>1. Len(s) \in Nat /\ n \in Nat /\ n <= Len(s) OBVIOUS
<1>2. PICK u, v : u = SubSeq(s, 1, n) /\ v = SubSeq(s, n + 1, Len(s)) OBVIOUS
<1>3. u \in Seq(S) /\ Len(u) = n /\ \A k \in 1 .. n : u[k] = s[k]
  <2>1. 1 \in 1 .. Len(s) + 1 /\ n \in 1 - 1 .. Len(s) /\ (n - 1) + 1 = n BY <1>1
  <2>2. /\ u \in Seq(S) /\ Len(u) = (n - 1) + 1
        /\ \A k \in 1 .. (n - 1) + 1 : u[k] = s[(1 + k) - 1]
    BY <1>2, <2>1, PartOf
  <2>3. ASSUME NEW k \in 1 .. n PROVE u[k] = s[k]
    <3>1. (1 + k) - 1 = k OBVIOUS
    <3> QED BY <2>1, <2>2, <3>1
  <2> QED BY <2>1, <2>2, <2>3
<1>4. /\ v \in Seq(S) /\ Len(v) = Len(s) - n
      /\ \A k \in 1 .. Len(s) - n : v[k] = s[n + k]
  <2>1. /\ n + 1 \in 1 .. Len(s) + 1 /\ Len(s) \in (n + 1) - 1 .. Len(s)
        /\ (Len(s) - (n + 1)) + 1 = Len(s) - n
    BY <1>1
  <2>2. /\ v \in Seq(S) /\ Len(v) = (Len(s) - (n + 1)) + 1
        /\ \A k \in 1 .. (Len(s) - (n + 1)) + 1 : v[k] = s[((n + 1) + k) - 1]
    BY <1>2, <2>1, PartOf
  <2>3. ASSUME NEW k \in 1 .. Len(s) - n PROVE v[k] = s[n + k]
    <3>1. ((n + 1) + k) - 1 = n + k BY <1>1
    <3> QED BY <2>1, <2>2, <3>1
  <2> QED BY <2>1, <2>2, <2>3
<1> QED BY <1>2, <1>3, <1>4

-----------------------------------------------------------------------------
(* Types.                                                                  *)

LEMMA UnitsType ==
  ASSUME NEW m \in Replies
  PROVE  /\ Units(m) \in Seq(Unit) /\ Len(Units(m)) = Size
         /\ \A i \in 1 .. Size : Units(m)[i] = <<m, i>>
<1>1. \A i \in 1 .. Size : <<m, i>> \in Unit BY DEF Unit
<1>2. Units(m) \in [1 .. Size -> Unit] BY <1>1 DEF Units
<1> QED BY <1>2, Sizes DEF Units

BufferType ==
  /\ mRecvBuff \in [Memory -> Unit \cup {Zero}]
  /\ mRecvLength \in 0 .. MAX_SOCKET_BUFF_LENGTH

LEMMA ReadType ==
  ASSUME BufferType, NEW units \in Seq(Unit), OnReadServerBuff(units)
  PROVE  BufferType'
<1>1. CASE Fits(Len(units))
  <2>1. /\ mRecvBuff' = [a \in Memory |->
                          IF a \in mRecvLength + 1 .. mRecvLength + Len(units)
                          THEN units[a - mRecvLength] ELSE mRecvBuff[a]]
        /\ mRecvLength' = mRecvLength + Len(units)
    BY <1>1 DEF OnReadServerBuff
  <2>2. mRecvLength \in Nat /\ Len(units) \in Nat BY DEF BufferType
  <2>3. ASSUME NEW a \in Memory,
               a \in mRecvLength + 1 .. mRecvLength + Len(units)
        PROVE  units[a - mRecvLength] \in Unit
    <3>1. a - mRecvLength \in 1 .. Len(units) BY <2>2, <2>3
    <3> QED BY <3>1
  <2>4. mRecvBuff' \in [Memory -> Unit \cup {Zero}]
    BY <2>1, <2>3 DEF BufferType
  <2>5. mRecvLength' \in 0 .. MAX_SOCKET_BUFF_LENGTH
    BY <1>1, <2>1, <2>2, Sizes DEF Fits
  <2> QED BY <2>4, <2>5 DEF BufferType
<1>2. CASE ~Fits(Len(units)) BY <1>2 DEF OnReadServerBuff, BufferType
<1> QED BY <1>1, <1>2

LEMMA TakeType ==
  ASSUME BufferType, NEW n \in 1 .. mRecvLength, GetRecvOneMessageBuff(n)
  PROVE  BufferType' /\ Front(n) \in Replies \cup {Garbage}
<1>1. mRecvLength \in Nat /\ mRecvLength <= MAX_SOCKET_BUFF_LENGTH
      /\ MAX_SOCKET_BUFF_LENGTH \in Nat
  BY Sizes DEF BufferType
<1>2. mRecvBuff' = Moved(n) /\ mRecvLength' = mRecvLength - n
  BY DEF GetRecvOneMessageBuff
<1>3. ASSUME NEW a \in Memory, a <= mRecvLength - n PROVE a + n \in Memory
  BY <1>1, <1>3 DEF Memory
<1>4. mRecvBuff' \in [Memory -> Unit \cup {Zero}]
  BY <1>2, <1>3 DEF Moved, BufferType
<1>5. mRecvLength' \in 0 .. MAX_SOCKET_BUFF_LENGTH BY <1>1, <1>2
<1>6. Front(n) \in Replies \cup {Garbage}
  <2>1. SubSeq(mRecvBuff, 1, n)[1] = mRecvBuff[1]
    <3>1. mRecvBuff \in Seq(Unit \cup {Zero}) /\ Len(mRecvBuff) = MAX_SOCKET_BUFF_LENGTH
      BY <1>1 DEF BufferType, Memory
    <3>2. n \in 0 .. Len(mRecvBuff) /\ 1 \in 1 .. n BY <1>1, <3>1
    <3> QED BY <3>1, <3>2, Portion
  <2>2. mRecvBuff[1] \in Unit \cup {Zero} BY Sizes DEF BufferType
  <2>3. mRecvBuff[1] # Zero => mRecvBuff[1][1] \in Replies BY <2>2 DEF Unit
  <2> QED BY <2>1, <2>3 DEF Front
<1> QED BY <1>4, <1>5, <1>6 DEF BufferType

LEMMA ClientTypeInit == ClientInit => TypeOK
<1> SUFFICES ASSUME ClientInit PROVE TypeOK OBVIOUS
<1>1. BufferType BY Sizes DEF ClientInit, Init, BufferType
<1>2. mSendBuff \in Seq(Requests) /\ Len(mSendBuff) <= SendRoom
  <2>1. mSendBuff = << >> BY DEF ClientInit, Init
  <2>2. Len(mSendBuff) = 0 BY <2>1
  <2> QED BY <2>1, <2>2, Sizes
<1>3. /\ toServer \in Seq(Requests \cup {Part}) /\ owed \in Seq(Replies)
      /\ wire \in Seq(Unit) /\ written \in Seq(Replies)
      /\ handled \in Seq(Replies \cup {Garbage})
  BY DEF ClientInit
<1>4. asked \in 0 .. MaxAsked /\ mCurNum \in {0, 1} /\ onClosed \in Nat
  BY ClientAssumption DEF ClientInit
<1>5. /\ mState \in {"init", "info", "con"}
      /\ turn \in {"idle", "handle", "recv", "send", "dispatch"}
      /\ conn \in {"none", "connecting", "open", "failed", "closed"}
  BY DEF ClientInit
<1>6. /\ mUserSocket \in BOOLEAN /\ writable \in BOOLEAN /\ full \in BOOLEAN
      /\ ended \in BOOLEAN /\ outOfStep \in BOOLEAN /\ cut \in BOOLEAN
      /\ lost \in BOOLEAN /\ dropped \in BOOLEAN
  BY Zenon DEF ClientInit
<1> QED BY <1>1, <1>2, <1>3, <1>4, <1>5, <1>6
        DEF TypeOK, BuffersTypeOK, BufferType

\* the socket module knows whether there is a socket: it makes one once
Connection ==
  /\ mState # "con" => mCurNum = 0 /\ conn = "none"
  /\ mUserSocket = (conn \notin {"none", "closed"})
  /\ turn = "recv" => conn # "closed"
  /\ turn \in {"handle", "recv", "send"} => mState = "con"
  /\ onClosed <= 1
  /\ onClosed > 0 => conn = "closed" /\ turn \notin {"recv", "send"}

TypeClient ==
  /\ mState \in {"init", "info", "con"}
  /\ mCurNum \in {0, 1}
  /\ mUserSocket \in BOOLEAN
  /\ turn \in {"idle", "handle", "recv", "send", "dispatch"}
  /\ writable \in BOOLEAN

TypeServer ==
  /\ toServer \in Seq(Requests \cup {Part})
  /\ owed \in Seq(Replies)
  /\ outOfStep \in BOOLEAN /\ cut \in BOOLEAN

TypeNetwork ==
  /\ conn \in {"none", "connecting", "open", "failed", "closed"}
  /\ full \in BOOLEAN /\ ended \in BOOLEAN
  /\ wire \in Seq(Unit)
  /\ TypeServer

TypeHistory ==
  /\ asked \in 0 .. MaxAsked
  /\ written \in Seq(Replies)
  /\ lost \in BOOLEAN
  /\ handled \in Seq(Replies \cup {Garbage})
  /\ dropped \in BOOLEAN
  /\ onClosed \in Nat

LEMMA TypeParts ==
  TypeOK <=> BuffersTypeOK(Requests) /\ TypeClient /\ TypeNetwork /\ TypeHistory
BY Zenon DEF TypeOK, TypeClient, TypeNetwork, TypeServer, TypeHistory

LEMMA TypePartsNext ==
  BuffersTypeOK(Requests)' /\ TypeClient' /\ TypeNetwork' /\ TypeHistory'
    => TypeOK'
BY Zenon DEF TypeOK, TypeClient, TypeNetwork, TypeServer, TypeHistory

LEMMA BuffersKept ==
  ASSUME BuffersTypeOK(Requests), UNCHANGED buffers
  PROVE  BuffersTypeOK(Requests)'
BY DEF BuffersTypeOK, buffers

LEMMA ClientKept == TypeClient /\ UNCHANGED client => TypeClient'
BY DEF TypeClient, client

LEMMA ServerKept == TypeServer /\ UNCHANGED server => TypeServer'
BY DEF TypeServer, server

LEMMA NetworkKept == TypeNetwork /\ UNCHANGED network => TypeNetwork'
BY ServerKept DEF TypeNetwork, network

LEMMA HistoryKept == TypeHistory /\ UNCHANGED history => TypeHistory'
BY DEF TypeHistory, history

LEMMA ReplyTypes ==
  ASSUME NEW r \in Requests \cup {Part}
  PROVE  Response(r) \in Replies /\ Notify(r) \in Replies
BY ClientAssumption DEF Response, Notify, Reply

LEMMA LoginType == TypeOK /\ Connection /\ LoginServer => TypeOK'
<1> SUFFICES ASSUME TypeOK, Connection, LoginServer PROVE TypeOK' OBVIOUS
<1> USE TypeParts, TypePartsNext
<1>1. asked + 1 \in Requests /\ asked' \in 0 .. MaxAsked
  BY ClientAssumption DEF LoginServer, TypeHistory, Requests
<1>2. /\ UNCHANGED <<mRecvBuff, mRecvLength, turn, writable, full, ended, wire,
                     server, written, lost, handled, dropped, onClosed>>
      /\ mSendBuff' = mSendBuff \/ OnSendServerBuff(asked + 1)
  BY DEF LoginServer, ConnectFails
<1>3. mSendBuff' \in Seq(Requests) /\ Len(mSendBuff') <= SendRoom
  <2>1. CASE mSendBuff' = mSendBuff BY <2>1 DEF BuffersTypeOK
  <2>2. CASE OnSendServerBuff(asked + 1)
    BY <1>1, <2>2, Sizes DEF BuffersTypeOK, OnSendServerBuff
  <2> QED BY <1>2, <2>1, <2>2
<1>4. BuffersTypeOK(Requests)' BY <1>2, <1>3 DEF BuffersTypeOK
<1>5. TypeHistory' BY <1>1, <1>2 DEF TypeHistory
<1>6. \/ UNCHANGED <<mState, mCurNum, mUserSocket, conn>>
      \/ /\ mState' = "con" /\ mUserSocket' = TRUE /\ conn' = "connecting"
         /\ mCurNum' = 1
  <2>1. CASE ClientConnectServer
    <3>1. mCurNum = 0 BY <2>1 DEF ClientConnectServer, Connection
    <3> QED BY <2>1, <3>1 DEF ClientConnectServer
  <2> QED BY <2>1 DEF LoginServer, ConnectFails
<1>7. TypeClient'
  <2>1. mUserSocket' \in BOOLEAN BY <1>6 DEF TypeClient
  <2> QED BY <1>2, <1>6, <2>1 DEF TypeClient
<1>8. TypeNetwork' BY <1>2, <1>6, ServerKept DEF TypeNetwork
<1> QED BY <1>4, <1>5, <1>7, <1>8

LEMMA TurnType ==
  TypeOK /\ (OnTimer \/ Select \/ SendEnds \/ DispatchEnds) => TypeOK'
<1> SUFFICES ASSUME TypeOK, OnTimer \/ Select \/ SendEnds \/ DispatchEnds
             PROVE  TypeOK'
  OBVIOUS
<1> USE TypeParts, TypePartsNext
<1>1. UNCHANGED <<buffers, mState, mCurNum, mUserSocket, network, history>>
  BY DEF OnTimer, Select, SendEnds, DispatchEnds
<1>2. writable' \in BOOLEAN
  <2>1. CASE writable' = writable BY <2>1 DEF TypeClient
  <2>2. CASE writable' = Writable BY <2>2, Zenon DEF Writable
  <2> QED BY <2>1, <2>2 DEF OnTimer, Select, SendEnds, DispatchEnds
<1>3. turn' \in {"idle", "handle", "recv", "send", "dispatch"}
  BY DEF OnTimer, Select, SendEnds, DispatchEnds
<1>4. TypeClient' BY <1>1, <1>2, <1>3 DEF TypeClient
<1> QED BY <1>1, <1>4, BuffersKept, NetworkKept, HistoryKept

LEMMA RecvType == TypeOK /\ Recv => TypeOK'
<1> SUFFICES ASSUME TypeOK, Recv PROVE TypeOK' OBVIOUS
<1> USE TypeParts, TypePartsNext
<1>1. PICK n \in 1 .. Len(wire) :
        /\ OnReadServerBuff(SubSeq(wire, 1, n))
        /\ wire' = SubSeq(wire, n + 1, Len(wire))
        /\ dropped' = (dropped \/ ~Fits(n))
  BY DEF Recv
<1>2. /\ UNCHANGED <<mSendBuff, mState, mCurNum, mUserSocket, writable, conn,
                     full, ended, server, asked, written, lost, handled, onClosed>>
      /\ turn' = "send"
  BY DEF Recv
<1>3. /\ SubSeq(wire, 1, n) \in Seq(Unit) /\ wire' \in Seq(Unit)
  <2>1. wire \in Seq(Unit) /\ n \in 0 .. Len(wire) BY DEF TypeNetwork
  <2> QED BY <1>1, <2>1, Portion
<1>4. BufferType' BY <1>1, <1>3, ReadType DEF BuffersTypeOK, BufferType
<1>5. BuffersTypeOK(Requests)' BY <1>2, <1>4 DEF BuffersTypeOK, BufferType
<1>6. TypeClient' BY <1>2 DEF TypeClient
<1>7. TypeNetwork' BY <1>2, <1>3, ServerKept DEF TypeNetwork
<1>8. dropped' \in BOOLEAN BY <1>1, Zenon
<1>9. TypeHistory' BY <1>2, <1>8 DEF TypeHistory
<1> QED BY <1>5, <1>6, <1>7, <1>9

LEMMA RecvFailsType == TypeOK /\ RecvFails => TypeOK'
<1> SUFFICES ASSUME TypeOK, RecvFails PROVE TypeOK' OBVIOUS
<1> USE TypeParts, TypePartsNext
<1>1. /\ mUserSocket' = FALSE /\ conn' = "closed" /\ wire' = << >>
      /\ turn' = "send"
      /\ UNCHANGED <<mState, mCurNum, buffers, writable, full, ended, server,
                     history>>
  BY DEF RecvFails, ShutDown, CurNumAfter
<1>2. TypeClient'
  <2>1. mUserSocket' \in BOOLEAN BY <1>1, Zenon
  <2> QED BY <1>1, <2>1 DEF TypeClient
<1>3. TypeNetwork' BY <1>1, ServerKept DEF TypeNetwork
<1> QED BY <1>1, <1>2, <1>3, BuffersKept, HistoryKept

LEMMA PoppedType ==
  ASSUME BuffersTypeOK(Requests), mSendBuff # << >>, mSendBuff' = Popped,
         UNCHANGED <<mRecvBuff, mRecvLength>>
  PROVE  BuffersTypeOK(Requests)' /\ Head(mSendBuff) \in Requests
<1>1. /\ mSendBuff' \in Seq(Requests) /\ Len(mSendBuff') = Len(mSendBuff) - 1
      /\ Head(mSendBuff) \in Requests
  BY HeadTailProperties DEF BuffersTypeOK, Popped
<1>2. Len(mSendBuff') <= SendRoom BY <1>1, Sizes DEF BuffersTypeOK
<1> QED BY <1>1, <1>2 DEF BuffersTypeOK

LEMMA SendTakesType == TypeOK /\ SendTakes => TypeOK'
<1> SUFFICES ASSUME TypeOK, SendTakes PROVE TypeOK' OBVIOUS
<1> USE TypeParts, TypePartsNext
<1>1. /\ mSendBuff # << >> /\ mSendBuff' = Popped
      /\ UNCHANGED <<mRecvBuff, mRecvLength, client, conn, ended, owed, wire,
                     outOfStep, cut, history>>
  BY DEF SendTakes, Sending
<1>2. BuffersTypeOK(Requests)' /\ Head(mSendBuff) \in Requests
  BY <1>1, PoppedType
<1>3. \/ UNCHANGED <<full, toServer>>
      \/ /\ full' \in BOOLEAN
         /\ \E taken \in Requests \cup {Part} : toServer' = Append(toServer, taken)
  <2>1. PICK fills \in {FALSE} \cup {f \in {TRUE} : "full" \in Faults} :
        \E taken \in {Head(mSendBuff)} \cup {p \in {Part} : fills} :
          IF ended THEN UNCHANGED <<full, toServer>>
          ELSE full' = fills /\ toServer' = Append(toServer, taken)
    BY DEF SendTakes
  <2>2. fills \in BOOLEAN OBVIOUS
  <2> QED BY <1>2, <2>1, <2>2
<1>4. full' \in BOOLEAN /\ toServer' \in Seq(Requests \cup {Part})
  <2>1. CASE UNCHANGED <<full, toServer>> BY <2>1 DEF TypeNetwork, TypeServer
  <2>2. ASSUME full' \in BOOLEAN, NEW taken \in Requests \cup {Part},
               toServer' = Append(toServer, taken)
        PROVE  full' \in BOOLEAN /\ toServer' \in Seq(Requests \cup {Part})
    BY <2>2 DEF TypeNetwork, TypeServer
  <2> QED BY <1>3, <2>1, <2>2
<1>5. TypeNetwork' BY <1>1, <1>4 DEF TypeNetwork, TypeServer
<1> QED BY <1>1, <1>2, <1>5, ClientKept, HistoryKept

LEMMA SendFailsType == TypeOK /\ SendFails => TypeOK'
<1> SUFFICES ASSUME TypeOK, SendFails PROVE TypeOK' OBVIOUS
<1> USE TypeParts, TypePartsNext
<1>1. /\ mSendBuff # << >> /\ mSendBuff' = Popped
      /\ mUserSocket' = FALSE /\ conn' = "closed" /\ wire' = << >>
      /\ turn' = "dispatch"
      /\ onClosed' = onClosed + (IF conn = "closed" THEN 1 ELSE 0)
      /\ UNCHANGED <<mState, mCurNum, mRecvBuff, mRecvLength, writable, full,
                     ended, server, asked, written, lost, handled, dropped>>
  BY DEF SendFails, Sending, ShutDown, CurNumAfter, AfterError
<1>2. BuffersTypeOK(Requests)' BY <1>1, PoppedType
<1>3. TypeClient'
  <2>1. mUserSocket' \in BOOLEAN BY <1>1, Zenon
  <2> QED BY <1>1, <2>1 DEF TypeClient
<1>4. TypeNetwork' BY <1>1, ServerKept DEF TypeNetwork
<1>5. TypeHistory' BY <1>1 DEF TypeHistory
<1> QED BY <1>2, <1>3, <1>4, <1>5

LEMMA DispatchType == TypeOK /\ DispatchServerMessage => TypeOK'
<1> SUFFICES ASSUME TypeOK, DispatchServerMessage PROVE TypeOK' OBVIOUS
<1> USE TypeParts, TypePartsNext
<1>1. PICK n \in 1 .. mRecvLength :
        GetRecvOneMessageBuff(n) /\ handled' = Append(handled, Front(n))
  BY DEF DispatchServerMessage
<1>2. UNCHANGED <<mSendBuff, client, network, asked, written, lost, dropped,
                  onClosed>>
  BY DEF DispatchServerMessage
<1>3. BufferType' /\ Front(n) \in Replies \cup {Garbage}
  BY <1>1, TakeType DEF BuffersTypeOK, BufferType
<1>4. BuffersTypeOK(Requests)' BY <1>2, <1>3 DEF BuffersTypeOK, BufferType
<1>5. TypeHistory' BY <1>1, <1>2, <1>3 DEF TypeHistory
<1> QED BY <1>2, <1>4, <1>5, ClientKept, NetworkKept

LEMMA TakeRequestType == TypeOK /\ TakeRequest => TypeOK'
<1> SUFFICES ASSUME TypeOK, TakeRequest PROVE TypeOK' OBVIOUS
<1> USE TypeParts, TypePartsNext
<1>1. /\ toServer # << >> /\ toServer' = Tail(toServer)
      /\ outOfStep' = (outOfStep \/ Head(toServer) = Part)
      /\ full' = FALSE
      /\ UNCHANGED <<buffers, client, conn, ended, wire, cut, history>>
  BY DEF TakeRequest
<1>2. /\ toServer' \in Seq(Requests \cup {Part})
      /\ Head(toServer) \in Requests \cup {Part}
  BY <1>1, HeadTailProperties DEF TypeNetwork, TypeServer
<1>3. PICK r \in IF outOfStep' THEN {Part} ELSE {Head(toServer)} :
        owed' \in {<<Response(r)>>, <<Response(r), Notify(r)>>}
                  \cup {o \in {<< >>} : outOfStep'}
  BY DEF TakeRequest
<1>4. r \in Requests \cup {Part} BY <1>2
<1>5. Response(r) \in Replies /\ Notify(r) \in Replies BY <1>4, ReplyTypes
<1>6. owed' \in Seq(Replies)
  <2>1. <<Response(r)>> \in Seq(Replies) /\ <<Response(r), Notify(r)>> \in Seq(Replies)
    BY <1>5
  <2>2. << >> \in Seq(Replies) OBVIOUS
  <2> QED BY <1>3, <2>1, <2>2
<1>7. outOfStep' \in BOOLEAN /\ full' \in BOOLEAN BY <1>1, Zenon
<1>8. TypeNetwork' BY <1>1, <1>2, <1>6, <1>7 DEF TypeNetwork, TypeServer
<1> QED BY <1>1, <1>8, BuffersKept, ClientKept, HistoryKept

LEMMA WriteType == TypeOK /\ WriteData => TypeOK'
<1> SUFFICES ASSUME TypeOK, WriteData PROVE TypeOK' OBVIOUS
<1> USE TypeParts, TypePartsNext
<1>1. /\ owed # << >> /\ owed' = Tail(owed)
      /\ UNCHANGED <<buffers, client, conn, full, ended, toServer, outOfStep,
                     asked, handled, dropped, onClosed>>
  BY DEF WriteData
<1>2. PICK m : m = Head(owed) OBVIOUS
<1>3. m \in Replies /\ owed' \in Seq(Replies)
  BY <1>1, <1>2, HeadTailProperties DEF TypeNetwork, TypeServer
<1>4. /\ Units(m) \in Seq(Unit) /\ Len(Units(m)) = Size BY <1>3, UnitsType
<1>5. /\ wire' \in Seq(Unit) /\ written' \in Seq(Replies)
      /\ (cut' = cut \/ cut' = TRUE) /\ (lost' = lost \/ lost' = TRUE)
  <2>1. ASSUME NEW n \in 1 .. Size - 1 PROVE SubSeq(Units(m), 1, n) \in Seq(Unit)
    <3>1. n \in 0 .. Len(Units(m)) BY <1>4, Sizes
    <3>2. PICK u : u = Units(m) OBVIOUS
    <3> QED BY <1>4, <3>1, <3>2, Portion
  <2>2. wire \in Seq(Unit) /\ written \in Seq(Replies)
    BY DEF TypeNetwork, TypeHistory
  <2>3. CASE /\ wire' = wire \o Units(Head(owed))
             /\ written' = IF cut THEN written ELSE Append(written, Head(owed))
             /\ UNCHANGED <<cut, lost>>
    BY <1>2, <1>3, <1>4, <2>2, <2>3, ConcatProperties
  <2>4. CASE lost' = TRUE /\ UNCHANGED <<wire, cut, written>> BY <2>2, <2>4
  <2>5. CASE /\ \E n \in 1 .. Size - 1 :
                  wire' = wire \o SubSeq(Units(Head(owed)), 1, n)
             /\ cut' = TRUE /\ lost' = TRUE /\ UNCHANGED written
    BY <1>2, <2>1, <2>2, <2>5, ConcatProperties
  <2> QED BY <2>3, <2>4, <2>5 DEF WriteData
<1>6. cut' \in BOOLEAN BY <1>5, Zenon DEF TypeNetwork, TypeServer
<1>7. lost' \in BOOLEAN BY <1>5, Zenon DEF TypeHistory
<1>8. TypeNetwork' BY <1>1, <1>3, <1>5, <1>6 DEF TypeNetwork, TypeServer
<1>9. TypeHistory' BY <1>1, <1>5, <1>7 DEF TypeHistory
<1> QED BY <1>1, <1>8, <1>9, BuffersKept, ClientKept

LEMMA EnvironmentType == TypeOK /\ (Connects \/ ServerEnds) => TypeOK'
<1> SUFFICES ASSUME TypeOK, Connects \/ ServerEnds PROVE TypeOK' OBVIOUS
<1> USE TypeParts, TypePartsNext
<1>1. CASE Connects
  <2>1. /\ conn' \in {"open", "failed"}
        /\ UNCHANGED <<buffers, client, full, ended, wire, server, history>>
    BY <1>1 DEF Connects
  <2>2. TypeNetwork' BY <2>1, ServerKept DEF TypeNetwork
  <2> QED BY <2>1, <2>2, BuffersKept, ClientKept, HistoryKept
<1>2. CASE ServerEnds
  <2>1. /\ ended' = TRUE /\ owed' = << >> /\ wire' \in {wire, << >>}
        /\ UNCHANGED <<buffers, client, conn, full, toServer, outOfStep, cut,
                       history>>
    BY <1>2 DEF ServerEnds
  <2>2. ended' \in BOOLEAN BY <2>1, Zenon
  <2>3. wire' \in Seq(Unit) /\ owed' \in Seq(Replies)
    <3>1. << >> \in Seq(Unit) /\ << >> \in Seq(Replies) OBVIOUS
    <3> QED BY <2>1, <3>1 DEF TypeNetwork
  <2>4. TypeNetwork' BY <2>1, <2>2, <2>3 DEF TypeNetwork, TypeServer
  <2> QED BY <2>1, <2>4, BuffersKept, ClientKept, HistoryKept
<1> QED BY <1>1, <1>2

LEMMA ClientTypeNext == TypeOK /\ Connection /\ [Next]_vars => TypeOK'
<1>1. TypeOK /\ UNCHANGED vars => TypeOK'
  <2> USE TypeParts, TypePartsNext
  <2> QED BY BuffersKept, ClientKept, NetworkKept, HistoryKept DEF vars
<1> QED BY <1>1, LoginType, TurnType, RecvType, RecvFailsType, SendTakesType,
           SendFailsType, DispatchType, TakeRequestType, WriteType,
           EnvironmentType
        DEF Next, Timer, HandleMessage, Server

-----------------------------------------------------------------------------
(* The connection.                                                         *)

LEMMA ConnectionKept ==
  ASSUME Connection,
         UNCHANGED <<mState, mCurNum, mUserSocket, conn, onClosed>>,
         turn' \in {"recv", "send"} => mUserSocket \/ turn' = turn
                                        \/ (turn = "recv" /\ conn # "closed"),
         turn' \in {"handle", "recv", "send"} =>
           turn \in {"handle", "recv", "send"} \/ mState = "con"
  PROVE  Connection'
BY DEF Connection

LEMMA ConnectionNext == TypeOK /\ Connection /\ [Next]_vars => Connection'
<1> SUFFICES ASSUME TypeOK, Connection, [Next]_vars PROVE Connection' OBVIOUS
<1>1. CASE LoginServer
  <2>1. UNCHANGED <<turn, onClosed>> BY <1>1 DEF LoginServer
  <2>2. CASE UNCHANGED <<mState, mCurNum, mUserSocket, conn>>
    BY <2>1, <2>2, ConnectionKept
  <2>3. CASE ClientConnectServer
    BY <2>1, <2>3 DEF ClientConnectServer, Connection, TypeOK
  <2> QED BY <1>1, <2>2, <2>3 DEF LoginServer, ConnectFails
<1>2. CASE OnTimer
  BY <1>2, ConnectionKept DEF OnTimer, IsConnectServer, network, history
<1>3. CASE Select
  BY <1>3, ConnectionKept DEF Select, network, history
<1>4. CASE Recv
  <2>1. conn # "closed" BY <1>4 DEF Recv, Connection
  <2> QED BY <1>4, <2>1, ConnectionKept DEF Recv
<1>5. CASE RecvFails
  <2>1. onClosed = 0 BY <1>5 DEF RecvFails, Connection, TypeOK
  <2>2. mState = "con" BY <1>5 DEF RecvFails, Connection, TypeOK
  <2> QED BY <1>5, <2>1, <2>2
          DEF RecvFails, ShutDown, CurNumAfter, Connection, history
<1>6. CASE SendTakes BY <1>6, ConnectionKept DEF SendTakes, client, history
<1>7. CASE SendFails
  <2>1. turn = "send" /\ (conn = "closed" \/ ended \/ full)
    BY <1>7 DEF SendFails, Sending
  <2>2. onClosed = 0 BY <2>1 DEF Connection, TypeOK
  <2>3. onClosed' \in {0, 1} /\ conn' = "closed" /\ turn' = "dispatch"
        /\ mUserSocket' = FALSE /\ UNCHANGED <<mState, mCurNum>>
    BY <1>7, <2>2 DEF SendFails, ShutDown, CurNumAfter, AfterError
  <2>4. mState = "con" BY <2>1 DEF Connection
  <2>5. mUserSocket' = (conn' \notin {"none", "closed"}) BY <2>3
  <2> QED BY <2>3, <2>4, <2>5 DEF Connection
<1>8. CASE SendEnds BY <1>8, ConnectionKept DEF SendEnds, network, history
<1>9. CASE DispatchServerMessage
  BY <1>9, ConnectionKept DEF DispatchServerMessage, client, network
<1>10. CASE DispatchEnds BY <1>10, ConnectionKept DEF DispatchEnds, network, history
<1>11. CASE Connects
  BY <1>11 DEF Connects, Connection, client, history, TypeOK
<1>12. CASE TakeRequest
  BY <1>12, ConnectionKept DEF TakeRequest, client, history
<1>13. CASE WriteData BY <1>13, ConnectionKept DEF WriteData, client
<1>14. CASE ServerEnds
  BY <1>14, ConnectionKept DEF ServerEnds, client, history
<1>15. CASE UNCHANGED vars
  BY <1>15, ConnectionKept DEF vars, client, network, history
<1> QED BY <1>1, <1>2, <1>3, <1>4, <1>5, <1>6, <1>7, <1>8, <1>9, <1>10, <1>11,
           <1>12, <1>13, <1>14, <1>15
        DEF Next, Timer, HandleMessage, Server

LEMMA ConnectionInit == ClientInit => Connection
<1> SUFFICES ASSUME ClientInit PROVE Connection OBVIOUS
<1>1. /\ mCurNum = 0 /\ conn = "none" /\ turn = "idle" /\ onClosed = 0
      /\ mUserSocket = FALSE
  BY DEF ClientInit
<1>2. mUserSocket = (conn \notin {"none", "closed"}) BY <1>1
<1> QED BY <1>1, <1>2 DEF Connection

\* The types of the client: no length passes its buffer, and a second socket is
\* never made (OnSendServerBuff, OnReadServerBuff, ClientConnectServer).
THEOREM TypeCorrect == Spec => []TypeOK
BY ClientTypeInit, ClientTypeNext, ConnectionInit, ConnectionNext, PTL DEF Spec

\* One request at most is given to send() on a socket already closed, for any
\* number of requests waiting (HandleMessage: the break after the error, and
\* select() reports nothing of a socket taken out of its sets).
THEOREM ClosedUsedOnce == Spec => []ClosedIsUsedOnce
<1>1. Connection => ClosedIsUsedOnce BY DEF Connection, ClosedIsUsedOnce
<1> QED BY <1>1, ClientTypeInit, ClientTypeNext, ConnectionInit, ConnectionNext,
           PTL DEF Spec

-----------------------------------------------------------------------------
(* The stream of replies.                                                  *)

\* units of the first k replies
Off(k) == k * Size

LEMMA OffFacts ==
  /\ \A k \in Nat : Off(k) \in Nat /\ Off(k + 1) = Off(k) + Size
  /\ \A i, j \in Nat : i <= j => Off(i) <= Off(j)
<1>1. Size \in Nat BY Sizes
<1>2. ASSUME NEW k \in Nat PROVE Off(k) \in Nat /\ Off(k + 1) = Off(k) + Size
  BY <1>1 DEF Off
<1>3. ASSUME NEW i \in Nat, NEW j \in Nat, i <= j PROVE Off(i) <= Off(j)
  <2>1. PICK d \in Nat : j = i + d BY <1>3
  <2>2. j * Size = i * Size + d * Size BY <1>1, <2>1
  <2>3. d * Size \in Nat /\ i * Size \in Nat BY <1>1
  <2> QED BY <2>2, <2>3 DEF Off
<1> QED BY <1>2, <1>3

LEMMA OffNext ==
  ASSUME NEW k \in Nat
  PROVE  Off(k) \in Nat /\ Off(k + 1) \in Nat /\ Off(k + 1) = Off(k) + Size
BY OffFacts

\* what the client has and has not handed over yet
Total == mRecvLength + Len(wire)
At(p) == IF p <= mRecvLength THEN mRecvBuff[p] ELSE wire[p - mRecvLength]

\* a reply written before the stream was cut is still to come
InSync == Len(handled) < Len(written) \/ ~cut

\* The units on their way are those of the replies written and not handed over;
\* as many while the connection is there, no more while nothing was cut.
Stream ==
  /\ ~cut => /\ Len(handled) <= Len(written)
             /\ Total <= Off(Len(written)) - Off(Len(handled))
  /\ conn # "closed" /\ ~ended /\ Len(handled) <= Len(written) =>
       Total >= Off(Len(written)) - Off(Len(handled))
  /\ \A k \in Len(handled) + 1 .. Len(written) : \A i \in 1 .. Size :
       Off(k - 1) - Off(Len(handled)) + i <= Total =>
         At(Off(k - 1) - Off(Len(handled)) + i) = <<written[k], i>>

\* What stands in memory where mSize is read is an mSize, old or new.
SizeKnown == mRecvBuff[SizeAt] = Zero \/ mRecvBuff[SizeAt][2] = SizeAt

StreamInv ==
  /\ Stream
  /\ InSync => SizeKnown
  /\ InSync /\ turn \in {"idle", "handle", "recv"} => mRecvLength < Size
  /\ NothingDropped
  /\ HandledInOrder

LEMMA StreamTypes ==
  ASSUME TypeOK
  PROVE  /\ mRecvLength \in Nat /\ Len(wire) \in Nat /\ Total \in Nat
         /\ mRecvLength <= MAX_SOCKET_BUFF_LENGTH
         /\ Len(handled) \in Nat /\ Len(written) \in Nat
         /\ wire \in Seq(Unit) /\ written \in Seq(Replies)
         /\ handled \in Seq(Replies \cup {Garbage})
         /\ mRecvBuff \in [Memory -> Unit \cup {Zero}]
         /\ Off(Len(handled)) \in Nat /\ Off(Len(written)) \in Nat
<1>1. /\ wire \in Seq(Unit) /\ written \in Seq(Replies)
      /\ handled \in Seq(Replies \cup {Garbage})
      /\ mRecvBuff \in [Memory -> Unit \cup {Zero}]
      /\ mRecvLength \in 0 .. MAX_SOCKET_BUFF_LENGTH
  BY DEF TypeOK, BuffersTypeOK
<1>2. Len(wire) \in Nat /\ Len(handled) \in Nat /\ Len(written) \in Nat
  BY <1>1
<1>3. mRecvLength \in Nat /\ mRecvLength <= MAX_SOCKET_BUFF_LENGTH
  BY <1>1, Sizes
<1>4. Total \in Nat BY <1>2, <1>3 DEF Total
<1>5. Off(Len(handled)) \in Nat /\ Off(Len(written)) \in Nat
  BY <1>2, OffFacts
<1> QED BY <1>1, <1>2, <1>3, <1>4, <1>5

\* the next units are those of the next reply
LEMMA NextReply ==
  ASSUME TypeOK, Stream, InSync, Total > 0
  PROVE  LET m == written[Len(handled) + 1] IN
         /\ Len(handled) < Len(written) /\ m \in Replies
         /\ \A i \in 1 .. Size : i <= Total => At(i) = <<m, i>>
<1>1. PICK h, n : h = Len(handled) /\ n = Len(written) OBVIOUS
<1>2. /\ h \in Nat /\ n \in Nat /\ Off(h) \in Nat /\ Off(n) \in Nat
      /\ Total \in Nat /\ written \in Seq(Replies)
  BY <1>1, StreamTypes
<1>3. h < n
  <2>1. CASE ~cut
    <3>1. h <= n /\ Total <= Off(n) - Off(h) BY <1>1, <2>1 DEF Stream
    <3>2. Off(n) - Off(h) > 0 BY <1>2, <3>1
    <3>3. h # n BY <1>2, <3>2
    <3> QED BY <1>2, <3>1, <3>3
  <2>2. CASE cut BY <1>1, <2>2 DEF InSync
  <2> QED BY <2>1, <2>2
<1>4. ASSUME NEW i \in 1 .. Size, i <= Total PROVE At(i) = <<written[h + 1], i>>
  <2>1. h + 1 \in h + 1 .. n /\ (h + 1) - 1 = h BY <1>2, <1>3
  <2>2. Off((h + 1) - 1) - Off(h) + i = i BY <1>2, <2>1, Sizes
  <2>3. Off((h + 1) - 1) - Off(h) + i <= Total =>
          At(Off((h + 1) - 1) - Off(h) + i) = <<written[h + 1], i>>
    BY <1>1, <2>1 DEF Stream
  <2> QED BY <1>4, <2>2, <2>3
<1>5. written[h + 1] \in Replies BY <1>1, <1>2, <1>3
<1> QED BY <1>1, <1>3, <1>4, <1>5

\* a step that reads, writes and hands over nothing; the wire may be lost
LEMMA StreamKept ==
  ASSUME TypeOK, StreamInv, wire' \in {wire, << >>},
         wire' = wire \/ conn' = "closed" \/ ended',
         conn = "closed" => conn' = "closed", ended => ended',
         UNCHANGED <<mRecvBuff, mRecvLength, cut, written, handled, dropped>>,
         InSync /\ turn' \in {"idle", "handle", "recv"} => mRecvLength < Size
  PROVE  StreamInv'
<1>1. /\ mRecvLength \in Nat /\ Len(wire) \in Nat /\ Len(wire') \in Nat
      /\ Len(wire') <= Len(wire) /\ Total \in Nat
      /\ Off(Len(handled)) \in Nat /\ Off(Len(written)) \in Nat
  <2>1. wire = << >> \/ wire' = wire \/ (wire' = << >> /\ Len(wire') = 0)
    OBVIOUS
  <2> QED BY <2>1, StreamTypes
<1>2. Total' \in Nat /\ Total' <= Total BY <1>1 DEF Total
<1>3. ASSUME NEW p \in Nat, p <= Total' PROVE At(p)' = At(p)
  <2>1. CASE wire' = wire BY <2>1 DEF At
  <2>2. CASE wire' = << >>
    <3>1. Total' = mRecvLength BY <1>1, <2>2 DEF Total
    <3> QED BY <1>3, <3>1 DEF At
  <2> QED BY <2>1, <2>2
<1>4. Stream'
  <2>1. PICK h, n : h = Len(handled) /\ n = Len(written) OBVIOUS
  <2>2. h' = h /\ n' = n /\ Len(handled') = h /\ Len(written') = n
    BY <2>1
  <2>3. ~cut' => h <= n /\ Total' <= Off(n) - Off(h)
    BY <1>1, <1>2, <2>1 DEF StreamInv, Stream
  <2>4. conn' # "closed" /\ ~ended' /\ h <= n => Total' >= Off(n) - Off(h)
    <3>1. CASE wire' = wire
      <4>1. Total' = Total BY <3>1 DEF Total
      <4> QED BY <2>1, <4>1 DEF StreamInv, Stream
    <3>2. CASE wire' # wire BY <3>2
    <3> QED BY <3>1, <3>2
  <2>5. ASSUME NEW k \in h + 1 .. n, NEW i \in 1 .. Size,
               Off(k - 1) - Off(h) + i <= Total'
        PROVE  At(Off(k - 1) - Off(h) + i)' = <<written'[k], i>>
    <3>1. PICK p : p = Off(k - 1) - Off(h) + i OBVIOUS
    <3>2. p \in Nat
      <4>1. h \in Nat /\ k - 1 \in Nat /\ h <= k - 1 /\ Size \in Nat
        BY <2>1, Sizes, StreamTypes
      <4>2. Off(h) \in Nat /\ Off(k - 1) \in Nat /\ Off(h) <= Off(k - 1)
        BY <4>1, OffFacts
      <4> QED BY <3>1, <4>1, <4>2
    <3>3. p <= Total BY <1>1, <1>2, <2>5, <3>1, <3>2
    <3>4. At(p) = <<written[k], i>> BY <2>1, <3>1, <3>3 DEF StreamInv, Stream
    <3>5. At(p)' = <<written'[k], i>> BY <1>3, <2>5, <3>1, <3>2, <3>4
    <3> QED BY <3>1, <3>5
  <2> QED BY <2>2, <2>3, <2>4, <2>5 DEF Stream
<1>5. InSync' = InSync BY DEF InSync
<1>6. SizeKnown' = SizeKnown BY DEF SizeKnown
<1>7. NothingDropped' /\ HandledInOrder'
  BY DEF StreamInv, NothingDropped, HandledInOrder
<1> QED BY <1>4, <1>5, <1>6, <1>7 DEF StreamInv

\* the place of a unit of a reply to come
LEMMA PlaceOf ==
  ASSUME TypeOK, NEW h \in Nat, NEW k \in Nat, h < k, NEW i \in 1 .. Size
  PROVE  /\ Off(k - 1) - Off(h) + i \in Nat /\ Off(k - 1) - Off(h) + i > 0
         /\ Off(k - 1) - Off(h) + i <= Off(k) - Off(h)
<1>1. h \in Nat /\ k - 1 \in Nat /\ h <= k - 1 /\ Size \in Nat /\ (k - 1) + 1 = k
  BY Sizes
<1>2. PICK x, y, z : x = Off(h) /\ y = Off(k - 1) /\ z = Off(k) OBVIOUS
<1>3. x \in Nat /\ y \in Nat /\ z \in Nat /\ x <= y /\ z = y + Size
  BY <1>1, <1>2, OffFacts
<1>4. i \in Nat /\ 0 < i /\ i <= Size BY <1>1
<1>5. y - x + i \in Nat /\ y - x + i > 0 /\ y - x + i <= z - x
  BY <1>1, <1>3, <1>4
<1> QED BY <1>2, <1>5

\* units at the front are the mSize and the message they should be
LEMMA KnownSize ==
  ASSUME TypeOK, StreamInv, InSync
  PROVE  /\ SizesInMemory \in {{0}, {Size}}
         /\ mRecvLength >= Size => SizesInMemory = {Size}
<1>1. SizeKnown BY DEF StreamInv
<1>2. ASSUME mRecvLength >= Size PROVE mRecvBuff[SizeAt] # Zero
  <2>1. Total > 0 /\ SizeAt \in 1 .. Size /\ SizeAt <= mRecvLength /\ SizeAt <= Total
    <3>1. /\ mRecvLength \in Nat /\ Len(wire) \in Nat /\ Size \in Nat
          /\ SizeAt \in Nat /\ 1 < SizeAt /\ SizeAt <= Size
      BY StreamTypes, Sizes
    <3> QED BY <1>2, <3>1 DEF Total
  <2>2. PICK m : m = written[Len(handled) + 1] OBVIOUS
  <2>3. m \in Replies /\ \A i \in 1 .. Size : i <= Total => At(i) = <<m, i>>
    BY <2>1, <2>2, NextReply DEF StreamInv
  <2>4. At(SizeAt) = <<m, SizeAt>> BY <2>1, <2>3
  <2>5. mRecvBuff[SizeAt] = <<m, SizeAt>> BY <2>1, <2>4 DEF At
  <2> QED BY <2>1, <2>3, <2>5, MessageManagerAssumption
<1> QED BY <1>1, <1>2 DEF SizeKnown, SizesInMemory

LEMMA EndsStream == TypeOK /\ StreamInv /\ DispatchEnds => StreamInv'
<1> SUFFICES ASSUME TypeOK, StreamInv, DispatchEnds PROVE StreamInv' OBVIOUS
<1>1. UNCHANGED <<buffers, network, history>> /\ GetNoMessage BY DEF DispatchEnds
<1>2. ASSUME InSync PROVE mRecvLength < Size
  <2>1. mRecvLength \in Nat /\ Size \in Nat /\ 1 < Size
    BY StreamTypes, Sizes
  <2>2. CASE mRecvLength = 0 BY <2>1, <2>2
  <2>3. ASSUME NEW n \in SizesInMemory, n = 0 \/ n > mRecvLength
        PROVE  mRecvLength < Size
    <3> SUFFICES ASSUME mRecvLength >= Size PROVE FALSE BY <2>1
    <3>1. n = Size BY <1>2, <2>3, KnownSize
    <3> QED BY <2>1, <2>3, <3>1
  <2> QED BY <1>1, <2>2, <2>3 DEF GetNoMessage
<1> QED BY <1>1, <1>2, StreamKept DEF buffers, network, server, history

\* a part of what has arrived is read; it always fits, or the stream was cut
LEMMA RecvStream == TypeOK /\ StreamInv /\ Recv => StreamInv'
<1> SUFFICES ASSUME TypeOK, StreamInv, Recv PROVE StreamInv' OBVIOUS
<1>1. PICK n \in 1 .. Len(wire) :
        /\ n <= Chunk
        /\ OnReadServerBuff(SubSeq(wire, 1, n))
        /\ wire' = SubSeq(wire, n + 1, Len(wire))
        /\ dropped' = (dropped \/ ~Fits(n))
  BY DEF Recv, Most
<1>2. /\ turn = "recv" /\ turn' = "send"
      /\ UNCHANGED <<conn, ended, cut, written, handled>>
  BY DEF Recv, server
<1>3. PICK L, W : L = mRecvLength /\ W = Len(wire) OBVIOUS
<1>4. /\ L \in Nat /\ W \in Nat /\ wire \in Seq(Unit) /\ n \in Nat /\ 0 < n
      /\ n <= W /\ Total = L + W
  BY <1>3, StreamTypes DEF Total
<1>5. PICK u : u = SubSeq(wire, 1, n) OBVIOUS
<1>6. /\ u \in Seq(Unit) /\ Len(u) = n /\ \A k \in 1 .. n : u[k] = wire[k]
      /\ wire' \in Seq(Unit) /\ Len(wire') = W - n
      /\ \A k \in 1 .. W - n : wire'[k] = wire[n + k]
  <2>1. n \in 0 .. Len(wire) BY <1>3, <1>4
  <2> QED BY <1>1, <1>3, <1>4, <1>5, <2>1, Portion
<1>7. InSync => Fits(n)
  <2>1. InSync => L < Size BY <1>2, <1>3 DEF StreamInv
  <2> QED BY <1>1, <1>3, <1>4, <2>1, Sizes DEF Fits
<1>8. NothingDropped'
  <2>1. dropped' => dropped \/ ~InSync BY <1>1, <1>7
  <2> QED BY <1>2, <2>1 DEF StreamInv, NothingDropped, InSync
<1>9. HandledInOrder' BY <1>2 DEF StreamInv, HandledInOrder
<1>10. InSync' = InSync BY <1>2 DEF InSync
<1>11. PICK h, m : h = Len(handled) /\ m = Len(written) OBVIOUS
<1>12. h \in Nat /\ m \in Nat /\ Off(h) \in Nat /\ Off(m) \in Nat
       /\ Len(handled') = h /\ Len(written') = m
  BY <1>2, <1>11, StreamTypes
<1>13. CASE Fits(n)
  <2>1. /\ mRecvBuff' = [a \in Memory |-> IF a \in L + 1 .. L + n
                                          THEN u[a - L] ELSE mRecvBuff[a]]
        /\ mRecvLength' = L + n
    BY <1>1, <1>3, <1>5, <1>6, <1>13 DEF OnReadServerBuff
  <2>2. Total' = Total BY <1>4, <1>6, <2>1 DEF Total
  <2>3. L + n <= MAX_SOCKET_BUFF_LENGTH BY <1>3, <1>4, <1>13, Sizes DEF Fits
  <2>4. ASSUME NEW p \in Nat, 0 < p, p <= Total PROVE At(p)' = At(p)
    <3>1. At(p) = IF p <= L THEN mRecvBuff[p] ELSE wire[p - L]
      BY <1>3 DEF At
    <3>2. At(p)' = IF p <= L + n THEN mRecvBuff'[p] ELSE wire'[p - (L + n)]
      BY <2>1 DEF At
    <3>3. CASE p <= L
      <4>1. p \in Memory /\ p \notin L + 1 .. L + n /\ p <= L + n
        BY <1>4, <2>3, <2>4, <3>3, Sizes DEF Memory
      <4> QED BY <2>1, <3>1, <3>2, <3>3, <4>1
    <3>4. CASE ~(p <= L) /\ p <= L + n
      <4>1. p \in Memory /\ p \in L + 1 .. L + n /\ p - L \in 1 .. n
        BY <1>4, <2>3, <2>4, <3>4, Sizes DEF Memory
      <4> QED BY <1>6, <2>1, <3>1, <3>2, <3>4, <4>1
    <3>5. CASE ~(p <= L + n)
      <4>1. ~(p <= L) /\ p - (L + n) \in 1 .. W - n /\ n + (p - (L + n)) = p - L
        BY <1>4, <2>4, <3>5
      <4> QED BY <1>6, <3>1, <3>2, <3>5, <4>1
    <3> QED BY <3>3, <3>4, <3>5
  <2>5. Stream'
    <3>1. /\ ~cut' => h <= m /\ Total' <= Off(m) - Off(h)
          /\ conn' # "closed" /\ ~ended' /\ h <= m => Total' >= Off(m) - Off(h)
      BY <1>2, <1>11, <2>2 DEF StreamInv, Stream
    <3>2. ASSUME NEW k \in h + 1 .. m, NEW i \in 1 .. Size,
                 Off(k - 1) - Off(h) + i <= Total'
          PROVE  At(Off(k - 1) - Off(h) + i)' = <<written'[k], i>>
      <4>1. k \in Nat /\ h < k BY <1>12
      <4>2. PICK p : p = Off(k - 1) - Off(h) + i OBVIOUS
      <4>3. p \in Nat /\ 0 < p BY <1>12, <4>1, <4>2, PlaceOf
      <4>4. At(p) = <<written[k], i>>
        BY <1>11, <2>2, <3>2, <4>2 DEF StreamInv, Stream
      <4>5. At(p)' = At(p) BY <2>2, <2>4, <3>2, <4>2, <4>3
      <4> QED BY <1>2, <4>2, <4>4, <4>5
    <3> QED BY <1>12, <3>1, <3>2 DEF Stream
  <2>6. InSync' => SizeKnown'
    <3> SUFFICES ASSUME InSync PROVE SizeKnown' BY <1>10
    <3>1. CASE SizeAt \in L + 1 .. L + n
      <4>1. Total > 0 /\ SizeAt \in 1 .. Size /\ SizeAt <= Total /\ ~(SizeAt <= L)
            /\ SizeAt - L \in 1 .. n
        BY <1>4, <3>1, Sizes
      <4>2. PICK r : At(SizeAt) = <<r, SizeAt>>
        BY <4>1, NextReply DEF StreamInv
      <4>3. mRecvBuff'[SizeAt] = <<r, SizeAt>>
        <5>1. mRecvBuff'[SizeAt] = u[SizeAt - L] BY <2>1, <3>1, Sizes
        <5>2. At(SizeAt) = wire[SizeAt - L] BY <1>3, <4>1 DEF At
        <5> QED BY <1>6, <4>1, <4>2, <5>1, <5>2
      <4> QED BY <4>3 DEF SizeKnown
    <3>2. CASE SizeAt \notin L + 1 .. L + n
      <4>1. mRecvBuff'[SizeAt] = mRecvBuff[SizeAt] BY <2>1, <3>2, Sizes
      <4> QED BY <4>1 DEF StreamInv, SizeKnown
    <3> QED BY <3>1, <3>2
  <2> QED BY <1>2, <1>8, <1>9, <2>5, <2>6 DEF StreamInv
<1>14. CASE ~Fits(n)
  <2>1. UNCHANGED <<mRecvBuff, mRecvLength>>
    BY <1>1, <1>5, <1>6, <1>14 DEF OnReadServerBuff
  <2>2. ~InSync BY <1>7, <1>14
  <2>3. cut /\ m <= h BY <1>11, <1>12, <2>2 DEF InSync
  <2>4. Total' \in Nat BY <1>3, <1>4, <1>6, <2>1 DEF Total
  <2>5. h <= m => Off(m) - Off(h) = 0
    <3>1. h <= m => h = m BY <1>12, <2>3
    <3> QED BY <1>12, <3>1
  <2>6. Stream'
    <3>1. cut' /\ (h <= m => Total' >= Off(m) - Off(h))
      BY <1>2, <2>3, <2>4, <2>5
    <3>2. h + 1 .. m = {} BY <1>12, <2>3
    <3> QED BY <1>12, <3>1, <3>2 DEF Stream
  <2> QED BY <1>2, <1>8, <1>9, <1>10, <2>2, <2>6 DEF StreamInv
<1> QED BY <1>13, <1>14

\* a message is handed over: the next reply, or anything behind a cut
LEMMA DispatchStream ==
  TypeOK /\ StreamInv /\ DispatchServerMessage => StreamInv'
<1> SUFFICES ASSUME TypeOK, StreamInv, DispatchServerMessage PROVE StreamInv'
  OBVIOUS
<1>1. PICK s \in 1 .. mRecvLength :
        GetRecvOneMessageBuff(s) /\ handled' = Append(handled, Front(s))
  BY DEF DispatchServerMessage
<1>2. /\ turn = "dispatch"
      /\ UNCHANGED <<turn, conn, ended, wire, cut, written, dropped>>
  BY DEF DispatchServerMessage, client, network, server
<1>3. /\ s \in SizesInMemory /\ mRecvBuff' = Moved(s)
      /\ mRecvLength' = mRecvLength - s
  BY <1>1 DEF GetRecvOneMessageBuff
<1>4. PICK h, n, L, W : h = Len(handled) /\ n = Len(written) /\ L = mRecvLength
                        /\ W = Len(wire)
  OBVIOUS
<1>5. /\ h \in Nat /\ n \in Nat /\ L \in Nat /\ W \in Nat
      /\ L <= MAX_SOCKET_BUFF_LENGTH /\ Total = L + W
      /\ s \in Nat /\ 0 < s /\ s <= L
      /\ Off(h) \in Nat /\ Off(n) \in Nat
  BY <1>4, StreamTypes DEF Total
<1>6. Front(s) \in Replies \cup {Garbage}
  BY <1>1, TakeType DEF TypeOK, BuffersTypeOK, BufferType
<1>7. /\ Len(handled') = h + 1 /\ Len(written') = n
      /\ handled'[h + 1] = Front(s) /\ \A i \in 1 .. h : handled'[i] = handled[i]
      /\ DOMAIN handled' = 1 .. h + 1 /\ DOMAIN handled = 1 .. h
      /\ DOMAIN written = 1 .. n
  <2>1. handled \in Seq(Replies \cup {Garbage}) /\ written \in Seq(Replies)
    BY StreamTypes
  <2> QED BY <1>1, <1>2, <1>4, <1>6, <2>1
<1>8. NothingDropped' BY <1>2 DEF StreamInv, NothingDropped
<1>9. CASE ~InSync
  <2>1. cut /\ n <= h BY <1>4, <1>5, <1>9 DEF InSync
  <2>2. ~InSync' BY <1>2, <1>5, <1>7, <2>1 DEF InSync
  <2>3. Stream'
    <3>1. ~(h + 1 <= n) /\ (h + 1) + 1 .. n = {} BY <1>5, <2>1
    <3> QED BY <1>2, <1>7, <2>1, <3>1 DEF Stream
  <2>4. HandledInOrder'
    <3>1. \A i \in 1 .. n : i \in 1 .. h BY <1>5, <2>1
    <3> QED BY <1>2, <1>7, <2>1, <3>1 DEF StreamInv, HandledInOrder
  <2> QED BY <1>2, <1>8, <2>2, <2>3, <2>4 DEF StreamInv
<1>10. CASE InSync
  <2>1. s = Size /\ Size \in Nat /\ SizeAt \in 1 .. Size /\ 1 \in 1 .. Size
    BY <1>3, <1>5, <1>10, KnownSize, Sizes
  <2>2. PICK m : m = written[h + 1] OBVIOUS
  <2>3. /\ h < n /\ m \in Replies
        /\ \A i \in 1 .. Size : i <= Total => At(i) = <<m, i>>
    BY <1>4, <1>5, <1>10, <2>2, NextReply DEF StreamInv
  <2>4. \A i \in 1 .. Size : mRecvBuff[i] = <<m, i>>
    <3>1. ASSUME NEW i \in 1 .. Size PROVE mRecvBuff[i] = <<m, i>>
      <4>1. i <= L /\ i <= Total BY <1>5, <2>1
      <4> QED BY <1>4, <2>3, <4>1 DEF At
    <3> QED BY <3>1
  <2>5. Front(s) = m
    <3>1. mRecvBuff \in Seq(Unit \cup {Zero}) /\ Len(mRecvBuff) = MAX_SOCKET_BUFF_LENGTH
      BY StreamTypes, Sizes DEF Memory
    <3>2. PICK f : f = SubSeq(mRecvBuff, 1, s) OBVIOUS
    <3>3. /\ f \in Seq(Unit \cup {Zero}) /\ Len(f) = s
          /\ \A k \in 1 .. s : f[k] = mRecvBuff[k]
      <4>1. s \in 0 .. Len(mRecvBuff) BY <1>5, <3>1
      <4> QED BY <3>1, <3>2, <4>1, Portion
    <3>4. PICK v : v = Units(m) OBVIOUS
    <3>5. v \in Seq(Unit \cup {Zero}) /\ Len(v) = Size
          /\ \A k \in 1 .. Size : v[k] = <<m, k>>
      <4>1. /\ Units(m) \in Seq(Unit) /\ Len(Units(m)) = Size
            /\ \A k \in 1 .. Size : Units(m)[k] = <<m, k>>
        BY <2>3, UnitsType
      <4> QED BY <3>4, <4>1
    <3>6. \A k \in 1 .. Len(f) : f[k] = v[k] BY <2>1, <2>4, <3>3, <3>5
    <3>7. f = v BY <2>1, <3>3, <3>5, <3>6, SeqEqual
    <3>8. f[1] = <<m, 1>> BY <2>1, <3>5, <3>7
    <3>9. f[1] # Zero /\ f[1][1] = m BY <2>1, <2>3, <3>8, MessageManagerAssumption
    <3> QED BY <2>1, <3>2, <3>4, <3>7, <3>9 DEF Front
  <2>6. Total' = Total - Size
    BY <1>2, <1>3, <1>4, <1>5, <2>1 DEF Total
  <2>7. ASSUME NEW p \in Nat, 0 < p, p <= Total - Size
        PROVE  At(p)' = At(p + Size)
    <3>1. At(p)' = IF p <= L - Size THEN mRecvBuff'[p] ELSE wire[p - (L - Size)]
      BY <1>2, <1>3, <1>4, <2>1 DEF At
    <3>2. At(p + Size) = IF p + Size <= L THEN mRecvBuff[p + Size]
                                          ELSE wire[(p + Size) - L]
      BY <1>4 DEF At
    <3>3. CASE p <= L - Size
      <4>1. p \in Memory /\ p + Size <= L BY <1>5, <2>1, <2>7, <3>3, Sizes DEF Memory
      <4>2. mRecvBuff'[p] = mRecvBuff[p + Size]
        BY <1>3, <1>4, <2>1, <3>3, <4>1 DEF Moved
      <4> QED BY <3>1, <3>2, <3>3, <4>1, <4>2
    <3>4. CASE ~(p <= L - Size)
      <4>1. ~(p + Size <= L) /\ p - (L - Size) = (p + Size) - L
        BY <1>5, <2>1, <3>4
      <4> QED BY <3>1, <3>2, <3>4, <4>1
    <3> QED BY <3>3, <3>4
  <2>8. Off(h + 1) = Off(h) + Size BY <1>5, OffNext
  <2>9. Stream'
    <3>1. ~cut' => h + 1 <= n /\ Total' <= Off(n) - Off(h + 1)
      <4>1. ~cut => Total <= Off(n) - Off(h) BY <1>4 DEF StreamInv, Stream
      <4>2. (Off(n) - Off(h)) - Size = Off(n) - Off(h + 1) BY <1>5, <2>1, <2>8
      <4>3. ~cut => Total - Size <= (Off(n) - Off(h)) - Size
        BY <1>5, <2>1, <4>1
      <4> QED BY <1>2, <1>5, <2>3, <2>6, <4>2, <4>3
    <3>2. conn' # "closed" /\ ~ended' /\ h + 1 <= n
            => Total' >= Off(n) - Off(h + 1)
      <4>1. conn # "closed" /\ ~ended => Total >= Off(n) - Off(h)
        BY <1>4, <1>5, <2>3 DEF StreamInv, Stream
      <4>2. (Off(n) - Off(h)) - Size = Off(n) - Off(h + 1) BY <1>5, <2>1, <2>8
      <4>3. conn # "closed" /\ ~ended => Total - Size >= (Off(n) - Off(h)) - Size
        BY <1>5, <2>1, <4>1
      <4> QED BY <1>2, <2>6, <4>2, <4>3
    <3>3. ASSUME NEW k \in (h + 1) + 1 .. n, NEW i \in 1 .. Size,
                 Off(k - 1) - Off(h + 1) + i <= Total'
          PROVE  At(Off(k - 1) - Off(h + 1) + i)' = <<written'[k], i>>
      <4>1. k \in Nat /\ h + 1 \in Nat /\ h + 1 < k /\ k \in h + 1 .. n
            /\ k - 1 \in Nat
        BY <1>5
      <4>2. PICK p : p = Off(k - 1) - Off(h + 1) + i OBVIOUS
      <4>3. p \in Nat /\ 0 < p BY <4>1, <4>2, PlaceOf
      <4>4. p + Size = Off(k - 1) - Off(h) + i
        <5>1. PICK x, y : x = Off(h) /\ y = Off(k - 1) OBVIOUS
        <5>2. x \in Nat /\ y \in Nat BY <1>5, <4>1, <5>1, OffFacts
        <5>3. p = y - (x + Size) + i BY <2>8, <4>2, <5>1
        <5>4. p + Size = y - x + i BY <2>1, <5>2, <5>3
        <5> QED BY <5>1, <5>4
      <4>5. p + Size <= Total BY <1>5, <2>1, <2>6, <3>3, <4>2, <4>3
      <4>6. At(p + Size) = <<written[k], i>>
        BY <1>4, <4>1, <4>4, <4>5 DEF StreamInv, Stream
      <4>7. At(p)' = At(p + Size) BY <2>6, <2>7, <3>3, <4>2, <4>3
      <4> QED BY <1>2, <4>2, <4>6, <4>7
    <3> QED BY <1>7, <3>1, <3>2, <3>3 DEF Stream
  <2>10. InSync' => SizeKnown'
    <3> SUFFICES ASSUME InSync' PROVE SizeKnown' OBVIOUS
    <3>1. CASE SizeAt <= L - Size
      <4>1. SizeAt \in Nat /\ SizeAt \in Memory /\ 0 < SizeAt
            /\ SizeAt + Size <= L /\ SizeAt <= Total - Size /\ SizeAt <= Total'
        BY <1>5, <2>1, <2>6, <3>1, Sizes
      <4>2. h + 1 < n
        <5>1. CASE cut BY <1>2, <1>7, <5>1 DEF InSync
        <5>2. CASE ~cut
          <6>1. Total' <= Off(n) - Off(h + 1) BY <1>2, <1>7, <2>9, <5>2 DEF Stream
          <6>2. Total' > 0 /\ Total' \in Int BY <1>5, <2>1, <2>6, <4>1
          <6>3. h + 1 # n
            <7> SUFFICES ASSUME h + 1 = n PROVE FALSE OBVIOUS
            <7>1. Off(n) - Off(h + 1) = 0 BY <1>5
            <7> QED BY <6>1, <6>2, <7>1
          <6> QED BY <1>5, <2>3, <6>3
        <5> QED BY <5>1, <5>2
      <4>3. PICK r : At(SizeAt)' = <<r, SizeAt>>
        <5>1. (h + 1) + 1 \in (h + 1) + 1 .. n /\ ((h + 1) + 1) - 1 = h + 1
              /\ Off(h + 1) \in Nat
          BY <1>5, <4>2, OffFacts
        <5>2. Off(h + 1) - Off(h + 1) + SizeAt = SizeAt BY <4>1, <5>1
        <5>3. Off(((h + 1) + 1) - 1) - Off(h + 1) + SizeAt <= Total' =>
                At(Off(((h + 1) + 1) - 1) - Off(h + 1) + SizeAt)'
                  = <<written'[(h + 1) + 1], SizeAt>>
          BY <1>7, <2>1, <2>9, <5>1 DEF Stream
        <5> QED BY <4>1, <5>1, <5>2, <5>3
      <4>4. mRecvBuff'[SizeAt] = <<r, SizeAt>>
        BY <1>3, <1>4, <2>1, <3>1, <4>3 DEF At
      <4> QED BY <4>4 DEF SizeKnown
    <3>2. CASE ~(SizeAt <= L - Size)
      <4>1. mRecvBuff'[SizeAt] = mRecvBuff[SizeAt]
        BY <1>3, <1>4, <2>1, <3>2, Sizes DEF Moved
      <4>2. mRecvBuff[SizeAt] = <<m, SizeAt>> BY <2>1, <2>4
      <4> QED BY <4>1, <4>2 DEF SizeKnown
    <3> QED BY <3>1, <3>2
  <2>11. HandledInOrder'
    <3>1. ASSUME NEW i \in 1 .. h + 1, i \in 1 .. n PROVE handled'[i] = written[i]
      <4>1. CASE i = h + 1 BY <1>7, <2>2, <2>5, <4>1
      <4>2. CASE i # h + 1
        <5>1. i \in 1 .. h BY <1>5, <4>2
        <5> QED BY <1>7, <3>1, <5>1 DEF StreamInv, HandledInOrder
      <4> QED BY <4>1, <4>2
    <3>2. h + 1 <= n BY <1>5, <2>3
    <3> QED BY <1>2, <1>7, <3>1, <3>2 DEF HandledInOrder
  <2> QED BY <1>2, <1>8, <2>9, <2>10, <2>11 DEF StreamInv
<1> QED BY <1>9, <1>10

\* units of a reply are added behind all others
LEMMA AddedStream ==
  ASSUME TypeOK, StreamInv, conn = "open", ~ended,
         NEW u \in Seq(Unit), wire' = wire \o u,
         UNCHANGED <<mRecvBuff, mRecvLength, turn, conn, ended, handled, dropped>>,
         NEW m \in Replies,
         \/ cut /\ cut' /\ written' = written
         \/ ~cut /\ cut' /\ written' = written
         \/ /\ ~cut /\ ~cut' /\ written' = Append(written, m)
            /\ Len(u) = Size /\ \A i \in 1 .. Size : u[i] = <<m, i>>
  PROVE  StreamInv'
<1>1. PICK h, n, T : h = Len(handled) /\ n = Len(written) /\ T = Total OBVIOUS
<1>2. /\ h \in Nat /\ n \in Nat /\ T \in Nat /\ Off(h) \in Nat /\ Off(n) \in Nat
      /\ written \in Seq(Replies) /\ Len(u) \in Nat
      /\ mRecvLength \in Nat /\ Len(wire) \in Nat /\ T = mRecvLength + Len(wire)
  BY <1>1, StreamTypes DEF Total
<1>3. /\ Len(wire') = Len(wire) + Len(u)
      /\ \A k \in 1 .. Len(wire) + Len(u) :
           wire'[k] = IF k <= Len(wire) THEN wire[k] ELSE u[k - Len(wire)]
  BY StreamTypes, ConcatProperties
<1>4. Total' = T + Len(u) BY <1>2, <1>3 DEF Total
<1>5. ASSUME NEW p \in Nat, 0 < p, p <= T PROVE At(p)' = At(p)
  <2>1. ~(p <= mRecvLength) =>
          /\ p - mRecvLength \in 1 .. Len(wire) + Len(u)
          /\ p - mRecvLength <= Len(wire)
    BY <1>2, <1>5
  <2> QED BY <1>3, <2>1 DEF At
<1>6. ASSUME NEW i \in 1 .. Len(u) PROVE At(T + i)' = u[i]
  <2>1. /\ ~(T + i <= mRecvLength)
        /\ (T + i) - mRecvLength \in 1 .. Len(wire) + Len(u)
        /\ ~((T + i) - mRecvLength <= Len(wire))
        /\ ((T + i) - mRecvLength) - Len(wire) = i
    BY <1>2
  <2>2. wire'[(T + i) - mRecvLength] = u[((T + i) - mRecvLength) - Len(wire)]
    BY <1>3, <2>1
  <2> QED BY <2>1, <2>2 DEF At
<1>7. ~cut => h <= n /\ T = Off(n) - Off(h)
  <2>1. ~cut => h <= n /\ T <= Off(n) - Off(h) BY <1>1 DEF StreamInv, Stream
  <2>2. h <= n => T >= Off(n) - Off(h) BY <1>1 DEF StreamInv, Stream
  <2> QED BY <1>2, <2>1, <2>2
<1>8. h <= n => T >= Off(n) - Off(h) BY <1>1 DEF StreamInv, Stream
<1>9. ASSUME NEW k \in h + 1 .. n, NEW i \in 1 .. Size
      PROVE  At(Off(k - 1) - Off(h) + i)' = <<written[k], i>>
  <2>1. k \in Nat /\ h < k /\ k <= n /\ h <= n BY <1>2
  <2>2. PICK p : p = Off(k - 1) - Off(h) + i OBVIOUS
  <2>3. p \in Nat /\ 0 < p /\ p <= Off(k) - Off(h) BY <1>2, <2>1, <2>2, PlaceOf
  <2>4. Off(k) \in Nat /\ Off(k) <= Off(n) BY <1>2, <2>1, OffFacts
  <2>5. p <= T
    <3>1. PICK x, y, z : x = Off(h) /\ y = Off(k) /\ z = Off(n) OBVIOUS
    <3>2. x \in Nat /\ y \in Nat /\ z \in Nat /\ y <= z /\ p <= y - x
          /\ T >= z - x
      BY <1>2, <1>8, <2>1, <2>3, <2>4, <3>1
    <3> QED BY <1>2, <2>3, <3>2
  <2>6. At(p) = <<written[k], i>> BY <1>1, <2>2, <2>5 DEF StreamInv, Stream
  <2> QED BY <1>5, <2>2, <2>3, <2>5, <2>6
<1>10. Len(handled') = h BY <1>1
<1>11. SizeKnown' = SizeKnown BY DEF SizeKnown
<1>12. CASE cut' /\ written' = written
  <2>1. Len(written') = n BY <1>1, <1>12
  <2>2. h <= n => Total' >= Off(n) - Off(h) BY <1>2, <1>4, <1>8
  <2>3. Stream' BY <1>9, <1>10, <1>12, <2>1, <2>2 DEF Stream
  <2>4. InSync' => InSync BY <1>12 DEF InSync
  <2>5. NothingDropped' /\ HandledInOrder'
    BY <1>12 DEF StreamInv, NothingDropped, HandledInOrder
  <2> QED BY <1>11, <2>3, <2>4, <2>5 DEF StreamInv
<1>13. CASE /\ ~cut /\ ~cut' /\ written' = Append(written, m)
            /\ Len(u) = Size /\ \A i \in 1 .. Size : u[i] = <<m, i>>
  <2>1. /\ Len(written') = n + 1 /\ written'[n + 1] = m
        /\ \A k \in 1 .. n : written'[k] = written[k]
        /\ DOMAIN written' = 1 .. n + 1 /\ DOMAIN written = 1 .. n
    BY <1>1, <1>2, <1>13
  <2>2. Off(n + 1) = Off(n) + Size /\ Size \in Nat BY <1>2, OffNext, Sizes
  <2>3. Total' = Off(n + 1) - Off(h)
    <3>1. PICK x, y : x = Off(h) /\ y = Off(n) OBVIOUS
    <3>2. x \in Nat /\ y \in Nat /\ T = y - x BY <1>2, <1>7, <1>13, <3>1
    <3>3. Total' = (y - x) + Size BY <1>4, <1>13, <3>2
    <3>4. Off(n + 1) - Off(h) = (y + Size) - x BY <2>2, <3>1
    <3> QED BY <2>2, <3>2, <3>3, <3>4
  <2>4. ASSUME NEW k \in h + 1 .. n + 1, NEW i \in 1 .. Size
        PROVE  At(Off(k - 1) - Off(h) + i)' = <<written'[k], i>>
    <3>1. CASE k = n + 1
      <4>1. k - 1 = n /\ Off(k - 1) - Off(h) + i = T + i
        BY <1>2, <1>7, <1>13, <3>1
      <4> QED BY <1>6, <1>13, <2>1, <3>1, <4>1
    <3>2. CASE k # n + 1
      <4>1. k \in h + 1 .. n /\ k \in 1 .. n BY <1>2, <3>2
      <4> QED BY <1>9, <2>1, <4>1
    <3> QED BY <3>1, <3>2
  <2>5. Stream'
    <3>1. h <= n + 1 /\ Total' <= Off(n + 1) - Off(h)
          /\ Total' >= Off(n + 1) - Off(h)
      <4>1. Total' \in Int BY <1>2, <1>4
      <4> QED BY <1>2, <1>7, <1>13, <2>3, <4>1
    <3> QED BY <1>10, <2>1, <2>4, <3>1 DEF Stream
  <2>6. HandledInOrder'
    <3>1. DOMAIN handled = 1 .. h /\ h <= n
      BY <1>1, <1>7, <1>13, StreamTypes
    <3>2. \A i \in 1 .. h : i \in 1 .. n /\ i \in 1 .. n + 1 BY <1>2, <3>1
    <3>3. \A i \in 1 .. h : handled[i] = written'[i]
      BY <2>1, <3>1, <3>2 DEF StreamInv, HandledInOrder
    <3>4. h <= n + 1 BY <1>2, <3>1
    <3> QED BY <1>10, <2>1, <3>1, <3>3, <3>4 DEF HandledInOrder
  <2>7. NothingDropped' BY <1>13 DEF StreamInv, NothingDropped
  <2>8. InSync BY <1>13 DEF InSync
  <2> QED BY <1>11, <2>5, <2>6, <2>7, <2>8 DEF StreamInv
<1> QED BY <1>12, <1>13

LEMMA WriteStream == TypeOK /\ StreamInv /\ WriteData => StreamInv'
<1> SUFFICES ASSUME TypeOK, StreamInv, WriteData PROVE StreamInv' OBVIOUS
<1>1. /\ conn = "open" /\ ~ended /\ owed # << >>
      /\ UNCHANGED <<mRecvBuff, mRecvLength, turn, conn, ended, handled, dropped>>
  BY DEF WriteData, Serving, buffers, client
<1>2. PICK m : m = Head(owed) OBVIOUS
<1>3. m \in Replies BY <1>1, <1>2, HeadTailProperties DEF TypeOK
<1>4. /\ Units(m) \in Seq(Unit) /\ Len(Units(m)) = Size
      /\ \A i \in 1 .. Size : Units(m)[i] = <<m, i>>
  BY <1>3, UnitsType
<1>5. CASE /\ wire' = wire \o Units(Head(owed))
           /\ written' = IF cut THEN written ELSE Append(written, Head(owed))
           /\ UNCHANGED <<cut, lost>>
  <2>1. CASE cut BY <1>1, <1>2, <1>3, <1>4, <1>5, <2>1, AddedStream
  <2>2. CASE ~cut BY <1>1, <1>2, <1>3, <1>4, <1>5, <2>2, AddedStream
  <2> QED BY <2>1, <2>2
<1>6. CASE UNCHANGED <<wire, cut, written>>
  BY <1>1, <1>6, StreamKept DEF StreamInv
<1>7. CASE /\ \E n \in 1 .. Size - 1 :
                wire' = wire \o SubSeq(Units(Head(owed)), 1, n)
           /\ cut' = TRUE /\ UNCHANGED written
  <2>1. PICK n \in 1 .. Size - 1 : wire' = wire \o SubSeq(Units(m), 1, n)
    BY <1>2, <1>7
  <2>2. PICK u : u = SubSeq(Units(m), 1, n) OBVIOUS
  <2>3. u \in Seq(Unit)
    <3>1. PICK v : v = Units(m) OBVIOUS
    <3>2. n \in 0 .. Len(v) BY <1>4, <3>1, Sizes
    <3> QED BY <1>4, <2>2, <3>1, <3>2, Portion
  <2>4. cut \/ ~cut OBVIOUS
  <2> QED BY <1>1, <1>3, <1>7, <2>1, <2>2, <2>3, <2>4, AddedStream
<1> QED BY <1>5, <1>6, <1>7 DEF WriteData

LEMMA StreamInit == ClientInit => StreamInv
<1> SUFFICES ASSUME ClientInit PROVE StreamInv OBVIOUS
<1>1. /\ mRecvBuff = [a \in Memory |-> Zero] /\ mRecvLength = 0
      /\ wire = << >> /\ handled = << >> /\ written = << >>
      /\ dropped = FALSE /\ cut = FALSE
  BY DEF ClientInit, Init
<1>2. Len(handled) = 0 /\ Len(written) = 0 /\ Len(wire) = 0 /\ Total = 0
      /\ DOMAIN handled = {}
  BY <1>1 DEF Total
<1>3. Off(0) - Off(0) = 0
  <2>1. Off(0) \in Nat BY OffFacts
  <2> QED BY <2>1
<1>4. Stream
  <2>1. 0 + 1 .. 0 = {} OBVIOUS
  <2> QED BY <1>2, <1>3, <2>1 DEF Stream
<1>5. SizeKnown BY <1>1, Sizes DEF SizeKnown
<1>6. mRecvLength < Size BY <1>1, Sizes
<1>7. NothingDropped /\ HandledInOrder
  BY <1>1, <1>2 DEF NothingDropped, HandledInOrder
<1> QED BY <1>4, <1>5, <1>6, <1>7 DEF StreamInv

LEMMA StreamNext ==
  TypeOK /\ Connection /\ StreamInv /\ [Next]_vars => StreamInv'
<1> SUFFICES ASSUME TypeOK, Connection, StreamInv, [Next]_vars PROVE StreamInv'
  OBVIOUS
<1>1. CASE LoginServer
  <2>1. /\ UNCHANGED <<mRecvBuff, mRecvLength, turn, wire, server, ended,
                       written, handled, dropped>>
        /\ conn' = conn \/ (conn = "none" /\ conn' = "connecting")
    BY <1>1 DEF LoginServer, ClientConnectServer, ConnectFails, Connection
  <2> QED BY <2>1, StreamKept DEF StreamInv, server
<1>2. CASE OnTimer \/ Select \/ SendEnds
  <2>1. /\ UNCHANGED <<buffers, network, history>>
        /\ turn' \in {"idle", "handle", "recv"} => turn \in {"idle", "handle"}
    BY <1>2 DEF OnTimer, Select, SendEnds
  <2> QED BY <2>1, StreamKept DEF StreamInv, buffers, network, server, history
<1>3. CASE RecvFails
  BY <1>3, StreamKept DEF RecvFails, ShutDown, buffers, server, history
<1>4. CASE SendTakes
  BY <1>4, StreamKept DEF SendTakes, StreamInv, client, history
<1>5. CASE SendFails
  BY <1>5, StreamKept DEF SendFails, ShutDown, AfterError, server
<1>6. CASE Connects
  BY <1>6, StreamKept DEF Connects, StreamInv, buffers, client, server, history
<1>7. CASE TakeRequest
  BY <1>7, StreamKept DEF TakeRequest, StreamInv, buffers, client, history
<1>8. CASE ServerEnds
  <2>1. wire' \in {wire, << >>} /\ ended'
        /\ UNCHANGED <<buffers, client, conn, cut, history>>
    BY <1>8 DEF ServerEnds
  <2> QED BY <2>1, StreamKept DEF StreamInv, buffers, client, history
<1>9. CASE UNCHANGED vars
  BY <1>9, StreamKept DEF StreamInv, vars, buffers, client, network, server, history
<1> QED BY <1>1, <1>2, <1>3, <1>4, <1>5, <1>6, <1>7, <1>8, <1>9, EndsStream,
           RecvStream, DispatchStream, WriteStream
        DEF Next, Timer, HandleMessage, Server

\* Every reply is handed over as it was written and in its turn, for any sizes,
\* any portions and any cut of the stream behind it (GetOneMessageBuff finds an
\* mSize, old or new, wherever it looks for one).
THEOREM HandledAsWritten == Spec => []HandledInOrder
<1>1. StreamInv => HandledInOrder BY DEF StreamInv
<1> QED BY <1>1, ClientTypeInit, ClientTypeNext, ConnectionInit, ConnectionNext,
           StreamInit, StreamNext, PTL DEF Spec

\* What recv() returns fits, for any sizes, while the server writes its replies
\* whole: DispatchServerMessage left less than a message in mRecvBuff.
THEOREM NothingIsDropped == Spec => []NothingDropped
<1>1. StreamInv => NothingDropped BY DEF StreamInv
<1> QED BY <1>1, ClientTypeInit, ClientTypeNext, ConnectionInit, ConnectionNext,
           StreamInit, StreamNext, PTL DEF Spec

-----------------------------------------------------------------------------
(* The order of requests and replies.                                      *)

\* Requests that are sent later were asked later.
Increasing(q) ==
  \A i, j \in DOMAIN q : i < j /\ q[j] # Part => q[i] < q[j]
Later(s, q) == \A i \in DOMAIN s, j \in DOMAIN q : q[j] # Part => s[i] < q[j]
KnownAsked(q) == \A i \in DOMAIN q : q[i] <= asked

Queues ==
  /\ Increasing(toServer) /\ Increasing(mSendBuff) /\ Later(toServer, mSendBuff)
  /\ KnownAsked(toServer) /\ KnownAsked(mSendBuff)

\* n may follow m: it belongs to no request, or both do and n to the later one
MayFollow(m, n) == n.req # Part => m.req # Part /\ Exchange!Before(m, n)

\* Replies r the server made so far: in order, and while the server is in step
\* before every request it has not taken yet.
Replied(r) ==
  /\ \A i, j \in DOMAIN r : i < j => MayFollow(r[i], r[j])
  /\ \A i \in DOMAIN r : r[i].req <= asked
  /\ ~outOfStep => \A i \in DOMAIN r :
       /\ r[i].req # Part
       /\ \A j \in DOMAIN toServer : toServer[j] # Part => r[i].req < toServer[j]
       /\ \A j \in DOMAIN mSendBuff : r[i].req < mSendBuff[j]

InTurn ==
  /\ Queues
  /\ Replied(owed) /\ Replied(written)
  /\ \A i \in DOMAIN written, j \in DOMAIN owed : MayFollow(written[i], owed[j])

LEMMA TurnTypes ==
  ASSUME TypeOK
  PROVE  /\ mSendBuff \in Seq(Requests) /\ toServer \in Seq(Requests \cup {Part})
         /\ owed \in Seq(Reply) /\ written \in Seq(Reply)
         /\ asked \in Nat /\ MaxAsked \in Nat
         /\ \A r \in Requests \cup {Part} : r \in Nat
         /\ \A r \in Requests : r # Part
         /\ \A m \in Reply : m.req \in Nat /\ m.kind \in {"response", "notify"}
BY ClientAssumption DEF TypeOK, BuffersTypeOK, Requests, Part, Reply

\* what is left of a sequence without its first element
LEMMA TailOf ==
  ASSUME NEW S, NEW q \in Seq(S), q # << >>
  PROVE  /\ Head(q) = q[1] /\ 1 \in DOMAIN q /\ Head(q) \in S
         /\ \A i \in DOMAIN Tail(q) : i + 1 \in DOMAIN q /\ Tail(q)[i] = q[i + 1]
                                      /\ 1 < i + 1 /\ i \in Nat
<1>1. /\ Tail(q) \in Seq(S) /\ Len(Tail(q)) = Len(q) - 1 /\ Len(q) \in Nat
      /\ \A i \in 1 .. Len(Tail(q)) : Tail(q)[i] = q[i + 1]
      /\ Len(q) > 0
  BY HeadTailProperties
<1>2. DOMAIN Tail(q) = 1 .. Len(q) - 1 /\ DOMAIN q = 1 .. Len(q) BY <1>1
<1>3. \A i \in 1 .. Len(q) - 1 : i + 1 \in 1 .. Len(q) /\ 1 < i + 1 /\ i \in Nat
  BY <1>1
<1> QED BY <1>1, <1>2, <1>3

LEMMA AppendTo ==
  ASSUME NEW S, NEW q \in Seq(S), NEW x \in S
  PROVE  /\ \A i \in DOMAIN q : Append(q, x)[i] = q[i]
         /\ \A i \in DOMAIN Append(q, x) :
              \/ i \in DOMAIN q
              \/ i = Len(q) + 1 /\ Append(q, x)[i] = x
         /\ \A i \in DOMAIN q : i \in Nat /\ i < Len(q) + 1
         /\ Len(q) \in Nat
BY AppendProperties

LEMMA TurnInit == ClientInit => InTurn
BY DEF ClientInit, Init, InTurn, Queues, Increasing, Later, KnownAsked, Replied

\* the requests may lose some, and the replies change nothing
LEMMA TurnKept ==
  ASSUME InTurn,
         UNCHANGED <<mSendBuff, toServer, owed, written, outOfStep, asked>>
  PROVE  InTurn'
BY DEF InTurn, Queues, Increasing, Later, KnownAsked, Replied

LEMMA TurnLogin == ASSUME TypeOK, InTurn, LoginServer PROVE InTurn'
<1>1. /\ UNCHANGED <<toServer, owed, written, outOfStep>>
      /\ asked' = asked + 1 /\ asked + 1 \in Requests
      /\ mSendBuff' = mSendBuff \/ OnSendServerBuff(asked + 1)
  BY ClientAssumption
     DEF LoginServer, ConnectFails, server, TypeOK, Requests
<1>2. mSendBuff' = mSendBuff \/ mSendBuff' = Append(mSendBuff, asked + 1)
  BY <1>1 DEF OnSendServerBuff
<1>3. \A i \in DOMAIN mSendBuff' :
        \/ i \in DOMAIN mSendBuff /\ mSendBuff'[i] = mSendBuff[i]
        \/ /\ mSendBuff'[i] = asked + 1 /\ i = Len(mSendBuff) + 1
           /\ \A j \in DOMAIN mSendBuff : j < i
  <2>1. CASE mSendBuff' = mSendBuff BY <2>1
  <2>2. CASE mSendBuff' = Append(mSendBuff, asked + 1)
    BY <1>1, <2>2, AppendTo, TurnTypes
  <2> QED BY <1>2, <2>1, <2>2
<1>4. DOMAIN mSendBuff' \subseteq Nat /\ DOMAIN mSendBuff \subseteq Nat
      /\ \A i \in DOMAIN mSendBuff : mSendBuff[i] \in Nat /\ mSendBuff[i] <= asked
  <2>1. DOMAIN mSendBuff \subseteq Nat BY TurnTypes
  <2>2. DOMAIN mSendBuff' \subseteq Nat BY <1>1, <1>2, TurnTypes, AppendProperties
  <2> QED BY <2>1, <2>2, TurnTypes DEF InTurn, Queues, KnownAsked
<1>5. \A i \in DOMAIN toServer : toServer[i] \in Nat /\ toServer[i] <= asked
  BY TurnTypes DEF InTurn, Queues, KnownAsked
<1>6. asked \in Nat /\ asked < asked + 1 BY TurnTypes
<1>7. Increasing(mSendBuff)'
  BY <1>3, <1>4, <1>6 DEF InTurn, Queues, Increasing
<1>8. Later(toServer, mSendBuff)' /\ Increasing(toServer)'
  BY <1>1, <1>3, <1>5, <1>6 DEF InTurn, Queues, Increasing, Later
<1>9. KnownAsked(mSendBuff)' /\ KnownAsked(toServer)'
  BY <1>1, <1>3, <1>4, <1>5, <1>6 DEF KnownAsked
<1>10. ASSUME NEW r \in Seq(Reply), Replied(r) PROVE Replied(r)'
  <2>1. \A i \in DOMAIN r : r[i].req \in Nat /\ r[i].req <= asked
    BY <1>10, TurnTypes DEF Replied
  <2> QED BY <1>1, <1>3, <1>6, <1>10, <2>1 DEF Replied
<1>11. Replied(owed)' /\ Replied(written)'
  BY <1>1, <1>10, TurnTypes DEF InTurn, Replied
<1> QED BY <1>1, <1>7, <1>8, <1>9, <1>11 DEF InTurn, Queues

\* a request leaves the buffer, and the server gets it, a part of it or nothing
LEMMA TurnSend ==
  ASSUME TypeOK, InTurn, mSendBuff # << >>, mSendBuff' = Tail(mSendBuff),
         UNCHANGED <<owed, written, outOfStep, asked>>,
         \/ toServer' = toServer
         \/ \E taken \in {Head(mSendBuff), Part} :
              toServer' = Append(toServer, taken)
  PROVE  InTurn'
<1> DEFINE first == mSendBuff[1]
<1>1. /\ Head(mSendBuff) = first /\ 1 \in DOMAIN mSendBuff
      /\ first \in Requests /\ first # Part /\ first \in Nat
      /\ \A i \in DOMAIN mSendBuff' :
           /\ i + 1 \in DOMAIN mSendBuff /\ mSendBuff'[i] = mSendBuff[i + 1]
           /\ 1 < i + 1 /\ i \in Nat /\ mSendBuff[i + 1] \in Nat
           /\ mSendBuff[i + 1] # Part
  <2>1. \A i \in DOMAIN mSendBuff : mSendBuff[i] \in Requests BY TurnTypes
  <2> QED BY <2>1, TurnTypes, TailOf
<1>2. /\ \A i \in DOMAIN mSendBuff' :
           first < mSendBuff'[i] /\ mSendBuff'[i] <= asked
      /\ first <= asked
  BY <1>1 DEF InTurn, Queues, Increasing, KnownAsked
<1>3. \A i, j \in DOMAIN mSendBuff' : i < j => i + 1 < j + 1 BY <1>1
<1>4. Increasing(mSendBuff)' /\ KnownAsked(mSendBuff)'
  BY <1>1, <1>2, <1>3 DEF InTurn, Queues, Increasing, KnownAsked
<1>5. \A i \in DOMAIN toServer' :
        \/ i \in DOMAIN toServer /\ toServer'[i] = toServer[i]
        \/ /\ toServer'[i] \in {first, Part} /\ i = Len(toServer) + 1
           /\ \A j \in DOMAIN toServer : j < i
  <2>1. CASE toServer' = toServer BY <2>1
  <2>2. ASSUME NEW taken \in {first, Part}, toServer' = Append(toServer, taken)
        PROVE  <1>5
    BY <1>1, <2>2, TurnTypes, AppendTo
  <2> QED BY <1>1, <2>1, <2>2
<1>6. DOMAIN toServer' \subseteq Nat /\ DOMAIN toServer \subseteq Nat
      /\ \A i \in DOMAIN toServer : toServer[i] \in Nat /\ toServer[i] < first
                                    /\ toServer[i] <= asked
  <2>1. DOMAIN toServer \subseteq Nat /\ \A i \in DOMAIN toServer : toServer[i] \in Nat
    BY TurnTypes
  <2>2. DOMAIN toServer' \subseteq Nat
    <3>1. Len(toServer) + 1 \in Nat BY TurnTypes
    <3> QED BY <1>5, <2>1, <3>1
  <2> QED BY <1>1, <2>1, <2>2 DEF InTurn, Queues, Later, KnownAsked
<1>7. Part = 0 /\ asked \in Nat BY TurnTypes DEF Part
<1>8. Increasing(toServer)' /\ KnownAsked(toServer)'
  <2>1. ASSUME NEW i \in DOMAIN toServer', NEW j \in DOMAIN toServer', i < j,
               toServer'[j] # Part
        PROVE  toServer'[i] < toServer'[j]
    <3>1. i \in DOMAIN toServer /\ toServer'[i] = toServer[i]
      BY <1>5, <1>6, <2>1
    <3> QED BY <1>1, <1>5, <1>6, <2>1, <3>1 DEF InTurn, Queues, Increasing
  <2> HIDE DEF first
  <2>2. ASSUME NEW i \in DOMAIN toServer' PROVE toServer'[i] <= asked
    BY <1>1, <1>2, <1>5, <1>6, <1>7
  <2> QED BY <2>1, <2>2 DEF Increasing, KnownAsked
<1>9. Later(toServer, mSendBuff)'
  <2> SUFFICES ASSUME NEW i \in DOMAIN toServer', NEW j \in DOMAIN mSendBuff'
               PROVE  toServer'[i] < mSendBuff'[j]
    BY DEF Later
  <2>1. mSendBuff'[j] \in Nat /\ first < mSendBuff'[j] BY <1>1, <1>2
  <2> HIDE DEF first
  <2> QED BY <1>1, <1>5, <1>6, <1>7, <2>1
<1>10. ASSUME NEW r \in Seq(Reply), Replied(r) PROVE Replied(r)'
  <2>1. ASSUME ~outOfStep, NEW i \in DOMAIN r
        PROVE  /\ r[i].req # Part
               /\ \A j \in DOMAIN toServer' :
                    toServer'[j] # Part => r[i].req < toServer'[j]
               /\ \A j \in DOMAIN mSendBuff' : r[i].req < mSendBuff'[j]
    <3>1. /\ r[i].req # Part
          /\ \A j \in DOMAIN toServer : toServer[j] # Part => r[i].req < toServer[j]
          /\ \A j \in DOMAIN mSendBuff : r[i].req < mSendBuff[j]
      BY <1>10, <2>1 DEF Replied
    <3> QED BY <1>1, <1>5, <3>1
  <2> QED BY <1>10, <2>1 DEF Replied, MayFollow
<1>11. Replied(owed)' /\ Replied(written)'
  BY <1>10, TurnTypes DEF InTurn, Replied
<1> QED BY <1>4, <1>8, <1>9, <1>11 DEF InTurn, Queues

\* the replies to a request follow all earlier ones
LEMMA TurnTake == ASSUME TypeOK, InTurn, TakeRequest PROVE InTurn'
<1> DEFINE first == toServer[1]
<1>1. /\ owed = << >> /\ toServer # << >> /\ toServer' = Tail(toServer)
      /\ outOfStep' = (outOfStep \/ Head(toServer) = Part)
      /\ UNCHANGED <<mSendBuff, written, asked>>
  BY DEF TakeRequest, buffers, history
<1>2. /\ Head(toServer) = first /\ 1 \in DOMAIN toServer
      /\ first \in Requests \cup {Part} /\ first \in Nat
      /\ \A i \in DOMAIN toServer' :
           /\ i + 1 \in DOMAIN toServer /\ toServer'[i] = toServer[i + 1]
           /\ 1 < i + 1 /\ i \in Nat
  BY <1>1, TurnTypes, TailOf
<1>3. \A i, j \in DOMAIN toServer' : i < j => i + 1 < j + 1 BY <1>2
<1>4. /\ Increasing(toServer)' /\ KnownAsked(toServer)'
      /\ Later(toServer, mSendBuff)'
      /\ Increasing(mSendBuff)' /\ KnownAsked(mSendBuff)'
  BY <1>1, <1>2, <1>3 DEF InTurn, Queues, Increasing, Later, KnownAsked
<1>5. PICK r \in IF outOfStep' THEN {Part} ELSE {first} :
        owed' \in {<<Response(r)>>, <<Response(r), Notify(r)>>}
                  \cup {o \in {<< >>} : outOfStep'}
  BY <1>2 DEF TakeRequest
<1>6. /\ r \in Nat /\ r <= asked
      /\ outOfStep' => r = Part
      /\ ~outOfStep' => r = first /\ first # Part /\ ~outOfStep
  <2>1. first <= asked BY <1>2 DEF InTurn, Queues, KnownAsked
  <2>2. CASE outOfStep'
    <3>1. r = Part BY <1>5, <2>2
    <3> QED BY <2>2, <3>1, TurnTypes DEF Part
  <2>3. CASE ~outOfStep'
    <3>1. r = first BY <1>5, <2>3
    <3>2. ~outOfStep /\ Head(toServer) # Part BY <1>1, <2>3
    <3> QED BY <1>2, <2>1, <2>3, <3>1, <3>2
  <2> QED BY <2>2, <2>3
<1>7. /\ \A i \in DOMAIN owed' :
           owed'[i].req = r /\ owed'[i].kind = IF i = 1 THEN "response" ELSE "notify"
      /\ DOMAIN owed' \subseteq 1 .. 2
  <2>1. CASE owed' = <<Response(r)>> BY <2>1 DEF Response
  <2>2. CASE owed' = <<Response(r), Notify(r)>> BY <2>2 DEF Response, Notify
  <2>3. CASE owed' = << >> BY <2>3
  <2> QED BY <1>5, <2>1, <2>2, <2>3
<1>8. ASSUME ~outOfStep'
      PROVE  /\ r # Part
             /\ \A j \in DOMAIN toServer' : toServer'[j] # Part => r < toServer'[j]
             /\ \A j \in DOMAIN mSendBuff : r < mSendBuff[j]
  <2>1. \A j \in DOMAIN mSendBuff : mSendBuff[j] # Part BY TurnTypes
  <2> QED BY <1>2, <1>6, <1>8, <2>1 DEF InTurn, Queues, Increasing, Later
<1>9. Replied(owed)'
  <2>1. ASSUME NEW i \in DOMAIN owed', NEW j \in DOMAIN owed', i < j
        PROVE  MayFollow(owed'[i], owed'[j])
    <3>1. i = 1 /\ j # 1 BY <1>7, <2>1
    <3> QED BY <1>7, <3>1 DEF MayFollow, Exchange!Before
  <2> QED BY <1>1, <1>6, <1>7, <1>8, <2>1 DEF Replied, MayFollow
<1>10. Replied(written)'
  <2>1. Replied(written) BY DEF InTurn
  <2>2. ASSUME ~outOfStep', NEW i \in DOMAIN written
        PROVE  /\ written[i].req # Part
               /\ \A j \in DOMAIN toServer' :
                    toServer'[j] # Part => written[i].req < toServer'[j]
               /\ \A j \in DOMAIN mSendBuff : written[i].req < mSendBuff[j]
    BY <1>2, <1>6, <2>1, <2>2 DEF Replied
  <2> QED BY <1>1, <2>1, <2>2 DEF Replied, MayFollow
<1>11. ASSUME NEW i \in DOMAIN written', NEW j \in DOMAIN owed'
       PROVE  MayFollow(written'[i], owed'[j])
  <2>1. CASE outOfStep' BY <1>6, <1>7, <2>1 DEF MayFollow
  <2>2. CASE ~outOfStep'
    <3>1. written[i].req # Part /\ written[i].req < first
      BY <1>1, <1>2, <1>6, <2>2 DEF InTurn, Replied
    <3> QED BY <1>1, <1>6, <1>7, <2>2, <3>1 DEF MayFollow, Exchange!Before
  <2> QED BY <2>1, <2>2
<1> QED BY <1>4, <1>9, <1>10, <1>11 DEF InTurn, Queues, MayFollow

\* a reply is written behind the earlier ones, or lost
LEMMA TurnWrite == ASSUME TypeOK, InTurn, WriteData PROVE InTurn'
<1>1. /\ owed # << >> /\ owed' = Tail(owed)
      /\ written' \in {written, Append(written, Head(owed))}
      /\ UNCHANGED <<mSendBuff, toServer, outOfStep, asked>>
  BY DEF WriteData, buffers
<1>2. /\ Head(owed) = owed[1] /\ 1 \in DOMAIN owed /\ owed[1] \in Reply
      /\ \A i \in DOMAIN owed' :
           /\ i + 1 \in DOMAIN owed /\ owed'[i] = owed[i + 1]
           /\ 1 < i + 1 /\ i \in Nat
  BY <1>1, TurnTypes, TailOf
<1>3. \A i \in DOMAIN written' :
        \/ i \in DOMAIN written /\ written'[i] = written[i]
        \/ /\ written'[i] = owed[1] /\ i = Len(written) + 1
           /\ \A j \in DOMAIN written : j < i
  <2>1. CASE written' = written BY <2>1
  <2>2. CASE written' = Append(written, Head(owed))
    BY <1>2, <2>2, TurnTypes, AppendTo
  <2> QED BY <1>1, <2>1, <2>2
<1>4. DOMAIN written' \subseteq Nat /\ DOMAIN written \subseteq Nat
  <2>1. DOMAIN written \subseteq Nat /\ Len(written) + 1 \in Nat BY TurnTypes
  <2> QED BY <1>3, <2>1
<1>5. \A i, j \in DOMAIN owed' : i < j => i + 1 < j + 1 BY <1>2
<1>6. Replied(owed)' BY <1>1, <1>2, <1>5 DEF InTurn, Replied, MayFollow
<1>7. Replied(written)'
  <2>1. ASSUME NEW i \in DOMAIN written', NEW j \in DOMAIN written', i < j
        PROVE  MayFollow(written'[i], written'[j])
    <3>1. i \in DOMAIN written /\ written'[i] = written[i]
      BY <1>3, <1>4, <2>1
    <3> QED BY <1>2, <1>3, <2>1, <3>1 DEF InTurn, Replied
  <2>2. \A i \in DOMAIN written' : written'[i].req <= asked
    BY <1>2, <1>3 DEF InTurn, Replied
  <2>3. ASSUME ~outOfStep, NEW i \in DOMAIN written'
        PROVE  /\ written'[i].req # Part
               /\ \A j \in DOMAIN toServer :
                    toServer[j] # Part => written'[i].req < toServer[j]
               /\ \A j \in DOMAIN mSendBuff : written'[i].req < mSendBuff[j]
    BY <1>2, <1>3, <2>3 DEF InTurn, Replied
  <2> QED BY <1>1, <2>1, <2>2, <2>3 DEF Replied, MayFollow
<1>8. ASSUME NEW i \in DOMAIN written', NEW j \in DOMAIN owed'
      PROVE  MayFollow(written'[i], owed'[j])
  BY <1>2, <1>3, <1>8 DEF InTurn, Replied
<1>9. Queues' BY <1>1 DEF InTurn, Queues, Increasing, Later, KnownAsked
<1> QED BY <1>6, <1>7, <1>8, <1>9 DEF InTurn, MayFollow

LEMMA TurnNext == TypeOK /\ InTurn /\ [Next]_vars => InTurn'
<1> SUFFICES ASSUME TypeOK, InTurn, [Next]_vars PROVE InTurn' OBVIOUS
<1>1. CASE OnTimer \/ Select \/ SendEnds \/ DispatchEnds
  BY <1>1, TurnKept
     DEF OnTimer, Select, SendEnds, DispatchEnds, buffers, network, server, history
<1>2. CASE Recv \/ RecvFails \/ DispatchServerMessage
  BY <1>2, TurnKept
     DEF Recv, RecvFails, DispatchServerMessage, buffers, network, server, history
<1>3. CASE SendTakes
  <2>1. /\ mSendBuff # << >> /\ mSendBuff' = Tail(mSendBuff)
        /\ UNCHANGED <<owed, written, outOfStep, asked>>
        /\ \/ toServer' = toServer
           \/ \E taken \in {Head(mSendBuff), Part} :
                toServer' = Append(toServer, taken)
    BY <1>3 DEF SendTakes, Sending, Popped, history
  <2> QED BY <2>1, TurnSend
<1>4. CASE SendFails
  <2>1. /\ mSendBuff # << >> /\ mSendBuff' = Tail(mSendBuff)
        /\ UNCHANGED <<toServer, owed, written, outOfStep, asked>>
    BY <1>4 DEF SendFails, Sending, Popped, server
  <2> QED BY <2>1, TurnSend
<1>5. CASE Connects
  BY <1>5, TurnKept DEF Connects, buffers, server, history
<1>6. CASE ServerEnds
  <2>1. /\ owed' = << >>
        /\ UNCHANGED <<mSendBuff, toServer, written, outOfStep, asked>>
    BY <1>6 DEF ServerEnds, buffers, history
  <2> QED BY <2>1 DEF InTurn, Queues, Increasing, Later, KnownAsked, Replied
<1>7. CASE UNCHANGED vars
  BY <1>7, TurnKept DEF vars, buffers, network, server, history
<1> QED BY <1>1, <1>2, <1>3, <1>4, <1>5, <1>6, <1>7, TurnLogin, TurnTake,
           TurnWrite
        DEF Next, Timer, HandleMessage, Server

\* all that is known of the streams and of the order in them
SafeInv == TypeOK /\ Connection /\ StreamInv /\ InTurn

LEMMA SafeHolds == Spec => []SafeInv
<1>1. ClientInit => SafeInv
  BY ClientTypeInit, ConnectionInit, StreamInit, TurnInit DEF SafeInv
<1>2. SafeInv /\ [Next]_vars => SafeInv'
  BY ClientTypeNext, ConnectionNext, StreamNext, TurnNext DEF SafeInv
<1> QED BY <1>1, <1>2, PTL DEF Spec

-----------------------------------------------------------------------------
(* The client and the server together are a LoginExchange.                 *)

\* the answers are known when the replies that belong to a request are
LEMMA SameAnswers ==
  ASSUME {j \in InStep : written[j].req # Part}' =
           {j \in InStep : written[j].req # Part},
         \A j \in InStep : handled'[j] = handled[j]
  PROVE  Answers' = Answers
BY DEF Answers

LEMMA InStepIs ==
  ASSUME TypeOK
  PROVE  /\ DOMAIN handled = 1 .. Len(handled) /\ Len(handled) \in Nat
         /\ DOMAIN written = 1 .. Len(written) /\ Len(written) \in Nat
         /\ InStep = {j \in 1 .. Len(handled) : j <= Len(written)}
BY StreamTypes DEF InStep

\* a reply is written where none was handed over in step
LEMMA WriteAnswers ==
  ASSUME SafeInv, handled' = handled, ~cut,
         NEW m \in Reply, written' = Append(written, m)
  PROVE  Answers' = Answers
<1>1. TypeOK /\ Len(handled) <= Len(written)
  BY DEF SafeInv, StreamInv, HandledInOrder
<1>2. /\ \A j \in DOMAIN written : j \in DOMAIN written' /\ written'[j] = written[j]
      /\ \A j \in DOMAIN written' : j \in 1 .. Len(written) + 1
  BY <1>1, TurnTypes, AppendTo, AppendProperties
<1>3. InStep = DOMAIN handled /\ InStep' = DOMAIN handled
      /\ DOMAIN handled \subseteq DOMAIN written
  BY <1>1, <1>2, InStepIs DEF InStep
<1>4. {j \in InStep : written[j].req # Part}' =
        {j \in InStep : written[j].req # Part}
  BY <1>2, <1>3
<1> QED BY <1>4, SameAnswers

\* what ProcessMessage is given is an answer, or belongs to no request
LEMMA DispatchAnswers ==
  ASSUME SafeInv, HandledInOrder', DispatchServerMessage
  PROVE  Answers' = Answers \/ Exchange!Next
<1>1. TypeOK /\ HandledInOrder BY DEF SafeInv, StreamInv
<1>2. /\ UNCHANGED <<written, asked>>
      /\ handled \in Seq(Replies \cup {Garbage})
      /\ Len(handled) \in Nat
  BY <1>1, StreamTypes DEF DispatchServerMessage
<1>3. PICK x : handled' = Append(handled, x) BY DEF DispatchServerMessage
<1> DEFINE n == Len(handled) + 1
<1>4. /\ \A j \in DOMAIN handled : handled'[j] = handled[j]
      /\ DOMAIN handled' = 1 .. n /\ handled'[n] = x
  BY <1>2, <1>3, AppendProperties
<1>5. CASE n \notin DOMAIN written
  <2>1. InStep' = InStep BY <1>1, <1>2, <1>4, <1>5, InStepIs DEF InStep
  <2> QED BY <1>2, <1>4, <2>1, SameAnswers DEF InStep
<1>6. CASE n \in DOMAIN written
  <2> DEFINE m == written[n]
  <2>1. x = m BY <1>2, <1>4, <1>6 DEF HandledInOrder
  <2>2. /\ InStep = DOMAIN handled /\ InStep' = DOMAIN handled \cup {n}
        /\ DOMAIN handled = 1 .. Len(handled)
    BY <1>1, <1>2, <1>4, <1>6, InStepIs DEF InStep
  <2>3. CASE m.req = Part
    BY <1>2, <1>4, <2>2, <2>3, SameAnswers
  <2>4. CASE m.req # Part
    <3>1. /\ m \in Reply /\ m.req <= asked /\ asked \in Nat /\ m.req \in Nat
          /\ \A i \in DOMAIN handled : i \in DOMAIN written /\ i < n
      BY <1>1, <1>6, <2>2, InStepIs, TurnTypes DEF SafeInv, InTurn, Replied
    <3>2. \A i \in DOMAIN handled : MayFollow(written[i], m)
      BY <1>6, <3>1 DEF SafeInv, InTurn, Replied
    <3>3. Answers = [i \in DOMAIN handled |-> handled[i]]
      BY <2>2, <2>4, <3>2 DEF Answers, MayFollow
    <3>4. Answers' = [i \in DOMAIN handled' |-> handled'[i]]
      BY <1>2, <1>4, <2>2, <2>4, <3>2 DEF Answers, MayFollow
    <3>5. Answers = handled /\ Answers' = handled'
      <4>1. handled' \in Seq(Replies \cup {Garbage})
        BY <1>2, <1>3, <2>1, <3>1, ClientAssumption
      <4>2. /\ handled \in [DOMAIN handled -> Replies \cup {Garbage}]
            /\ handled' \in [DOMAIN handled' -> Replies \cup {Garbage}]
        BY <1>2, <4>1, LenProperties
      <4> QED BY <3>3, <3>4, <4>2
    <3>6. \A i \in DOMAIN handled : Exchange!Before(handled[i], m)
      BY <1>1, <2>2, <2>4, <3>1, <3>2 DEF HandledInOrder, MayFollow
    <3>7. m.req \in 1 .. asked BY <2>4, <3>1 DEF Part
    <3>8. Exchange!Answer(m)
      BY <1>2, <1>3, <2>1, <3>5, <3>6, <3>7 DEF Exchange!Answer
    <3>9. m = [req |-> m.req, kind |-> m.kind]
          /\ m.kind \in {"response", "notify"}
      BY <3>1 DEF Reply
    <3> QED BY <3>7, <3>8, <3>9 DEF Exchange!Next
  <2> QED BY <2>3, <2>4
<1> QED BY <1>5, <1>6

LEMMA ExchangeInit == ClientInit => Exchange!Init
<1> SUFFICES ASSUME ClientInit PROVE Exchange!Init OBVIOUS
<1>1. asked = 0 /\ DOMAIN handled = {} /\ handled = << >> BY DEF ClientInit
<1>2. Answers = << >> BY <1>1 DEF Answers, InStep
<1> QED BY <1>1, <1>2 DEF Exchange!Init

LEMMA ExchangeNext ==
  SafeInv /\ HandledInOrder' /\ [Next]_vars => [Exchange!Next]_<<asked, Answers>>
<1> SUFFICES ASSUME SafeInv, HandledInOrder', [Next]_vars
             PROVE  Exchange!Next \/ UNCHANGED <<asked, Answers>>
  OBVIOUS
<1>1. CASE UNCHANGED <<handled, written>>
  <2>1. Answers' = Answers BY <1>1 DEF Answers, InStep
  <2>2. asked' = asked \/ asked' = asked + 1
    BY DEF Next, LoginServer, Timer, OnTimer, HandleMessage, Select, Recv,
           RecvFails, SendTakes, SendFails, SendEnds, DispatchServerMessage,
           DispatchEnds, Connects, Server, TakeRequest, WriteData, ServerEnds,
           vars, history
  <2> QED BY <2>1, <2>2 DEF Exchange!Next, Exchange!Ask
<1>2. CASE DispatchServerMessage
  <2>1. asked' = asked BY <1>2 DEF DispatchServerMessage
  <2> QED BY <1>2, <2>1, DispatchAnswers
<1>3. CASE WriteData
  <2>1. asked' = asked /\ handled' = handled BY <1>3 DEF WriteData
  <2>2. written' = written \/ (~cut /\ written' = Append(written, Head(owed)))
    BY <1>3 DEF WriteData
  <2>3. Head(owed) \in Reply BY <1>3, TurnTypes, TailOf DEF WriteData, SafeInv
  <2> QED BY <1>1, <2>1, <2>2, <2>3, WriteAnswers
<1>4. UNCHANGED <<handled, written>> \/ DispatchServerMessage \/ WriteData
  BY DEF Next, LoginServer, Timer, OnTimer, HandleMessage, Select, Recv,
         RecvFails, SendTakes, SendFails, SendEnds, DispatchEnds, Connects,
         Server, TakeRequest, ServerEnds, vars, history
<1> QED BY <1>1, <1>2, <1>3, <1>4

\* Whatever the network and the server do, an answer that reaches
\* ProcessMessage belongs to a request made before, answers come in the order of
\* the requests, and none comes twice (LoginServer, HandleMessage,
\* DispatchServerMessage).
THEOREM AnswersAreAnExchange == Spec => ImplementsLoginExchange
<1>1. SafeInv => HandledInOrder BY DEF SafeInv, StreamInv
<1> QED BY <1>1, SafeHolds, ExchangeInit, ExchangeNext, PTL
        DEF Spec, ImplementsLoginExchange, Exchange!Spec

-----------------------------------------------------------------------------
(* Nothing is left behind, and nothing is forgotten.                       *)

\* the server does not learn that it cut the stream, but something was lost
CutIsLoss == cut => lost

LEMMA CutIsLossHolds == Spec => []CutIsLoss
<1>1. ClientInit => CutIsLoss BY DEF ClientInit, CutIsLoss
<1>2. CutIsLoss /\ [Next]_vars => CutIsLoss'
  <2> SUFFICES ASSUME CutIsLoss, [Next]_vars PROVE CutIsLoss' OBVIOUS
  <2>1. UNCHANGED <<cut, lost>> \/ lost'
    BY DEF Next, LoginServer, Timer, OnTimer, HandleMessage, Select, Recv,
           RecvFails, SendTakes, SendFails, SendEnds, DispatchServerMessage,
           DispatchEnds, Connects, Server, TakeRequest, WriteData, ServerEnds,
           vars, network, server, history
  <2> QED BY <2>1 DEF CutIsLoss
<1> QED BY <1>1, <1>2, PTL DEF Spec

\* Between two turns less than a message is in mRecvBuff, and with nothing on
\* the wire that is nothing at all: every reply the server has written was given
\* to ProcessMessage, for any sizes and any portions (DispatchServerMessage).
THEOREM AllIsHandedOver == Spec => []NothingLeftBehind
<1>1. SafeInv /\ CutIsLoss => NothingLeftBehind
  <2> SUFFICES ASSUME SafeInv, CutIsLoss, turn = "idle", wire = << >>, ~Undone
               PROVE  handled = written
    BY DEF NothingLeftBehind
  <2> DEFINE h == Len(handled)
             n == Len(written)
  <2>1. TypeOK /\ StreamInv /\ ~cut /\ conn # "closed" /\ ~ended
    BY DEF SafeInv, Undone, CutIsLoss
  <2>2. /\ h \in Nat /\ n \in Nat /\ h <= n
        /\ mRecvLength < Size /\ mRecvLength \in Nat
        /\ Total = Off(n) - Off(h)
        /\ Total = mRecvLength
    <3>1. Total = mRecvLength
      BY <2>1, StreamTypes DEF Total
    <3>2. mRecvLength < Size BY <2>1 DEF StreamInv, InSync
    <3>3. /\ h <= n /\ Total <= Off(n) - Off(h) /\ Total >= Off(n) - Off(h)
      BY <2>1 DEF StreamInv, Stream
    <3> QED BY <2>1, <3>1, <3>2, <3>3, StreamTypes
  <2>3. h = n
    <3> SUFFICES ASSUME h < n PROVE FALSE BY <2>2
    <3>1. h + 1 \in Nat /\ h + 1 <= n BY <2>2
    <3>2. /\ Off(h + 1) <= Off(n) /\ Off(h + 1) = Off(h) + Size
          /\ Off(h) \in Nat /\ Off(n) \in Nat
      BY <2>2, <3>1, OffFacts
    <3> QED BY <2>2, <3>2, Sizes
  <2>4. \A i \in 1 .. n : handled[i] = written[i]
    BY <2>1, <2>3, InStepIs DEF StreamInv, HandledInOrder, InStep
  <2>5. handled \in Seq(Replies \cup {Garbage})
        /\ written \in Seq(Replies \cup {Garbage})
    BY <2>1, StreamTypes
  <2> QED BY <2>3, <2>4, <2>5, SeqEqual
<1> QED BY <1>1, SafeHolds, CutIsLossHolds, PTL

LEMMA HasTail ==
  ASSUME NEW S, NEW q \in Seq(S), q # << >>, NEW x, Has(q, x)
  PROVE  x = Head(q) \/ Has(Tail(q), x)
<1>1. PICK i \in DOMAIN q : q[i] = x BY DEF Has
<1>2. CASE i = 1 BY <1>1, <1>2
<1>3. CASE i # 1
  <2>1. /\ i \in 1 .. Len(q) /\ Len(q) \in Nat
        /\ DOMAIN Tail(q) = 1 .. Len(q) - 1
        /\ \A j \in 1 .. Len(q) - 1 : Tail(q)[j] = q[j + 1]
    BY <1>1, HeadTailProperties
  <2>2. i - 1 \in DOMAIN Tail(q) /\ (i - 1) + 1 = i BY <1>3, <2>1
  <2>3. Tail(q)[i - 1] = x BY <1>1, <2>1, <2>2
  <2> QED BY <2>2, <2>3 DEF Has
<1> QED BY <1>2, <1>3

LEMMA HasAppend ==
  ASSUME NEW S, NEW q \in Seq(S), NEW y \in S
  PROVE  /\ Has(Append(q, y), y)
         /\ \A x : Has(q, x) => Has(Append(q, y), x)
<1>1. /\ \A i \in DOMAIN q : i \in DOMAIN Append(q, y) /\ Append(q, y)[i] = q[i]
      /\ Len(q) + 1 \in DOMAIN Append(q, y) /\ Append(q, y)[Len(q) + 1] = y
  BY AppendProperties
<1> QED BY <1>1 DEF Has

\* a request that waits stays, or goes to the server
LEMMA KeptSending ==
  ASSUME TypeOK, [Next]_vars, NEW r \in Requests, Has(mSendBuff, r)
  PROVE  Underway(r)' \/ Spoilt'
<1>1. CASE LoginServer
  <2>1. PICK q \in Requests :
          mSendBuff' = mSendBuff \/ mSendBuff' = Append(mSendBuff, q)
    <3>1. asked + 1 \in Requests
      BY <1>1, ClientAssumption DEF LoginServer, TypeOK, Requests
    <3> QED BY <1>1, <3>1 DEF LoginServer, ConnectFails, OnSendServerBuff
  <2>2. Has(mSendBuff, r) /\ Has(Append(mSendBuff, q), r)
    BY HasAppend, TurnTypes
  <2>3. Has(mSendBuff', r) BY <2>1, <2>2
  <2> QED BY <2>3 DEF Underway
<1>2. CASE SendTakes
  <2>1. CASE ended
    <3>1. ended' BY <1>2, <2>1 DEF SendTakes
    <3> QED BY <3>1 DEF Spoilt, Undone
  <2>2. CASE ~ended
    <3>1. /\ mSendBuff # << >> /\ mSendBuff' = Tail(mSendBuff)
          /\ \E taken \in {Head(mSendBuff), Part} :
               toServer' = Append(toServer, taken)
      BY <1>2, <2>2 DEF SendTakes, Sending, Popped
    <3>2. Head(mSendBuff) \in Requests \cup {Part}
      BY <3>1, TurnTypes, TailOf
    <3>3. r = Head(mSendBuff) \/ Has(Tail(mSendBuff), r)
      BY <3>1, TurnTypes, HasTail
    <3>4. Has(toServer', Head(mSendBuff)) \/ Has(toServer', Part)
      BY <3>1, <3>2, TurnTypes, HasAppend
    <3> QED BY <3>1, <3>3, <3>4 DEF Underway, Spoilt
  <2> QED BY <2>1, <2>2
<1>3. CASE SendFails
  BY <1>3 DEF SendFails, ShutDown, Spoilt, Undone
<1>4. CASE UNCHANGED mSendBuff BY <1>4 DEF Underway
<1> QED BY <1>1, <1>2, <1>3, <1>4
        DEF Next, Timer, OnTimer, HandleMessage, Select, Recv, RecvFails,
            SendEnds, DispatchServerMessage, DispatchEnds, Connects, Server,
            TakeRequest, WriteData, ServerEnds, vars, buffers

\* a request on its way arrives, and its response is owed
LEMMA KeptServing ==
  ASSUME TypeOK, [Next]_vars, NEW r \in Requests, Has(toServer, r)
  PROVE  Underway(r)' \/ Spoilt'
<1>1. CASE SendTakes
  <2>1. PICK taken \in {Head(mSendBuff), Part} :
          toServer' = toServer \/ toServer' = Append(toServer, taken)
    BY <1>1 DEF SendTakes
  <2>2. taken \in Requests \cup {Part}
    BY <1>1, <2>1, TurnTypes, TailOf DEF SendTakes, Sending
  <2>3. Has(toServer, r) /\ Has(Append(toServer, taken), r)
    BY <2>2, TurnTypes, HasAppend
  <2>4. Has(toServer', r) BY <2>1, <2>3
  <2> QED BY <2>4 DEF Underway
<1>2. CASE TakeRequest
  <2>1. /\ toServer # << >> /\ toServer' = Tail(toServer)
        /\ \E q \in IF outOfStep' THEN {Part} ELSE {Head(toServer)} :
             owed' \in {<<Response(q)>>, <<Response(q), Notify(q)>>}
                       \cup {o \in {<< >>} : outOfStep'}
    BY <1>2 DEF TakeRequest
  <2>2. r = Head(toServer) \/ Has(Tail(toServer), r)
    BY <2>1, TurnTypes, HasTail
  <2>3. CASE outOfStep' BY <2>3 DEF Spoilt, Undone
  <2>4. CASE ~outOfStep' /\ r = Head(toServer)
    <3>1. owed' = <<Response(r)>> \/ owed' = <<Response(r), Notify(r)>>
      BY <2>1, <2>4
    <3>2. 1 \in DOMAIN owed' /\ owed'[1] = Response(r) BY <3>1
    <3> QED BY <3>2 DEF Underway, Has
  <2> QED BY <2>1, <2>2, <2>3, <2>4 DEF Underway
<1>3. CASE UNCHANGED toServer BY <1>3 DEF Underway
<1> QED BY <1>1, <1>2, <1>3
        DEF Next, LoginServer, Timer, OnTimer, HandleMessage, Select, Recv,
            RecvFails, SendFails, SendEnds, DispatchServerMessage,
            DispatchEnds, Connects, Server, WriteData, ServerEnds, vars,
            network, server

\* a response owed is written, or the loss is one of the stream
LEMMA KeptWriting ==
  ASSUME TypeOK, CutIsLoss, [Next]_vars, NEW r \in Requests,
         Has(owed, Response(r)) \/ Has(written, Response(r))
  PROVE  Underway(r)' \/ Spoilt'
<1>1. CASE WriteData
  <2>1. /\ owed # << >> /\ owed' = Tail(owed)
        /\ lost' \/ written' = Append(written, Head(owed))
    BY <1>1 DEF WriteData, CutIsLoss
  <2>2. CASE lost' BY <2>2 DEF Spoilt, Undone
  <2>3. CASE written' = Append(written, Head(owed))
    <3>1. Head(owed) \in Reply BY <2>1, TurnTypes, TailOf
    <3>2. /\ Has(written', Head(owed))
          /\ \A x : Has(written, x) => Has(written', x)
      BY <2>3, <3>1, TurnTypes, HasAppend
    <3>3. Has(owed, Response(r)) =>
            Response(r) = Head(owed) \/ Has(owed', Response(r))
      BY <2>1, TurnTypes, HasTail
    <3> QED BY <3>2, <3>3 DEF Underway
  <2> QED BY <2>1, <2>2, <2>3
<1>2. CASE TakeRequest
  <2>1. UNCHANGED written /\ ~Has(owed, Response(r))
    BY <1>2 DEF TakeRequest, history, Has
  <2> QED BY <2>1 DEF Underway
<1>3. CASE ServerEnds BY <1>3 DEF ServerEnds, Spoilt, Undone
<1>4. CASE UNCHANGED <<owed, written>> BY <1>4 DEF Underway
<1> QED BY <1>1, <1>2, <1>3, <1>4
        DEF Next, LoginServer, Timer, OnTimer, HandleMessage, Select, Recv,
            RecvFails, SendTakes, SendFails, SendEnds, DispatchServerMessage,
            DispatchEnds, Connects, Server, vars, network, server, history

\* No step of the client, the network or the server forgets a request that
\* waits, is on its way, is served or has a response, as long as the connection
\* is there and neither stream is spoilt (HandleMessage, WriteData).
THEOREM RequestsAreKept == Spec => RequestIsKept
<1>1. TypeOK /\ CutIsLoss /\ [Next]_vars =>
        [\A r \in Requests : Underway(r) => Underway(r)' \/ Spoilt']_vars
  BY KeptSending, KeptServing, KeptWriting DEF Underway
<1> QED BY <1>1, TypeCorrect, CutIsLossHolds, PTL DEF Spec, RequestIsKept

-----------------------------------------------------------------------------
(* select() has no timeout.                                                *)

\* there is no room only while the server has something left to read
FullByRequests == full /\ ~ended => toServer # << >>

LEMMA FullHolds == Spec => []FullByRequests
<1>1. ClientInit => FullByRequests BY DEF ClientInit, FullByRequests
<1>2. TypeOK /\ FullByRequests /\ [Next]_vars => FullByRequests'
  <2> SUFFICES ASSUME TypeOK, FullByRequests, [Next]_vars PROVE FullByRequests'
    OBVIOUS
  <2>1. CASE SendTakes
    <3>1. CASE ended BY <2>1, <3>1 DEF SendTakes, FullByRequests
    <3>2. CASE ~ended
      <4>1. PICK taken \in Requests \cup {Part} :
              toServer' = Append(toServer, taken)
        BY <2>1, <3>2, TurnTypes, TailOf DEF SendTakes, Sending
      <4>2. toServer' # << >> BY <4>1, TurnTypes, AppendProperties
      <4> QED BY <4>2 DEF FullByRequests
    <3> QED BY <3>1, <3>2
  <2>2. CASE TakeRequest BY <2>2 DEF TakeRequest, FullByRequests
  <2>3. CASE ServerEnds BY <2>3 DEF ServerEnds, FullByRequests
  <2>4. CASE UNCHANGED <<full, ended, toServer>> BY <2>4 DEF FullByRequests
  <2> QED BY <2>1, <2>2, <2>3, <2>4
          DEF Next, LoginServer, Timer, OnTimer, HandleMessage, Select, Recv,
              RecvFails, SendFails, SendEnds, DispatchServerMessage,
              DispatchEnds, Connects, Server, WriteData, vars, network, server
<1> QED BY <1>1, <1>2, TypeCorrect, PTL DEF Spec

\* The thread of the user interface waits in select() for something that is
\* going to happen: TCP connects or gives up, or the server that has requests
\* to read makes room (HandleMessage).
THEOREM SelectNotForEver == Spec => []SelectIsEnded
<1>1. SafeInv /\ FullByRequests => SelectIsEnded
  <2> SUFFICES ASSUME TypeOK, Connection, FullByRequests, mUserSocket, ~Returns,
                      conn # "connecting"
               PROVE  Serving /\ toServer # << >>
    BY DEF SafeInv, SelectIsEnded
  <2>1. conn \notin {"none", "closed", "failed"}
    BY DEF Connection, Returns
  <2>2. conn = "open" BY <2>1 DEF TypeOK
  <2>3. full /\ ~ended BY <2>2 DEF Returns, Readable, Writable
  <2> QED BY <2>2, <2>3 DEF Serving, FullByRequests
<1> QED BY <1>1, SafeHolds, FullHolds, PTL

=============================================================================
