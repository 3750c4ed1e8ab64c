------------------------------- MODULE Client -------------------------------
(***************************************************************************)
(* The client: CSocketModule and CLoginModule, over MessageManager, and    *)
(* the turn CMainLogic::OnTimer makes of them once a second.  Everything   *)
(* runs in the thread of the user interface; the network and the server    *)
(* act between any two of its steps.                                       *)
(*                                                                         *)
(* The server is what NetSocket, SceneLogic and CNetSocket::WriteData make *)
(* of it at the other end of the connection: it takes requests in order,   *)
(* answers each with a response, which a notify may follow, and ignores    *)
(* how much of them write() took.                                          *)
(***************************************************************************)
EXTENDS MessageManager

CONSTANTS
  MaxAsked,  \* bound: login requests the user makes
  Faults     \* the faults the environment may inject

Requests == 1 .. MaxAsked
Part == 0                \* a request of which send() took only a part, and what
                         \* the server makes of it and of what follows
Response(r) == [req |-> r, kind |-> "response"]
Notify(r)   == [req |-> r, kind |-> "notify"]
Reply == [req : Requests \cup {Part}, kind : {"response", "notify"}]

ASSUME ClientAssumption ==
  /\ MaxAsked \in Nat
  /\ Replies = Reply
  /\ Faults \subseteq {"bad_config", "no_socket", "refused", "server_ends",
                       "full", "short_write", "lost_write"}

VARIABLES
  mState,       \* emConnect_Init, _Info or _Con
  mCurNum,      \* sockets in use, as the code counts them
  mUserSocket,  \* the socket is in the set select() is given
  turn,         \* OnTimer: "idle", "handle", "recv", "send", "dispatch"
  writable,     \* select() put the socket into writeFds
  conn,         \* "none", "connecting", "open", "failed", "closed"
  full,         \* no room to send until the server has read something
  ended,        \* the server has closed its end, or died
  toServer,     \* requests and parts on their way to the server
  owed,         \* replies of the handler that runs at the server
  wire,         \* units on their way to the client
  outOfStep,    \* the server misreads the client's stream
  cut,          \* the client misreads the server's stream
  asked,        \* history: requests the user made
  written,      \* history: replies written whole before the stream was cut
  lost,         \* history: a reply was written in part or not at all
  handled,      \* history: what ProcessMessage was given
  dropped,      \* history: a chunk did not fit into mRecvBuff
  onClosed      \* history: requests sent on a socket already closed

client  == <<mState, mCurNum, mUserSocket, turn, writable>>
server  == <<toServer, owed, outOfStep, cut>>
network == <<conn, full, ended, wire, server>>
history == <<asked, written, lost, handled, dropped, onClosed>>
vars == <<buffers, client, network, history>>

TypeOK ==
  /\ BuffersTypeOK(Requests)
  /\ mState \in {"init", "info", "con"}
  /\ mCurNum \in {0, 1}
  /\ mUserSocket \in BOOLEAN
  /\ turn \in {"idle", "handle", "recv", "send", "dispatch"}
  /\ writable \in BOOLEAN
  /\ conn \in {"none", "connecting", "open", "failed", "closed"}
  /\ full \in BOOLEAN /\ ended \in BOOLEAN
  /\ toServer \in Seq(Requests \cup {Part})
  /\ owed \in Seq(Replies)
  /\ wire \in Seq(Unit)
  /\ outOfStep \in BOOLEAN /\ cut \in BOOLEAN
  /\ asked \in 0 .. MaxAsked
  /\ written \in Seq(Replies)
  /\ lost \in BOOLEAN
  /\ handled \in Seq(Replies \cup {Garbage})
  /\ dropped \in BOOLEAN
  /\ onClosed \in Nat

\* MyMain: InitConnectInfo reads serverinfo.xml; OnInitDialog ignores a failure
ClientInit ==
  /\ Init
  /\ mState \in {"info"} \cup {s \in {"init"} : "bad_config" \in Faults}
  /\ mCurNum = 0
  /\ mUserSocket = FALSE
  /\ turn = "idle" /\ writable = FALSE
  /\ conn = "none" /\ full = FALSE /\ ended = FALSE
  /\ toServer = << >> /\ owed = << >> /\ wire = << >>
  /\ outOfStep = FALSE /\ cut = FALSE
  /\ asked = 0
  /\ written = << >> /\ lost = FALSE /\ handled = << >>
  /\ dropped = FALSE /\ onClosed = 0

-----------------------------------------------------------------------------
(* CLoginModule::LoginServer, from the login dialog.                       *)

IsConnectServer == mState = "con"

\* ClientConnectServer: a socket is made, or is not
ClientConnectServer ==
  /\ mState = "info"
  /\ conn' = "connecting"
  /\ mUserSocket' = TRUE
  /\ mCurNum' = mCurNum + 1
  /\ mState' = "con"

ConnectFails ==
  /\ ~IsConnectServer
  /\ mState = "info" => "no_socket" \in Faults
  /\ UNCHANGED <<mState, mCurNum, mUserSocket, conn, mSendBuff>>

LoginServer ==
  /\ turn = "idle"
  /\ asked < MaxAsked
  /\ asked' = asked + 1
  /\ \/ /\ IsConnectServer
        /\ OnSendServerBuff(asked + 1)
        /\ UNCHANGED <<mState, mCurNum, mUserSocket, conn>>
     \/ /\ ClientConnectServer
        /\ OnSendServerBuff(asked + 1)
     \/ ConnectFails
  /\ UNCHANGED <<mRecvBuff, mRecvLength, turn, writable, full, ended, wire,
                 server, written, lost, handled, dropped, onClosed>>

-----------------------------------------------------------------------------
(* OnTimer: HandleMessage, then DispatchServerMessage.                     *)

OnTimer ==
  /\ turn = "idle"
  /\ turn' = IF IsConnectServer /\ mCurNum > 0 THEN "handle" ELSE "dispatch"
  /\ UNCHANGED <<buffers, mState, mCurNum, mUserSocket, writable, network,
                 history>>

Readable == conn = "open" /\ (wire # << >> \/ ended)

Writable == conn = "open" /\ (~full \/ ended)

ReadOnly == Readable                     \* mutant: only reads are waited for
Returns == Readable \/ Writable \/ conn = "failed"

\* select() without a timeout: it fails at once when all sets are empty, and
\* returns when a socket is readable, writable or failed to connect
Select ==
  /\ turn = "handle"
  /\ IF mUserSocket
     THEN /\ Returns
          /\ turn' = IF Readable THEN "recv" ELSE "send"
          /\ writable' = Writable
     ELSE turn' = "dispatch" /\ UNCHANGED writable
  /\ UNCHANGED <<buffers, mState, mCurNum, mUserSocket, network, history>>

AskedFor == MAX_SOCKET_BUFF_LENGTH - 1   \* mutant: more than a chunk is read
Most == Chunk

\* recv() returns some of what has arrived
Recv ==
  /\ turn = "recv"
  /\ \E n \in 1 .. Len(wire) :
       /\ n <= Most
       /\ OnReadServerBuff(SubSeq(wire, 1, n))
       /\ wire' = SubSeq(wire, n + 1, Len(wire))
       /\ dropped' = (dropped \/ ~Fits(n))
  /\ turn' = "send"
  /\ UNCHANGED <<mSendBuff, mState, mCurNum, mUserSocket, writable, conn, full,
                 ended, server, asked, written, lost, handled, onClosed>>

CurNumOneLess == mCurNum - 1             \* mutant: counted down, twice for one
CurNumAfter == mCurNum

\* FD_CLR, shutdown, closesocket: mState and mCurNum stay as they are, and
\* what had arrived is lost
ShutDown ==
  /\ mUserSocket' = FALSE
  /\ conn' = "closed"
  /\ wire' = << >>
  /\ mCurNum' = CurNumAfter
  /\ UNCHANGED mState

\* recv() returns the end of the stream or an error
RecvFails ==
  /\ turn = "recv"
  /\ wire = << >> /\ ended
  /\ ShutDown
  /\ turn' = "send"
  /\ UNCHANGED <<buffers, writable, full, ended, server, history>>

PoppedAll == << >>                       \* mutant: the length is reset
Popped == Tail(mSendBuff)

Sending == turn = "send" /\ writable /\ mSendBuff # << >>

\* GetSendOneMessageBuff, and send() takes the request or, when it fills the
\* room there is, a part of it; the result is looked at and nothing done
SendTakes ==
  /\ Sending
  /\ conn = "open" /\ (~full \/ ended)
  /\ mSendBuff' = Popped
  /\ \E fills \in {FALSE} \cup {f \in {TRUE} : "full" \in Faults} :
     \E taken \in {Head(mSendBuff)} \cup {p \in {Part} : fills} :
       IF ended THEN UNCHANGED <<full, toServer>>
       ELSE full' = fills /\ toServer' = Append(toServer, taken)
  /\ UNCHANGED <<mRecvBuff, mRecvLength, client, conn, ended, owed, wire,
                 outOfStep, cut, history>>

LoopNotLeft == "send"                    \* mutant: no break
AfterError == "dispatch"

\* send() fails: the socket is closed, the server has ended, or there is no
\* room (Winsock does not set errno to EAGAIN, so that counts as an error)
SendFails ==
  /\ Sending
  /\ conn = "closed" \/ ended \/ full
  /\ mSendBuff' = Popped
  /\ onClosed' = onClosed + (IF conn = "closed" THEN 1 ELSE 0)
  /\ ShutDown
  /\ turn' = AfterError
  /\ UNCHANGED <<mRecvBuff, mRecvLength, writable, full, ended, server, asked,
                 written, lost, handled, dropped>>

SendEnds ==
  /\ turn = "send"
  /\ ~writable \/ mSendBuff = << >>
  /\ turn' = "dispatch"
  /\ UNCHANGED <<buffers, mState, mCurNum, mUserSocket, writable, network,
                 history>>

\* DispatchServerMessage: nMsgNum is never counted down, so all there is
DispatchServerMessage ==
  /\ turn = "dispatch"
  /\ \E n \in 1 .. mRecvLength :
       /\ GetRecvOneMessageBuff(n)
       /\ handled' = Append(handled, Front(n))
  /\ UNCHANGED <<mSendBuff, client, network, asked, written, lost, dropped,
                 onClosed>>

DispatchEnds ==
  /\ turn = "dispatch"
  /\ GetNoMessage
  /\ turn' = "idle"
  /\ UNCHANGED <<buffers, mState, mCurNum, mUserSocket, writable, network,
                 history>>

HandleMessage ==
  Select \/ Recv \/ RecvFails \/ SendTakes \/ SendFails \/ SendEnds

Timer == OnTimer \/ HandleMessage \/ DispatchServerMessage \/ DispatchEnds

-----------------------------------------------------------------------------
(* The network and the server.                                             *)

Connects ==
  /\ conn = "connecting"
  /\ conn' \in {"open"} \cup {c \in {"failed"} : "refused" \in Faults}
  /\ UNCHANGED <<buffers, client, full, ended, wire, server, history>>

Serving == conn = "open" /\ ~ended

\* the server reads a request and runs its handler; behind a part of a request
\* it takes the bytes of one for the rest of the other, or for anything
TakeRequest ==
  /\ Serving
  /\ owed = << >> /\ toServer # << >>
  /\ toServer' = Tail(toServer)
  /\ outOfStep' = (outOfStep \/ Head(toServer) = Part)
  /\ \E r \in IF outOfStep' THEN {Part} ELSE {Head(toServer)} :
       owed' \in {<<Response(r)>>, <<Response(r), Notify(r)>>}
                 \cup {o \in {<< >>} : outOfStep'}
  /\ full' = FALSE
  /\ UNCHANGED <<buffers, client, conn, ended, wire, cut, history>>

\* CNetSocket::WriteData: write() takes a reply whole, or in part or not at all
\* while the client does not read; nothing remembers the rest
WriteData ==
  /\ Serving
  /\ owed # << >>
  /\ owed' = Tail(owed)
  /\ \/ /\ wire' = wire \o Units(Head(owed))
        /\ written' = IF cut THEN written ELSE Append(written, Head(owed))
        /\ UNCHANGED <<cut, lost>>
     \/ /\ "lost_write" \in Faults /\ wire # << >>
        /\ lost' = TRUE
        /\ UNCHANGED <<wire, cut, written>>
     \/ /\ "short_write" \in Faults /\ wire # << >>
        /\ \E n \in 1 .. Size - 1 :
             wire' = wire \o SubSeq(Units(Head(owed)), 1, n)
        /\ cut' = TRUE /\ lost' = TRUE
        /\ UNCHANGED written
  /\ UNCHANGED <<buffers, client, conn, full, ended, toServer, outOfStep, asked,
                 handled, dropped, onClosed>>

\* the server is killed, or closes: what it wrote still arrives or is lost
ServerEnds ==
  /\ "server_ends" \in Faults
  /\ Serving
  /\ ended' = TRUE
  /\ owed' = << >>
  /\ wire' \in {wire, << >>}
  /\ UNCHANGED <<buffers, client, conn, full, toServer, outOfStep, cut, history>>

Server == TakeRequest \/ WriteData

Next == LoginServer \/ Timer \/ Connects \/ Server \/ ServerEnds

Spec == ClientInit /\ [][Next]_vars

\* the timer goes off every second, TCP connects or gives up, and the server's
\* main loop never stops (FairSpec of EpollServer)
FairSpec == Spec /\ WF_vars(Timer) /\ WF_vars(Connects) /\ WF_vars(Server)

-----------------------------------------------------------------------------
(* Properties.                                                             *)

\* Replies reach ProcessMessage whole, once and in the order they were written,
\* in whatever portions they arrive and whatever the header's place in memory
\* held before (GetOneMessageBuff); also when the stream is cut later, for the
\* replies written before.
HandledInOrder ==
  /\ \A i \in DOMAIN handled \cap DOMAIN written : handled[i] = written[i]
  /\ cut \/ Len(handled) <= Len(written)

\* What the client makes of the replies is a LoginExchange: each answer belongs
\* to one request, and in the order of the requests.  Replies behind a cut, and
\* those to a request that reached the server in part, belong to none.
InStep == DOMAIN handled \cap DOMAIN written
Answers == [i \in {j \in InStep : written[j].req # Part} |-> handled[i]]
Exchange == INSTANCE LoginExchange WITH answered <- Answers
ImplementsLoginExchange == Exchange!Spec

\* No chunk is too large for what an earlier one left in mRecvBuff, as long as
\* the server wrote its replies whole (OnReadServerBuff would drop it).
NothingDropped == dropped => cut

\* A connection that ends costs one request of those waiting, not all: no more
\* than one is given to send() on a socket already closed (HandleMessage).
ClosedIsUsedOnce == onClosed <= 1

\* mCurNum is the number of users (CSocketModule.h), that is of sockets.
CurNumCounts == mCurNum = IF mUserSocket THEN 1 ELSE 0

\* The timer's select() has no timeout, yet it does not keep the thread of the
\* user interface for ever.
SelectReturns == turn = "handle" ~> turn # "handle"

\* Of that, the state it rests on: while select() keeps the thread, the network
\* is still to end it, or a server that runs has a request to read and will make
\* room to send by doing so.
SelectIsEnded ==
  turn = "handle" /\ mUserSocket /\ ~Returns =>
    conn = "connecting" \/ (Serving /\ toServer # << >>)

\* A request in the send buffer is answered, and the answer handed over, unless
\* the connection fails or one of the two streams loses something.
Has(s, x) == \E i \in DOMAIN s : s[i] = x
Undone == conn \in {"failed", "closed"} \/ ended \/ outOfStep \/ lost

RequestIsAnswered ==
  \A r \in Requests :
    Has(mSendBuff, r) ~> Has(handled, Response(r)) \/ Undone

\* Of that, what no step may do: a request that waits, is on its way, is being
\* served or has a response is never forgotten, whatever the others meet, until
\* the connection ends or one of the two streams is spoilt.
Underway(r) ==
  \/ Has(mSendBuff, r) \/ Has(toServer, r)
  \/ Has(owed, Response(r)) \/ Has(written, Response(r))
Spoilt == Undone \/ Has(toServer, Part)

RequestIsKept ==
  [][\A r \in Requests : Underway(r) => Underway(r)' \/ Spoilt']_vars

\* Between two turns of the timer no reply that has arrived waits in mRecvBuff
\* for the next one to push it out (DispatchServerMessage).
NothingLeftBehind ==
  turn = "idle" /\ wire = << >> /\ ~Undone => handled = written

=============================================================================
