------------------------------ MODULE NetSocket ------------------------------
(***************************************************************************)
(* CNetSocket (server_socket.cpp): how messages are cut out of the bytes   *)
(* of a connection.  TCP delivers the bytes in any portions; ReadData adds *)
(* a portion to mBuff and the loop of RunEpoll takes whole messages from   *)
(* its front.  A byte is known by its message and its place in it.         *)
(***************************************************************************)
EXTENDS Naturals, Sequences

CONSTANTS
  Msgs,      \* messages a client sends
  Size,      \* Size[m]: the mSize of m, its length in bytes
  Header,    \* sizeof(CMessage): a message begins with so many bytes
  Capacity,  \* MAX_SOCKET_BUFF_SIZE * 2 + 1: the room of mBuff
  Garbage,   \* what OnRecvMessage is given when bytes are cut wrongly
  MaxSent    \* bound: messages sent

ASSUME NetSocketAssumption ==
  /\ Header \in Nat \ {0} /\ Capacity \in Nat /\ MaxSent \in Nat
  /\ Header <= Capacity
  /\ Size \in [Msgs -> Header .. Capacity]
  /\ Garbage \notin Msgs

VARIABLES
  wire,    \* bytes sent and not read yet
  mBuff,   \* bytes read and not handed over yet
  closed,  \* the client has closed its end
  at,      \* RunEpoll: "wait", "cut" (in the loop), "hung_up" (DelEvent)
  sent,    \* history: messages sent
  got      \* history: messages handed to OnRecvMessage

vars == <<wire, closed, mBuff, at, sent, got>>

Bytes(m) == [i \in 1 .. Size[m] |-> <<m, i>>]
Byte == {b \in Msgs \X (1 .. Capacity) : b[2] <= Size[b[1]]}

TypeOK ==
  /\ wire \in Seq(Byte)
  /\ closed \in BOOLEAN
  /\ mBuff \in Seq(Byte) /\ Len(mBuff) <= Capacity
  /\ at \in {"wait", "cut", "hung_up"}
  /\ sent \in Seq(Msgs)
  /\ got \in Seq(Msgs \cup {Garbage})

Init ==
  /\ wire = << >> /\ mBuff = << >>
  /\ closed = FALSE
  /\ at = "wait"
  /\ sent = << >> /\ got = << >>

\* the client sends a message
Send(m) ==
  /\ ~closed
  /\ Len(sent) < MaxSent
  /\ sent' = Append(sent, m)
  /\ wire' = wire \o Bytes(m)
  /\ UNCHANGED <<closed, mBuff, at, got>>

Close ==
  /\ ~closed
  /\ closed' = TRUE
  /\ UNCHANGED <<wire, mBuff, at, sent, got>>

RoomForgotten(b) == Capacity             \* mutant: mBuffLen is not subtracted
Room(b) == Capacity - Len(b)

\* read() gets some of the bytes there are, at most what mBuff has room for
ReadData ==
  /\ at = "wait"
  /\ wire # << >>
  /\ \E n \in 1 .. Len(wire) :
       /\ n <= Room(mBuff)
       /\ mBuff' = mBuff \o SubSeq(wire, 1, n)
       /\ wire' = SubSeq(wire, n + 1, Len(wire))
  /\ at' = "cut"
  /\ UNCHANGED <<closed, sent, got>>

\* read() returns 0 at the end of the stream, and also when it is asked for 0
\* bytes because mBuff is full
NothingRead == Room(mBuff) = 0 \/ (closed /\ wire = << >>)

\* either way the loop over GetOneMessage finds nothing new, and DelEvent
HangUp ==
  /\ at = "wait"
  /\ NothingRead
  /\ at' = "hung_up"
  /\ UNCHANGED <<wire, closed, mBuff, sent, got>>

mSize(b) == Size[b[1][1]]

Whole(b) == Len(b) >= Header /\ mSize(b) <= Len(b)

Reset(b) == << >>                        \* mutant: the rest is thrown away
RestByOne(b) == SubSeq(b, mSize(b), Len(b))   \* mutant: a byte too many
Rest(b) == SubSeq(b, mSize(b) + 1, Len(b))

OnlyOne == "wait"                        \* mutant: one message per read
TryNext == "cut"

\* GetOneMessage finds a whole message, which goes to OnRecvMessage
GetOneMessage ==
  LET front == SubSeq(mBuff, 1, mSize(mBuff)) IN
  /\ at = "cut"
  /\ Whole(mBuff)
  /\ got' = Append(got, IF front = Bytes(mBuff[1][1]) THEN mBuff[1][1]
                                                      ELSE Garbage)
  /\ mBuff' = Rest(mBuff)
  /\ at' = TryNext
  /\ UNCHANGED <<wire, closed, sent>>

\* GetOneMessage returns 0 and the loop ends
NoMessage ==
  /\ at = "cut"
  /\ ~Whole(mBuff)
  /\ at' = "wait"
  /\ UNCHANGED <<wire, closed, mBuff, sent, got>>

Server == ReadData \/ HangUp \/ GetOneMessage \/ NoMessage
Next == Server \/ Close \/ \E m \in Msgs : Send(m)

Spec == Init /\ [][Next]_vars

\* RunEpoll runs for ever and epoll reports a socket that has data
FairSpec == Spec /\ WF_vars(Server)

-----------------------------------------------------------------------------
(* Properties.                                                             *)

\* Whatever portions the bytes arrive in, the server hangs up only on a client
\* that has closed and whose messages were all handed over: the loop always
\* leaves mBuff room for the next read, and no whole message stays in it.
HangsUpAtEndOnly ==
  at = "hung_up" => closed /\ Len(got) = Len(sent)

\* The server's end of the connection is a MessageChannel.
Channel == INSTANCE MessageChannel
             WITH queue <- SubSeq(sent, Len(got) + 1, Len(sent)),
                  delivered <- got
ImplementsChannel == Channel!Spec

\* Every message sent is handed over in the end: none waits in mBuff for bytes
\* that only the next message would bring.
AllHandedOver ==
  \A n \in 1 .. MaxSent : Len(sent) >= n ~> Len(got) >= n

\* Of that, what holds at every moment: when no byte is on its way and the loop
\* waits, every message sent was handed over.
NothingLeftBehind == wire = << >> /\ at = "wait" => got = sent

=============================================================================
