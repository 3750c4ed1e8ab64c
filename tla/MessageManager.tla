--------------------------- MODULE MessageManager ---------------------------
(***************************************************************************)
(* CMessageManager (cmessagemanager.cpp): the client's two buffers.  The   *)
(* send buffer only ever holds whole requests.  The receive buffer is      *)
(* modelled with its memory, because GetOneMessageBuff reads mSize at its  *)
(* place in the header before it knows that so much has arrived: what it   *)
(* reads then is what an earlier message left there.                       *)
(*                                                                         *)
(* A message is delivered in units: the first holds mID, the second mSize, *)
(* the others the rest.  A unit is known by its message and its place.     *)
(***************************************************************************)
EXTENDS Naturals, Sequences

CONSTANTS
  Replies,      \* messages the server sends
  Size,         \* mSize of each of them: all are equally long
  SizeAt,       \* the unit that holds mSize
  Chunk,        \* MAX_SOCKET_BUFF_SIZE: the most one recv() returns
  SendRoom,     \* requests that fit into mSendBuff
  Zero,         \* the content of memory never written
  Garbage       \* what ProcessMessage is given when units are cut wrongly

MAX_SOCKET_BUFF_LENGTH == 2 * Chunk + 1

ASSUME MessageManagerAssumption ==
  /\ SizeAt \in Nat /\ Size \in Nat /\ Chunk \in Nat /\ SendRoom \in Nat
  /\ 1 < SizeAt /\ SizeAt <= Size /\ Size <= Chunk
  /\ Garbage \notin Replies /\ Zero \notin Replies \X (1 .. Size)

VARIABLES
  mSendBuff,    \* requests not sent yet
  mRecvBuff,    \* the memory of the receive buffer
  mRecvLength   \* how much of it has been received and not handed over

buffers == <<mSendBuff, mRecvBuff, mRecvLength>>

Units(m) == [i \in 1 .. Size |-> <<m, i>>]
Unit == Replies \X (1 .. Size)
Memory == 1 .. MAX_SOCKET_BUFF_LENGTH

BuffersTypeOK(Request) ==
  /\ mSendBuff \in Seq(Request) /\ Len(mSendBuff) <= SendRoom
  /\ mRecvBuff \in [Memory -> Unit \cup {Zero}]
  /\ mRecvLength \in 0 .. MAX_SOCKET_BUFF_LENGTH

Init ==
  /\ mSendBuff = << >>
  /\ mRecvBuff = [a \in Memory |-> Zero]
  /\ mRecvLength = 0

\* a request that does not fit is dropped
OnSendServerBuff(request) ==
  mSendBuff' = IF Len(mSendBuff) < SendRoom THEN Append(mSendBuff, request)
                                            ELSE mSendBuff

Fits(n) == n + mRecvLength < MAX_SOCKET_BUFF_LENGTH

\* what recv() returned is added, or dropped when it does not fit
OnReadServerBuff(units) ==
  IF Fits(Len(units))
  THEN /\ mRecvBuff' = [a \in Memory |->
                          IF a \in mRecvLength + 1 .. mRecvLength + Len(units)
                          THEN units[a - mRecvLength] ELSE mRecvBuff[a]]
       /\ mRecvLength' = mRecvLength + Len(units)
  ELSE UNCHANGED <<mRecvBuff, mRecvLength>>

\* mSize as it stands in memory.  A unit of another place read as mSize may
\* have any value.
SizesInMemory ==
  IF mRecvBuff[SizeAt] = Zero THEN {0}
  ELSE IF mRecvBuff[SizeAt][2] = SizeAt THEN {Size}
  ELSE 0 .. mRecvLength + 1

\* the message GetRecvOneMessageBuff takes when it reads size n > 0
Front(n) ==
  LET front == SubSeq(mRecvBuff, 1, n) IN
  IF n = Size /\ front[1] # Zero /\ front = Units(front[1][1])
  THEN front[1][1] ELSE Garbage

NotMoved(n) == mRecvBuff                 \* mutant: the rest stays where it is
\* memmove: the rest comes to the front, what is behind it keeps its content
Moved(n) ==
  [a \in Memory |-> IF a <= mRecvLength - n THEN mRecvBuff[a + n]
                                            ELSE mRecvBuff[a]]

\* GetRecvOneMessageBuff takes a message of n > 0 units
GetRecvOneMessageBuff(n) ==
  /\ n \in SizesInMemory
  /\ 0 < n /\ n <= mRecvLength
  /\ mRecvBuff' = Moved(n)
  /\ mRecvLength' = mRecvLength - n

\* ... or nothing: nothing received, mSize too large, or mSize 0
GetNoMessage ==
  mRecvLength = 0 \/ \E n \in SizesInMemory : n = 0 \/ n > mRecvLength

=============================================================================
