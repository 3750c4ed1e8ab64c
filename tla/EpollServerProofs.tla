------------------------- MODULE EpollServerProofs -------------------------
(***************************************************************************)
(* Theorems about EpollServer for any descriptors, connections and number  *)
(* of messages: its types, that events and messages reach the connection   *)
(* they belong to, and that its callbacks are those SocketEvents promises. *)
(***************************************************************************)
EXTENDS EpollServer, TLAPS

\* Each connection is in one place: new, once in the backlog, registered under
\* one descriptor, or done.
Registered ==
  /\ \A f, g \in DOMAIN mNetSocket : mNetSocket[f] = mNetSocket[g] => f = g
  /\ \A f \in DOMAIN mNetSocket : phase[mNetSocket[f]] = "served"
  /\ \A i \in DOMAIN backlog : phase[backlog[i]] = "pending"
  /\ \A i, j \in DOMAIN backlog : backlog[i] = backlog[j] => i = j

\* An event of the batch is still due when its turn comes, for the connection
\* it was reported for.
EventsDue ==
  /\ EventsAddressed
  /\ \A f \in events \ {Listen} : Readable(f)

\* messages read of connection c and not yet handed over
InHand(c) ==
  IF current.at = "read" /\ mNetSocket[current.fd] = c THEN current.left ELSE 0

\* Every message sent is handed over, in hand or unread, or was lost by a reset.
Counted ==
  /\ current.at = "read" => current.fd \in DOMAIN mNetSocket
  /\ \A c \in Conns :
       /\ got[c] + unread[c] + InHand(c) <= sent[c]
       /\ ~aborted[c] => got[c] + unread[c] + InHand(c) = sent[c]

LoopInv ==
  TypeOK /\ Registered /\ EventsDue /\ Counted /\ NoMessageLostOnClose

LEMMA LoopInit == Init => LoopInv
<1> SUFFICES ASSUME Init PROVE LoopInv OBVIOUS
<1>1. TypeOK BY EpollAssumption DEF Init, TypeOK, NoSockets, None
<1>2. Registered /\ EventsDue /\ NoMessageLostOnClose
  BY DEF Init, Registered, EventsDue, EventsAddressed, NoMessageLostOnClose,
         NoSockets
<1>3. Counted BY DEF Init, Counted, InHand, None
<1> QED BY <1>1, <1>2, <1>3 DEF LoopInv

\* The numbers Counted adds up.
LEMMA Numbers ==
  ASSUME LoopInv, NEW c \in Conns
  PROVE  /\ got[c] \in Nat /\ unread[c] \in Nat /\ sent[c] \in Nat
         /\ InHand(c) \in Nat
         /\ got[c] <= MaxSent /\ unread[c] <= MaxSent /\ sent[c] <= MaxSent
<1>1. TypeOK BY DEF LoopInv
<1>2. InHand(c) \in Nat
  BY <1>1, EpollAssumption DEF TypeOK, InHand, None, Accepting
<1> QED BY <1>1, <1>2, EpollAssumption DEF TypeOK

-----------------------------------------------------------------------------
(* The clients and the kernel.                                             *)

\* What the server keeps has its type after a step of a client.
LEMMA ServerTyped ==
  ASSUME TypeOK, UNCHANGED server
  PROVE  (/\ DOMAIN mNetSocket \subseteq Fds
          /\ mNetSocket \in [DOMAIN mNetSocket -> Conns]
          /\ events \subseteq Fds \cup {Listen}
          /\ current \in {None, Accepting}
                         \cup [at : {"read"}, fd : Fds, left : 1 .. MaxSent]
          /\ got \in [Conns -> 0 .. MaxSent]
          /\ calls \in Nat
          /\ reported \in [DOMAIN reported -> Conns])'
BY DEF TypeOK, server, None, Accepting

LEMMA OpenKeeps ==
  ASSUME LoopInv, NEW c \in Conns, Open(c)
  PROVE  LoopInv'
<1>1. /\ TypeOK /\ phase[c] = "new" /\ UNCHANGED <<aborted, unread, sent, server>>
      /\ phase' = [phase EXCEPT ![c] = "pending"]
      /\ backlog' = Append(backlog, c)
      /\ peerOpen' = [peerOpen EXCEPT ![c] = TRUE]
  BY DEF LoopInv, Open
<1>2. TypeOK' BY <1>1, ServerTyped, SMTT(30) DEF TypeOK
<1>3. Registered'
  <2>1. /\ DOMAIN backlog' = DOMAIN backlog \cup {Len(backlog) + 1}
        /\ backlog'[Len(backlog) + 1] = c
        /\ Len(backlog) + 1 \notin DOMAIN backlog
        /\ \A i \in DOMAIN backlog : backlog'[i] = backlog[i]
                                     /\ backlog[i] \in Conns
    BY <1>1, SMTT(30) DEF TypeOK
  <2>2. \A i \in DOMAIN backlog : backlog[i] # c
    BY <1>1 DEF LoopInv, Registered
  <2>3. \A i \in DOMAIN backlog' : phase'[backlog'[i]] = "pending"
    BY <1>1, <2>1 DEF LoopInv, Registered, TypeOK
  <2>4. \A i, j \in DOMAIN backlog' : backlog'[i] = backlog'[j] => i = j
    BY <2>1, <2>2 DEF LoopInv, Registered
  <2>5. UNCHANGED mNetSocket /\ \A f \in DOMAIN mNetSocket : mNetSocket[f] \in Conns
    BY <1>1 DEF TypeOK, server
  <2>6. \A f \in DOMAIN mNetSocket : phase'[mNetSocket[f]] = "served"
    BY <1>1, <2>5 DEF LoopInv, Registered, TypeOK
  <2> QED BY <2>3, <2>4, <2>5, <2>6 DEF LoopInv, Registered
<1>4. EventsDue'
  <2>1. \A f \in DOMAIN mNetSocket : mNetSocket[f] \in Conns \ {c}
    BY <1>1 DEF LoopInv, Registered, TypeOK
  <2> QED BY <1>1, <2>1 DEF LoopInv, EventsDue, EventsAddressed, Readable, server,
                            TypeOK
<1>5. Counted' BY <1>1 DEF LoopInv, Counted, InHand, server
<1>6. NoMessageLostOnClose'
  BY <1>1 DEF LoopInv, NoMessageLostOnClose, TypeOK, server
<1> QED BY <1>2, <1>3, <1>4, <1>5, <1>6 DEF LoopInv

LEMMA SendKeeps ==
  ASSUME LoopInv, NEW c \in Conns, Send(c)
  PROVE  LoopInv'
<1>1. /\ TypeOK /\ peerOpen[c] /\ sent[c] < MaxSent
      /\ UNCHANGED <<phase, backlog, peerOpen, aborted, server>>
      /\ sent' = [sent EXCEPT ![c] = @ + 1]
      /\ unread' = [unread EXCEPT ![c] = @ + 1]
  BY DEF LoopInv, Send
<1>2. /\ unread[c] <= sent[c]
      /\ \A d \in Conns : sent'[d] = IF d = c THEN sent[d] + 1 ELSE sent[d]
      /\ \A d \in Conns : unread'[d] = IF d = c THEN unread[d] + 1 ELSE unread[d]
  BY <1>1, Numbers DEF LoopInv, Counted, TypeOK
<1>3. TypeOK'
  <2>1. unread' \in [Conns -> 0 .. MaxSent]
    <3>1. unread[c] + 1 \in 0 .. MaxSent BY <1>1, <1>2, Numbers, EpollAssumption
    <3> QED BY <1>1, <3>1 DEF TypeOK
  <2>2. sent' \in [Conns -> 0 .. MaxSent]
    <3>1. sent[c] + 1 \in 0 .. MaxSent BY <1>1, Numbers, EpollAssumption
    <3> QED BY <1>1, <3>1 DEF TypeOK
  <2> QED BY <1>1, <2>1, <2>2, ServerTyped DEF TypeOK
<1>4. Registered' BY <1>1 DEF LoopInv, Registered, server
<1>5. EventsDue'
  BY <1>1, <1>2, Numbers
     DEF LoopInv, EventsDue, EventsAddressed, Readable, server, TypeOK
<1>6. Counted'
  <2>1. \A d \in Conns : InHand(d)' = InHand(d) BY <1>1 DEF InHand, server
  <2> QED BY <1>1, <1>2, <2>1, Numbers DEF LoopInv, Counted, server
<1>7. NoMessageLostOnClose'
  BY <1>1, <1>2 DEF LoopInv, NoMessageLostOnClose, server
<1> QED BY <1>3, <1>4, <1>5, <1>6, <1>7 DEF LoopInv

LEMMA ShutKeeps ==
  ASSUME LoopInv, NEW c \in Conns, Shut(c)
  PROVE  LoopInv'
<1>1. /\ TypeOK /\ UNCHANGED <<phase, backlog, aborted, unread, sent, server>>
      /\ peerOpen' = [peerOpen EXCEPT ![c] = FALSE]
  BY DEF LoopInv, Shut
<1>2. TypeOK' BY <1>1, ServerTyped DEF TypeOK
<1>3. \A d \in Conns : ~peerOpen[d] => ~peerOpen'[d] BY <1>1 DEF TypeOK
<1>4. Registered' BY <1>1 DEF LoopInv, Registered, server
<1>5. EventsDue'
  BY <1>1, <1>3 DEF LoopInv, EventsDue, EventsAddressed, Readable, server, TypeOK
<1>6. Counted' BY <1>1 DEF LoopInv, Counted, InHand, server
<1>7. NoMessageLostOnClose'
  BY <1>1, <1>3 DEF LoopInv, NoMessageLostOnClose, server
<1> QED BY <1>2, <1>4, <1>5, <1>6, <1>7 DEF LoopInv

LEMMA AbortKeeps ==
  ASSUME LoopInv, NEW c \in Conns, Abort(c)
  PROVE  LoopInv'
<1>1. /\ TypeOK /\ UNCHANGED <<phase, backlog, sent, server>>
      /\ peerOpen' = [peerOpen EXCEPT ![c] = FALSE]
      /\ aborted' = [aborted EXCEPT ![c] = TRUE]
      /\ unread' = [unread EXCEPT ![c] = 0]
  BY DEF LoopInv, Abort
<1>2. TypeOK' BY <1>1, ServerTyped, EpollAssumption DEF TypeOK
<1>3. \A d \in Conns : /\ ~peerOpen[d] => ~peerOpen'[d]
                       /\ d = c => ~peerOpen'[d] /\ aborted'[d] /\ unread'[d] = 0
                       /\ d # c => /\ unread'[d] = unread[d]
                                   /\ aborted'[d] = aborted[d]
  BY <1>1 DEF TypeOK
<1>4. Registered' BY <1>1 DEF LoopInv, Registered, server
<1>5. EventsDue'
  BY <1>1, <1>3 DEF LoopInv, EventsDue, EventsAddressed, Readable, server, TypeOK
<1>6. Counted'
  <2>1. \A d \in Conns : InHand(d)' = InHand(d) BY <1>1 DEF InHand, server
  <2>2. ASSUME NEW d \in Conns
        PROVE  /\ got[d] + unread'[d] + InHand(d) <= sent[d]
               /\ ~aborted'[d] => got[d] + unread'[d] + InHand(d) = sent[d]
    <3>1. /\ got[d] + unread[d] + InHand(d) <= sent[d]
          /\ ~aborted[d] => got[d] + unread[d] + InHand(d) = sent[d]
      BY DEF LoopInv, Counted
    <3>2. CASE d = c BY <1>3, <3>1, <3>2, Numbers
    <3>3. CASE d # c BY <1>3, <3>1, <3>3
    <3> QED BY <3>2, <3>3
  <2> QED BY <1>1, <2>1, <2>2 DEF LoopInv, Counted, server
<1>7. NoMessageLostOnClose'
  BY <1>1, <1>3 DEF LoopInv, NoMessageLostOnClose, server
<1> QED BY <1>2, <1>4, <1>5, <1>6, <1>7 DEF LoopInv

-----------------------------------------------------------------------------
(* RunEpoll.                                                               *)

LEMMA EpollWaitKeeps == ASSUME LoopInv, EpollWait PROVE LoopInv'
<1>1. /\ TypeOK /\ current = None /\ events' = Ready
      /\ UNCHANGED <<phase, backlog, peerOpen, aborted, unread, mNetSocket,
                     current, sent, got, calls>>
      /\ reported' = [f \in ReadySockets |-> mNetSocket[f]]
      /\ ReadySockets \subseteq DOMAIN mNetSocket
  BY DEF LoopInv, EpollWait, kernel, ReadySockets
<1>2. TypeOK' BY <1>1 DEF TypeOK, Ready, None
<1>3. Registered' BY <1>1 DEF LoopInv, Registered
<1>4. EventsDue'
  BY <1>1 DEF EventsDue, EventsAddressed, Readable, Ready, ReadySockets
<1>5. Counted' BY <1>1 DEF LoopInv, Counted, InHand
<1>6. NoMessageLostOnClose' BY <1>1 DEF LoopInv, NoMessageLostOnClose
<1> QED BY <1>2, <1>3, <1>4, <1>5, <1>6 DEF LoopInv

LEMMA AcceptLoopKeeps ==
  ASSUME LoopInv, StartAccept \/ AccpetFails
  PROVE  LoopInv'
<1>1. /\ TypeOK /\ current.at # "read" /\ current' \in {None, Accepting}
      /\ events' \subseteq events
      /\ UNCHANGED <<phase, backlog, peerOpen, aborted, unread, mNetSocket,
                     sent, got, calls, reported>>
  BY DEF LoopInv, StartAccept, AccpetFails, kernel, None, Accepting
<1>2. TypeOK' BY <1>1 DEF TypeOK
<1>3. Registered' BY <1>1 DEF LoopInv, Registered
<1>4. EventsDue' BY <1>1 DEF LoopInv, EventsDue, EventsAddressed, Readable
<1>5. Counted'
  <2>1. current'.at # "read" BY <1>1 DEF None, Accepting
  <2> QED BY <1>1, <2>1 DEF LoopInv, Counted, InHand
<1>6. NoMessageLostOnClose' BY <1>1 DEF LoopInv, NoMessageLostOnClose
<1> QED BY <1>2, <1>3, <1>4, <1>5, <1>6 DEF LoopInv

\* The connection accepted is the oldest of the backlog and on no descriptor.
LEMMA AccpetKeeps ==
  ASSUME LoopInv, NEW f \in Fds, Accpet(f)
  PROVE  LoopInv'
<1> DEFINE c == Head(backlog)
<1>1. /\ TypeOK /\ current = Accepting /\ backlog # << >>
      /\ f \in Fds \ DOMAIN mNetSocket
      /\ backlog' = Tail(backlog)
      /\ phase' = [phase EXCEPT ![c] = "served"]
      /\ mNetSocket' = [g \in DOMAIN mNetSocket \cup {f} |->
                          IF g = f THEN c ELSE mNetSocket[g]]
      /\ calls' = calls + 1
      /\ UNCHANGED <<peerOpen, aborted, unread, events, current, sent, got,
                     reported>>
  BY DEF LoopInv, Accpet, FreeFds
<1>2. /\ c \in Conns /\ phase[c] = "pending" /\ c = backlog[1]
      /\ 1 \in DOMAIN backlog
      /\ DOMAIN backlog' = 1 .. Len(backlog) - 1
      /\ \A i \in DOMAIN backlog' : /\ i \in Nat /\ i + 1 \in DOMAIN backlog
                                    /\ backlog'[i] = backlog[i + 1]
                                    /\ backlog'[i] # c
  <2>1. /\ backlog \in Seq(Conns) /\ Len(backlog) \in Nat /\ Len(backlog) >= 1
        /\ c = backlog[1] /\ 1 \in DOMAIN backlog /\ c \in Conns
    BY <1>1 DEF TypeOK
  <2>2. DOMAIN backlog' = 1 .. Len(backlog) - 1
    BY <1>1, <2>1
  <2>3. \A i \in DOMAIN backlog' : /\ i \in Nat /\ i + 1 \in DOMAIN backlog
                                   /\ i + 1 # 1
                                   /\ backlog'[i] = backlog[i + 1]
    BY <1>1, <2>1, <2>2
  <2> HIDE DEF c
  <2> QED BY <2>1, <2>2, <2>3 DEF LoopInv, Registered
<1> HIDE DEF c
<1>3. \A g \in DOMAIN mNetSocket : /\ g # f
                                   /\ mNetSocket[g] \in Conns \ {c}
                                   /\ mNetSocket'[g] = mNetSocket[g]
  BY <1>1, <1>2 DEF LoopInv, Registered, TypeOK
<1>4. TypeOK'
  <2>1. backlog' \in Seq(Conns) BY <1>1 DEF TypeOK
  <2> QED BY <1>1, <1>2, <2>1 DEF TypeOK, Accepting
<1>5. Registered'
  <2>1. DOMAIN mNetSocket' = DOMAIN mNetSocket \cup {f} /\ mNetSocket'[f] = c
    BY <1>1
  <2>2. \A g, h \in DOMAIN mNetSocket' : mNetSocket'[g] = mNetSocket'[h] => g = h
    BY <1>3, <2>1 DEF LoopInv, Registered
  <2>3. \A g \in DOMAIN mNetSocket' : phase'[mNetSocket'[g]] = "served"
    BY <1>1, <1>2, <1>3, <2>1 DEF LoopInv, Registered, TypeOK
  <2>4. \A i \in DOMAIN backlog' : phase'[backlog'[i]] = "pending"
    BY <1>1, <1>2 DEF LoopInv, Registered, TypeOK
  <2>5. \A i, j \in DOMAIN backlog' : backlog'[i] = backlog'[j] => i = j
    <3> SUFFICES ASSUME NEW i \in DOMAIN backlog', NEW j \in DOMAIN backlog',
                        backlog'[i] = backlog'[j]
                 PROVE  i = j
      OBVIOUS
    <3>1. i + 1 = j + 1 BY <1>2 DEF LoopInv, Registered
    <3> QED BY <1>2, <3>1
  <2> QED BY <2>2, <2>3, <2>4, <2>5 DEF Registered
<1>6. EventsDue'
  BY <1>1, <1>3 DEF LoopInv, EventsDue, EventsAddressed, Readable
<1>7. Counted'
  <2>1. current.at # "read" BY <1>1 DEF Accepting
  <2> QED BY <1>1, <2>1 DEF LoopInv, Counted, InHand
<1>8. NoMessageLostOnClose'
  BY <1>1, <1>2 DEF LoopInv, NoMessageLostOnClose, TypeOK
<1> QED BY <1>4, <1>5, <1>6, <1>7, <1>8 DEF LoopInv

\* What is read moves from unread to in hand; no other event of the batch is
\* for the same connection.
LEMMA ReadDataKeeps ==
  ASSUME LoopInv, NEW f \in Fds, ReadData(f)
  PROVE  LoopInv'
<1> DEFINE c == mNetSocket[f]
<1>1. PICK n \in 1 .. unread[c] :
        /\ unread' = [unread EXCEPT ![c] = @ - n]
        /\ current' = [at |-> "read", fd |-> f, left |-> n]
  BY DEF ReadData
<1>2. /\ TypeOK /\ current = None /\ f \in events /\ f \in DOMAIN mNetSocket
      /\ events' = events \ {f}
      /\ UNCHANGED <<phase, backlog, peerOpen, aborted, mNetSocket, sent, got,
                     calls, reported>>
      /\ c \in Conns
  BY DEF LoopInv, ReadData, Handled, TypeOK
<1>3. /\ \A g \in DOMAIN mNetSocket : g # f => mNetSocket[g] # c
      /\ \A d \in Conns : unread'[d] = IF d = c THEN unread[d] - n ELSE unread[d]
      /\ n \in 1 .. MaxSent
      /\ unread[c] - n \in 0 .. MaxSent
  BY <1>1, <1>2, EpollAssumption DEF LoopInv, Registered, TypeOK
<1>4. TypeOK'
  <2>1. unread' \in [Conns -> 0 .. MaxSent] BY <1>1, <1>2, <1>3 DEF TypeOK
  <2> HIDE DEF c
  <2> QED BY <1>1, <1>2, <1>3, <2>1 DEF TypeOK
<1>5. Registered' BY <1>2 DEF LoopInv, Registered
<1>6. EventsDue'
  <2>1. \A g \in events' \ {Listen} :
          g \in DOMAIN mNetSocket /\ mNetSocket[g] \in Conns \ {c}
    BY <1>2, <1>3 DEF LoopInv, EventsDue, EventsAddressed, TypeOK
  <2> QED BY <1>2, <1>3, <2>1
          DEF LoopInv, EventsDue, EventsAddressed, Readable
<1>7. Counted'
  <2>1. \A d \in Conns : /\ InHand(d) = 0
                         /\ InHand(d)' = IF d = c THEN n ELSE 0
    BY <1>1, <1>2 DEF InHand, None
  <2>2. ASSUME NEW d \in Conns
        PROVE  got[d] + unread'[d] + InHand(d)'
               = got[d] + unread[d] + InHand(d)
    BY <1>3, <2>1, <2>2, Numbers
  <2>3. current'.fd \in DOMAIN mNetSocket' BY <1>1, <1>2
  <2> QED BY <1>2, <2>2, <2>3 DEF LoopInv, Counted
<1>8. NoMessageLostOnClose' BY <1>2 DEF LoopInv, NoMessageLostOnClose
<1> QED BY <1>4, <1>5, <1>6, <1>7, <1>8 DEF LoopInv

LEMMA OnRecvMessageKeeps ==
  ASSUME LoopInv, OnRecvMessage
  PROVE  LoopInv'
<1> DEFINE c == mNetSocket[current.fd]
<1>1. /\ TypeOK /\ current.at = "read"
      /\ got' = [got EXCEPT ![c] = @ + 1]
      /\ current' = IF current.left - 1 = 0 THEN None
                    ELSE [current EXCEPT !.left = current.left - 1]
      /\ calls' = calls + 1
      /\ UNCHANGED <<phase, backlog, peerOpen, aborted, unread, mNetSocket,
                     events, sent, reported>>
  BY DEF LoopInv, OnRecvMessage, AfterOne, kernel
<1>2. /\ current \in [at : {"read"}, fd : Fds, left : 1 .. MaxSent]
      /\ current.fd \in DOMAIN mNetSocket /\ c \in Conns
  BY <1>1 DEF LoopInv, TypeOK, Counted, None, Accepting
<1>3. \A d \in Conns : /\ got'[d] = IF d = c THEN got[d] + 1 ELSE got[d]
                       /\ InHand(d) = IF d = c THEN current.left ELSE 0
                       /\ InHand(d)' = IF d = c THEN current.left - 1 ELSE 0
  <2>1. \A d \in Conns : /\ got'[d] = IF d = c THEN got[d] + 1 ELSE got[d]
                         /\ InHand(d) = IF d = c THEN current.left ELSE 0
    BY <1>1, <1>2 DEF TypeOK, InHand
  <2>2. CASE current.left - 1 = 0 BY <1>1, <2>1, <2>2 DEF InHand, None
  <2>3. CASE current.left - 1 # 0
    <3>1. /\ current'.at = "read" /\ current'.fd = current.fd
          /\ current'.left = current.left - 1
      BY <1>1, <1>2, <2>3
    <3> QED BY <1>1, <2>1, <3>1 DEF InHand
  <2> QED BY <2>2, <2>3
<1>4. /\ got[c] + 1 <= sent[c] /\ phase[c] = "served"
  BY <1>2, <1>3, Numbers DEF LoopInv, Counted, Registered
<1> HIDE DEF c
<1>5. TypeOK'
  <2>1. got[c] + 1 \in 0 .. MaxSent BY <1>2, <1>4, Numbers, EpollAssumption
  <2>2. got' \in [Conns -> 0 .. MaxSent] BY <1>1, <2>1 DEF TypeOK
  <2>3. current' \in {None, Accepting}
                     \cup [at : {"read"}, fd : Fds, left : 1 .. MaxSent]
    BY <1>1, <1>2, EpollAssumption
  <2> QED BY <1>1, <2>2, <2>3 DEF TypeOK
<1>6. Registered' BY <1>1 DEF LoopInv, Registered
<1>7. EventsDue' BY <1>1 DEF LoopInv, EventsDue, EventsAddressed, Readable
<1>8. Counted'
  <2>1. ASSUME NEW d \in Conns
        PROVE  got'[d] + unread[d] + InHand(d)' = got[d] + unread[d] + InHand(d)
    BY <1>2, <1>3, Numbers
  <2>2. current'.at = "read" => current'.fd = current.fd
    BY <1>1, <1>2 DEF None
  <2> QED BY <1>1, <1>2, <2>1, <2>2 DEF LoopInv, Counted
<1>9. NoMessageLostOnClose'
  BY <1>1, <1>3, <1>4 DEF LoopInv, NoMessageLostOnClose
<1> QED BY <1>5, <1>6, <1>7, <1>8, <1>9 DEF LoopInv

\* A connection is closed when its event was due and nothing was left to read:
\* the client has closed, and everything it sent was handed over.
LEMMA DelEventKeeps ==
  ASSUME LoopInv, NEW f \in Fds, DelEvent(f)
  PROVE  LoopInv'
<1> DEFINE c == mNetSocket[f]
<1>1. /\ TypeOK /\ current = None /\ f \in events \ {Listen}
      /\ f \in DOMAIN mNetSocket => unread[c] = 0
      /\ phase' = [d \in Conns |-> IF f \in DOMAIN mNetSocket /\ c = d
                                   THEN "done" ELSE phase[d]]
      /\ mNetSocket' = [g \in DOMAIN mNetSocket \ {f} |-> mNetSocket[g]]
      /\ events' = events \ {f}
      /\ calls' = calls + 1
      /\ UNCHANGED <<backlog, peerOpen, aborted, unread, current, sent, got,
                     reported>>
  BY DEF LoopInv, DelEvent, NothingRead, Handled
<1>2. /\ f \in DOMAIN mNetSocket /\ c \in Conns
      /\ unread[c] = 0 /\ ~peerOpen[c] /\ phase[c] = "served"
      /\ \A d \in Conns : phase'[d] = IF d = c THEN "done" ELSE phase[d]
      /\ \A g \in DOMAIN mNetSocket : g # f => mNetSocket[g] # c
  BY <1>1 DEF LoopInv, EventsDue, EventsAddressed, Readable, TypeOK, Registered
<1> HIDE DEF c
<1>3. TypeOK' BY <1>1, <1>2 DEF TypeOK, None
<1>4. Registered'
  <2>1. \A i \in DOMAIN backlog : backlog[i] \in Conns \ {c}
    BY <1>1, <1>2 DEF LoopInv, Registered, TypeOK
  <2>2. \A g \in DOMAIN mNetSocket' : /\ g \in DOMAIN mNetSocket
                                      /\ mNetSocket'[g] = mNetSocket[g]
                                      /\ mNetSocket[g] \in Conns \ {c}
    BY <1>1, <1>2 DEF TypeOK
  <2> QED BY <1>1, <1>2, <2>1, <2>2 DEF LoopInv, Registered
<1>5. EventsDue'
  BY <1>1, <1>2 DEF LoopInv, EventsDue, EventsAddressed, Readable
<1>6. Counted'
  <2>1. current.at # "read" BY <1>1 DEF None
  <2> QED BY <1>1, <2>1 DEF LoopInv, Counted, InHand
<1>7. NoMessageLostOnClose'
  <2>1. aborted[c] \/ got[c] = sent[c]
    <3>1. InHand(c) = 0 BY <1>1 DEF InHand, None
    <3> QED BY <1>2, <3>1, Numbers DEF LoopInv, Counted
  <2> QED BY <1>1, <1>2, <2>1 DEF LoopInv, NoMessageLostOnClose
<1> QED BY <1>3, <1>4, <1>5, <1>6, <1>7 DEF LoopInv

LEMMA LoopNext == ASSUME LoopInv, [Next]_vars PROVE LoopInv'
<1>1. CASE UNCHANGED vars
  BY <1>1 DEF vars, kernel, LoopInv, TypeOK, Registered, EventsDue,
              EventsAddressed, Readable, Counted, InHand, NoMessageLostOnClose
<1>2. CASE Clients
  BY <1>2, OpenKeeps, SendKeeps, ShutKeeps, AbortKeeps DEF Clients
<1>3. CASE RunEpoll
  BY <1>3, EpollWaitKeeps, AcceptLoopKeeps, AccpetKeeps, ReadDataKeeps,
     OnRecvMessageKeeps, DelEventKeeps DEF RunEpoll
<1> QED BY <1>1, <1>2, <1>3 DEF Next

LEMMA LoopInvHolds == Spec => []LoopInv
BY LoopInit, LoopNext, PTL DEF Spec

\* The types of the loop's variables and of the kernel's.
THEOREM LoopTypeCorrect == Spec => []TypeOK
<1>1. LoopInv => TypeOK BY DEF LoopInv
<1> QED BY <1>1, LoopInvHolds, PTL

\* No event of a batch is ever handled for another connection than the one it
\* was reported for, however descriptors are reused.
THEOREM EventsReachTheirConnection == Spec => []EventsAddressed
<1>1. LoopInv => EventsAddressed BY DEF LoopInv, EventsDue
<1> QED BY <1>1, LoopInvHolds, PTL

\* A connection is closed only after its client, with every message handed over
\* unless the client reset it.
THEOREM NothingLostOnClose == Spec => []NoMessageLostOnClose
<1>1. LoopInv => NoMessageLostOnClose BY DEF LoopInv
<1> QED BY <1>1, LoopInvHolds, PTL

-----------------------------------------------------------------------------
(* The callbacks implement SocketEvents.                                   *)

LEMMA EventsInit == Init => Events!Init
BY DEF Init, Events!Init, NoSockets

LEMMA EventsNext ==
  ASSUME LoopInv, [Next]_vars
  PROVE  [Events!Next]_Events!evVars
<1> DEFINE ended == {c \in Conns : phase[c] = "done"}
<1> USE DEF Events!evVars
<1>1. CASE UNCHANGED vars BY <1>1 DEF vars, kernel
<1>2. ASSUME NEW c \in Conns, Open(c) \/ Send(c) \/ Shut(c) \/ Abort(c)
      PROVE  UNCHANGED Events!evVars
  <2>1. UNCHANGED <<mNetSocket, got, calls>>
    BY <1>2 DEF Open, Send, Shut, Abort, server
  <2>2. phase' = phase \/ (phase[c] = "new" /\ phase' = [phase EXCEPT ![c] = "pending"])
    BY <1>2 DEF Open, Send, Shut, Abort
  <2>3. ended' = ended BY <2>2 DEF LoopInv, TypeOK
  <2> QED BY <2>1, <2>3
<1>3. CASE EpollWait \/ StartAccept \/ AccpetFails
  BY <1>3 DEF EpollWait, StartAccept, AccpetFails, kernel
<1>4. ASSUME NEW f \in Fds, Accpet(f)
      PROVE  Events!OnConnectSocket(f, Head(backlog)) /\ Head(backlog) \in Conns
  <2> DEFINE c == Head(backlog)
  <2>1. /\ c \in Conns /\ c = backlog[1] /\ 1 \in DOMAIN backlog
    BY <1>4 DEF LoopInv, TypeOK, Accpet
  <2>2. phase[c] = "pending" BY <2>1 DEF LoopInv, Registered
  <2>3. ended' = ended BY <1>4, <2>1, <2>2 DEF Accpet, LoopInv, TypeOK
  <2>4. \A g \in DOMAIN mNetSocket : mNetSocket[g] # c
    BY <2>2 DEF LoopInv, Registered
  <2> QED BY <1>4, <2>1, <2>2, <2>3, <2>4
          DEF Accpet, FreeFds, Events!OnConnectSocket, Events!Call
<1>5. ASSUME NEW f \in Fds, ReadData(f) PROVE UNCHANGED Events!evVars
  BY <1>5 DEF ReadData
<1>6. CASE OnRecvMessage
  <2>1. current.fd \in Fds /\ current.fd \in DOMAIN mNetSocket
    BY <1>6 DEF OnRecvMessage, LoopInv, Counted, TypeOK
  <2>2. Events!OnRecvMessage(current.fd)
    BY <1>6, <2>1 DEF OnRecvMessage, kernel, Events!OnRecvMessage, Events!Call
  <2> QED BY <2>1, <2>2 DEF Events!Next
<1>7. ASSUME NEW f \in Fds, DelEvent(f) PROVE Events!OnDisConnectSokcet(f)
  <2>1. f \in DOMAIN mNetSocket /\ mNetSocket[f] \in Conns
    BY <1>7 DEF DelEvent, LoopInv, EventsDue, EventsAddressed, TypeOK
  <2>2. ended' = ended \cup {mNetSocket[f]}
    BY <1>7, <2>1 DEF DelEvent
  <2> QED BY <1>7, <2>1, <2>2 DEF DelEvent, Events!OnDisConnectSokcet, Events!Call
<1>8. CASE Next
  BY <1>2, <1>3, <1>4, <1>5, <1>6, <1>7, <1>8
     DEF Next, RunEpoll, Clients, Events!Next
<1> QED BY <1>1, <1>8

\* Each step of the loop, the kernel and the clients is a callback SocketEvents
\* allows, or none.
THEOREM CallbacksAsPromised == Spec => ImplementsSocketEvents
BY EventsInit, EventsNext, LoopInvHolds, PTL
   DEF Spec, ImplementsSocketEvents, Events!Spec

=============================================================================
