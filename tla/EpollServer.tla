----------------------------- MODULE EpollServer -----------------------------
(***************************************************************************)
(* CMyEpoll (server_socket.cpp): the loop that accepts connections, reads  *)
(* them and calls CClientHandle back, against the kernel and the clients.  *)
(* A connection has an identity of its own here; the server knows it only  *)
(* by its descriptor, which the kernel hands out again after close().      *)
(* Messages are whole here; how they are cut out of the byte stream is     *)
(* NetSocket's matter.                                                     *)
(*                                                                         *)
(* epoll_wait is asked for at most 1024 events: enough for every           *)
(* descriptor a process has by default, so a batch holds all that is ready.*)
(***************************************************************************)
EXTENDS Naturals, Sequences, FiniteSets

CONSTANTS
  Fds,        \* descriptors accept() may return
  Listen,     \* mListenSocket's descriptor
  Conns,      \* connections the clients open
  MaxSent,    \* bound: messages a client sends on one connection
  Silent      \* bound: connections whose clients send nothing

ASSUME EpollAssumption ==
  Listen \notin Fds /\ MaxSent \in Nat /\ Silent \subseteq Conns

VARIABLES
  phase,      \* kernel: "new", "pending" (in the backlog), "served", "done"
  backlog,    \* kernel: the connections to accept, oldest first
  peerOpen,   \* kernel: the client has not closed its end
  aborted,    \* kernel: the client reset the connection
  unread,     \* kernel: messages received and not yet read
  mNetSocket, \* the registered descriptors, with the connection of each
  events,     \* descriptors of the current batch not handled yet
  current,    \* the event being handled
  sent,       \* history: messages sent on a connection
  got,        \* history: messages handed to OnRecvMessage
  calls,      \* history: callbacks made
  reported    \* history: whose event each descriptor in `events' stands for

kernel == <<phase, backlog, peerOpen, aborted, unread>>
vars == <<kernel, mNetSocket, events, current, sent, got, calls, reported>>

None   == [at |-> "none"]
Accepting == [at |-> "accept"]

TypeOK ==
  /\ phase \in [Conns -> {"new", "pending", "served", "done"}]
  /\ backlog \in Seq(Conns)
  /\ peerOpen \in [Conns -> BOOLEAN]
  /\ aborted \in [Conns -> BOOLEAN]
  /\ unread \in [Conns -> 0 .. MaxSent]
  /\ DOMAIN mNetSocket \subseteq Fds
  /\ mNetSocket \in [DOMAIN mNetSocket -> Conns]
  /\ events \subseteq Fds \cup {Listen}
  /\ current \in {None, Accepting}
                 \cup [at : {"read"}, fd : Fds, left : 1 .. MaxSent]
  /\ sent \in [Conns -> 0 .. MaxSent]
  /\ got \in [Conns -> 0 .. MaxSent]
  /\ calls \in Nat
  /\ reported \in [DOMAIN reported -> Conns]

NoSockets == [f \in {} |-> 0]
FreeFds == Fds \ DOMAIN mNetSocket

Init ==
  /\ phase = [c \in Conns |-> "new"]
  /\ backlog = << >>
  /\ peerOpen = [c \in Conns |-> FALSE]
  /\ aborted = [c \in Conns |-> FALSE]
  /\ unread = [c \in Conns |-> 0]
  /\ mNetSocket = NoSockets
  /\ events = {}
  /\ current = None
  /\ sent = [c \in Conns |-> 0]
  /\ got = [c \in Conns |-> 0]
  /\ calls = 0
  /\ reported = NoSockets

-----------------------------------------------------------------------------
(* The clients and the kernel.                                             *)

server == <<mNetSocket, events, current, got, calls, reported>>

Open(c) ==
  /\ phase[c] = "new"
  /\ phase' = [phase EXCEPT ![c] = "pending"]
  /\ backlog' = Append(backlog, c)
  /\ peerOpen' = [peerOpen EXCEPT ![c] = TRUE]
  /\ UNCHANGED <<aborted, unread, sent, server>>

Send(c) ==
  /\ peerOpen[c]
  /\ c \notin Silent /\ sent[c] < MaxSent
  /\ sent' = [sent EXCEPT ![c] = @ + 1]
  /\ unread' = [unread EXCEPT ![c] = @ + 1]
  /\ UNCHANGED <<phase, backlog, peerOpen, aborted, server>>

Shut(c) ==
  /\ peerOpen[c]
  /\ peerOpen' = [peerOpen EXCEPT ![c] = FALSE]
  /\ UNCHANGED <<phase, backlog, aborted, unread, sent, server>>

\* the client resets the connection: what was not read is lost
Abort(c) ==
  /\ peerOpen[c]
  /\ peerOpen' = [peerOpen EXCEPT ![c] = FALSE]
  /\ aborted' = [aborted EXCEPT ![c] = TRUE]
  /\ unread' = [unread EXCEPT ![c] = 0]
  /\ UNCHANGED <<phase, backlog, sent, server>>

-----------------------------------------------------------------------------
(* RunEpoll.                                                               *)

\* a read would not block: there is data, or the end of the stream
Readable(f) == unread[mNetSocket[f]] > 0 \/ ~peerOpen[mNetSocket[f]]

ReadySockets == {f \in DOMAIN mNetSocket : Readable(f)}   \* mutant: no listener
Ready == ReadySockets \cup {l \in {Listen} : backlog # << >>}

EpollWait ==
  /\ events = {} /\ current = None
  /\ events' = Ready
  /\ reported' = [f \in ReadySockets |-> mNetSocket[f]]
  /\ UNCHANGED <<kernel, mNetSocket, current, sent, got, calls>>

HandledKept(f) == events                 \* mutant: handled twice
Handled(f) == events \ {f}

\* the event of the listening socket: accept until accept fails
StartAccept ==
  /\ current = None
  /\ Listen \in events
  /\ events' = events \ {Listen}
  /\ current' = Accepting
  /\ UNCHANGED <<kernel, mNetSocket, sent, got, calls, reported>>

\* one turn of the loop: accept, AddEvent and OnConnectSocket
Accpet(f) ==
  LET c == Head(backlog) IN
  /\ current = Accepting
  /\ backlog # << >>
  /\ f \in FreeFds
  /\ backlog' = Tail(backlog)
  /\ phase' = [phase EXCEPT ![c] = "served"]
  /\ mNetSocket' = [g \in DOMAIN mNetSocket \cup {f} |->
                      IF g = f THEN c ELSE mNetSocket[g]]
  /\ calls' = calls + 1
  /\ UNCHANGED <<peerOpen, aborted, unread, events, current, sent, got,
                 reported>>

\* accept fails: no connection is waiting, or no descriptor is free
AccpetFails ==
  /\ current = Accepting
  /\ backlog = << >> \/ FreeFds = {}
  /\ current' = None
  /\ UNCHANGED <<kernel, mNetSocket, events, sent, got, calls, reported>>

\* read() returns some of what the client sent
ReadData(f) ==
  /\ current = None
  /\ f \in events \cap DOMAIN mNetSocket
  /\ \E n \in 1 .. unread[mNetSocket[f]] :
       /\ unread' = [unread EXCEPT ![mNetSocket[f]] = @ - n]
       /\ current' = [at |-> "read", fd |-> f, left |-> n]
  /\ events' = Handled(f)
  /\ UNCHANGED <<phase, backlog, peerOpen, aborted, mNetSocket, sent, got,
                 calls, reported>>

\* the GetOneMessage loop: one message, one callback
AfterFirst(n) == 0                       \* mutant: no loop
AfterNone(n) == n                        \* mutant: the buffer is not shifted
AfterOne(n) == n - 1

OnRecvMessage ==
  LET left == AfterOne(current.left) IN
  /\ current.at = "read"
  /\ got' = [got EXCEPT ![mNetSocket[current.fd]] = @ + 1]
  /\ current' = IF left = 0 THEN None ELSE [current EXCEPT !.left = left]
  /\ calls' = calls + 1
  /\ UNCHANGED <<kernel, mNetSocket, events, sent, reported>>

\* nothing could be read, or the descriptor is not registered: close it and
\* call OnDisConnectSokcet
NothingRead(f) == f \in DOMAIN mNetSocket => unread[mNetSocket[f]] = 0

IgnoreEnd(f) ==                          \* mutant: 0 bytes are no end
  /\ current = None
  /\ f \in events \ {Listen}
  /\ NothingRead(f)
  /\ events' = Handled(f)
  /\ UNCHANGED <<kernel, mNetSocket, current, sent, got, calls, reported>>

DelEvent(f) ==
  /\ current = None
  /\ f \in events \ {Listen}
  /\ NothingRead(f)
  /\ phase' = [c \in Conns |->
                 IF f \in DOMAIN mNetSocket /\ mNetSocket[f] = c
                 THEN "done" ELSE phase[c]]
  /\ mNetSocket' = [g \in DOMAIN mNetSocket \ {f} |-> mNetSocket[g]]
  /\ events' = Handled(f)
  /\ calls' = calls + 1
  /\ UNCHANGED <<backlog, peerOpen, aborted, unread, current, sent, got,
                 reported>>

-----------------------------------------------------------------------------
RunEpoll ==
  \/ EpollWait \/ StartAccept \/ AccpetFails \/ OnRecvMessage
  \/ \E f \in Fds : Accpet(f) \/ ReadData(f) \/ DelEvent(f)

Clients == \E c \in Conns : Open(c) \/ Send(c) \/ Shut(c) \/ Abort(c)

Next == RunEpoll \/ Clients

Spec == Init /\ [][Next]_vars

\* main() calls Run() for ever: the loop never stops, clients may.
FairSpec == Spec /\ WF_vars(RunEpoll)

-----------------------------------------------------------------------------
(* Properties.                                                             *)

\* An event of the batch is handled for the connection it was reported for: a
\* descriptor closed and handed out again while the batch is worked off never
\* takes over the event of its predecessor (RunEpoll, DelEvent, AddEvent).
EventsAddressed ==
  \A f \in events \ {Listen} :
    f \in DOMAIN mNetSocket /\ mNetSocket[f] = reported[f]

\* A connection the server closed had every message delivered, also those the
\* client sent just before it closed, and was closed only after the client
\* (read returns 0 only when everything before it was read).
NoMessageLostOnClose ==
  \A c \in Conns : phase[c] = "done" =>
    ~peerOpen[c] /\ (aborted[c] \/ got[c] = sent[c])

\* The callbacks are those SocketEvents promises to the scene.
Events == INSTANCE SocketEvents
            WITH owner <- mNetSocket,
                 ended <- {c \in Conns : phase[c] = "done"}
ImplementsSocketEvents == Events!Spec

\* A served connection whose client has closed is released, so its descriptor
\* becomes free, also while no descriptor is left to accept with.
ClosedIsReleased ==
  \A c \in Conns : phase[c] = "served" /\ ~peerOpen[c] ~> phase[c] = "done"

\* What a served client sent is handed over in the end, unless it resets.
SentIsDelivered ==
  \A c \in Conns : \A n \in 1 .. MaxSent :
    phase[c] = "served" /\ sent[c] >= n ~> got[c] >= n \/ aborted[c]

\* A connection in the backlog is accepted, or finds every descriptor in use.
PendingIsAccepted ==
  \A c \in Conns : phase[c] = "pending" ~> phase[c] # "pending" \/ FreeFds = {}

=============================================================================
