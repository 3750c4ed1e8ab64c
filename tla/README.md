# A verification of the account server

`mysqldbserver` is a Linux server that keeps accounts and roles in MySQL and
serves game clients over TCP; `simpleclient` is its Windows client. The modules
here model both as their source is written: what each callback and each turn of a
loop does, in which order, and what happens when a statement or a connection fails or
the process is killed.
Paths below are relative to `src/mysqldbserver/mysqldbserver/` for the server and
`src/simpleclient/simpleclient/` for the client.

## 1. The system

| Component | State it keeps | Operations | Talks to |
|---|---|---|---|
| Process (`main.cpp`, `restart.sh`, `stop.sh`) | lock file, port, signals | start (with `-D`: lock, fork twice), run for ever, `kill -9` | everything |
| Event loop (`server_socket.cpp`: `CMyEpoll`, `CListenSocket`) | listening socket, `mNetSocket`, batch of events | `InitEpoll`, `RunEpoll`, `AddEvent`, `DelEvent`, `Send` | kernel; calls `CClientHandle` back |
| Framing (`server_socket.cpp`: `CNetSocket`) | `mBuff`, `mBuffLen` | `ReadData`, `GetOneMessage`, `WriteData` | called by the event loop |
| Callbacks (`clienthandle.cpp`) | none | connect, message, disconnect, send, kick | event loop and scene |
| Scene (`scenelogic.cpp`: `CSceneLogic`) | `mConnectSocket`, `mPlayerData`, `mRegisterPlayerNum`, `mLastTickCount` | `Init`, `Run`, login, create account, disconnect, `CheckTimer` | database, callbacks |
| Database access (`simplebasedata.cpp`: `CDataBase`, `CQueryResult`, `CField`) | one connection, one shared result | `Initialize`, `ExecuteSql`, `NextRow`, `EndQuery` | MySQL |
| Tables (`config/DBTable.sql`) | `tb_account`, `tb_role` | | |
| Logic modules (`clogicmodule.h`, `itemmodule.cpp`) | none | never registered (`mLogicModuleNum` is 0) | |
| Client socket (`CSocketModule.cpp`), dispatch (`cmessagemanager.cpp`) | socket, state, buffers | connect, read, write, dispatch, `ShutDown` | server |
| Client logic (`cloginmodule.cpp`, `cmainlogic.cpp`), dialogs | login state | login, create account | client socket |
| Logging, log4cpp, tinyxml, MySQL headers | | | vendored or pure output |

The server is one thread: `main` calls `CSceneLogic::Run` for ever, which checks
the timer and then runs one batch of events. A callback therefore runs to its
end before the next begins. What is hard nevertheless:

* a handler sends two or three SQL statements one by one, without a transaction;
  each can fail, the connection can break, and the process can be killed (the stop
  script uses `kill -9`) between any two;
* all statements share one result object, which a later statement may find with
  an earlier one's rows;
* a role number comes from a counter that is advanced on success and reloaded by
  `count(*)`;
* descriptors are reused, while the scene knows connections by descriptor only;
* clients connect, send, close and reset while a batch of events is worked off;
* TCP delivers the bytes of a message in any portions;
* a client's texts are put into a statement as they are (`escape_string` is not called), and
  a client may send the messages by which the event loop reports connections;
* the timer reads a clock that can be set, and keeps 32 bits of a difference;
* `restart.sh` starts a new process while the one it killed may still be there;
* the client calls `select` without a timeout in the thread of its user interface, looks
  at no error set, takes a request out of its buffer before `send`, and never connects again;
* the server's `write` may take a part of a reply or nothing, and nobody remembers.

What makes each part correct: the scene, that a name has one account, an account
one role and a player the role of the account it gave the password of, across
failures and restarts; the socket lists, that they agree with the sockets that
are open; the event loop, that every callback is for the connection it names and
nothing is lost or forgotten; the framing, that messages come out whole and in
order; the timer, that a check is neither skipped nor early; the launch, that one daemon
runs at a time, that servers following each other number roles as one, and that a start
with nothing in its way ends in a server; the client, that it hands over what the server
wrote, unchanged and in order, however its stream is cut into portions, that a broken
connection neither blocks the user interface nor eats more than one request, and that a
request is answered when nothing fails.

The parts are modelled one by one, each against a contract the next one uses: `Launch`
shows that one server registers accounts at a time, which `SceneLogic` assumes;
`SocketEvents`, implemented by `EpollServer`, is what `SceneLogic` assumes of its callbacks;
`MessageChannel`, implemented by `NetSocket`, is how `EpollServer` counts messages and how
`Client` sees the server take requests; the server's answers in `Client` are those of
`SceneLogic` (a response, after a login also a notify).

## 2. The modules

| Module | Models | Its role |
|---|---|---|
| `DataBase` | `CDataBase`, `CQueryResult`, the tables | constants, variables and operators, extended by `SceneLogic` |
| `SceneLogic` | `CSceneLogic` | the core: one action per callback or SQL statement |
| `LoginService` | what the service promises | abstract specification of `SceneLogic` |
| `EpollServer` | `CMyEpoll::RunEpoll` and its callers | one action per step of the loop, the kernel and the clients |
| `SocketEvents` | the callbacks' contract | abstract specification of `EpollServer`, what `SceneLogic` relies on |
| `NetSocket` | `CNetSocket` | bytes, buffer and the `GetOneMessage` loop |
| `MessageChannel` | a FIFO channel | abstract specification of `NetSocket` |
| `TickTimer` | `CheckTimer`, `GetTickTime` | the timer |
| `Launch` | `main`, `init_daemon`, `CSceneLogic::Init`, `restart.sh`, `stop.sh` | several processes of the program over one lock, one port and one table |
| `MessageManager` | `CMessageManager` | the client's buffers, extended by `Client` |
| `Client` | `CSocketModule`, `CLoginModule::LoginServer`, `CMainLogic::OnTimer` | the client's turn, the network and the server's `WriteData` |
| `LoginExchange` | what a user can rely on | abstract specification of `Client` |
| `SceneLogicProofs`, `SceneAccountProofs`, `SceneServiceProofs` | | theorems about `SceneLogic` |
| `EpollServerProofs`, `NetSocketProofs`, `TickTimerProofs`, `LaunchProofs`, `ClientProofs` | | theorems about the module of that name |
| `MC_*` | | instances for TLC |

### DataBase and SceneLogic

`tb_account` is a sequence: the position of a row is its auto-increment
`account_id`. `tb_role` is the set of its `role_id`s (`role_money` is never
written). `mMySql` is the connection, "up" or "lost": nothing reconnects it.
`mQueryResult` keeps what the code reads of the shared result: whether
`mRowCount > 0` and which rows are unread. A statement is a set of outcomes
(`SelectOutcomes`, `InsertOutcomes`): it succeeds, or meets one of the faults
the constant `Faults` allows:

* `sql_error`: MySQL refuses or fails the statement, the connection survives;
* `link_lost`: the connection breaks, before or after an INSERT took effect;
* `store_error`: `mysql_store_result` returns NULL for a SELECT, in which case
  `ExecuteSql` returns true and keeps the previous result; the connection may be lost
  with it, since it is `mysql_store_result` that reads the rows;
* `crash`: the process is killed, at any step.

Names and passwords are members of small sets; texts MySQL compares as equal are one
text. `ExecuteSql` writes them into the statement with `vsprintf`, and the call of
`escape_string` is commented out (`simplebasedata.cpp:105` to `109`). So there are two
kinds of text. A word (`Words`) is itself in the quotes of a SELECT; the INSERT leaves the
quotes out, and `Spelled[t]` says what MySQL stores for an unquoted word `t`: digits
become the number's usual spelling, letters are refused (`NoLiteral`). Any other text, say a
name with an apostrophe, becomes a part of the statement, and nothing is assumed of what
the statement says then: a SELECT may give any rows (of `Numbers`), none, or no
result set (`Found`); an INSERT may be refused, add any rows up to `MaxRows`, of which the
first has the role number the statement begins with (`Added`), or fail after some of them,
which the MyISAM tables keep. It is one statement all the same: `mysql_real_connect` is
called without the flag for several in one call.

A request is served by a sequence of steps, one per statement; `handler` holds
the request and the next step, so that a kill can fall between two statements and
nothing else can. `reply` is the last response and what it answers. `open` is the
environment's set of sockets; `SocketEvents` is what it is entitled to assume of
the callbacks. `CClientHandle` reports a connection and its end with messages of the same
kind a client sends, and nobody asks where one comes from. So `OnMessageConnect` and
`OnMessageDisConnect` are each run by a callback (`OnConnectSocket`, `OnDisConnectSokcet`, which
change `open`) and by a client (`OnRecvConnect`, `OnRecvDisConnect`, which do not). A player
that sends a disconnect itself is in neither list while its socket stays open, until
it sends a connect: `left` holds these sockets. `session`, `left` and `created` are history
variables: the credentials a player logged in with, those that left so, and the accounts a
client was told it has.

Left out: the five branches of `LoadPlayerData` that test the number of columns and
the field pointer (every SELECT asks for one column), the length of texts, the
time stamp of an account, and the content of messages.

### EpollServer

A connection has an identity (`Conns`); the server sees only its descriptor
(`Fds`), which the kernel hands out again after `close`. The kernel's side is the
backlog, the unread messages and whether the client closed or reset. `events` is
the part of the batch not handled yet; the order within a batch is the kernel's,
so any event may be next. The accept loop and the read loop are steps of their
own (`current`), so clients act between any two turns of them. `epoll_wait` asks
for up to 1024 events, as many as a process has descriptors by default, so a batch
holds all that is ready.

### NetSocket

A byte is known by its message and its place in it, so a wrong cut is visible.
`ReadData` takes any portion there is room for. `HangUp` is the `tBuffNum <= 0` branch: it
cannot tell the end of the stream from a read of 0 bytes into a full buffer.

### TickTimer

The unit is scaled (Interval 4 stands for 200 ms, Word 16 for 2^32). The clock may be set
either way and further than `Word`; `tInterval` keeps the low bits of the difference, as the
`unsigned int` does. `unchecked`, `steady` and `moved` are history: the time since the last
check, the time since that or the last setting, and whether there was one. The bodies
the timer would run (dropping idle sockets and players) are commented out in the code.

### Launch

A start with `-D` forks twice, so a process is a start and a generation (1 to 3). `pc` is
what it does next: take the lock, fork, bind, count the accounts, serve. The lock belongs
to the open file: `holders` are the processes that have it open, children included
(`FD_CLOEXEC` acts on `exec`, not on `fork`), and it is free when the last is gone. A
`fork` that fails ends the parent like one that succeeds. `bind` and `listen` are one step
whose result nobody looks at: with the port taken, or with connections of a dead server
in TIME_WAIT (`lingering`; `SO_REUSEADDR` is not set), the server goes on without the port
(`listen` on an unbound socket takes a port no client knows).

`kill -9` only marks a process (`doomed`): it makes no further step but keeps lock and port
until the kernel ends it, which is what `restart.sh` races with. `Ps` and `Kill` are two
steps, because the process list may be old when it is used. SIGPIPE is ignored with `-D`
only, so `ClientLeaves` can end a server started by hand.

Of a server's work only the numbering of roles is kept: a statement is sent (`Register`) and
executed later (`Execute`), possibly after its sender is dead. The INSERT may fail and write
nothing (`NotWritten`), or write the account while the handler gets an error and returns
before `++mRegisterPlayerNum`: its answer is lost, or the INSERT into `tb_role` fails
(`WrittenNotCounted`; `uncounted` holds these accounts). Names here are words, so an INSERT
adds one row. `missed` records that a `count(*)` overtook a statement of a dead server; `clear` holds the starts that found no process and no
connection of an earlier one and met no kill, failed fork or failed database since.

### MessageManager and Client

All of the client runs in the thread of its user interface: the login dialog calls
`LoginServer`, and a timer calls `OnTimer` once a second, which is one turn of `select`, one
`recv`, as many `send` as there are requests, and the dispatch of all whole messages.
`turn` is where in it the client is, so that network and server act in between.

The receive buffer is modelled with its memory. `GetOneMessageBuff` reads `mSize` as soon as
one byte has arrived, so it may read what an earlier message left at that place
(`SizesInMemory`); `Moved` is the `memmove` that leaves it there. The invariant `SizeKnown`
shows why this is harmless: every message the server sends is 16 bytes long, so an old
`mSize` has the value of the new one. A message is units: the first holds `mID`, one of the
others `mSize`.

Details of the platform that matter: `errno` is not set by Winsock, so a `send` that would
block counts as an error and closes the socket; a connection that is refused is reported in
`errorFds` only, so the client neither notices nor tries again; `mState` stays
`emConnect_Con` for ever after the first connection, so one socket is made in the life of a
client; a configuration that cannot be read (`bad_config`) is ignored by `OnInitDialog` and
leaves a client that never connects.

The server in `Client` takes requests in order, answers each (`owed`) and writes the answers
with `WriteData`, which may lose a part or the whole of one while the client does not read
(`short_write`, `lost_write`). Behind a request of which `send` took a part the server reads
the next ones out of step, and answers anything or nothing (`Part`). `written`, `lost`,
`handled`, `asked`, `dropped` and `onClosed` are history. `Answers`, which the mapping to
`LoginExchange` uses, are the replies handed over that belong to a request the server read
whole, up to where its stream was cut: behind that place nobody promises anything.

## 3. What is checked

| Run | Instance | Shows |
|---|---|---|
| `scene_faults` | 2 names, one of which is not a word; 1 socket; 3 accounts; all faults | `RoleIdNeverCollides`, `RoleRowsOwned` whatever fails and whatever a name makes of a statement |
| `scene_accounts` | 3 names, one of which MySQL refuses unquoted, 2 passwords, 2 sockets, 3 accounts; lost connections and kills; connects and disconnects sent by clients | `SocketLists`; names and roles unique, a session owns its role, a created account can log in, `LoginService` is implemented |
| `epoll` | 3 connections over 2 descriptors, one of them silent, 2 messages each | events reach the right connection, nothing is lost on close, `SocketEvents` is implemented; closed connections are released, messages handed over, the backlog drained |
| `net_socket` | messages of 2 and 4 bytes, 4 of them, buffer of 9 | `MessageChannel` is implemented, the buffer never fills, nothing stays behind: no message waits in it between two reads, and every one is handed over in the end |
| `tick_timer` | interval 4, word 16, turns of 1 to 6 units, clock set by 1 to 30 either way | no check overdue, also after the difference was cut; none early unless the clock was set |
| `launch` | 3 starts with and without `-D`, 2 accounts, all faults | one daemon at a time, role numbers not shared but for the two exceptions stated, a clear start serves |
| `client` | 2 requests, replies of 3 units, chunks of 4, all faults | replies are handed over as written, none is dropped or left behind, a closed socket is used once, no request is forgotten on its way, `LoginExchange` is implemented; `select` waits for nothing that cannot come, and returns; requests are answered |

The bounds: 3 accounts let a failed one, a complete one and one created after a restart
meet; 2 sockets let one log in while the other is between its own steps and one
descriptor be reused; 3 connections over 2 descriptors make descriptors run out and be
handed out again; 4 messages of up to 4 bytes are more than the buffer of 9
holds; a third start meets both a process being killed and one that took its place, and
two accounts are enough to share a role; two requests give up to four replies, 12 units
for a receive buffer of 9, and a chunk of 4 ends in every place of a reply; settings of up
to 30 are almost two words of 16, so a difference is cut in both directions and more than once. A
text that is not a word may bring up one number and two rows (`Numbers`, `MaxRows`): 101 is
the first role number a server gives, and a second row is what the counter does not
expect. Symmetry is used for sockets in `scene_accounts` only, which checks no liveness. Deadlock is
checked except in `net_socket`, `tick_timer`, `launch` and `launch_success`, where the instance
ends at its bounds.

`scene_accounts` leaves `sql_error`, `store_error`, the name "007" and texts that are not words
out because with them its properties fail. Runs that show how, each against a comment of
the code (none speaks of a text that is not a word, so that one has no run: the model says that
the rows of such a SELECT are any, and a login with them gets any role):

| Run | What the code does |
|---|---|
| `scene_stale_result` | A SELECT whose result cannot be stored counts as successful, and the login reads a row an earlier request left: it gets another account's role without its password (`simplebasedata.cpp:119`). |
| `scene_failed_select` | A failed SELECT counts as "no such name", and the name is registered twice (`scenelogic.cpp:352`). |
| `scene_spelling` | "007" is looked up in quotes and inserted without: it becomes a second account named 7 (`scenelogic.cpp:360`). |
| `client_cur_num` | `ShutDown` closes the socket and leaves `mCurNum` and `mState`: the client counts a connection it has not, selects over nothing and never connects again (`CSocketModule.cpp:257`). |
| `launch_success` | A server that found the port in use goes on without it and logs "Server Success !" (`server_socket.cpp:202`). |

More disagreements have no run of their own: every failure of the INSERT into `tb_account`
is answered "account exists" (`scenelogic.cpp:363`); a broken connection to MySQL is answered
"wrong account or password", for ever (`scenelogic.cpp:254`); a socket that closes before it
logs in stays in the connected list (`scenelogic.cpp:235`); after a failed INSERT into
`tb_role` `mRegisterPlayerNum` is one behind the table, and the next account shares that role
(`scenelogic.cpp:372`; `RolesNotShared` of `Launch` excepts exactly these accounts); and the comment of `GetTickTime` claims independence of system time
changes while it reads `CLOCK_REALTIME` (`ChecksSpaced` has to except a clock that was set).

Every property of a passing run has a mutant: a variant of one definition, marked
`mutant` where it stands, that makes the run fail.

### Fairness

`FairSpec` of `EpollServer` and of `NetSocket` is weak fairness of the server's loop as a whole:
`main` calls `Run` for ever with a timeout of 0, and no step of the loop waits for a
client (sockets are non-blocking). Nothing is assumed of clients. It is not strong
fairness and none is needed: a batch is finite and every ready descriptor is in it. The
accept loop ends because an instance has finitely many connections; against clients that
connect without pause the code would stay in it.

`FairSpec` of `Client` is weak fairness of the timer's turn, of the network's answer to
`connect`, and of the server. The first is Windows': the timer goes off every second, and no
step of a turn but `select` waits for anything, which has its own guard in the model (a
`select` that did not return would disable the turn, and `SelectReturns` would fail). The
last is `FairSpec` of `EpollServer`. Nothing is assumed of the user or of faults.

`Launch` has no fairness. `ClearStartServes` says as an invariant what liveness would add
nothing to: a process makes at most five steps before it serves, and the invariant says that
none of them is blocked or fails.

## 4. What is proved

TLAPS checks the theorems for every value of the constants: any number of names,
sockets, accounts, descriptors, connections, messages, starts and requests. The only
assumptions are those the modules name: the types of the constants
(`DataBaseAssumption`, `SceneLogicAssumption`, `LaunchAssumption`), that the listening socket is
no client's descriptor (`EpollAssumption`), that a message fits into the server's buffer
(`NetSocketAssumption`), that a turn and an interval together are shorter than the word of the
difference, 49 days (`TickTimerAssumption`), and that the server's messages are all of one size, no
larger than what one `recv` asks for, with `mSize` behind another field
(`MessageManagerAssumption`, `ClientAssumption`); and, where a theorem says so, the hypotheses
stated with it below.

### SceneLogic under every fault (`SceneLogicProofs`)

* `TypeCorrect`: `TypeOK`.
* `SocketListsHold`: `SocketLists`, with clients that send connects and disconnects
  themselves. It is not inductive alone: a login ends two
  statements after it began and then makes its socket a player. `SocketInv` adds that
  the socket of a login in progress is still open and still in the connected list,
  which holds because no other callback runs in between.
* `RoleIdsFresh` and `RolesOwned`: `RoleIdNeverCollides`, `RoleRowsOwned`. The invariant
  `RoleInv` is needed because the counter and the tables disagree: a failed INSERT into
  `tb_role` leaves `mRegisterPlayerNum` behind `tb_account`, and an INSERT whose texts
  are not words adds rows with any role numbers. It says that while the connection is up no role
  row is numbered beyond the counter, that no role row is ever numbered beyond the number
  of accounts, and that a handler at its INSERT holds the counter's next number. An INSERT
  that wrote its row and lost its answer breaks the first part; it breaks the
  connection too, so nothing more is inserted until a start counts all accounts, and
  the second part bounds what it finds. The numbers in `tb_account` need no bound: it is
  `tb_role` whose primary key a new number has to miss.

### SceneLogic under some faults (`SceneAccountProofs`)

Connections that break and kills are allowed by all of these. What else is depends:

| Theorem | Property | Hypothesis | Invariant |
|---|---|---|---|
| `RolesNotShared` | `OneAccountPerRole` | no `sql_error`, `OnlyWords` | `Counted` |
| `PlayersOwnTheirRole` | `SessionOwnsRole` | no `store_error`, `OnlyWords` | `Owned` |
| `NamesUnique` | `AccountNamesUnique` | `SafeFaults`, `StoredAsTyped` | `Named` |
| `CreatedCanLogIn` | `CreatedAccountCanLogIn` | `SafeFaults`, `StoredAsTyped` | `Recorded` and the three above |

`OnlyWords` says that no name or password changes what a statement says: the code does nothing
to make sure of that, and without it none of the four holds. `SafeFaults` is no fault but
`link_lost` and `crash`; `StoredAsTyped` is `OnlyWords`, and that an unquoted word is stored
as it is or refused.

* `Counted`: the account in position i has role start + i, and the counter is behind the
  table only between the two INSERTs or after the connection broke. It does not matter what
  a SELECT returned or how a word was stored, because the number comes from the counter
  alone; it does matter that an INSERT into `tb_role` does not fail over a connection that
  goes on, since then the counter stays behind and its next number is given twice.
* `Owned`: a player, or a login in progress that has read its role, has it from a row with the
  name and password it gave. Rows are never changed or deleted, so no other fault undoes
  this; only a result that was not stored, and leaves an earlier one's rows to be read, does
  (`scene_stale_result`).
* `Named`: a create request about to insert over a working connection has found no row of its
  name, and none has appeared since: the handlers run one after the other. A SELECT that
  fails (`scene_failed_select`) or a name that is stored otherwise than it was looked up
  (`scene_spelling`) is what it excepts.
* `Recorded`: what clients were told, and are about to be told, is in both tables.

### SceneLogic implements LoginService (`SceneServiceProofs`)

`ServiceImplemented`, under `SafeFaults` and `StoredAsTyped`. The mapping chooses the row of a name and
of a role; `RowsFound` says the choice is unique, which is what the accounts' theorems are
needed for. The INSERT into `tb_account` is `Register`, the one into `tb_role` `Complete`,
`EnterPlayer` is `LogIn`, a disconnect `LogOut`, a kill `Restart`; every other step stutters.
An INSERT that takes effect and loses its answer is still a `Register` or a `Complete`.

### EpollServer (`EpollServerProofs`)

* `LoopTypeCorrect`, `EventsReachTheirConnection`, `NothingLostOnClose`: the last two are
  `EventsAddressed` and `NoMessageLostOnClose`. The invariant `LoopInv` says that a
  connection is in one place only (`Registered`), that an event of the batch is still due
  when its turn comes (`EventsDue`: nothing can make a socket unready but its own event),
  and that every message sent is handed over, in hand or unread unless the client reset
  (`Counted`). The types of the counters need `Counted`, so there is one invariant.
* `CallbacksAsPromised`: `EpollServer` implements `SocketEvents`.

### NetSocket (`NetSocketProofs`)

* `TypeCorrect`; `HangsUpAtEnd`: `HangsUpAtEndOnly`; `Implements`: `ImplementsChannel`, for any
  messages no longer than the buffer. The invariant is `Cut`: buffer and wire together are the
  bytes of the messages sent and not handed over (`Layout`, over a function of the
  offsets at which messages begin), and between two reads the buffer holds no whole
  message, so it has room for the next read.
* `NoMessageWaits`: `NothingLeftBehind`. The same invariant, and `Handed`: what was handed over
  are the messages sent so far. A connection on which the loop waits with nothing on the wire
  has nothing in its buffer, because less than a message is never the end of one.

### TickTimer (`TickTimerProofs`)

* `ChecksApart`: `ChecksSpaced`, and `CheckedAlways`: `CheckedInTime`, for all constants and
  without hypotheses. The invariant `TimerInv` has three parts: the types; that without a
  setting the difference is the time since the last check, which is below the
  interval (`Paced`); and that after one, from the end of the next turn on, the cut difference is
  below the interval and has grown by the time since, but for that one turn (`Caught`:
  below the interval it cannot be cut again, which `GrowsUncut` says of the modulo).

### Launch (`LaunchProofs`)

* `TypeCorrect`, with the order in which children come after parents (`Shape`) and what a
  statement on its way holds (`Sent`): the types of the counters need both.
* `OneDaemonHolds`: `OneDaemon`. `LockInv`: whoever is past the lock has the file open, and
  only processes of one start have.
* `RolesStayApart`: `RolesNotShared`. `Numbered`: while no count overtook a statement, no account's
  number is greater than its place in the table; one statement is on its way at most; and
  its number, like the next one of the server that owns the port, is greater than all in the
  table (`UpTo`), but for accounts in `uncounted`, whose number it may have. The first part is
  what a restart needs, which goes on from `count(*)`. It is the port, not
  the lock, that keeps a server without `-D` from numbering too, and only because `bind` comes
  before `count(*)`.
* `ClearStartsServe`: `ClearStartServes`. `Carries`: one process carries a clear start on, nothing
  stands in its way (`Stage`), and all others are parents about to exit.

### Client (`ClientProofs`)

* `TypeCorrect`, and `ClosedUsedOnce`: `ClosedIsUsedOnce`, both from `Connection`: one socket is ever
  made, and where in its turn the client can be in each state of it.
* `HandledAsWritten` and `NothingIsDropped`: `HandledInOrder` and `NothingDropped`, for any sizes. The
  invariant `StreamInv` says that the units in the buffer and on the way are those of the
  replies written and not handed over (`Stream`), that what stands where `mSize` is read is an
  `mSize`, old or new (`SizeKnown`), and that between two turns the buffer holds less than one
  message. All of it holds only up to the place where the server's stream was cut
  (`InSync`); the size of the buffer (two chunks and one) is what the last part is for.
* `AnswersAreAnExchange`: `ImplementsLoginExchange`, under every fault. Sending a request is
  `Ask`, handing over a reply that answers one is `Answer`, all other steps stutter. The
  invariant `InTurn` follows a request through the places it is in on its way: the send buffer, the
  stream to the server, the answers it owes and those it wrote; `HandledInOrder` does the rest.
  `Queues`: the numbers of requests increase within the first two and from one to the next.
  `Replied`: an answer may follow what is before it (`MayFollow`), and its request is ahead of
  all that still waits. Both are about requests the server can read: from the place on where
  it took a part of one for a whole (`outOfStep`), what it answers is `Part`.
* `AllIsHandedOver`: `NothingLeftBehind`. It follows from `Stream` and from `CutIsLoss`, that the
  stream is cut only where a reply, or a part of one, was lost.
* `RequestsAreKept`: the action property `RequestIsKept`, one lemma for each handler that moves a
  request (`KeptSending`, `KeptServing`, `KeptWriting`): whoever takes it from one place puts it into the
  next, or the connection has ended or a stream is spoilt.
* `SelectNotForEver`: `SelectIsEnded`. `FullByRequests`: the socket's window is full of requests
  the server has not read, so a `select` that does not return waits for a server with
  something to read, or for TCP.

### Only model-checked

Liveness (`ClosedIsReleased`, `SentIsDelivered`, `PendingIsAccepted`, `AllHandedOver`, `SelectReturns`,
`RequestIsAnswered`): fairness and ENABLED are out of the prover's reach. What each needs of the safety
of its component is proved: `NothingLeftBehind` says for `AllHandedOver` and `RequestIsAnswered` that
nothing waits where no step would look for it, `RequestIsKept` that no step loses a request,
`SelectIsEnded` that `select` waits for a step that is fair. The runs that show
disagreements with the comments are counterexamples, for which TLC is the right tool.

## 5. Not modelled

Abstractions to keep in mind: a kill falls between statements, and a statement MySQL
was executing when the process died counts as before or after the kill (the INSERT's
step followed by `Crash`, or `Crash` alone); that it may come later still, after the next
start's `count(*)`, is in `Launch`; MySQL itself keeps what it acknowledged; a socket's `open` in `SceneLogic` is what `SocketEvents` says of it.

Taken to be so, though the code does not check it: names and passwords are words, in the
theorems that say so; `mSize` of a message is its length, in `NetSocket` for what clients send and
in `MessageManager` for what the server sends: at least that of a header, and no more than the
buffer a message is copied into (on the server `pBuff` with 65536 bytes, while `mBuff` holds
131073).

| Part | Why not |
|---|---|
| `CQueryResult`'s memory (`EndQuery`, the fields) | Every SELECT is read once, before the next statement; the model keeps which rows are unread, not the allocations. |
| `CField` conversions, XML settings (`LoadSceneConfig`, `InitConnectInfo`'s attributes) | Data only; no property distinguishes them. A setting that cannot be read is the fault `bad_config` of `Client`; a server without its settings exits before it binds, as one without a database does after. |
| What the client does with a reply | It stores the money of a notify and ignores every result. |
| Creating an account from the client | The client has no such request; `SceneLogic` takes it from any client. |
| `KickPlayerNotify`, `DisConnectSocket`, `CNetSocket::Connect`, logic modules of the server | No code sends or calls them. |
| Dialogs | User interface; what a user may do is `LoginServer` at any time between two turns. |
| Logging | Pure output. |
| log4cpp, two copies of tinyxml, MySQL headers | Third-party code, about nine tenths of the lines under `src/`. The program's own code is some 3500 lines in C++, scripts and SQL. |
