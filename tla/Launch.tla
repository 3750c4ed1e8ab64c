------------------------------- MODULE Launch -------------------------------
(***************************************************************************)
(* Starting and stopping the server: main(), init_daemon(), CSceneLogic's  *)
(* Init, stop.sh and restart.sh.  Several processes of the program may be  *)
(* there at once; what keeps them apart is the lock file and the port.     *)
(*                                                                         *)
(* A start with -D forks twice, so a process is known by its start and its *)
(* generation.  The children inherit the open lock file: the lock is free  *)
(* when the last process that has it open is gone.  SIGKILL takes effect   *)
(* some time after kill(1) returned; the process does nothing any more,    *)
(* but keeps its lock and its port until then.                             *)
(*                                                                         *)
(* Of what a server does only the registration matters here: it numbers    *)
(* accounts by a counter it loaded when it started.  A statement is sent   *)
(* to MySQL and executed there later, also when its sender is killed.      *)
(***************************************************************************)
EXTENDS Naturals, Sequences

CONSTANTS
  MaxStarts,    \* bound: times the program is started
  MaxAccounts,  \* bound: accounts registered
  Faults        \* the faults the environment may inject

ASSUME LaunchAssumption ==
  /\ MaxStarts \in Nat /\ MaxAccounts \in Nat
  /\ Faults \subseteq {"no_fork", "db_down", "killed", "client_leaves",
                      "sql_error"}

Starts == 1 .. MaxStarts
Process == Starts \X (1 .. 3)
NoStatement == 0

VARIABLES
  pc,         \* what each process does next
  daemons,    \* starts with -D
  started,    \* the number of starts so far
  holders,    \* processes that have the locked lock file open
  listening,  \* processes that own the port
  lingering,  \* connections of a dead server still occupy the port
  doomed,     \* processes SIGKILL was sent to
  script,     \* restart.sh or stop.sh: "idle", "kill", "start"
  found,      \* tool_pid_arr: the processes ps printed
  mRegisterPlayerNum,  \* the counter of each process
  statement,  \* role number in the INSERT a process sent, not executed yet
  accounts,   \* tb_account: the role numbers, in the order of insertion
  missed,     \* history: a count(*) overtook a statement of a dead server
  uncounted,  \* history: accounts written while their handler got an error
  clear       \* history: starts that had nothing in their way, then or since

processes == <<pc, daemons, started, holders, listening, lingering, doomed>>
scripts == <<script, found>>
table == <<mRegisterPlayerNum, statement, accounts, missed, uncounted>>
vars == <<processes, scripts, table, clear>>

Alive == {x \in Process : pc[x] \notin {"none", "gone"}}

TypeOK ==
  /\ pc \in [Process -> {"none", "lock", "fork", "bind", "count", "serve",
                         "exit", "gone"}]
  /\ daemons \subseteq Starts
  /\ started \in 0 .. MaxStarts
  /\ holders \subseteq Alive
  /\ listening \subseteq Alive
  /\ lingering \in BOOLEAN
  /\ doomed \subseteq Alive
  /\ script \in {"idle", "kill", "start"}
  /\ found \subseteq Process
  /\ mRegisterPlayerNum \in [Process -> 0 .. MaxAccounts]
  /\ statement \in [Process -> 0 .. MaxAccounts]
  /\ accounts \in Seq(1 .. MaxAccounts) /\ Len(accounts) <= MaxAccounts
  /\ missed \in BOOLEAN
  /\ uncounted \subseteq DOMAIN accounts
  /\ clear \subseteq Starts

Init ==
  /\ pc = [x \in Process |-> "none"]
  /\ daemons = {} /\ started = 0
  /\ holders = {} /\ listening = {} /\ lingering = FALSE /\ doomed = {}
  /\ script = "idle" /\ found = {}
  /\ mRegisterPlayerNum = [x \in Process |-> 0]
  /\ statement = [x \in Process |-> NoStatement]
  /\ accounts = << >> /\ missed = FALSE /\ uncounted = {}
  /\ clear = {}

-----------------------------------------------------------------------------
(* The program.                                                            *)

\* main() begins, with or without -D
Begin(daemon) ==
  LET p == started + 1 IN
  /\ started < MaxStarts
  /\ started' = p
  /\ daemons' = IF daemon THEN daemons \cup {p} ELSE daemons
  /\ pc' = [pc EXCEPT ![<<p, 1>>] = IF daemon THEN "lock" ELSE "bind"]
  /\ clear' = IF daemon /\ Alive = {} /\ ~lingering THEN {p} ELSE {}
  /\ UNCHANGED <<holders, listening, lingering, doomed, table>>

Goes(x, next) == pc' = [pc EXCEPT ![x] = next]

\* open() and flock(LOCK_EX | LOCK_NB)
Lock(x) ==
  /\ pc[x] = "lock"
  /\ IF holders = {} THEN holders' = {x} /\ Goes(x, "fork")
                     ELSE Goes(x, "exit") /\ UNCHANGED holders
  /\ UNCHANGED <<daemons, started, listening, lingering, doomed, table, clear>>

NotInherited(x, child) == holders        \* mutant: a lock of the process alone
Inherited(x, child) == IF x \in holders THEN holders \cup {child} ELSE holders

\* fork(): the child goes on, twice; the parent exits, also when there is no
\* child
Fork(x) ==
  LET child == <<x[1], x[2] + 1>> IN
  /\ pc[x] = "fork"
  /\ \/ /\ pc' = [pc EXCEPT ![x] = "exit",
                            ![child] = IF x[2] = 1 THEN "fork" ELSE "bind"]
        /\ holders' = Inherited(x, child)
        /\ UNCHANGED clear
     \/ /\ "no_fork" \in Faults
        /\ Goes(x, "exit")
        /\ clear' = clear \ {x[1]}
        /\ UNCHANGED holders
  /\ UNCHANGED <<daemons, started, listening, lingering, doomed, table>>

PortShared == TRUE                       \* mutant: SO_REUSEPORT
PortFree == listening = {} /\ ~lingering

\* InitEpoll ignores what bind() and listen() return.  Unbound, listen() takes
\* a port no client knows.
Bind(x) ==
  /\ pc[x] = "bind"
  /\ listening' = IF PortFree THEN listening \cup {x} ELSE listening
  /\ Goes(x, "count")
  /\ UNCHANGED <<daemons, started, holders, lingering, doomed, table, clear>>

Dead(x) == pc[x] = "gone" \/ x \in doomed
Overtaken == \E y \in Process : Dead(y) /\ statement[y] # NoStatement

\* InitSceneData: count(*), or exit
InitSceneData(x) ==
  /\ pc[x] = "count"
  /\ \/ /\ Goes(x, "serve")
        /\ mRegisterPlayerNum' = [mRegisterPlayerNum EXCEPT ![x] = Len(accounts)]
        /\ missed' = (missed \/ Overtaken)
        /\ UNCHANGED clear
     \/ /\ "db_down" \in Faults
        /\ Goes(x, "exit")
        /\ clear' = clear \ {x[1]}
        /\ UNCHANGED <<mRegisterPlayerNum, missed>>
  /\ UNCHANGED <<daemons, started, holders, listening, lingering, doomed,
                 statement, accounts, uncounted>>

NotClosed(set, x) == set                 \* mutant: a lock file that just exists
Closed(set, x) == set \ {x}

\* The process is gone: the kernel closes what it had open.  The connections
\* of a server occupy the port until their TIME_WAIT is over.
Gone(x) ==
  /\ Goes(x, "gone")
  /\ holders' = Closed(holders, x)
  /\ listening' = Closed(listening, x)
  /\ doomed' = doomed \ {x}
  /\ found' = found \ {x}
  /\ lingering' \in
       {lingering} \cup {l \in {TRUE} : x \in listening /\ pc[x] = "serve"}
  /\ mRegisterPlayerNum' = [mRegisterPlayerNum EXCEPT ![x] = 0]
  /\ UNCHANGED <<daemons, started, statement, accounts, missed, uncounted,
                 script, clear>>

Exit(x) == pc[x] = "exit" /\ Gone(x)

\* one step of main(); a process SIGKILL was sent to makes none
Main(x) ==
  /\ x \in Alive \ doomed
  /\ \/ (Lock(x) \/ Fork(x) \/ Bind(x) \/ InitSceneData(x)) /\ UNCHANGED scripts
     \/ Exit(x)

-----------------------------------------------------------------------------
(* A server at work.                                                       *)

\* OnMessageCreateAccountRequest sends the INSERT into tb_account
Register(x) ==
  /\ pc[x] = "serve" /\ x \in listening \ doomed
  /\ statement[x] = NoStatement
  /\ mRegisterPlayerNum[x] < MaxAccounts
  /\ statement' = [statement EXCEPT ![x] = mRegisterPlayerNum[x] + 1]
  /\ UNCHANGED <<processes, scripts, mRegisterPlayerNum, accounts, missed,
                 uncounted, clear>>

\* MySQL writes the account: one row, for a name and a password that are words
AccountWritten(x) ==
  /\ Len(accounts) < MaxAccounts
  /\ accounts' = Append(accounts, statement[x])

\* the sender, if it is still there, adds the role and counts the account
Counted(x) ==
  /\ AccountWritten(x)
  /\ mRegisterPlayerNum' =
       IF Dead(x) THEN mRegisterPlayerNum
       ELSE [mRegisterPlayerNum EXCEPT ![x] = @ + 1]
  /\ UNCHANGED uncounted

\* The account is written and the handler returns before the counter: the
\* answer was lost, or the INSERT into tb_role failed.
WrittenNotCounted(x) ==
  /\ "sql_error" \in Faults /\ ~Dead(x)
  /\ AccountWritten(x)
  /\ uncounted' = uncounted \cup {Len(accounts) + 1}
  /\ UNCHANGED mRegisterPlayerNum

\* the INSERT into tb_account fails and writes nothing
NotWritten(x) ==
  /\ "sql_error" \in Faults
  /\ UNCHANGED <<mRegisterPlayerNum, accounts, uncounted>>

\* MySQL executes the statement, and the rest of the handler
Execute(x) ==
  /\ statement[x] # NoStatement
  /\ Counted(x) \/ WrittenNotCounted(x) \/ NotWritten(x)
  /\ statement' = [statement EXCEPT ![x] = NoStatement]
  /\ UNCHANGED <<processes, scripts, missed, clear>>

PipeKills(x) == TRUE                     \* mutant: no ignore_pipe
NotIgnored(x) == x[1] \notin daemons

\* a client went away while its answer was written: SIGPIPE
ClientLeaves(x) ==
  /\ "client_leaves" \in Faults
  /\ pc[x] = "serve" /\ x \in listening \ doomed
  /\ NotIgnored(x)
  /\ Gone(x)

-----------------------------------------------------------------------------
(* stop.sh and restart.sh.                                                 *)

\* the processes there are when ps looks
Ps ==
  /\ "killed" \in Faults
  /\ script \in {"idle", "start"}
  /\ found' = Alive
  /\ script' = "kill"
  /\ UNCHANGED <<processes, table, clear>>

\* kill -9: those that are still there; the scripts do not wait for their end
Kill ==
  /\ script = "kill"
  /\ doomed' = doomed \cup (found \cap Alive)
  /\ clear' = clear \ {x[1] : x \in found}
  /\ found' = {}
  /\ script' = "start"
  /\ UNCHANGED <<pc, daemons, started, holders, listening, lingering, table>>

Die(x) == x \in doomed /\ Gone(x)

Restart ==
  /\ script = "start"
  /\ Begin(TRUE)
  /\ script' = "idle"
  /\ UNCHANGED found

ByHand(daemon) == Begin(daemon) /\ UNCHANGED scripts

\* the TIME_WAIT of the last connection is over
Expire ==
  /\ lingering
  /\ lingering' = FALSE
  /\ UNCHANGED <<pc, daemons, started, holders, listening, doomed, scripts,
                 table, clear>>

-----------------------------------------------------------------------------
Operator == Ps \/ Kill \/ Restart \/ \E d \in BOOLEAN : ByHand(d)

Next ==
  \/ \E x \in Process : Main(x) \/ Register(x) \/ Execute(x) \/ ClientLeaves(x)
                        \/ Die(x)
  \/ Operator
  \/ Expire

Spec == Init /\ [][Next]_vars

-----------------------------------------------------------------------------
(* Properties.                                                             *)

\* Daemons of two starts are never past the lock at once, over both forks and
\* a kill at any time (init_daemon: "The Tool is already Running").
PastLock(x) ==
  x[1] \in daemons /\ pc[x] \in {"fork", "bind", "count", "serve"}

OneDaemon == \A x, y \in Process : PastLock(x) /\ PastLock(y) => x[1] = y[1]

\* An account has the role number of a later one only if its handler got an
\* error after it was written, or a count(*) overtook a statement a dead server
\* had sent, however often servers are killed and started, with -D and without
\* (OnMessageCreateAccountRequest, InitSceneData after bind()).
RolesNotShared ==
  missed \/ \A i, j \in DOMAIN accounts :
              i < j /\ accounts[i] = accounts[j] => i \in uncounted

\* A start with -D that finds no process and no connection of an earlier one
\* serves on the port, or a process of it is on its way there, until another
\* start or a kill: the lock file left behind is no obstacle, neither of the
\* exits of the parents ends it, and clients that leave do not either.
Serves(p) == pc[<<p, 3>>] = "serve" /\ <<p, 3>> \in listening
OnItsWay(x) == pc[x] \in {"lock", "fork", "bind", "count"} /\ x \notin doomed

ClearStartServes ==
  \A p \in clear : Serves(p) \/ \E g \in 1 .. 3 : OnItsWay(<<p, g>>)

\* A server that reports success listens on its port (main: "Server Success !").
SuccessMeansListening ==
  \A x \in Process : pc[x] = "serve" => x \in listening

=============================================================================
