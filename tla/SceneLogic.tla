----------------------------- MODULE SceneLogic -----------------------------
(***************************************************************************)
(* CSceneLogic (scenelogic.cpp): accounts, roles and logged-in players of  *)
(* the account server, over the tables and the connection of DataBase.     *)
(*                                                                         *)
(* The server is one thread, so a callback runs to its end before the next *)
(* one starts; but a handler sends its SQL statements one by one and the   *)
(* process can be killed between any two of them.  A handler is therefore  *)
(* a sequence of steps, one per statement, and `handler' says where it is. *)
(***************************************************************************)
EXTENDS DataBase, FiniteSets

CONSTANTS
  Sockets,        \* file descriptors accept() may return
  mStartCharID,   \* rolestartid of config/sceneconfig.xml
  MaxAccounts     \* bound: clients ask for no account beyond this many rows

ASSUME SceneLogicAssumption ==
  /\ mStartCharID \in Nat
  /\ MaxAccounts \in Nat

VARIABLES
  mRegisterPlayerNum,  \* accounts registered, as counted by the server
  mConnectSocket,      \* sockets connected and not yet logged in
  mPlayerData,         \* logged-in sockets, with their [mCharID, mMoney]
  handler,             \* the request being served, and its next statement
  reply,               \* the last response sent, with what it answers
  open,                \* environment: sockets that are really open
  session,             \* history: the credentials each player logged in with
  left,                \* history: open sockets whose player said it left
  created              \* history: accounts a client was told it created

sceneVars == <<mRegisterPlayerNum, mConnectSocket, mPlayerData>>
vars == <<dbVars, sceneVars, handler, reply, open, session, left, created>>

Player == [mCharID : Nat, mMoney : Nat]

Idle == [at |-> "idle"]     \* between two callbacks
Down == [at |-> "down"]     \* no server process

Busy == [at : {"load_role", "insert_account", "insert_role"},
         sock : Sockets, name : Names, pass : Passwords, role : Nat]

NoReply == [kind |-> "none"]

Results == {"SUCCESS", "LOGIN_NOT_CONNECT", "LOGIN_ACOUNT_INVAILD",
            "LOGIN_ROLEID_ZERO", "LOGIN_ROLEDATA_NULL",
            "LOGIN_ROLEDATA_RESULT", "CREATE_EXIST", "CREATE_ROLE"}

Reply == [kind : {"login", "create"}, sock : Sockets,
          name : Names, pass : Passwords, result : Results]

NoPlayers == [s \in {} |-> 0]

\* mPlayerData.erase and mPlayerData.insert
KeepPlayer(f, s) == f                    \* mutant: nothing is erased
Without(f, s) == [t \in DOMAIN f \ {s} |-> f[t]]
With(f, s, x) == [t \in DOMAIN f \cup {s} |-> IF t = s THEN x ELSE f[t]]

-----------------------------------------------------------------------------
(* Life of the process.                                                    *)

Init ==
  /\ tb_account = << >>
  /\ tb_role = {}
  /\ mMySql = "lost"
  /\ mQueryResult = Stored({})
  /\ mRegisterPlayerNum = 0
  /\ mConnectSocket = {}
  /\ mPlayerData = NoPlayers
  /\ handler = Down
  /\ reply = NoReply
  /\ open = {}
  /\ session = NoPlayers
  /\ left = {}
  /\ created = {}

\* select count(*) from tb_account
CountNothing  == 0                       \* mutant: the field is not read
CountFromZero == Len(tb_account) - 1     \* mutant: the last row's index
CountRoles    == Cardinality(tb_role)    \* mutant: the wrong table
CountAccounts == Len(tb_account)

\* CDataBase::Initialize and InitSceneData: connect, then count(*) the
\* accounts.  A start that fails exits and leaves everything as it was.
Start ==
  /\ handler = Down
  /\ handler' = Idle
  /\ Initialize
  /\ mQueryResult' = [found |-> TRUE, unread |-> {}]
  /\ mRegisterPlayerNum' = CountAccounts
  /\ reply' = NoReply
  /\ UNCHANGED <<tables, mConnectSocket, mPlayerData, open, session, left,
                 created>>

\* kill -9 (stop.sh) or a crash, at any point of a handler
Crash ==
  /\ "crash" \in Faults
  /\ handler # Down
  /\ handler' = Down
  /\ mMySql' = "lost"
  /\ mQueryResult' = Stored({})
  /\ mRegisterPlayerNum' = 0
  /\ mConnectSocket' = {}
  /\ mPlayerData' = NoPlayers
  /\ reply' = NoReply
  /\ open' = {}
  /\ session' = NoPlayers
  /\ left' = {}
  /\ UNCHANGED <<tables, created>>

-----------------------------------------------------------------------------
(* Connections.  CClientHandle tells the scene of a connection with the     *)
(* same two messages a client may send: ProcessPlayerClientMessage does not *)
(* ask where one comes from.                                                *)

\* emMessageID_Connect: the socket joins the connected list
OnMessageConnect(s) ==
  /\ mConnectSocket' = IF s \in DOMAIN mPlayerData
                       THEN mConnectSocket ELSE mConnectSocket \cup {s}
  /\ left' = left \ {s}
  /\ UNCHANGED <<mPlayerData, session>>

\* emMessageID_DisConnect: only the list of players is cleaned
OnMessageDisConnect(s) ==
  /\ mPlayerData' = Without(mPlayerData, s)
  /\ session' = Without(session, s)
  /\ UNCHANGED mConnectSocket

\* the callbacks of CClientHandle, for a socket accepted and one closed
OnConnectSocket(s) ==
  /\ s \notin open
  /\ open' = open \cup {s}
  /\ OnMessageConnect(s)

OnDisConnectSokcet(s) ==
  /\ s \in open
  /\ open' = open \ {s}
  /\ left' = left \ {s}
  /\ OnMessageDisConnect(s)

\* the same messages from a client, whose socket stays open
OnRecvConnect(s) == s \in open /\ OnMessageConnect(s) /\ UNCHANGED open

OnRecvDisConnect(s) ==
  /\ s \in open
  /\ OnMessageDisConnect(s)
  /\ left' = left \cup ({s} \cap DOMAIN mPlayerData)
  /\ UNCHANGED open

Connection(s) ==
  /\ handler = Idle
  /\ \/ OnConnectSocket(s) \/ OnDisConnectSokcet(s)
     \/ OnRecvConnect(s) \/ OnRecvDisConnect(s)
  /\ reply' = NoReply
  /\ UNCHANGED <<dbVars, mRegisterPlayerNum, handler, created>>

-----------------------------------------------------------------------------
(* Logging in: two SELECTs.                                                *)

SendLoginSceneResponse(s, n, p, result) ==
  reply' = [kind |-> "login", sock |-> s, name |-> n, pass |-> p,
            result |-> result]

\* not in the connected list: never connected, or already logged in
RefuseNotConnected(s, n, p) ==
  /\ s \notin mConnectSocket
  /\ SendLoginSceneResponse(s, n, p, "LOGIN_NOT_CONNECT")
  /\ UNCHANGED <<mMySql, mQueryResult, handler>>

\* the SELECT that checks the account
VerifyAccount(s, n, p) ==
  /\ s \in mConnectSocket
  /\ \E o \in SelectOutcomes({n, p}, RowsOfLogin(n, p)) :
       /\ mMySql' = o.link
       /\ \/ /\ ~o.ok \/ ~o.result.found
             /\ mQueryResult' = o.result
             /\ SendLoginSceneResponse(s, n, p, "LOGIN_ACOUNT_INVAILD")
             /\ UNCHANGED handler
          \/ /\ o.ok /\ o.result.found
             /\ \E next \in NextRow(o.result) :
                  /\ mQueryResult' = next.left
                  /\ \/ /\ next.val <= 0
                        /\ SendLoginSceneResponse(s, n, p, "LOGIN_ROLEID_ZERO")
                        /\ UNCHANGED handler
                     \/ /\ next.val > 0
                        /\ handler' = [at |-> "load_role", sock |-> s,
                                       name |-> n, pass |-> p,
                                       role |-> next.val]
                        /\ reply' = NoReply

OnMessageLoginSceneRequest(s, n, p) ==
  /\ handler = Idle
  /\ s \in open
  /\ RefuseNotConnected(s, n, p) \/ VerifyAccount(s, n, p)
  /\ UNCHANGED <<tables, sceneVars, open, session, left, created>>

\* the socket moves from the connected list to the list of players
EnterPlayer(money) ==
  LET s == handler.sock IN
  /\ mConnectSocket' = mConnectSocket \ {s}
  /\ mPlayerData' = With(mPlayerData, s,
                         [mCharID |-> handler.role, mMoney |-> money])
  /\ session' = With(session, s,
                     [name |-> handler.name, pass |-> handler.pass])

\* LoadPlayerData and the end of the handler
LoadPlayerData ==
  LET Send(result) == SendLoginSceneResponse(handler.sock, handler.name,
                                             handler.pass, result)
      Stay == UNCHANGED <<mConnectSocket, mPlayerData, session>>
  IN
  /\ handler.at = "load_role"
  /\ \E o \in SelectOutcomes({}, RowsOfRole(handler.role)) :
       /\ mMySql' = o.link
       /\ \/ /\ ~o.ok \/ ~o.result.found
             /\ mQueryResult' = o.result
             /\ Send("LOGIN_ROLEDATA_NULL") /\ Stay
          \/ /\ o.ok /\ o.result.found
             /\ \E next \in NextRow(o.result) :
                  /\ mQueryResult' = next.left
                  /\ \/ ~next.got /\ Send("LOGIN_ROLEDATA_RESULT") /\ Stay
                     \/ next.got /\ Send("SUCCESS") /\ EnterPlayer(next.val)
  /\ handler' = Idle
  /\ UNCHANGED <<tables, mRegisterPlayerNum, open, left, created>>

-----------------------------------------------------------------------------
(* Creating an account: one SELECT, two INSERTs.                           *)

SendCreateAccountResponse(s, n, p, result) ==
  reply' = [kind |-> "create", sock |-> s, name |-> n, pass |-> p,
            result |-> result]

\* The SELECT that looks for the name.  A SELECT that fails counts as a name
\* that was not found.
OnMessageCreateAccountRequest(s, n, p) ==
  /\ handler = Idle
  /\ s \in open
  /\ Len(tb_account) < MaxAccounts
  /\ \E o \in SelectOutcomes({n}, RowsOfName(n)) :
       /\ mMySql' = o.link
       /\ mQueryResult' = o.result
       /\ \/ /\ o.ok /\ o.result.found
             /\ SendCreateAccountResponse(s, n, p, "CREATE_EXIST")
             /\ UNCHANGED handler
          \/ /\ ~o.ok \/ ~o.result.found
             /\ handler' = [at |-> "insert_account", sock |-> s,
                            name |-> n, pass |-> p,
                            role |-> mStartCharID + mRegisterPlayerNum + 1]
             /\ reply' = NoReply
  /\ UNCHANGED <<tables, sceneVars, open, session, left, created>>

\* The INSERT into tb_account sends name and password without quotes, so
\* MySQL refuses what is not a literal and stores the literal's value.
AccountRow == [user_name |-> Spelled[handler.name],
               password  |-> Spelled[handler.pass],
               role_id   |-> handler.role]

Accepts(row) == NoLiteral \notin {row.user_name, row.password}

\* The rows it adds: one for two words, and for other texts any, of which the
\* first has the number the statement was given.
Added ==
  IF {handler.name, handler.pass} \subseteq Words
  THEN {<<AccountRow>>}
  ELSE {rows \in UNION {[1 .. k -> [user_name : Text, password : Text,
                                   role_id : Numbers \cup {handler.role}]] :
                          k \in 1 .. MaxRows} :
          rows[1].role_id = handler.role}

\* the two `if (!bExecute)' after the INSERTs
AccountInsertUnchecked(o) == TRUE        \* mutant: no check
AccountInserted(o) == o.ok
RoleInsertUnchecked(o) == TRUE           \* mutant: no check
RoleInserted(o) == o.ok

InsertAccount ==
  /\ handler.at = "insert_account"
  /\ \E o \in InsertOutcomes({handler.name, handler.pass},
                            Accepts(AccountRow)) :
       /\ mMySql' = o.link
       /\ tb_account' \in {tb_account \o rows :
                            rows \in IF o.written THEN Added ELSE {<< >>}}
       /\ \/ /\ ~AccountInserted(o)
             /\ SendCreateAccountResponse(handler.sock, handler.name,
                                          handler.pass, "CREATE_EXIST")
             /\ handler' = Idle
          \/ /\ AccountInserted(o)
             /\ handler' = [handler EXCEPT !.at = "insert_role"]
             /\ reply' = NoReply
  /\ UNCHANGED <<tb_role, mQueryResult, sceneVars, open, session, left,
                 created>>

\* The INSERT into tb_role, whose primary key is role_id.
InsertRole ==
  LET Send(result) == SendCreateAccountResponse(handler.sock, handler.name,
                                                handler.pass, result)
  IN
  /\ handler.at = "insert_role"
  /\ \E o \in InsertOutcomes({}, handler.role \notin tb_role) :
       /\ mMySql' = o.link
       /\ tb_role' = IF o.written THEN tb_role \cup {handler.role} ELSE tb_role
       /\ \/ /\ ~RoleInserted(o)
             /\ Send("CREATE_ROLE")
             /\ UNCHANGED <<mRegisterPlayerNum, created>>
          \/ /\ RoleInserted(o)
             /\ Send("SUCCESS")
             /\ mRegisterPlayerNum' = mRegisterPlayerNum + 1
             /\ created' = created \cup {<<handler.name, handler.pass>>}
  /\ handler' = Idle
  /\ UNCHANGED <<tb_account, mQueryResult, mConnectSocket, mPlayerData, open,
                 session, left>>

-----------------------------------------------------------------------------
Next ==
  \/ Start
  \/ Crash
  \/ \E s \in Sockets : Connection(s)
  \/ \E s \in Sockets, n \in Names, p \in Passwords :
       \/ OnMessageLoginSceneRequest(s, n, p)
       \/ OnMessageCreateAccountRequest(s, n, p)
  \/ LoadPlayerData
  \/ InsertAccount
  \/ InsertRole

Spec == Init /\ [][Next]_vars

-----------------------------------------------------------------------------
(* Properties.                                                             *)

\* Type invariant.
TypeOK ==
  /\ DataBaseTypeOK
  /\ mRegisterPlayerNum \in Nat
  /\ mConnectSocket \in SUBSET Sockets
  /\ open \in SUBSET Sockets /\ left \in SUBSET Sockets
  /\ DOMAIN mPlayerData \in SUBSET Sockets
  /\ mPlayerData \in [DOMAIN mPlayerData -> Player]
  /\ session \in [DOMAIN mPlayerData -> [name : Names, pass : Passwords]]
  /\ handler \in {Idle, Down} \cup Busy
  /\ reply \in {NoReply} \cup Reply
  /\ created \in SUBSET (Names \X Passwords)

\* An open socket is in exactly one of the two lists, or in none after its
\* player sent emMessageID_DisConnect itself and nothing since to be connected
\* again; and a player always belongs to the connection that logged in: a
\* descriptor that accept() hands out again never finds the previous peer's
\* player under its number (OnMessageDisConnect, ProcessPlayerClientMessage).
SocketLists ==
  /\ open \ (mConnectSocket \cup DOMAIN mPlayerData) = left
  /\ mConnectSocket \cap DOMAIN mPlayerData = {}
  /\ DOMAIN mPlayerData \subseteq open

\* The INSERT into tb_role is never refused because its role_id is taken, even
\* though a failed INSERT leaves mRegisterPlayerNum behind the table and a
\* restart sets it from count(*).
RoleIdNeverCollides ==
  handler.at = "insert_role" => handler.role \notin tb_role

\* A role row always has an account that owns it, whatever statement failed
\* and wherever the process was killed (the two INSERTs of
\* OnMessageCreateAccountRequest are not a transaction).
RoleRowsOwned ==
  \A r \in tb_role : \E i \in DOMAIN tb_account : tb_account[i].role_id = r

(* Not every fault leaves the next ones standing. OneAccountPerRole needs    *)
(* every INSERT to succeed while the connection lasts (no "sql_error"),      *)
(* SessionOwnsRole every result to be stored (no "store_error"), and both    *)
(* that no text becomes a part of a statement. The others need all of this,  *)
(* and the names and passwords to be stored as typed:                        *)
SafeFaults == Faults \subseteq {"link_lost", "crash"}
OnlyWords == Text \subseteq Words
StoredAsTyped == OnlyWords /\ \A t \in Text : Spelled[t] \in {t, NoLiteral}

\* No two accounts have the same name: the SELECT of
\* OnMessageCreateAccountRequest is all that prevents it, the table does not.
AccountNamesUnique ==
  \A i, j \in DOMAIN tb_account :
    tb_account[i].user_name = tb_account[j].user_name => i = j

\* No two accounts share a role: their players would share one row of tb_role.
\* The number is the server's, so how names are spelled makes no difference.
OneAccountPerRole ==
  \A i, j \in DOMAIN tb_account :
    tb_account[i].role_id = tb_account[j].role_id => i = j

\* A logged-in player plays the role of the account whose name and password
\* the client gave (OnMessageLoginSceneRequest), for names and passwords that
\* are words.
SessionOwnsRole ==
  \A s \in DOMAIN mPlayerData : \E i \in DOMAIN tb_account :
    /\ tb_account[i].user_name = session[s].name
    /\ tb_account[i].password = session[s].pass
    /\ tb_account[i].role_id = mPlayerData[s].mCharID

\* An account the server said it created can log in ever after, restarts
\* included: with a working connection its login is refused only to a socket
\* that is not in the connected list.
CreatedAccountCanLogIn ==
  /\ reply.kind = "login"
  /\ <<reply.name, reply.pass>> \in created
  /\ mMySql = "up"
  => reply.result \in {"SUCCESS", "LOGIN_NOT_CONNECT"}

\* The tables and the lists implement LoginService: the account of a name is
\* its row, ready once its role exists; a player is the account of its role.
RowOf(n)     == CHOOSE i \in DOMAIN tb_account : tb_account[i].user_name = n
RowOfRole(r) == CHOOSE i \in DOMAIN tb_account : tb_account[i].role_id = r

accountBook ==
  [n \in {tb_account[i].user_name : i \in DOMAIN tb_account} |->
     [pass  |-> tb_account[RowOf(n)].password,
      ready |-> tb_account[RowOf(n)].role_id \in tb_role]]

playerBook ==
  [s \in DOMAIN mPlayerData |->
     [name |-> tb_account[RowOfRole(mPlayerData[s].mCharID)].user_name,
      pass |-> session[s].pass]]

Service == INSTANCE LoginService WITH accounts <- accountBook,
                                      players  <- playerBook

\* Every step of the server is a step of LoginService or changes nothing it
\* speaks of: no name is registered twice or taken back, and only a password
\* of a finished account logs a connection in, for names and passwords that
\* are words and stored as typed.
ImplementsLoginService == Service!Spec

=============================================================================
