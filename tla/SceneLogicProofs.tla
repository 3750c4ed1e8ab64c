-------------------------- MODULE SceneLogicProofs --------------------------
(***************************************************************************)
(* Theorems about SceneLogic for every value of its constants.  The first  *)
(* ones hold whatever statements fail and wherever the process is killed.  *)
(***************************************************************************)
EXTENDS SceneLogic, TLAPS

-----------------------------------------------------------------------------
(* What a statement may return.                                            *)

\* A SELECT over a connection that is up stores the rows it found, meets a
\* fault, or has a text in it that is not a word.
LEMMA SelectCases ==
  ASSUME NEW texts, NEW rows, NEW o \in SelectOutcomes(texts, rows)
  PROVE  \/ /\ mMySql # "up"
            /\ o = [ok |-> FALSE, link |-> mMySql, result |-> mQueryResult]
         \/ /\ mMySql = "up"
            /\ \E found \in Found(texts, rows) :
                 o = [ok |-> TRUE, link |-> "up", result |-> Stored(found)]
         \/ /\ mMySql = "up" /\ ~(texts \subseteq Words)
            /\ \E k \in BOOLEAN :
                 o = [ok |-> k, link |-> "up", result |-> mQueryResult]
         \/ /\ mMySql = "up" /\ "sql_error" \in Faults
            /\ o = [ok |-> FALSE, link |-> "up", result |-> mQueryResult]
         \/ /\ mMySql = "up" /\ "link_lost" \in Faults
            /\ o = [ok |-> FALSE, link |-> "lost", result |-> mQueryResult]
         \/ /\ mMySql = "up" /\ "store_error" \in Faults
            /\ \E l \in {"up", "lost"} :
                 o = [ok |-> TRUE, link |-> l, result |-> mQueryResult]
<1>1. CASE mMySql # "up" BY <1>1 DEF SelectOutcomes
<1>2. CASE mMySql = "up"
  <2>1. \/ o \in {[ok |-> TRUE, link |-> "up", result |-> Stored(found)] :
                   found \in Found(texts, rows)}
        \/ o \in {[ok |-> k, link |-> "up", result |-> mQueryResult] :
                   k \in IF texts \subseteq Words THEN {} ELSE BOOLEAN}
        \/ o \in {[ok |-> FALSE, link |-> "up", result |-> mQueryResult] :
                   f \in Faults \cap {"sql_error"}}
        \/ o \in {[ok |-> FALSE, link |-> "lost", result |-> mQueryResult] :
                   f \in Faults \cap {"link_lost"}}
        \/ o \in {[ok |-> TRUE, link |-> l, result |-> mQueryResult] :
                   l \in IF "store_error" \in Faults THEN {"up", "lost"}
                                                     ELSE {}}
    BY <1>2, Zenon DEF SelectOutcomes
  <2> QED BY <1>2, <2>1
<1> QED BY <1>1, <1>2

\* Statements with words only do what they say.
LEMMA WordsFound ==
  ASSUME NEW texts, texts \subseteq Words, NEW rows
  PROVE  Found(texts, rows) = {rows}
BY DEF Found

LEMMA WordsTaken ==
  ASSUME NEW texts, texts \subseteq Words, NEW accepted
  PROVE  Taken(texts, accepted) = {accepted}
BY DEF Taken

\* The outcome of a SELECT has the type of the result object it leaves.
LEMMA SelectTyped ==
  ASSUME DataBaseTypeOK, NEW texts, NEW rows \in SUBSET Row,
         NEW o \in SelectOutcomes(texts, rows)
  PROVE  /\ o.link \in {"up", "lost"}
         /\ o.result \in Result
<1>1. Found(texts, rows) \subseteq SUBSET Row
  BY DataBaseAssumption DEF Found, Row
<1>2. \A found \in Found(texts, rows) : Stored(found) \in Result
  BY <1>1 DEF Stored, Result
<1> QED BY <1>2, SelectCases DEF DataBaseTypeOK

\* An INSERT of words writes nothing that MySQL does not accept, and one that
\* leaves the connection up has done what it says.  Any INSERT that returns true
\* has written its rows over a connection that is up.
LEMMA InsertTyped ==
  ASSUME DataBaseTypeOK, NEW texts, NEW accepted \in BOOLEAN,
         NEW o \in InsertOutcomes(texts, accepted)
  PROVE  /\ o.link \in {"up", "lost"}
         /\ o.link = "up" => mMySql = "up"
         /\ o.ok \in BOOLEAN /\ o.written \in BOOLEAN
         /\ o.ok => o.written /\ o.link = "up"
         /\ o.written => mMySql = "up"
         /\ texts \subseteq Words =>
              /\ o.written => accepted
              /\ o.link = "up" => o.written = o.ok
              /\ o.link = "up" /\ "sql_error" \notin Faults => o.ok = accepted
<1> DEFINE Good(ok, link, written) ==
      /\ link \in {"up", "lost"}
      /\ link = "up" => mMySql = "up"
      /\ ok \in BOOLEAN /\ written \in BOOLEAN
      /\ ok => written /\ link = "up"
      /\ written => mMySql = "up"
      /\ texts \subseteq Words =>
           /\ written => accepted
           /\ link = "up" => written = ok
           /\ link = "up" /\ "sql_error" \notin Faults => ok = accepted
<1>1. Taken(texts, accepted) \subseteq BOOLEAN BY DEF Taken
<1>2. texts \subseteq Words => Taken(texts, accepted) = {accepted}
  BY WordsTaken
<1>3. mMySql \in {"up", "lost"} BY DEF DataBaseTypeOK
<1>4. CASE mMySql # "up"
  <2>1. o = [ok |-> FALSE, link |-> mMySql, written |-> FALSE]
    BY <1>4, Zenon DEF InsertOutcomes
  <2>2. o.ok = FALSE /\ o.link = mMySql /\ o.written = FALSE BY <2>1, Zenon
  <2>3. Good(FALSE, mMySql, FALSE) BY <1>3, <1>4
  <2> QED BY <2>2, <2>3, Zenon
<1>5. CASE mMySql = "up"
  <2>1. \/ o \in {[ok |-> a, link |-> "up", written |-> a] :
                   a \in Taken(texts, accepted)}
        \/ o \in {[ok |-> FALSE, link |-> "up", written |-> TRUE] :
                   t \in texts \ Words}
        \/ o \in {[ok |-> FALSE, link |-> "up", written |-> FALSE] :
                   f \in Faults \cap {"sql_error"}}
        \/ o \in {[ok |-> FALSE, link |-> "lost", written |-> w] :
                   w \in IF "link_lost" \in Faults
                         THEN {FALSE} \cup Taken(texts, accepted) ELSE {}}
    BY <1>5, Zenon DEF InsertOutcomes
  <2>2. CASE o \in {[ok |-> a, link |-> "up", written |-> a] :
                     a \in Taken(texts, accepted)}
    <3>1. PICK a \in Taken(texts, accepted) :
                 o = [ok |-> a, link |-> "up", written |-> a]
      BY <2>2, Zenon
    <3>2. o.ok = a /\ o.written = a /\ o.link = "up" BY <3>1, Zenon
    <3>3. a \in BOOLEAN /\ (texts \subseteq Words => a = accepted)
      BY <1>1, <1>2
    <3>4. Good(a, "up", a) BY <1>5, <3>3, Zenon
    <3> QED BY <3>2, <3>4, Zenon
  <2>3. CASE o \in {[ok |-> FALSE, link |-> "up", written |-> TRUE] :
                     t \in texts \ Words}
    <3>1. ~(texts \subseteq Words) BY <2>3
    <3>2. o = [ok |-> FALSE, link |-> "up", written |-> TRUE] BY <2>3, Zenon
    <3>3. o.ok = FALSE /\ o.link = "up" /\ o.written = TRUE BY <3>2, Zenon
    <3>4. Good(FALSE, "up", TRUE) BY <1>5, <3>1
    <3> QED BY <3>3, <3>4, Zenon
  <2>4. CASE o \in {[ok |-> FALSE, link |-> "up", written |-> FALSE] :
                     f \in Faults \cap {"sql_error"}}
    <3>1. "sql_error" \in Faults BY <2>4
    <3>2. o = [ok |-> FALSE, link |-> "up", written |-> FALSE] BY <2>4, Zenon
    <3>3. o.ok = FALSE /\ o.link = "up" /\ o.written = FALSE BY <3>2, Zenon
    <3>4. Good(FALSE, "up", FALSE) BY <1>5, <3>1
    <3> QED BY <3>3, <3>4, Zenon
  <2>5. CASE o \in {[ok |-> FALSE, link |-> "lost", written |-> w] :
                     w \in IF "link_lost" \in Faults
                           THEN {FALSE} \cup Taken(texts, accepted) ELSE {}}
    <3>1. PICK w \in {FALSE} \cup Taken(texts, accepted) :
                 o = [ok |-> FALSE, link |-> "lost", written |-> w]
      BY <2>5, Zenon
    <3>2. o.ok = FALSE /\ o.link = "lost" /\ o.written = w BY <3>1, Zenon
    <3>3. w \in BOOLEAN BY <1>1
    <3>4. texts \subseteq Words => w = FALSE \/ w = accepted BY <1>2
    <3>5. texts \subseteq Words => (w => accepted) BY <3>4, Zenon
    <3>6. "lost" # "up" OBVIOUS
    <3>7. Good(FALSE, "lost", w) BY <1>5, <3>3, <3>5, <3>6, Zenon
    <3> QED BY <3>2, <3>7, Zenon
  <2> QED BY <2>1, <2>2, <2>3, <2>4, <2>5
<1> QED BY <1>4, <1>5

\* NextRow reads a number and leaves a result.
LEMMA NextRowTyped ==
  ASSUME NEW result \in Result, NEW next \in NextRow(result)
  PROVE  /\ next.val \in Nat
         /\ next.left \in Result
<1>1. CASE result.unread = {}
  BY <1>1 DEF NextRow, Result
<1>2. CASE result.unread # {}
  <2>1. PICK row \in result.unread :
          next = [got  |-> TRUE, val |-> row.val,
                  left |-> [result EXCEPT !.unread = @ \ {row}]]
    BY <1>2 DEF NextRow
  <2>2. row \in Row BY DEF Result
  <2> QED BY <2>1, <2>2 DEF Result, Row
<1> QED BY <1>1, <1>2

\* The rows the SELECTs of the handlers find are rows.
LEMMA RowsTyped ==
  ASSUME DataBaseTypeOK
  PROVE  /\ \A n, p : RowsOfLogin(n, p) \in SUBSET Row
         /\ \A n : RowsOfName(n) \in SUBSET Row
         /\ \A r \in Nat : RowsOfRole(r) \in SUBSET Row
<1>1. ASSUME NEW i \in DOMAIN tb_account
      PROVE  [key |-> i, val |-> tb_account[i].role_id] \in Row
  <2>1. tb_account \in Seq(Account) BY DEF DataBaseTypeOK
  <2>2. i \in Nat BY <2>1
  <2>3. tb_account[i] \in Account BY <2>1
  <2> QED BY <2>2, <2>3 DEF Row, Account
<1> QED BY <1>1 DEF RowsOfLogin, RowsOfName, RowsOfRole, Row

-----------------------------------------------------------------------------
(* Type correctness.                                                       *)

LEMMA HandlerTyped ==
  ASSUME TypeOK, handler.at \in {"load_role", "insert_account", "insert_role"}
  PROVE  handler \in Busy
BY DEF TypeOK, Idle, Down

LEMMA TypeInit == Init => TypeOK
BY SceneLogicAssumption
   DEF Init, TypeOK, DataBaseTypeOK, Stored, Result, NoPlayers

LEMMA TypeConnection ==
  ASSUME TypeOK, NEW s \in Sockets, Connection(s)
  PROVE  TypeOK'
<1>1. DataBaseTypeOK' BY DEF TypeOK, Connection, DataBaseTypeOK, dbVars, tables
<1>2. /\ mConnectSocket' \in SUBSET Sockets
      /\ open' \in SUBSET Sockets /\ left' \in SUBSET Sockets
  BY DEF TypeOK, Connection, OnConnectSocket, OnDisConnectSokcet, OnRecvConnect,
         OnRecvDisConnect, OnMessageConnect, OnMessageDisConnect
<1>3. /\ DOMAIN mPlayerData' \in SUBSET Sockets
      /\ mPlayerData' \in [DOMAIN mPlayerData' -> Player]
      /\ session' \in [DOMAIN mPlayerData' -> [name : Names, pass : Passwords]]
  <2>1. CASE OnMessageConnect(s) BY <2>1 DEF TypeOK, OnMessageConnect
  <2>2. CASE OnMessageDisConnect(s)
    BY <2>2 DEF TypeOK, OnMessageDisConnect, Without
  <2> QED BY <2>1, <2>2 DEF Connection, OnConnectSocket, OnDisConnectSokcet,
                            OnRecvConnect, OnRecvDisConnect
<1> QED BY <1>1, <1>2, <1>3 DEF TypeOK, Connection

LEMMA TypeStart == ASSUME TypeOK, Start PROVE TypeOK'
<1>1. Len(tb_account) \in Nat BY DEF TypeOK, DataBaseTypeOK
<1> QED BY <1>1 DEF TypeOK, DataBaseTypeOK, Start, Initialize, CountAccounts,
                    Result, tables

LEMMA TypeCrash == ASSUME TypeOK, Crash PROVE TypeOK'
BY DEF TypeOK, DataBaseTypeOK, Crash, Stored, Result, tables, NoPlayers

LEMMA TypeLogin ==
  ASSUME TypeOK, NEW s \in Sockets, NEW n \in Names, NEW p \in Passwords,
         OnMessageLoginSceneRequest(s, n, p)
  PROVE  TypeOK'
<1> USE DEF OnMessageLoginSceneRequest
<1>0. DataBaseTypeOK /\ RowsOfLogin(n, p) \in SUBSET Row
  BY RowsTyped DEF TypeOK
<1>1. CASE RefuseNotConnected(s, n, p)
  BY <1>1 DEF TypeOK, DataBaseTypeOK, RefuseNotConnected, tables, sceneVars,
              SendLoginSceneResponse, Reply, Results
<1>2. CASE VerifyAccount(s, n, p)
  <2>1. PICK o \in SelectOutcomes({n, p}, RowsOfLogin(n, p)) :
          VerifyAccount(s, n, p)!2!(o)
    BY <1>2 DEF VerifyAccount
  <2>2. o.link \in {"up", "lost"} /\ o.result \in Result
    BY <1>0, SelectTyped
  <2>3. CASE ~o.ok \/ ~o.result.found
    BY <2>1, <2>2, <2>3 DEF TypeOK, DataBaseTypeOK, tables, sceneVars,
              SendLoginSceneResponse, Reply, Results
  <2>4. CASE o.ok /\ o.result.found
    <3>1. PICK next \in NextRow(o.result) :
            /\ mQueryResult' = next.left
            /\ \/ /\ SendLoginSceneResponse(s, n, p, "LOGIN_ROLEID_ZERO")
                  /\ UNCHANGED handler
               \/ /\ handler' = [at |-> "load_role", sock |-> s, name |-> n,
                                 pass |-> p, role |-> next.val]
                  /\ reply' = NoReply
      BY <2>1, <2>4
    <3>2. next.val \in Nat /\ next.left \in Result
      BY <2>2, NextRowTyped
    <3>3. handler' \in {Idle, Down} \cup Busy /\ reply' \in {NoReply} \cup Reply
      BY <3>1, <3>2 DEF TypeOK, Busy, SendLoginSceneResponse, Reply, Results
    <3> QED BY <2>1, <2>2, <3>1, <3>2, <3>3
            DEF TypeOK, DataBaseTypeOK, tables, sceneVars
  <2> QED BY <2>1, <2>3, <2>4
<1> QED BY <1>1, <1>2

LEMMA TypeLoad == ASSUME TypeOK, LoadPlayerData PROVE TypeOK'
<1>0. /\ handler \in Busy
      /\ DataBaseTypeOK
      /\ RowsOfRole(handler.role) \in SUBSET Row
  BY HandlerTyped, RowsTyped DEF LoadPlayerData, TypeOK, Busy
<1>1. PICK o \in SelectOutcomes({}, RowsOfRole(handler.role)) :
        /\ mMySql' = o.link
        /\ \/ mQueryResult' = o.result /\ UNCHANGED <<mConnectSocket, mPlayerData, session>>
           \/ \E next \in NextRow(o.result) :
                 /\ mQueryResult' = next.left
                 /\ \/ UNCHANGED <<mConnectSocket, mPlayerData, session>>
                    \/ EnterPlayer(next.val)
  BY DEF LoadPlayerData
<1>2. o.link \in {"up", "lost"} /\ o.result \in Result
  BY <1>0, SelectTyped
<1>3. mQueryResult' \in Result BY <1>1, <1>2, NextRowTyped
<1>4. DataBaseTypeOK'
  BY <1>0, <1>1, <1>2, <1>3 DEF DataBaseTypeOK, LoadPlayerData, tables
<1>5. reply' \in Reply
  BY <1>0 DEF LoadPlayerData, SendLoginSceneResponse, Busy, Reply, Results
<1>6. /\ mConnectSocket' \in SUBSET Sockets
      /\ DOMAIN mPlayerData' \in SUBSET Sockets
      /\ mPlayerData' \in [DOMAIN mPlayerData' -> Player]
      /\ session' \in [DOMAIN mPlayerData' -> [name : Names, pass : Passwords]]
  <2>1. CASE UNCHANGED <<mConnectSocket, mPlayerData, session>>
    BY <2>1 DEF TypeOK
  <2>2. CASE \E next \in NextRow(o.result) : EnterPlayer(next.val)
    <3>1. PICK money \in Nat : EnterPlayer(money)
      BY <1>2, <2>2, NextRowTyped
    <3>2. [mCharID |-> handler.role, mMoney |-> money] \in Player
      BY <1>0, <3>1 DEF Busy, Player
    <3>3. [name |-> handler.name, pass |-> handler.pass]
             \in [name : Names, pass : Passwords]
      BY <1>0 DEF Busy
    <3> QED BY <1>0, <3>1, <3>2, <3>3 DEF TypeOK, EnterPlayer, With, Busy
  <2> QED BY <1>1, <2>1, <2>2
<1> QED BY <1>4, <1>5, <1>6 DEF TypeOK, LoadPlayerData

LEMMA TypeCreate ==
  ASSUME TypeOK, NEW s \in Sockets, NEW n \in Names, NEW p \in Passwords,
         OnMessageCreateAccountRequest(s, n, p)
  PROVE  TypeOK'
<1>0. DataBaseTypeOK /\ RowsOfName(n) \in SUBSET Row
  BY RowsTyped DEF TypeOK
<1>1. PICK o \in SelectOutcomes({n}, RowsOfName(n)) :
        mMySql' = o.link /\ mQueryResult' = o.result
  BY DEF OnMessageCreateAccountRequest
<1>2. o.link \in {"up", "lost"} /\ o.result \in Result
  BY <1>0, SelectTyped
<1>3. mStartCharID + mRegisterPlayerNum + 1 \in Nat
  BY SceneLogicAssumption DEF TypeOK
<1>4. handler' \in {Idle, Down} \cup Busy /\ reply' \in {NoReply} \cup Reply
  BY <1>3 DEF TypeOK, OnMessageCreateAccountRequest, Busy,
              SendCreateAccountResponse, Reply, Results
<1> QED BY <1>0, <1>1, <1>2, <1>4
        DEF TypeOK, DataBaseTypeOK, OnMessageCreateAccountRequest, tables, sceneVars

\* The rows InsertAccount may add are accounts, and the first has the number
\* the handler computed.
LEMMA AddedTyped ==
  ASSUME handler \in Busy, NEW rows \in Added,
         {handler.name, handler.pass} \subseteq Words => Accepts(AccountRow)
  PROVE  /\ rows \in Seq(Account)
         /\ 1 \in DOMAIN rows /\ rows[1].role_id = handler.role
<1>1. CASE {handler.name, handler.pass} \subseteq Words
  <2>1. rows = <<AccountRow>> BY <1>1 DEF Added
  <2>2. AccountRow \in Account
    BY <1>1, DataBaseAssumption DEF Accepts, AccountRow, Account, Busy
  <2> QED BY <2>1, <2>2 DEF AccountRow
<1>2. CASE ~({handler.name, handler.pass} \subseteq Words)
  <2>1. PICK k \in 1 .. MaxRows :
          rows \in [1 .. k -> [user_name : Text, password : Text,
                               role_id : Numbers \cup {handler.role}]]
    BY <1>2 DEF Added
  <2>2. rows[1].role_id = handler.role BY <1>2 DEF Added
  <2>3. [user_name : Text, password : Text,
         role_id : Numbers \cup {handler.role}] \subseteq Account
    BY DataBaseAssumption DEF Account, Busy
  <2>4. k \in Nat /\ 1 \in 1 .. k BY DataBaseAssumption
  <2>5. rows \in [1 .. k -> Account] BY <2>1, <2>3
  <2>6. rows \in Seq(Account) BY <2>4, <2>5
  <2> QED BY <2>2, <2>4, <2>5, <2>6
<1> QED BY <1>1, <1>2

\* What one INSERT into tb_account leaves.
LEMMA InsertAccountStep ==
  ASSUME TypeOK, InsertAccount
  PROVE  \E o \in InsertOutcomes({handler.name, handler.pass},
                                 Accepts(AccountRow)) :
           /\ mMySql' = o.link
           /\ \/ /\ o.written
                 /\ \E rows \in Added : /\ tb_account' = tb_account \o rows
                                        /\ rows \in Seq(Account)
                                        /\ 1 \in DOMAIN rows
                                        /\ rows[1].role_id = handler.role
              \/ ~o.written /\ tb_account' = tb_account
           /\ \/ ~o.ok /\ handler' = Idle
              \/ o.ok /\ handler' = [handler EXCEPT !.at = "insert_role"]
<1>0. handler \in Busy /\ DataBaseTypeOK /\ tb_account \in Seq(Account)
  BY HandlerTyped DEF InsertAccount, TypeOK, DataBaseTypeOK
<1>1. PICK o \in InsertOutcomes({handler.name, handler.pass},
                                Accepts(AccountRow)) :
        /\ mMySql' = o.link
        /\ tb_account' \in {tb_account \o rows :
                             rows \in IF o.written THEN Added ELSE {<< >>}}
        /\ \/ ~o.ok /\ handler' = Idle
           \/ o.ok /\ handler' = [handler EXCEPT !.at = "insert_role"]
  BY DEF InsertAccount, AccountInserted
<1>2. Accepts(AccountRow) \in BOOLEAN BY DEF Accepts
<1>3. {handler.name, handler.pass} \subseteq Words /\ o.written
        => Accepts(AccountRow)
  BY <1>0, <1>2, InsertTyped
<1>4. CASE o.written
  <2>1. PICK rows \in Added : tb_account' = tb_account \o rows
    BY <1>1, <1>4
  <2>2. /\ rows \in Seq(Account)
        /\ 1 \in DOMAIN rows /\ rows[1].role_id = handler.role
    BY <1>0, <1>3, <1>4, AddedTyped
  <2> QED BY <1>1, <1>4, <2>1, <2>2
<1>5. CASE ~o.written
  <2>1. tb_account' = tb_account \o << >> BY <1>1, <1>5
  <2>2. tb_account' = tb_account BY <1>0, <2>1
  <2> QED BY <1>1, <1>5, <2>2
<1> QED BY <1>4, <1>5

LEMMA TypeInsertAccount == ASSUME TypeOK, InsertAccount PROVE TypeOK'
<1>0. handler \in Busy /\ DataBaseTypeOK /\ tb_account \in Seq(Account)
  BY HandlerTyped DEF InsertAccount, TypeOK, DataBaseTypeOK
<1>1. PICK o \in InsertOutcomes({handler.name, handler.pass},
                                Accepts(AccountRow)) :
        /\ mMySql' = o.link
        /\ \/ \E rows \in Seq(Account) : tb_account' = tb_account \o rows
           \/ tb_account' = tb_account
  BY InsertAccountStep
<1>2. o.link \in {"up", "lost"}
  BY <1>0, InsertTyped DEF Accepts
<1>3. tb_account' \in Seq(Account)
  <2>1. \A rows \in Seq(Account) : tb_account \o rows \in Seq(Account)
    BY <1>0
  <2> QED BY <1>0, <1>1, <2>1
<1>4. handler' \in {Idle, Down} \cup Busy /\ reply' \in {NoReply} \cup Reply
  BY <1>0 DEF InsertAccount, Busy, SendCreateAccountResponse, Reply, Results
<1> QED BY <1>0, <1>1, <1>2, <1>3, <1>4
        DEF TypeOK, DataBaseTypeOK, InsertAccount, sceneVars

LEMMA TypeInsertRole == ASSUME TypeOK, InsertRole PROVE TypeOK'
<1>0. handler \in Busy /\ DataBaseTypeOK
  BY HandlerTyped DEF InsertRole, TypeOK
<1>1. PICK o \in InsertOutcomes({}, handler.role \notin tb_role) :
        /\ mMySql' = o.link
        /\ tb_role' = IF o.written THEN tb_role \cup {handler.role} ELSE tb_role
  BY DEF InsertRole
<1>2. o.link \in {"up", "lost"} BY <1>0, InsertTyped
<1>3. tb_role' \in SUBSET Nat BY <1>0, <1>1 DEF DataBaseTypeOK, Busy
<1>4. /\ handler' = Idle
      /\ reply' \in Reply
      /\ mRegisterPlayerNum' \in Nat
      /\ created' \in SUBSET (Names \X Passwords)
  BY <1>0 DEF InsertRole, Busy, SendCreateAccountResponse, Reply, Results, TypeOK
<1> QED BY <1>0, <1>1, <1>2, <1>3, <1>4 DEF TypeOK, DataBaseTypeOK, InsertRole

LEMMA TypeNext == ASSUME TypeOK, [Next]_vars PROVE TypeOK'
<1>1. CASE UNCHANGED vars
  BY <1>1 DEF vars, dbVars, sceneVars, TypeOK, DataBaseTypeOK
<1>2. CASE Next
  BY <1>2, TypeStart, TypeCrash, TypeConnection, TypeLogin,
     TypeCreate, TypeLoad, TypeInsertAccount, TypeInsertRole DEF Next
<1> QED BY <1>1, <1>2

\* The variables of the server, its tables and its result object keep their
\* types under every fault.
THEOREM TypeCorrect == Spec => []TypeOK
BY TypeInit, TypeNext, PTL DEF Spec

-----------------------------------------------------------------------------
(* The two lists of sockets.  What makes SocketLists inductive is that the *)
(* socket a login is served for is still open, and not logged in, when the *)
(* login ends: no other callback runs in between.  `left' needs no part of *)
(* its own: a socket that joins or leaves a list joins or leaves it with   *)
(* the difference that SocketLists says it is.                             *)

SocketInv ==
  /\ SocketLists
  /\ handler.at = "load_role" => handler.sock \in open \cap mConnectSocket

LEMMA SocketInit == Init => SocketInv
BY DEF Init, SocketInv, SocketLists, Down, NoPlayers

LEMMA SocketNext == ASSUME TypeOK, SocketInv, [Next]_vars PROVE SocketInv'
<1> USE DEF SocketInv, SocketLists
<1>1. CASE UNCHANGED vars BY <1>1 DEF vars, dbVars, sceneVars
<1>2. CASE Start BY <1>2 DEF Start, Idle
<1>3. CASE Crash BY <1>3 DEF Crash, Down, NoPlayers
<1>4. ASSUME NEW s \in Sockets, Connection(s) PROVE SocketInv'
  <2>0. handler' = Idle /\ Idle.at # "load_role"
    BY <1>4 DEF Connection, Idle
  <2>1. CASE OnConnectSocket(s)
    BY <2>0, <2>1 DEF OnConnectSocket, OnMessageConnect
  <2>2. CASE OnDisConnectSokcet(s)
    BY <2>0, <2>2 DEF OnDisConnectSokcet, OnMessageDisConnect, Without
  <2>3. CASE OnRecvConnect(s)
    BY <2>0, <2>3 DEF OnRecvConnect, OnMessageConnect
  <2>4. CASE OnRecvDisConnect(s)
    BY <2>0, <2>4 DEF OnRecvDisConnect, OnMessageDisConnect, Without
  <2> QED BY <1>4, <2>1, <2>2, <2>3, <2>4 DEF Connection
<1>6. ASSUME NEW s \in Sockets, NEW n \in Names, NEW p \in Passwords,
             OnMessageLoginSceneRequest(s, n, p)
      PROVE  SocketInv'
  <2>1. UNCHANGED <<mConnectSocket, mPlayerData, open, left>>
    BY <1>6 DEF OnMessageLoginSceneRequest, sceneVars
  <2>2. handler'.at = "load_role" => handler'.sock \in open' \cap mConnectSocket'
    BY <1>6, <2>1 DEF OnMessageLoginSceneRequest, RefuseNotConnected,
                      VerifyAccount, Idle
  <2> QED BY <2>1, <2>2
<1>7. ASSUME NEW s \in Sockets, NEW n \in Names, NEW p \in Passwords,
             OnMessageCreateAccountRequest(s, n, p)
      PROVE  SocketInv'
  BY <1>7 DEF OnMessageCreateAccountRequest, sceneVars, Idle
<1>8. CASE LoadPlayerData
  <2>1. \/ UNCHANGED <<mConnectSocket, mPlayerData, session>>
        \/ \E money : EnterPlayer(money)
    BY <1>8 DEF LoadPlayerData
  <2>2. /\ handler.sock \in open \cap mConnectSocket
        /\ open' = open /\ left' = left /\ handler' = Idle
    BY <1>8 DEF LoadPlayerData
  <2> QED BY <2>1, <2>2 DEF EnterPlayer, With, Idle
<1>9. CASE InsertAccount
  BY <1>9, HandlerTyped DEF InsertAccount, sceneVars, Idle, Busy
<1>10. CASE InsertRole
  BY <1>10 DEF InsertRole, Idle
<1> QED BY <1>1, <1>2, <1>3, <1>4, <1>6, <1>7, <1>8, <1>9, <1>10 DEF Next

\* An open socket is in exactly one list, or in none after its player sent
\* emMessageID_DisConnect itself; and a player never outlives the connection
\* that logged it in.
THEOREM SocketListsHold == Spec => []SocketLists
<1>1. SocketInv => SocketLists BY DEF SocketInv
<1> QED BY <1>1, TypeCorrect, SocketInit, SocketNext, PTL DEF Spec

-----------------------------------------------------------------------------
(* Role numbers.  mRegisterPlayerNum may fall behind tb_account (an INSERT *)
(* into tb_role that failed), but as long as the connection is up no role  *)
(* row is numbered beyond it; when the connection breaks nothing more is   *)
(* inserted, and the next start counts every account.  No role row is      *)
(* numbered beyond the accounts there are: its own account was inserted    *)
(* before it, behind all that the server had counted.  (The numbers of the *)
(* accounts say nothing: an INSERT with a text that is not a word may add  *)
(* accounts with any number.)                                              *)

Top(k) == mStartCharID + k

RoleInv ==
  /\ RoleRowsOwned
  /\ \A r \in tb_role : r <= Top(Len(tb_account))
  /\ handler = Down => mMySql = "lost"
  /\ handler # Down => mRegisterPlayerNum <= Len(tb_account)
  /\ mMySql = "up" => \A r \in tb_role : r <= Top(mRegisterPlayerNum)
  /\ handler.at \in {"insert_account", "insert_role"} =>
       handler.role = Top(mRegisterPlayerNum + 1)
  /\ handler.at = "insert_role" =>
       /\ mMySql = "up"
       /\ mRegisterPlayerNum < Len(tb_account)
       /\ \E i \in DOMAIN tb_account : tb_account[i].role_id = handler.role

LEMMA RoleInit == Init => RoleInv
BY SceneLogicAssumption DEF Init, RoleInv, RoleRowsOwned, Down

\* The statements of a SELECT never bring a broken connection up again.
LEMMA SelectKeepsLinkDown ==
  ASSUME NEW texts, NEW rows, NEW o \in SelectOutcomes(texts, rows),
         o.link = "up"
  PROVE  mMySql = "up"
BY SelectCases

\* A step that leaves the tables, the counter and the phase of the handler
\* alone, and does not mend the connection, preserves RoleInv.
LEMMA RoleQuietStep ==
  ASSUME TypeOK, RoleInv,
         UNCHANGED <<tables, mRegisterPlayerNum>>,
         mMySql' = "up" => mMySql = "up",
         handler # Down, handler'.at \in {"idle", "load_role"}
  PROVE  RoleInv'
BY DEF RoleInv, RoleRowsOwned, tables, Top, Down

LEMMA RoleStart == ASSUME TypeOK, RoleInv, Start PROVE RoleInv'
<1>1. /\ UNCHANGED tables /\ handler' = Idle
      /\ mRegisterPlayerNum' = Len(tb_account)
  BY DEF Start, CountAccounts
<1>2. tb_account \in Seq(Account) /\ tb_role \in SUBSET Nat
  BY DEF TypeOK, DataBaseTypeOK
<1>3. \A r \in tb_role : r <= Top(Len(tb_account)) BY DEF RoleInv
<1>4. Len(tb_account) <= Len(tb_account) BY <1>2
<1> QED BY <1>1, <1>3, <1>4 DEF RoleInv, RoleRowsOwned, tables, Idle, Down

LEMMA RoleCreate ==
  ASSUME TypeOK, RoleInv, NEW s \in Sockets, NEW n \in Names,
         NEW p \in Passwords, OnMessageCreateAccountRequest(s, n, p)
  PROVE  RoleInv'
<1>1. PICK o \in SelectOutcomes({n}, RowsOfName(n)) : mMySql' = o.link
  BY DEF OnMessageCreateAccountRequest
<1>2. /\ UNCHANGED <<tables, mRegisterPlayerNum>>
      /\ handler = Idle
      /\ mMySql' = "up" => mMySql = "up"
  BY <1>1, SelectKeepsLinkDown DEF OnMessageCreateAccountRequest, sceneVars
<1>3. CASE handler' = handler
  BY <1>2, <1>3, RoleQuietStep DEF Idle, Down
<1>4. CASE handler' = [at |-> "insert_account", sock |-> s, name |-> n,
                       pass |-> p,
                       role |-> mStartCharID + mRegisterPlayerNum + 1]
  <2>1. handler'.role = Top(mRegisterPlayerNum + 1)
    BY <1>4, SceneLogicAssumption DEF Top, TypeOK
  <2>2. handler'.at = "insert_account" /\ handler' # Down
    BY <1>4 DEF Down
  <2> QED BY <1>2, <2>1, <2>2 DEF RoleInv, RoleRowsOwned, tables, Idle, Down
<1> QED BY <1>3, <1>4 DEF OnMessageCreateAccountRequest

LEMMA RoleInsertAccount ==
  ASSUME TypeOK, RoleInv, InsertAccount
  PROVE  RoleInv'
<1>1. PICK o \in InsertOutcomes({handler.name, handler.pass},
                                Accepts(AccountRow)) :
        /\ mMySql' = o.link
        /\ \/ /\ o.written
              /\ \E rows \in Seq(Account) : /\ tb_account' = tb_account \o rows
                                            /\ 1 \in DOMAIN rows
                                            /\ rows[1].role_id = handler.role
           \/ ~o.written /\ tb_account' = tb_account
        /\ \/ ~o.ok /\ handler' = Idle
           \/ o.ok /\ handler' = [handler EXCEPT !.at = "insert_role"]
  BY InsertAccountStep
<1>2. /\ handler \in Busy /\ handler.at = "insert_account"
      /\ tb_account \in Seq(Account)
      /\ UNCHANGED <<tb_role, mRegisterPlayerNum>>
      /\ mRegisterPlayerNum \in Nat
      /\ mRegisterPlayerNum <= Len(tb_account)
      /\ handler.role = Top(mRegisterPlayerNum + 1)
  BY HandlerTyped DEF TypeOK, DataBaseTypeOK, InsertAccount, sceneVars, RoleInv,
                      Down
<1>3. /\ mMySql' = "up" => mMySql = "up"
      /\ o.ok => o.written /\ mMySql' = "up"
  <2>1. /\ o.link = "up" => mMySql = "up"
        /\ o.ok => o.written /\ o.link = "up"
    BY InsertTyped DEF TypeOK, Accepts
  <2> QED BY <1>1, <2>1
<1>5. CASE ~o.written
  <2>1. tb_account' = tb_account /\ handler' = Idle BY <1>1, <1>3, <1>5
  <2> QED BY <1>2, <1>3, <2>1, RoleQuietStep DEF tables, Idle, Down
<1>6. CASE o.written
  <2>0. PICK rows \in Seq(Account) : /\ tb_account' = tb_account \o rows
                                     /\ 1 \in DOMAIN rows
                                     /\ rows[1].role_id = handler.role
    BY <1>1, <1>6
  <2>1. /\ Len(tb_account) \in Nat /\ Len(tb_account') \in Nat
        /\ Len(tb_account) + 1 \in DOMAIN tb_account'
        /\ Len(tb_account) < Len(tb_account')
        /\ tb_account'[Len(tb_account) + 1] = rows[1]
        /\ \A i \in DOMAIN tb_account : /\ i \in DOMAIN tb_account'
                                        /\ tb_account'[i] = tb_account[i]
    BY <1>2, <2>0
  <2>2. RoleRowsOwned'
    BY <1>2, <2>1 DEF RoleInv, RoleRowsOwned
  <2>3. \A r \in tb_role' : r <= Top(Len(tb_account'))
    <3>1. \A r \in tb_role : r \in Nat /\ r <= Top(Len(tb_account))
      BY DEF RoleInv, TypeOK, DataBaseTypeOK
    <3> QED BY <1>2, <2>1, <3>1, SceneLogicAssumption DEF Top
  <2>4. CASE handler' = Idle
    BY <1>2, <1>3, <2>1, <2>2, <2>3, <2>4 DEF RoleInv, Idle, Down, Top
  <2>5. CASE o.ok /\ handler' = [handler EXCEPT !.at = "insert_role"]
    <3>1. handler'.at = "insert_role" /\ handler'.role = handler.role
      BY <1>2, <2>5 DEF Busy
    <3>2. /\ mRegisterPlayerNum' < Len(tb_account')
          /\ \E i \in DOMAIN tb_account' : tb_account'[i].role_id = handler'.role
      BY <1>2, <2>0, <2>1, <3>1
    <3>3. handler' # Down BY <3>1 DEF Down
    <3> QED BY <1>2, <1>3, <2>1, <2>2, <2>3, <2>5, <3>1, <3>2, <3>3
            DEF RoleInv, Top
  <2> QED BY <1>1, <2>4, <2>5
<1> QED BY <1>1, <1>5, <1>6

LEMMA RoleInsertRole ==
  ASSUME TypeOK, RoleInv, InsertRole
  PROVE  RoleInv'
<1>1. PICK o \in InsertOutcomes({}, handler.role \notin tb_role) :
        /\ mMySql' = o.link
        /\ tb_role' = IF o.written THEN tb_role \cup {handler.role} ELSE tb_role
        /\ \/ ~o.ok /\ UNCHANGED mRegisterPlayerNum
           \/ o.ok /\ mRegisterPlayerNum' = mRegisterPlayerNum + 1
  BY DEF InsertRole, RoleInserted
<1>2. /\ handler' = Idle /\ UNCHANGED tb_account
      /\ handler.at = "insert_role" /\ handler # Down
      /\ tb_account \in Seq(Account) /\ tb_role \in SUBSET Nat
      /\ mRegisterPlayerNum \in Nat
      /\ mRegisterPlayerNum < Len(tb_account)
      /\ handler.role = Top(mRegisterPlayerNum + 1)
  BY DEF TypeOK, DataBaseTypeOK, InsertRole, RoleInv, Down
<1>3. RoleRowsOwned'
  BY <1>1, <1>2 DEF RoleInv, RoleRowsOwned
<1>4. mRegisterPlayerNum' <= Len(tb_account')
  BY <1>1, <1>2
<1>5. mMySql' = "up" => \A r \in tb_role' : r <= Top(mRegisterPlayerNum')
  <2>1. SUFFICES ASSUME mMySql' = "up"
                 PROVE  \A r \in tb_role' : r <= Top(mRegisterPlayerNum')
    OBVIOUS
  <2>2. o.ok \/ ~o.written
    <3>1. o.link = "up" BY <1>1, <2>1
    <3>2. {} \subseteq Words /\ DataBaseTypeOK BY DEF TypeOK
    <3> DEFINE free == handler.role \notin tb_role
    <3>3. o \in InsertOutcomes({}, free) /\ free \in BOOLEAN BY <1>1
    <3> HIDE DEF free
    <3> DEFINE no == {}
    <3>4. no \subseteq Words OBVIOUS
    <3>5. o \in InsertOutcomes(no, free) BY <3>3
    <3> HIDE DEF no
    <3>6. o.written = o.ok /\ o.ok \in BOOLEAN
      BY <3>1, <3>2, <3>3, <3>4, <3>5, InsertTyped
    <3> QED BY <3>6
  <2>3. mMySql = "up" BY <1>2 DEF RoleInv
  <2>4. \A r \in tb_role : r <= Top(mRegisterPlayerNum)
    BY <2>3 DEF RoleInv
  <2>5. CASE ~o.ok
    BY <1>1, <2>2, <2>4, <2>5
  <2>6. CASE o.ok
    BY <1>1, <1>2, <2>4, <2>6, SceneLogicAssumption DEF Top
  <2> QED BY <2>5, <2>6
<1>6. \A r \in tb_role' : r <= Top(Len(tb_account'))
  <2>1. handler.role <= Top(Len(tb_account))
    BY <1>2, SceneLogicAssumption DEF Top
  <2>2. \A r \in tb_role : r <= Top(Len(tb_account)) BY DEF RoleInv
  <2> QED BY <1>1, <1>2, <2>1, <2>2
<1> QED BY <1>2, <1>3, <1>4, <1>5, <1>6 DEF RoleInv, Idle, Down, Top

LEMMA RoleNext == ASSUME TypeOK, RoleInv, [Next]_vars PROVE RoleInv'
<1>1. CASE UNCHANGED vars
  BY <1>1 DEF vars, dbVars, sceneVars, RoleInv, RoleRowsOwned, Top
<1>2. CASE Crash
  BY <1>2 DEF Crash, RoleInv, RoleRowsOwned, Down, tables, Top
<1>3. ASSUME NEW s \in Sockets, Connection(s)
      PROVE  RoleInv'
  BY <1>3, RoleQuietStep DEF Connection, dbVars, tables, Idle, Down
<1>4. ASSUME NEW s \in Sockets, NEW n \in Names, NEW p \in Passwords,
             OnMessageLoginSceneRequest(s, n, p)
      PROVE  RoleInv'
  <2>1. handler = Idle /\ UNCHANGED <<tables, mRegisterPlayerNum>>
    BY <1>4 DEF OnMessageLoginSceneRequest, sceneVars
  <2>2. handler'.at \in {"idle", "load_role"}
    BY <1>4, <2>1 DEF OnMessageLoginSceneRequest, RefuseNotConnected,
                      VerifyAccount, Idle
  <2>3. mMySql' = "up" => mMySql = "up"
    BY <1>4, SelectKeepsLinkDown
       DEF OnMessageLoginSceneRequest, RefuseNotConnected, VerifyAccount
  <2> QED BY <2>1, <2>2, <2>3, RoleQuietStep DEF Idle, Down
<1>5. CASE LoadPlayerData
  <2>1. mMySql' = "up" => mMySql = "up"
    BY <1>5, SelectKeepsLinkDown DEF LoadPlayerData
  <2> QED BY <1>5, <2>1, RoleQuietStep DEF LoadPlayerData, Idle, Down
<1> QED BY <1>1, <1>2, <1>3, <1>4, <1>5, RoleStart, RoleCreate,
           RoleInsertAccount, RoleInsertRole DEF Next

\* The role number of a new account is free in tb_role, whatever INSERT failed
\* before and however often the server was restarted.
THEOREM RoleIdsFresh == Spec => []RoleIdNeverCollides
<1>1. TypeOK /\ RoleInv => RoleIdNeverCollides
  BY SceneLogicAssumption
     DEF RoleInv, RoleIdNeverCollides, Top, TypeOK, DataBaseTypeOK
<1> QED BY <1>1, TypeCorrect, RoleInit, RoleNext, PTL DEF Spec

\* Every role row is owned by an account, under every fault.
THEOREM RolesOwned == Spec => []RoleRowsOwned
<1>1. RoleInv => RoleRowsOwned BY DEF RoleInv
<1> QED BY <1>1, TypeCorrect, RoleInit, RoleNext, PTL DEF Spec

=============================================================================
