------------------------- MODULE SceneAccountProofs -------------------------
(***************************************************************************)
(* Theorems about accounts, for every value of the constants, where names  *)
(* and passwords are words: ExecuteSql puts any other text into a statement *)
(* as it is, and none of these holds then.  Each is stated for the faults   *)
(* it survives: that accounts do not share roles needs MySQL not to fail an *)
(* INSERT it could have made, that a player has its own account's role      *)
(* needs every result to be stored, and that names are unique and created   *)
(* accounts can log in needs both, and texts stored as typed.  The          *)
(* connection may break and the process may be killed between any two       *)
(* statements throughout.                                                   *)
(***************************************************************************)
EXTENDS SceneLogicProofs

\* The account of row i belongs to name n and password p.
Belongs(i, n, p) ==
  tb_account[i].user_name = n /\ tb_account[i].password = p

\* Rows are numbered by position, and the counter is behind only while the
\* role of the last row is still to be inserted, or after the connection broke.
Counted ==
  /\ \A i \in DOMAIN tb_account : tb_account[i].role_id = Top(i)
  /\ handler = Down => mMySql = "lost"
  /\ handler # Down /\ handler.at # "insert_role" /\ mMySql = "up" =>
       mRegisterPlayerNum = Len(tb_account)
  /\ handler.at = "insert_role" =>
       /\ mMySql = "up"
       /\ Len(tb_account) = mRegisterPlayerNum + 1
       /\ handler.role = Top(Len(tb_account))
  /\ handler.at = "insert_account" /\ mMySql = "up" =>
       handler.role = Top(mRegisterPlayerNum + 1)

\* What a login in progress has read is in the table, as what the players
\* logged in with is.
Owned ==
  /\ SessionOwnsRole
  /\ handler.at = "load_role" => \E i \in DOMAIN tb_account :
       /\ Belongs(i, handler.name, handler.pass)
       /\ tb_account[i].role_id = handler.role

\* Names are unique, because a create request that reaches its INSERT over a
\* working connection has found no row of its name.
Named ==
  /\ AccountNamesUnique
  /\ handler.at = "insert_account" /\ mMySql = "up" =>
       \A i \in DOMAIN tb_account : tb_account[i].user_name # handler.name

\* What clients were told, and are about to be told, is in the tables.
Recorded ==
  /\ \A c \in created : \E i \in DOMAIN tb_account :
       Belongs(i, c[1], c[2]) /\ tb_account[i].role_id \in tb_role
  /\ handler.at = "insert_role" =>
       Belongs(Len(tb_account), handler.name, handler.pass)

Answered == Named /\ Recorded /\ CreatedAccountCanLogIn

AccountInv == Counted /\ Owned /\ Answered

-----------------------------------------------------------------------------
(* Statements, under the faults a theorem allows.                          *)

LEMMA WordsInText ==
  ASSUME OnlyWords, NEW n \in Text, NEW p \in Text
  PROVE  {n} \subseteq Words /\ {n, p} \subseteq Words
BY DEF OnlyWords

\* A SELECT that returns true has stored its rows, unless storing them fails.
LEMMA StoredSelect ==
  ASSUME "store_error" \notin Faults, NEW texts, texts \subseteq Words,
         NEW rows, NEW o \in SelectOutcomes(texts, rows), o.ok
  PROVE  o.link = "up" /\ mMySql = "up" /\ o.result = Stored(rows)
<1>1. CASE o = [ok |-> FALSE, link |-> mMySql, result |-> mQueryResult]
  BY <1>1
<1>2. CASE /\ mMySql = "up"
           /\ \E found \in Found(texts, rows) :
                o = [ok |-> TRUE, link |-> "up", result |-> Stored(found)]
  <2>0. Found(texts, rows) = {rows} BY WordsFound
  <2>1. o = [ok |-> TRUE, link |-> "up", result |-> Stored(rows)]
    BY <1>2, <2>0, Zenon
  <2> QED BY <1>2, <2>1, Zenon
<1>3. CASE \E l \in {"up", "lost"} :
             o = [ok |-> FALSE, link |-> l, result |-> mQueryResult]
  BY <1>3
<1> QED BY <1>1, <1>2, <1>3, SelectCases

\* A SELECT that leaves the connection up has stored its rows.
LEMMA SafeSelect ==
  ASSUME SafeFaults, NEW texts, texts \subseteq Words, NEW rows,
         NEW o \in SelectOutcomes(texts, rows), o.ok \/ o.link = "up"
  PROVE  o.ok /\ o.link = "up" /\ mMySql = "up" /\ o.result = Stored(rows)
<1>1. CASE /\ mMySql # "up"
           /\ o = [ok |-> FALSE, link |-> mMySql, result |-> mQueryResult]
  <2>1. ~o.ok /\ o.link = mMySql BY <1>1, Zenon
  <2> QED BY <1>1, <2>1
<1>2. CASE /\ mMySql = "up"
           /\ \E found \in Found(texts, rows) :
                o = [ok |-> TRUE, link |-> "up", result |-> Stored(found)]
  <2>0. Found(texts, rows) = {rows} BY WordsFound
  <2>1. o = [ok |-> TRUE, link |-> "up", result |-> Stored(rows)]
    BY <1>2, <2>0, Zenon
  <2> QED BY <1>2, <2>1, Zenon
<1>3. CASE o = [ok |-> FALSE, link |-> "lost", result |-> mQueryResult]
  <2>1. ~o.ok /\ o.link = "lost" BY <1>3, Zenon
  <2> QED BY <2>1
<1>4. "sql_error" \notin Faults /\ "store_error" \notin Faults
  BY DEF SafeFaults
<1> QED BY <1>1, <1>2, <1>3, <1>4, SelectCases

\* NextRow fetches one of the rows a SELECT has stored.
LEMMA NextOfStored ==
  ASSUME NEW rows, NEW next \in NextRow(Stored(rows)), rows # {}
  PROVE  next.got /\ \E row \in rows : next.val = row.val
<1>1. Stored(rows).unread = rows BY DEF Stored
<1>2. PICK row \in rows :
        next = [got  |-> TRUE, val |-> row.val,
                left |-> [Stored(rows) EXCEPT !.unread = @ \ {row}]]
  BY <1>1 DEF NextRow
<1>3. next.got /\ next.val = row.val BY <1>2, Zenon
<1> QED BY <1>3

\* Under these faults an account's row keeps the name and password typed.
LEMMA StoredRow ==
  ASSUME TypeOK, StoredAsTyped, handler.at = "insert_account",
         Accepts(AccountRow)
  PROVE  /\ AccountRow.user_name = handler.name
         /\ AccountRow.password = handler.pass
         /\ AccountRow.role_id = handler.role
<1>1. handler.name \in Text /\ handler.pass \in Text
  BY HandlerTyped DEF Busy, Text
<1> QED BY <1>1 DEF StoredAsTyped, Accepts, AccountRow

-----------------------------------------------------------------------------
(* The steps of an INSERT into tb_account.                                 *)

\* the row is appended, or the handler has answered; only a row that was
\* accepted is written
InsertsOrEnds ==
  /\ UNCHANGED <<tb_role, mRegisterPlayerNum, mPlayerData, session, created>>
  /\ handler # Down /\ handler.at = "insert_account"
  /\ mMySql' = "up" => mMySql = "up"
  /\ \/ UNCHANGED tb_account /\ handler' = Idle
     \/ /\ Accepts(AccountRow) /\ mMySql = "up"
        /\ tb_account' = Append(tb_account, AccountRow)
        /\ \/ handler' = Idle
           \/ handler' = [handler EXCEPT !.at = "insert_role"] /\ mMySql' = "up"

LEMMA InsertSteps ==
  ASSUME TypeOK, OnlyWords, InsertAccount
  PROVE  /\ InsertsOrEnds
         /\ /\ "sql_error" \notin Faults
            /\ tb_account' # tb_account /\ handler' = Idle
            => mMySql' # "up"
<1> DEFINE accepted == Accepts(AccountRow)
           texts == {handler.name, handler.pass}
<1>0. /\ handler \in Busy /\ handler.at = "insert_account" /\ handler # Down
      /\ tb_account \in Seq(Account) /\ DataBaseTypeOK
  BY HandlerTyped DEF InsertAccount, TypeOK, DataBaseTypeOK, Down
<1>1. texts \subseteq Words BY <1>0, WordsInText DEF Busy, Text
<1>2. Added = {<<AccountRow>>} BY <1>1 DEF Added
<1>3. PICK o \in InsertOutcomes(texts, accepted) :
        /\ mMySql' = o.link
        /\ \/ o.written /\ tb_account' = tb_account \o <<AccountRow>>
           \/ ~o.written /\ tb_account' = tb_account
        /\ \/ ~o.ok /\ handler' = Idle
           \/ o.ok /\ handler' = [handler EXCEPT !.at = "insert_role"]
  BY <1>2, InsertAccountStep
<1>4. UNCHANGED <<tb_role, mRegisterPlayerNum, mPlayerData, session, created>>
  BY DEF InsertAccount, sceneVars
<1>5. accepted \in BOOLEAN BY DEF Accepts
<1>6. o.written => tb_account' = Append(tb_account, AccountRow)
  BY <1>0, <1>3
<1> HIDE DEF accepted, texts
<1>7. /\ mMySql' = "up" => mMySql = "up"
      /\ o.written => accepted /\ mMySql = "up"
      /\ o.ok => o.written /\ mMySql' = "up"
      /\ mMySql' = "up" => o.written = o.ok
  BY <1>0, <1>1, <1>3, <1>5, InsertTyped
<1>8. handler' = Idle => ~o.ok
  BY <1>0, <1>3 DEF Idle, Busy
<1>9. InsertsOrEnds
  BY <1>0, <1>3, <1>4, <1>6, <1>7 DEF InsertsOrEnds, accepted
<1> QED BY <1>3, <1>7, <1>8, <1>9

-----------------------------------------------------------------------------
(* The numbers of accounts and roles, when no INSERT fails that MySQL      *)
(* could have made.                                                        *)

LEMMA CountedInit == Init => Counted
BY DEF Init, Counted, Down

\* A step that leaves tables and counter alone, ends no INSERT and does not
\* mend the connection.
LEMMA CountedQuietStep ==
  ASSUME Counted,
         UNCHANGED <<tb_account, mRegisterPlayerNum>>,
         mMySql' = "up" => mMySql = "up",
         handler # Down, handler.at # "insert_role",
         handler'.at \in {"idle", "load_role"}
  PROVE  Counted'
BY DEF Counted, Top, Down

\* The counter is as far as the table when a request takes its number.
LEMMA CountedCreate ==
  ASSUME TypeOK, Counted, NEW s \in Sockets, NEW n \in Names,
         NEW p \in Passwords, OnMessageCreateAccountRequest(s, n, p)
  PROVE  Counted'
<1>1. /\ UNCHANGED <<tb_account, mRegisterPlayerNum>>
      /\ handler = Idle
  BY DEF OnMessageCreateAccountRequest, sceneVars, tables
<1>2. PICK o \in SelectOutcomes({n}, RowsOfName(n)) :
        /\ mMySql' = o.link
        /\ \/ UNCHANGED handler
           \/ handler' = [at |-> "insert_account", sock |-> s, name |-> n,
                          pass |-> p,
                          role |-> mStartCharID + mRegisterPlayerNum + 1]
  BY DEF OnMessageCreateAccountRequest
<1>3. mMySql' = "up" => mMySql = "up" BY <1>2, SelectKeepsLinkDown
<1>4. CASE UNCHANGED handler
  BY <1>1, <1>3, <1>4, CountedQuietStep DEF Idle, Down
<1>5. CASE ~UNCHANGED handler
  <2>1. /\ handler'.at = "insert_account" /\ handler' # Down
        /\ handler'.role = Top(mRegisterPlayerNum + 1)
    BY <1>2, <1>5, SceneLogicAssumption DEF Top, TypeOK, Down
  <2> QED BY <1>1, <1>3, <2>1 DEF Counted, Top, Idle, Down
<1> QED BY <1>4, <1>5

LEMMA CountedInsertAccount ==
  ASSUME "sql_error" \notin Faults, OnlyWords, TypeOK, Counted, InsertAccount
  PROVE  Counted'
<1>1. InsertsOrEnds BY InsertSteps
<1>2. /\ handler \in Busy /\ handler.at = "insert_account" /\ handler # Down
      /\ tb_account \in Seq(Account) /\ Len(tb_account) \in Nat
      /\ UNCHANGED mRegisterPlayerNum
  BY <1>1, HandlerTyped DEF TypeOK, DataBaseTypeOK, InsertsOrEnds
<1>3. CASE UNCHANGED tb_account /\ handler' = Idle
  BY <1>1, <1>2, <1>3, CountedQuietStep DEF InsertsOrEnds, Idle
<1>4. CASE tb_account' # tb_account
  <2> DEFINE last == Len(tb_account) + 1
  <2>1. mMySql = "up" /\ tb_account' = Append(tb_account, AccountRow)
    BY <1>1, <1>4 DEF InsertsOrEnds
  <2>2. mRegisterPlayerNum = Len(tb_account) /\ handler.role = Top(last)
    BY <1>2, <2>1 DEF Counted, Top
  <2>3. /\ Len(tb_account') = last
        /\ DOMAIN tb_account' = DOMAIN tb_account \cup {last}
        /\ tb_account'[last].role_id = Top(last)
        /\ \A i \in DOMAIN tb_account : tb_account'[i] = tb_account[i]
    BY <1>2, <2>1, <2>2 DEF AccountRow
  <2>4. \A i \in DOMAIN tb_account' : tb_account'[i].role_id = Top(i)
    <3> HIDE DEF last
    <3> QED BY <2>3 DEF Counted
  <2>5. CASE handler' = Idle
    <3>1. mMySql' # "up" BY <1>4, <2>5, InsertSteps
    <3> QED BY <2>4, <2>5, <3>1 DEF Counted, Idle, Down, Top
  <2>6. CASE /\ handler' = [handler EXCEPT !.at = "insert_role"]
             /\ mMySql' = "up"
    <3>1. /\ handler'.at = "insert_role" /\ handler' # Down
          /\ handler'.role = handler.role
      BY <1>2, <2>6 DEF Busy, Down
    <3> QED BY <1>2, <2>2, <2>3, <2>4, <2>6, <3>1 DEF Counted, Top
  <2> QED BY <1>1, <2>5, <2>6, <1>4 DEF InsertsOrEnds
<1> QED BY <1>1, <1>3, <1>4 DEF InsertsOrEnds

\* The role of the last row is free, so its INSERT is made and counted.
LEMMA CountedInsertRole ==
  ASSUME "sql_error" \notin Faults, TypeOK, RoleInv, Counted, InsertRole
  PROVE  Counted'
<1> DEFINE free == handler.role \notin tb_role
<1>1. PICK o \in InsertOutcomes({}, free) :
        /\ mMySql' = o.link
        /\ ~o.ok \/ mRegisterPlayerNum' = mRegisterPlayerNum + 1
  BY DEF InsertRole, RoleInserted
<1>2. /\ handler' = Idle /\ UNCHANGED tb_account
      /\ handler.at = "insert_role" /\ mMySql = "up"
      /\ Len(tb_account) = mRegisterPlayerNum + 1
      /\ handler.role = Top(Len(tb_account))
      /\ mRegisterPlayerNum \in Nat
  BY DEF TypeOK, InsertRole, Counted
<1>3. free = TRUE
  BY <1>2, SceneLogicAssumption DEF RoleInv, Top, TypeOK, DataBaseTypeOK
<1>4. mMySql' = "up" => o.ok
  <2> DEFINE no == {}
  <2>1. no \subseteq Words /\ o \in InsertOutcomes(no, free) BY <1>1
  <2>2. free \in BOOLEAN /\ DataBaseTypeOK BY DEF TypeOK
  <2> HIDE DEF no, free
  <2> QED BY <1>1, <1>3, <2>1, <2>2, InsertTyped
<1> QED BY <1>1, <1>2, <1>4 DEF Counted, Idle, Down, Top

LEMMA CountedNext ==
  ASSUME "sql_error" \notin Faults, OnlyWords, TypeOK, RoleInv, Counted,
         [Next]_vars
  PROVE  Counted'
<1>1. CASE UNCHANGED vars
  BY <1>1 DEF vars, dbVars, sceneVars, Counted, Top
<1>2. CASE Start
  <2>1. /\ UNCHANGED tb_account /\ handler' = Idle
        /\ mRegisterPlayerNum' = Len(tb_account)
    BY <1>2 DEF Start, CountAccounts, tables
  <2> QED BY <2>1 DEF Counted, Top, Idle, Down
<1>3. CASE Crash
  <2>1. UNCHANGED tb_account /\ handler' = Down /\ mMySql' = "lost"
    BY <1>3 DEF Crash, tables
  <2> QED BY <2>1 DEF Counted, Top, Down
<1>4. ASSUME NEW s \in Sockets, Connection(s)
      PROVE  Counted'
  BY <1>4, CountedQuietStep DEF Connection, dbVars, Idle, Down
<1>5. ASSUME NEW s \in Sockets, NEW n \in Names, NEW p \in Passwords,
             OnMessageLoginSceneRequest(s, n, p)
      PROVE  Counted'
  <2>1. /\ UNCHANGED <<tb_account, mRegisterPlayerNum>> /\ handler = Idle
        /\ handler' = handler \/ handler'.at = "load_role"
    BY <1>5 DEF OnMessageLoginSceneRequest, RefuseNotConnected, VerifyAccount,
                sceneVars, tables
  <2>2. mMySql' = "up" => mMySql = "up"
    BY <1>5, SelectKeepsLinkDown
       DEF OnMessageLoginSceneRequest, RefuseNotConnected, VerifyAccount
  <2> QED BY <2>1, <2>2, CountedQuietStep DEF Idle, Down
<1>6. CASE LoadPlayerData
  <2>1. mMySql' = "up" => mMySql = "up"
    BY <1>6, SelectKeepsLinkDown DEF LoadPlayerData
  <2> QED BY <1>6, <2>1, CountedQuietStep DEF LoadPlayerData, Idle, Down, tables
<1> QED BY <1>1, <1>2, <1>3, <1>4, <1>5, <1>6, CountedCreate,
           CountedInsertAccount, CountedInsertRole
        DEF Next

-----------------------------------------------------------------------------
(* The accounts of the players, when every result can be stored.           *)

LEMMA OwnedInit == Init => Owned
BY DEF Init, Owned, SessionOwnsRole, NoPlayers, Down

\* A step that takes no row away, lets nobody in and goes on to no role that is
\* not the account's.
LEMMA OwnedQuietStep ==
  ASSUME Owned,
         \A i \in DOMAIN tb_account :
           i \in DOMAIN tb_account' /\ tb_account'[i] = tb_account[i],
         \A s \in DOMAIN mPlayerData' :
           /\ s \in DOMAIN mPlayerData /\ mPlayerData'[s] = mPlayerData[s]
           /\ session'[s] = session[s],
         handler'.at = "load_role" => \E i \in DOMAIN tb_account' :
           /\ tb_account'[i].user_name = handler'.name
           /\ tb_account'[i].password = handler'.pass
           /\ tb_account'[i].role_id = handler'.role
  PROVE  Owned'
<1>1. SessionOwnsRole' BY DEF Owned, SessionOwnsRole
<1> QED BY <1>1 DEF Owned, Belongs

\* The role read by a login is that of the account it named.
LEMMA OwnedLogin ==
  ASSUME "store_error" \notin Faults, OnlyWords, Owned, NEW s \in Sockets,
         NEW n \in Names, NEW p \in Passwords,
         OnMessageLoginSceneRequest(s, n, p)
  PROVE  Owned'
<1> DEFINE rows == RowsOfLogin(n, p)
<1>1. /\ UNCHANGED <<tb_account, mPlayerData, session>>
      /\ handler = Idle
  BY DEF OnMessageLoginSceneRequest, sceneVars, tables
<1>2. CASE UNCHANGED handler
  BY <1>1, <1>2, OwnedQuietStep DEF Idle
<1>3. CASE ~UNCHANGED handler
  <2>1. PICK o \in SelectOutcomes({n, p}, rows) :
          /\ o.ok /\ o.result.found
          /\ \E next \in NextRow(o.result) :
               handler' = [at |-> "load_role", sock |-> s, name |-> n,
                           pass |-> p, role |-> next.val]
    BY <1>3 DEF OnMessageLoginSceneRequest, RefuseNotConnected, VerifyAccount
  <2>2. PICK next \in NextRow(o.result) :
          handler' = [at |-> "load_role", sock |-> s, name |-> n, pass |-> p,
                      role |-> next.val]
    BY <2>1
  <2>3. \A row \in rows : \E i \in DOMAIN tb_account :
          Belongs(i, n, p) /\ row.val = tb_account[i].role_id
    BY DEF RowsOfLogin, Belongs
  <2> HIDE DEF rows
  <2>4. o.result = Stored(rows)
    <3>1. {n, p} \subseteq Words BY WordsInText DEF Text
    <3> QED BY <2>1, <3>1, StoredSelect
  <2>5. rows # {}
    <3>1. Stored(rows).found <=> rows # {} BY Zenon DEF Stored
    <3> QED BY <2>1, <2>4, <3>1
  <2>6. PICK row \in rows : next.val = row.val BY <2>2, <2>4, <2>5, NextOfStored
  <2>7. PICK i \in DOMAIN tb_account :
          Belongs(i, n, p) /\ next.val = tb_account[i].role_id
    BY <2>3, <2>6
  <2> QED BY <1>1, <2>2, <2>7, OwnedQuietStep DEF Belongs
<1> QED BY <1>2, <1>3

\* The player enters with the role the login has read.
LEMMA OwnedLoad == ASSUME TypeOK, Owned, LoadPlayerData PROVE Owned'
<1>1. /\ UNCHANGED tb_account /\ handler' = Idle /\ handler.at = "load_role"
  BY DEF LoadPlayerData, tables
<1>2. CASE UNCHANGED <<mPlayerData, session>>
  BY <1>1, <1>2, OwnedQuietStep DEF Idle
<1>3. CASE \E money : EnterPlayer(money)
  <2>1. PICK money : EnterPlayer(money) BY <1>3
  <2>2. PICK j \in DOMAIN tb_account :
          /\ Belongs(j, handler.name, handler.pass)
          /\ tb_account[j].role_id = handler.role
    BY <1>1 DEF Owned
  <2>3. ASSUME NEW t \in DOMAIN mPlayerData'
        PROVE  \E i \in DOMAIN tb_account :
                 /\ Belongs(i, session'[t].name, session'[t].pass)
                 /\ tb_account[i].role_id = mPlayerData'[t].mCharID
    <3>1. CASE t = handler.sock
      <4>1. /\ mPlayerData'[t].mCharID = handler.role
            /\ session'[t].name = handler.name
            /\ session'[t].pass = handler.pass
        BY <2>1, <2>3, <3>1 DEF EnterPlayer, With
      <4> QED BY <2>2, <4>1
    <3>2. CASE t # handler.sock
      <4>1. /\ t \in DOMAIN mPlayerData
            /\ mPlayerData'[t] = mPlayerData[t]
            /\ session'[t] = session[t]
        BY <2>1, <2>3, <3>2 DEF EnterPlayer, With, TypeOK
      <4> QED BY <4>1 DEF Owned, SessionOwnsRole, Belongs
    <3> QED BY <3>1, <3>2
  <2>4. SessionOwnsRole' BY <1>1, <2>3 DEF SessionOwnsRole, Belongs
  <2> QED BY <1>1, <2>4 DEF Owned, Idle
<1> QED BY <1>2, <1>3 DEF LoadPlayerData

LEMMA OwnedNext ==
  ASSUME "store_error" \notin Faults, OnlyWords, TypeOK, Owned, [Next]_vars
  PROVE  Owned'
<1>1. CASE UNCHANGED vars
  BY <1>1 DEF vars, dbVars, sceneVars, Owned, SessionOwnsRole, Belongs
<1>2. CASE Start
  BY <1>2, OwnedQuietStep DEF Start, tables, Idle
<1>3. CASE Crash
  BY <1>3, OwnedQuietStep DEF Crash, tables, Down, NoPlayers
<1>4. ASSUME NEW s \in Sockets, Connection(s)
      PROVE  Owned'
  <2>1. /\ UNCHANGED <<tb_account, handler>> /\ handler = Idle
        /\ \A t \in DOMAIN mPlayerData' :
             /\ t \in DOMAIN mPlayerData /\ mPlayerData'[t] = mPlayerData[t]
             /\ session'[t] = session[t]
    BY <1>4 DEF Connection, OnConnectSocket, OnDisConnectSokcet, OnRecvConnect,
                OnRecvDisConnect, OnMessageConnect, OnMessageDisConnect,
                Without, TypeOK, dbVars
  <2> QED BY <2>1, OwnedQuietStep DEF Idle
<1>5. ASSUME NEW s \in Sockets, NEW n \in Names, NEW p \in Passwords,
             OnMessageCreateAccountRequest(s, n, p)
      PROVE  Owned'
  <2>1. /\ UNCHANGED <<tb_account, mPlayerData, session>>
        /\ handler'.at # "load_role"
    BY <1>5 DEF OnMessageCreateAccountRequest, tables, sceneVars, Idle
  <2> QED BY <2>1, OwnedQuietStep
<1>6. CASE InsertAccount
  <2>1. /\ InsertsOrEnds /\ handler \in Busy
    BY <1>6, InsertSteps, HandlerTyped DEF InsertAccount
  <2>2. UNCHANGED <<mPlayerData, session>> /\ handler'.at # "load_role"
    BY <2>1 DEF InsertsOrEnds, Busy, Idle
  <2>3. \A i \in DOMAIN tb_account :
          i \in DOMAIN tb_account' /\ tb_account'[i] = tb_account[i]
    BY <2>1 DEF InsertsOrEnds, TypeOK, DataBaseTypeOK
  <2> QED BY <2>2, <2>3, OwnedQuietStep
<1>7. CASE InsertRole
  BY <1>7, OwnedQuietStep DEF InsertRole, Idle
<1> QED BY <1>1, <1>2, <1>3, <1>4, <1>5, <1>6, <1>7, OwnedLogin, OwnedLoad
        DEF Next

-----------------------------------------------------------------------------
(* Names and answers, when nothing fails but the connection and the        *)
(* process, and texts are words and stored as typed.                       *)

LEMMA AnsweredInit == Init => Answered
BY DEF Init, Answered, Named, Recorded, AccountNamesUnique,
       CreatedAccountCanLogIn, NoReply, Down

\* A step that leaves tables and history alone, starts no INSERT and sends no
\* answer to a login that must succeed.
LEMMA AnsweredQuietStep ==
  ASSUME Answered, UNCHANGED <<tables, created>>,
         handler'.at \notin {"insert_account", "insert_role"},
         CreatedAccountCanLogIn'
  PROVE  Answered'
<1>1. Named' BY DEF Answered, Named, AccountNamesUnique, tables
<1>2. Recorded' BY DEF Answered, Recorded, Belongs, tables
<1> QED BY <1>1, <1>2 DEF Answered

\* An account that was created is found, and its role is not zero.
LEMMA AnsweredLogin ==
  ASSUME SafeFaults, OnlyWords, TypeOK, AccountInv, NEW s \in Sockets,
         NEW n \in Names, NEW p \in Passwords,
         OnMessageLoginSceneRequest(s, n, p)
  PROVE  Answered'
<1>1. /\ UNCHANGED <<tables, created>> /\ handler = Idle
      /\ handler' = handler \/ handler'.at = "load_role"
  BY DEF OnMessageLoginSceneRequest, RefuseNotConnected, VerifyAccount
<1>2. ASSUME RefuseNotConnected(s, n, p) PROVE CreatedAccountCanLogIn'
  BY <1>2 DEF RefuseNotConnected, SendLoginSceneResponse,
              CreatedAccountCanLogIn
<1>3. ASSUME VerifyAccount(s, n, p) PROVE CreatedAccountCanLogIn'
  <2> DEFINE rows == RowsOfLogin(n, p)
             texts == {n, p}
  <2>0. texts \subseteq Words BY WordsInText DEF Text
  <2>1. PICK o \in SelectOutcomes(texts, rows) : VerifyAccount(s, n, p)!2!(o)
    BY <1>3 DEF VerifyAccount
  <2> HIDE DEF texts
  <2>2. <<n, p>> \in created => rows # {}
    <3> SUFFICES ASSUME <<n, p>> \in created PROVE rows # {} OBVIOUS
    <3>1. PICK i \in DOMAIN tb_account : Belongs(i, n, p)
      BY DEF AccountInv, Answered, Recorded
    <3> QED BY <3>1 DEF RowsOfLogin, Belongs
  <2>3. Stored(rows).found <=> rows # {}
    <3> HIDE DEF rows
    <3> QED BY Zenon DEF Stored
  <2>4. CASE ~o.ok \/ ~o.result.found
    <3>1. /\ SendLoginSceneResponse(s, n, p, "LOGIN_ACOUNT_INVAILD")
          /\ mMySql' = o.link
      BY <2>1, <2>4
    <3>2. mMySql' = "up" => <<n, p>> \notin created
      BY <2>0, <2>2, <2>3, <2>4, <3>1, SafeSelect
    <3> QED BY <1>1, <3>1, <3>2 DEF CreatedAccountCanLogIn, SendLoginSceneResponse
  <2>5. CASE o.ok /\ o.result.found
    <3>1. o.result = Stored(rows) /\ rows # {}
      BY <2>0, <2>3, <2>5, SafeSelect
    <3>2. PICK next \in NextRow(o.result) : next.val <= 0 \/ reply' = NoReply
      BY <2>1, <2>5
    <3>3. \A row \in rows : \E i \in DOMAIN tb_account :
            row.val = tb_account[i].role_id
      BY DEF RowsOfLogin
    <3>4. PICK i \in DOMAIN tb_account : next.val = tb_account[i].role_id
      <4> HIDE DEF rows
      <4>1. PICK row \in rows : next.val = row.val
        BY <3>1, <3>2, NextOfStored
      <4> QED BY <3>3, <4>1
    <3>5. next.val = Top(i) /\ i \in Nat /\ i >= 1
      BY <3>4 DEF AccountInv, Counted, TypeOK, DataBaseTypeOK
    <3>6. reply' = NoReply BY <3>2, <3>5, SceneLogicAssumption DEF Top
    <3> QED BY <3>6 DEF CreatedAccountCanLogIn, NoReply
  <2> QED BY <2>4, <2>5
<1>4. CreatedAccountCanLogIn'
  BY <1>2, <1>3 DEF OnMessageLoginSceneRequest
<1> QED BY <1>1, <1>4, AnsweredQuietStep DEF AccountInv, Idle

\* The role of an account that was created is found too.
LEMMA AnsweredLoad ==
  ASSUME SafeFaults, TypeOK, AccountInv, LoadPlayerData
  PROVE  Answered'
<1> DEFINE rows == RowsOfRole(handler.role)
           no == {}
<1>0. no \subseteq Words OBVIOUS
<1>1. /\ UNCHANGED <<tables, created>>
      /\ handler' = Idle /\ handler.at = "load_role"
  BY DEF LoadPlayerData
<1>2. PICK o \in SelectOutcomes(no, rows) :
        /\ mMySql' = o.link
        /\ \/ ~o.ok \/ ~o.result.found
           \/ \E next \in NextRow(o.result) :
                \/ ~next.got
                \/ SendLoginSceneResponse(handler.sock, handler.name,
                                          handler.pass, "SUCCESS")
  BY DEF LoadPlayerData
<1>3. CreatedAccountCanLogIn'
  <2> SUFFICES ASSUME <<handler.name, handler.pass>> \in created,
                      mMySql' = "up"
               PROVE  reply'.result = "SUCCESS"
    BY <1>1 DEF CreatedAccountCanLogIn, LoadPlayerData, SendLoginSceneResponse
  <2>1. PICK j \in DOMAIN tb_account :
          /\ Belongs(j, handler.name, handler.pass)
          /\ tb_account[j].role_id = handler.role
    BY <1>1 DEF AccountInv, Owned
  <2>2. PICK i \in DOMAIN tb_account :
          /\ Belongs(i, handler.name, handler.pass)
          /\ tb_account[i].role_id \in tb_role
    BY DEF AccountInv, Answered, Recorded
  <2>3. i = j
    BY <2>1, <2>2 DEF AccountInv, Answered, Named, AccountNamesUnique, Belongs
  <2>4. rows # {} BY <2>1, <2>2, <2>3 DEF RowsOfRole
  <2>5. o.ok /\ o.result = Stored(rows)
    <3> HIDE DEF no
    <3> QED BY <1>0, <1>2, SafeSelect
  <2>6. o.result.found
    <3> HIDE DEF rows
    <3>1. Stored(rows).found <=> rows # {} BY Zenon DEF Stored
    <3> QED BY <2>4, <2>5, <3>1
  <2>7. \A next \in NextRow(o.result) : next.got
    <3> HIDE DEF rows
    <3> QED BY <2>4, <2>5, NextOfStored
  <2>8. SendLoginSceneResponse(handler.sock, handler.name, handler.pass,
                               "SUCCESS")
    BY <1>2, <2>5, <2>6, <2>7
  <2> QED BY <2>8 DEF SendLoginSceneResponse
<1> QED BY <1>1, <1>3, AnsweredQuietStep DEF AccountInv, Idle

\* A create request that goes on to its INSERT has found no row of its name.
LEMMA AnsweredCreate ==
  ASSUME SafeFaults, OnlyWords, Answered, NEW s \in Sockets, NEW n \in Names,
         NEW p \in Passwords, OnMessageCreateAccountRequest(s, n, p)
  PROVE  Answered'
<1> DEFINE rows == RowsOfName(n)
           texts == {n}
<1>0. texts \subseteq Words BY WordsInText DEF Text
<1>1. UNCHANGED <<tables, created>> /\ handler = Idle
  BY DEF OnMessageCreateAccountRequest
<1>2. PICK o \in SelectOutcomes(texts, rows) :
        /\ mMySql' = o.link
        /\ \/ /\ SendCreateAccountResponse(s, n, p, "CREATE_EXIST")
              /\ UNCHANGED handler
           \/ /\ ~o.ok \/ ~o.result.found
              /\ handler' = [at |-> "insert_account", sock |-> s, name |-> n,
                             pass |-> p,
                             role |-> mStartCharID + mRegisterPlayerNum + 1]
              /\ reply' = NoReply
  BY DEF OnMessageCreateAccountRequest
<1>3. CreatedAccountCanLogIn'
  BY <1>2 DEF CreatedAccountCanLogIn, SendCreateAccountResponse, NoReply
<1>4. CASE UNCHANGED handler
  BY <1>1, <1>3, <1>4, AnsweredQuietStep DEF Idle
<1>5. CASE ~UNCHANGED handler
  <2>1. /\ handler'.at = "insert_account" /\ handler'.name = n
        /\ ~o.ok \/ ~o.result.found
    BY <1>2, <1>5
  <2>2. mMySql' = "up" => rows = {}
    <3> HIDE DEF rows, texts
    <3>1. Stored(rows).found <=> rows # {} BY Zenon DEF Stored
    <3> QED BY <1>0, <1>2, <2>1, <3>1, SafeSelect
  <2>3. rows = {} => \A i \in DOMAIN tb_account : tb_account[i].user_name # n
    BY DEF RowsOfName
  <2>4. Named'
    BY <1>1, <2>1, <2>2, <2>3 DEF Answered, Named, AccountNamesUnique, tables
  <2>5. Recorded' BY <1>1, <2>1 DEF Answered, Recorded, Belongs, tables
  <2> QED BY <1>3, <2>4, <2>5 DEF Answered
<1> QED BY <1>4, <1>5

\* The row keeps name and password, and no other has the name.
LEMMA AnsweredInsertAccount ==
  ASSUME StoredAsTyped, TypeOK, Answered, InsertAccount
  PROVE  Answered'
<1>1. InsertsOrEnds BY InsertSteps DEF StoredAsTyped
<1>2. /\ handler \in Busy /\ handler.at = "insert_account"
      /\ tb_account \in Seq(Account) /\ Len(tb_account) \in Nat
      /\ UNCHANGED <<tb_role, created>>
  BY <1>1, HandlerTyped DEF TypeOK, DataBaseTypeOK, InsertsOrEnds
<1>3. CreatedAccountCanLogIn'
  BY DEF InsertAccount, CreatedAccountCanLogIn, SendCreateAccountResponse,
         NoReply
<1>4. CASE UNCHANGED tb_account /\ handler' = Idle
  BY <1>2, <1>3, <1>4, AnsweredQuietStep DEF tables, Idle
<1>5. CASE tb_account' # tb_account
  <2> DEFINE last == Len(tb_account) + 1
  <2>1. /\ mMySql = "up" /\ tb_account' = Append(tb_account, AccountRow)
        /\ Accepts(AccountRow)
    BY <1>1, <1>5 DEF InsertsOrEnds
  <2>2. /\ AccountRow.user_name = handler.name
        /\ AccountRow.password = handler.pass
    BY <1>2, <2>1, StoredRow
  <2>3. /\ Len(tb_account') = last
        /\ DOMAIN tb_account' = DOMAIN tb_account \cup {last}
        /\ tb_account'[last] = AccountRow
        /\ \A i \in DOMAIN tb_account : tb_account'[i] = tb_account[i]
    BY <1>2, <2>1
  <2>4. \/ handler' = Idle
        \/ /\ handler'.at = "insert_role"
           /\ handler'.name = handler.name /\ handler'.pass = handler.pass
    BY <1>1, <1>2, <1>5 DEF InsertsOrEnds, Busy
  <2>5. Named'
    <3>1. \A i \in DOMAIN tb_account : tb_account[i].user_name # handler.name
      BY <1>2, <2>1 DEF Answered, Named
    <3>2. AccountNamesUnique'
      BY <2>2, <2>3, <3>1 DEF Answered, Named, AccountNamesUnique
    <3> QED BY <2>4, <3>2 DEF Named, Idle
  <2>6. Recorded'
    <3>1. handler'.at = "insert_role" =>
            /\ tb_account'[Len(tb_account')].user_name = handler'.name
            /\ tb_account'[Len(tb_account')].password = handler'.pass
      BY <2>2, <2>3, <2>4 DEF Idle
    <3> HIDE DEF last
    <3> QED BY <1>2, <2>3, <3>1 DEF Answered, Recorded, Belongs
  <2> QED BY <1>3, <2>5, <2>6 DEF Answered
<1> QED BY <1>1, <1>4, <1>5 DEF InsertsOrEnds

\* The client is told of an account once its row and its role exist.
LEMMA AnsweredInsertRole ==
  ASSUME TypeOK, AccountInv, InsertRole
  PROVE  Answered'
<1> DEFINE free == handler.role \notin tb_role
<1>1. PICK o \in InsertOutcomes({}, free) :
        /\ tb_role' = IF o.written THEN tb_role \cup {handler.role} ELSE tb_role
        /\ \/ UNCHANGED created
           \/ o.ok /\ created' = created \cup {<<handler.name, handler.pass>>}
  BY DEF InsertRole, RoleInserted
<1>2. /\ handler' = Idle /\ UNCHANGED tb_account
      /\ tb_account \in Seq(Account) /\ Len(tb_account) \in DOMAIN tb_account
      /\ tb_account[Len(tb_account)].role_id = handler.role
      /\ Belongs(Len(tb_account), handler.name, handler.pass)
  BY DEF TypeOK, DataBaseTypeOK, InsertRole, AccountInv, Counted, Answered,
         Recorded
<1>3. o.ok => o.written
  <2>1. free \in BOOLEAN /\ DataBaseTypeOK BY DEF TypeOK
  <2> HIDE DEF free
  <2> QED BY <1>1, <2>1, InsertTyped
<1>4. CreatedAccountCanLogIn'
  BY DEF InsertRole, CreatedAccountCanLogIn, SendCreateAccountResponse
<1>5. Named' BY <1>2 DEF AccountInv, Answered, Named, AccountNamesUnique, Idle
<1>6. Recorded'
  <2> SUFFICES ASSUME NEW c \in created'
               PROVE  \E i \in DOMAIN tb_account :
                        /\ Belongs(i, c[1], c[2])
                        /\ tb_account[i].role_id \in tb_role'
    BY <1>2 DEF Recorded, Belongs, Idle
  <2>1. CASE c \in created
    BY <1>1, <2>1 DEF AccountInv, Answered, Recorded
  <2>2. CASE c = <<handler.name, handler.pass>> /\ o.ok
    BY <1>1, <1>2, <1>3, <2>2
  <2> QED BY <1>1, <2>1, <2>2
<1> QED BY <1>4, <1>5, <1>6 DEF Answered

LEMMA AnsweredNext ==
  ASSUME SafeFaults, StoredAsTyped, TypeOK, AccountInv, [Next]_vars
  PROVE  Answered'
<1> USE DEF AccountInv
<1>1. CASE UNCHANGED vars
  BY <1>1 DEF vars, dbVars, Answered, Named, Recorded, AccountNamesUnique,
              CreatedAccountCanLogIn, Belongs
<1>2. CASE Start
  BY <1>2, AnsweredQuietStep DEF Start, CreatedAccountCanLogIn, NoReply, Idle
<1>3. CASE Crash
  BY <1>3, AnsweredQuietStep DEF Crash, CreatedAccountCanLogIn, NoReply, Down
<1>4. ASSUME NEW s \in Sockets, Connection(s)
      PROVE  Answered'
  BY <1>4, AnsweredQuietStep
     DEF Connection, CreatedAccountCanLogIn, NoReply, dbVars, tables, Idle
<1>5. OnlyWords BY DEF StoredAsTyped
<1> QED BY <1>1, <1>2, <1>3, <1>4, <1>5, AnsweredLogin, AnsweredLoad, AnsweredCreate,
           AnsweredInsertAccount, AnsweredInsertRole
        DEF Next

-----------------------------------------------------------------------------
LEMMA CountedHolds ==
  "sql_error" \notin Faults /\ OnlyWords => (Spec => []Counted)
<1> SUFFICES ASSUME "sql_error" \notin Faults, OnlyWords PROVE Spec => []Counted
  OBVIOUS
<1>1. TypeOK /\ RoleInv /\ Counted /\ [Next]_vars => Counted' BY CountedNext
<1> QED BY <1>1, CountedInit, TypeCorrect, RoleInit, RoleNext, PTL DEF Spec

LEMMA OwnedHolds ==
  "store_error" \notin Faults /\ OnlyWords => (Spec => []Owned)
<1> SUFFICES ASSUME "store_error" \notin Faults, OnlyWords PROVE Spec => []Owned
  OBVIOUS
<1>1. TypeOK /\ Owned /\ [Next]_vars => Owned' BY OwnedNext
<1> QED BY <1>1, OwnedInit, TypeCorrect, PTL DEF Spec

LEMMA AccountInvHolds ==
  ASSUME SafeFaults, StoredAsTyped
  PROVE  Spec => []AccountInv
<1>1. "sql_error" \notin Faults /\ "store_error" \notin Faults /\ OnlyWords
  BY DEF SafeFaults, StoredAsTyped
<1>2. Spec => []Counted /\ []Owned BY <1>1, CountedHolds, OwnedHolds
<1>3. TypeOK /\ Counted /\ Owned /\ Answered /\ [Next]_vars => Answered'
  BY AnsweredNext DEF AccountInv
<1>4. Counted /\ Owned /\ Answered => AccountInv BY DEF AccountInv
<1> QED BY <1>2, <1>3, <1>4, AnsweredInit, TypeCorrect, PTL DEF Spec

\* No two accounts share a role, whatever SELECT or result fails, when names
\* and passwords are words (each INSERT adds one row), stored as typed or not:
\* a connection that breaks or a process that is killed is followed by a start
\* that counts the accounts again.
THEOREM RolesNotShared ==
  ASSUME "sql_error" \notin Faults, OnlyWords
  PROVE  Spec => []OneAccountPerRole
<1>1. TypeOK /\ Counted => OneAccountPerRole
  BY SceneLogicAssumption DEF TypeOK, DataBaseTypeOK, Counted,
                              OneAccountPerRole, Top
<1> QED BY <1>1, CountedHolds, TypeCorrect, PTL

\* A player plays the role of the account whose name and password it gave,
\* whatever statement fails, when names and passwords are words and the shared
\* result object is filled by every SELECT that returns true.
THEOREM PlayersOwnTheirRole ==
  ASSUME "store_error" \notin Faults, OnlyWords
  PROVE  Spec => []SessionOwnsRole
<1>1. Owned => SessionOwnsRole BY DEF Owned
<1> QED BY <1>1, OwnedHolds, PTL

\* No two accounts have the same name, when texts are words and stored as typed,
\* although nothing but the SELECT of OnMessageCreateAccountRequest prevents it
\* and its answer is old by the time of the INSERT.
THEOREM NamesUnique ==
  ASSUME SafeFaults, StoredAsTyped
  PROVE  Spec => []AccountNamesUnique
<1>1. AccountInv => AccountNamesUnique BY DEF AccountInv, Answered, Named
<1> QED BY <1>1, AccountInvHolds, PTL

\* An account the server said it created can log in, when texts are words and
\* stored as typed, whatever broke or was killed in between.
THEOREM CreatedCanLogIn ==
  ASSUME SafeFaults, StoredAsTyped
  PROVE  Spec => []CreatedAccountCanLogIn
<1>1. AccountInv => CreatedAccountCanLogIn BY DEF AccountInv, Answered
<1> QED BY <1>1, AccountInvHolds, PTL

=============================================================================
