------------------------- MODULE SceneServiceProofs -------------------------
(***************************************************************************)
(* SceneLogic implements LoginService, for every value of the constants    *)
(* under which names and passwords are words stored as typed, and nothing  *)
(* fails but the connection to MySQL and the process.                      *)
(***************************************************************************)
EXTENDS SceneAccountProofs

\* The rows the refinement mapping chooses are the only ones of their name and
\* of their role.
RowsFound ==
  \A i \in DOMAIN tb_account : /\ RowOf(tb_account[i].user_name) = i
                               /\ RowOfRole(tb_account[i].role_id) = i

LEMMA RowsAreFound == TypeOK /\ AccountInv => RowsFound
<1> SUFFICES ASSUME TypeOK, AccountInv, NEW i \in DOMAIN tb_account
             PROVE  /\ RowOf(tb_account[i].user_name) = i
                    /\ RowOfRole(tb_account[i].role_id) = i
  BY DEF RowsFound
<1> DEFINE n == tb_account[i].user_name
           r == tb_account[i].role_id
<1>1. RowOf(n) \in DOMAIN tb_account /\ tb_account[RowOf(n)].user_name = n
  BY DEF RowOf
<1>2. RowOfRole(r) \in DOMAIN tb_account /\ tb_account[RowOfRole(r)].role_id = r
  BY DEF RowOfRole
<1>3. RowOf(n) = i BY <1>1 DEF AccountInv, Answered, Named, AccountNamesUnique
<1>4. OneAccountPerRole
  BY SceneLogicAssumption DEF TypeOK, DataBaseTypeOK, AccountInv, Counted,
                              OneAccountPerRole, Top
<1>5. RowOfRole(r) = i BY <1>2, <1>4 DEF OneAccountPerRole
<1> QED BY <1>3, <1>5

\* The two books, row by row and player by player.
LEMMA AccountBook ==
  ASSUME RowsFound
  PROVE  /\ DOMAIN accountBook = {tb_account[i].user_name : i \in DOMAIN tb_account}
         /\ \A i \in DOMAIN tb_account :
              accountBook[tb_account[i].user_name] =
                [pass  |-> tb_account[i].password,
                 ready |-> tb_account[i].role_id \in tb_role]
<1>1. DOMAIN accountBook = {tb_account[i].user_name : i \in DOMAIN tb_account}
  BY DEF accountBook
<1>2. ASSUME NEW i \in DOMAIN tb_account
      PROVE  accountBook[tb_account[i].user_name] =
                [pass  |-> tb_account[i].password,
                 ready |-> tb_account[i].role_id \in tb_role]
  <2>1. RowOf(tb_account[i].user_name) = i BY DEF RowsFound
  <2>2. accountBook[tb_account[i].user_name] =
          [pass  |-> tb_account[RowOf(tb_account[i].user_name)].password,
           ready |-> tb_account[RowOf(tb_account[i].user_name)].role_id \in tb_role]
    BY Zenon DEF accountBook
  <2> QED BY <2>1, <2>2, Zenon
<1> QED BY <1>1, <1>2

\* A step that touches neither tables nor players.
LEMMA BooksQuiet ==
  ASSUME UNCHANGED <<tables, mPlayerData, session>>
  PROVE  UNCHANGED <<accountBook, playerBook>>
BY DEF accountBook, playerBook, RowOf, RowOfRole, tables

LEMMA AccountsQuiet ==
  ASSUME UNCHANGED tables
  PROVE  UNCHANGED accountBook
BY DEF accountBook, RowOf, tables

\* A player keeps its entry as long as the tables only grow.
LEMMA PlayersQuiet ==
  ASSUME RowsFound, RowsFound', SessionOwnsRole,
         UNCHANGED <<mPlayerData, session>>,
         \A i \in DOMAIN tb_account : /\ i \in DOMAIN tb_account'
                                      /\ tb_account'[i] = tb_account[i]
  PROVE  UNCHANGED playerBook
<1>1. ASSUME NEW s \in DOMAIN mPlayerData
      PROVE  tb_account'[RowOfRole(mPlayerData[s].mCharID)'].user_name
             = tb_account[RowOfRole(mPlayerData[s].mCharID)].user_name
  <2>1. PICK i \in DOMAIN tb_account :
          tb_account[i].role_id = mPlayerData[s].mCharID
    BY DEF SessionOwnsRole
  <2>2. RowOfRole(mPlayerData[s].mCharID) = i BY <2>1 DEF RowsFound
  <2>3. RowOfRole(mPlayerData[s].mCharID)' = i BY <2>1 DEF RowsFound
  <2> QED BY <2>2, <2>3
<1> QED BY <1>1 DEF playerBook

-----------------------------------------------------------------------------
(* Steps.                                                                  *)

\* What an entry of accountBook holds.
LEMMA BookEntry ==
  ASSUME NEW entry, NEW p, NEW r, entry = [pass |-> p, ready |-> r]
  PROVE  entry.pass = p /\ (r <=> entry.ready)
BY Zenon

LEMMA BookEntryReady ==
  ASSUME NEW entry, NEW p, NEW r, NEW x, entry = [pass |-> p, ready |-> r]
  PROVE  [entry EXCEPT !.ready = x] = [pass |-> p, ready |-> x]
OBVIOUS

LEMMA ServiceInit == Init => Service!Init
<1> SUFFICES ASSUME Init PROVE Service!Init OBVIOUS
<1>1. tb_account = << >> /\ DOMAIN mPlayerData = {}
  BY DEF Init, NoPlayers
<1>2. accountBook = Service!Empty BY <1>1 DEF accountBook, Service!Empty
<1>3. playerBook = Service!Empty BY <1>1 DEF playerBook, Service!Empty
<1> QED BY <1>2, <1>3 DEF Service!Init

\* A kill logs every player out.
LEMMA ServiceCrash ==
  ASSUME Crash
  PROVE  Service!Restart
<1>1. UNCHANGED accountBook BY AccountsQuiet DEF Crash
<1>2. DOMAIN mPlayerData' = {} BY DEF Crash, NoPlayers
<1>3. playerBook' = Service!Empty BY <1>2 DEF playerBook, Service!Empty
<1> QED BY <1>1, <1>3 DEF Service!Restart

\* The player of a socket is erased, whoever said it left.
LEMMA ServiceDisConnect ==
  ASSUME TypeOK, NEW s \in Sockets, UNCHANGED tables, OnMessageDisConnect(s)
  PROVE  Service!LogOut(s) \/ UNCHANGED <<accountBook, playerBook>>
<1>1. UNCHANGED tables OBVIOUS
<1>2. UNCHANGED accountBook BY <1>1, AccountsQuiet
<1>3. playerBook' = [t \in DOMAIN playerBook \ {s} |-> playerBook[t]]
  <2>1. /\ DOMAIN mPlayerData' = DOMAIN mPlayerData \ {s}
        /\ \A t \in DOMAIN mPlayerData' :
             mPlayerData'[t] = mPlayerData[t] /\ session'[t] = session[t]
    BY DEF OnMessageDisConnect, Without, TypeOK
  <2>2. /\ DOMAIN playerBook = DOMAIN mPlayerData
        /\ \A t \in DOMAIN mPlayerData : playerBook[t] =
             [name |-> tb_account[RowOfRole(mPlayerData[t].mCharID)].user_name,
              pass |-> session[t].pass]
    BY DEF playerBook
  <2>3. tb_account' = tb_account /\ \A r : RowOfRole(r)' = RowOfRole(r)
    BY <1>1 DEF RowOfRole, tables
  <2> QED BY <2>1, <2>2, <2>3 DEF playerBook
<1>4. CASE s \in DOMAIN playerBook BY <1>2, <1>3, <1>4 DEF Service!LogOut
<1>5. CASE s \notin DOMAIN playerBook
  <2>1. playerBook = [t \in DOMAIN playerBook |-> playerBook[t]]
    BY Zenon DEF playerBook
  <2> QED BY <1>2, <1>3, <1>5, <2>1
<1> QED BY <1>4, <1>5

\* A login that ends well enters a player with the account it checked, whose
\* role exists.
LEMMA ServiceLoad ==
  ASSUME SafeFaults, TypeOK, SocketInv, AccountInv, RowsFound, LoadPlayerData
  PROVE  \/ \E s \in Sockets : \E n \in Names : Service!LogIn(s, n)
         \/ UNCHANGED <<accountBook, playerBook>>
<1> DEFINE s == handler.sock
           n == handler.name
<1>1. UNCHANGED tables /\ handler.at = "load_role" BY DEF LoadPlayerData
<1>2. UNCHANGED accountBook BY <1>1, AccountsQuiet
<1>3. CASE UNCHANGED <<mPlayerData, session>>
  BY <1>1, <1>3, BooksQuiet
<1>4. CASE ~UNCHANGED <<mPlayerData, session>>
  <2>1. PICK o \in SelectOutcomes({}, RowsOfRole(handler.role)) :
          o.ok /\ o.result.found /\ \E money : EnterPlayer(money)
    BY <1>4 DEF LoadPlayerData
  <2>2. handler.role \in tb_role
    <3>1. o.result = Stored(RowsOfRole(handler.role)) BY <2>1, SafeSelect
    <3>2. Stored(RowsOfRole(handler.role)).found <=> RowsOfRole(handler.role) # {}
      BY Zenon DEF Stored
    <3> QED BY <2>1, <3>1, <3>2 DEF RowsOfRole
  <2>3. PICK i \in DOMAIN tb_account :
          /\ tb_account[i].user_name = n /\ tb_account[i].password = handler.pass
          /\ tb_account[i].role_id = handler.role
    BY <1>1 DEF AccountInv, Owned, Belongs
  <2>4. PICK money : EnterPlayer(money) BY <2>1
  <2>5. s \in Sockets /\ n \in Names /\ s \notin DOMAIN mPlayerData
    BY <1>1, HandlerTyped DEF Busy, SocketInv, SocketLists
  <2>6. /\ n \in DOMAIN accountBook
        /\ accountBook[n] = [pass |-> handler.pass, ready |-> handler.role \in tb_role]
    BY <2>3, AccountBook
  <2>7. accountBook[n].ready BY <2>2, <2>6, BookEntry
  <2>8. accountBook[n].pass = handler.pass BY <2>6, BookEntry
  <2>9. playerBook' = Service!Add(playerBook, s,
                                  [name |-> n, pass |-> accountBook[n].pass])
    <3>1. DOMAIN mPlayerData' = DOMAIN mPlayerData \cup {s}
      BY <2>4 DEF EnterPlayer, With
    <3>2. /\ mPlayerData'[s].mCharID = handler.role
          /\ session'[s].pass = handler.pass
          /\ \A t \in DOMAIN mPlayerData :
               mPlayerData'[t] = mPlayerData[t] /\ session'[t] = session[t]
      BY <2>4, <2>5 DEF EnterPlayer, With, TypeOK
    <3>3. RowOfRole(handler.role) = i BY <2>3 DEF RowsFound
    <3>4. playerBook' = [t \in DOMAIN mPlayerData' |->
             [name |-> tb_account[RowOfRole(mPlayerData'[t].mCharID)].user_name,
              pass |-> session'[t].pass]]
      BY <1>1 DEF playerBook, RowOfRole, tables
    <3>5. DOMAIN playerBook = DOMAIN mPlayerData
          /\ \A t \in DOMAIN mPlayerData : playerBook[t] =
               [name |-> tb_account[RowOfRole(mPlayerData[t].mCharID)].user_name,
                pass |-> session[t].pass]
      BY DEF playerBook
    <3> HIDE DEF s, n
    <3> QED BY <2>3, <2>5, <2>8, <3>1, <3>2, <3>3, <3>4, <3>5
            DEF Service!Add
  <2>10. s \notin DOMAIN playerBook BY <2>5 DEF playerBook
  <2>11. Service!LogIn(s, n)
    BY <1>2, <2>5, <2>6, <2>7, <2>9, <2>10, Zenon DEF Service!LogIn
  <2> QED BY <2>5, <2>11
<1> QED BY <1>3, <1>4

\* The row written registers its name, with no role yet.
LEMMA ServiceInsertAccount ==
  ASSUME StoredAsTyped, TypeOK, RoleInv, AccountInv, RowsFound,
         RowsFound', InsertAccount
  PROVE  \/ \E n \in Names : \E p \in Passwords : Service!Register(n, p)
         \/ UNCHANGED <<accountBook, playerBook>>
<1> DEFINE last == Len(tb_account) + 1
<1>0. PICK n, p : n = handler.name /\ p = handler.pass OBVIOUS
<1>1. InsertsOrEnds BY InsertSteps DEF StoredAsTyped
<1>2. /\ UNCHANGED <<tb_role, mPlayerData, session>>
      /\ handler \in Busy /\ handler.at = "insert_account"
      /\ tb_account \in Seq(Account)
  BY <1>1, HandlerTyped DEF InsertsOrEnds, TypeOK, DataBaseTypeOK
<1>3. CASE UNCHANGED tb_account BY <1>2, <1>3, BooksQuiet DEF tables
<1>4. CASE tb_account' # tb_account
  <2>1. /\ Accepts(AccountRow) /\ mMySql = "up"
        /\ tb_account' = Append(tb_account, AccountRow)
    BY <1>1, <1>4 DEF InsertsOrEnds
  <2>2. /\ AccountRow.user_name = n /\ AccountRow.password = p
        /\ AccountRow.role_id = handler.role
    BY <1>0, <1>2, <2>1, StoredRow
  <2>3. /\ DOMAIN tb_account' = DOMAIN tb_account \cup {last}
        /\ tb_account'[last] = AccountRow
        /\ \A i \in DOMAIN tb_account : tb_account'[i] = tb_account[i]
    BY <1>2, <2>1
  <2>4. handler.role \notin tb_role
    BY <1>2, <2>1, SceneLogicAssumption
       DEF RoleInv, Top, TypeOK, DataBaseTypeOK
  <2>5. n \in Names /\ p \in Passwords BY <1>0, <1>2 DEF Busy
  <2>6. n \notin DOMAIN accountBook
    BY <1>0, <1>2, <2>1 DEF AccountInv, Answered, Named, accountBook
  <2>7. UNCHANGED playerBook
    BY <1>2, <2>3, PlayersQuiet DEF AccountInv, Owned
  <2>8. accountBook' =
          Service!Add(accountBook, n, [pass |-> p, ready |-> FALSE])
    <3>1. DOMAIN accountBook' = DOMAIN accountBook \cup {n}
      BY <2>2, <2>3 DEF accountBook
    <3>2. accountBook'[n] = [pass |-> p, ready |-> FALSE]
      <4>0. PICK k : k = last OBVIOUS
      <4>1. RowOf(n)' = k BY <2>2, <2>3, <4>0 DEF RowsFound
      <4>2. n \in {tb_account'[i].user_name : i \in DOMAIN tb_account'}
        BY <2>2, <2>3
      <4>3. accountBook'[n] = [pass |-> tb_account'[RowOf(n)'].password,
                               ready |-> tb_account'[RowOf(n)'].role_id \in tb_role']
        BY <4>2, Zenon DEF accountBook
      <4>4. /\ tb_account'[k].password = p
            /\ (tb_account'[k].role_id \in tb_role') = FALSE
        BY <1>2, <2>2, <2>3, <2>4, <4>0
      <4> QED BY <4>1, <4>3, <4>4, Zenon
    <3>3. ASSUME NEW m \in DOMAIN accountBook
          PROVE  accountBook'[m] = accountBook[m]
      <4>1. PICK i \in DOMAIN tb_account : m = tb_account[i].user_name
        BY DEF accountBook
      <4>2. RowOf(m)' = i /\ RowOf(m) = i BY <2>3, <4>1 DEF RowsFound
      <4>3. /\ m \in {tb_account'[j].user_name : j \in DOMAIN tb_account'}
            /\ m \in {tb_account[j].user_name : j \in DOMAIN tb_account}
        BY <2>3, <4>1
      <4>4. /\ accountBook'[m] = [pass |-> tb_account'[RowOf(m)'].password,
                    ready |-> tb_account'[RowOf(m)'].role_id \in tb_role']
            /\ accountBook[m] = [pass |-> tb_account[RowOf(m)].password,
                    ready |-> tb_account[RowOf(m)].role_id \in tb_role]
        BY <4>3, Zenon DEF accountBook
      <4>5. tb_account'[i] = tb_account[i] /\ tb_role' = tb_role
        BY <1>2, <2>3
      <4> QED BY <4>2, <4>4, <4>5, Zenon
    <3>4. accountBook' = [m \in DOMAIN accountBook' |-> accountBook'[m]]
      BY Zenon DEF accountBook
    <3> QED BY <2>6, <3>1, <3>2, <3>3, <3>4, Zenon DEF Service!Add
  <2> QED BY <2>5, <2>6, <2>7, <2>8 DEF Service!Register
<1> QED BY <1>3, <1>4

\* The role written makes one account ready, which was not.
LEMMA ServiceInsertRole ==
  ASSUME TypeOK, RoleInv, AccountInv, RowsFound, RowsFound', InsertRole
  PROVE  \/ \E n \in Names : Service!Complete(n)
         \/ UNCHANGED <<accountBook, playerBook>>
<1>0. PICK n, i : n = handler.name /\ i = Len(tb_account) OBVIOUS
<1>1. PICK o \in InsertOutcomes({}, handler.role \notin tb_role) :
        tb_role' = IF o.written THEN tb_role \cup {handler.role} ELSE tb_role
  BY DEF InsertRole
<1>2. /\ UNCHANGED <<tb_account, mPlayerData, session>>
      /\ handler \in Busy /\ handler.at = "insert_role"
      /\ tb_account \in Seq(Account)
  BY HandlerTyped DEF InsertRole, TypeOK, DataBaseTypeOK
<1>3. CASE ~o.written BY <1>1, <1>2, <1>3, BooksQuiet DEF tables
<1>4. CASE o.written
  <2>1. tb_role' = tb_role \cup {handler.role} BY <1>1, <1>4
  <2>2. handler.role \notin tb_role
    BY <1>2, SceneLogicAssumption
       DEF RoleInv, Top, TypeOK, DataBaseTypeOK
  <2>3. /\ i \in DOMAIN tb_account /\ tb_account[i].user_name = n
        /\ tb_account[i].role_id = handler.role
    BY <1>0, <1>2 DEF TypeOK, AccountInv, Counted, Answered, Recorded, Belongs
  <2>4. \A j \in DOMAIN tb_account : j # i => tb_account[j].role_id # handler.role
    BY <2>3 DEF RowsFound
  <2>5. n \in Names BY <1>0, <1>2 DEF Busy
  <2>6. UNCHANGED playerBook
    BY <1>2, PlayersQuiet DEF AccountInv, Owned
  <2>7. ASSUME NEW j \in DOMAIN tb_account
        PROVE  /\ accountBook[tb_account[j].user_name] =
                    [pass  |-> tb_account[j].password,
                     ready |-> tb_account[j].role_id \in tb_role]
               /\ accountBook'[tb_account[j].user_name] =
                    [pass  |-> tb_account[j].password,
                     ready |-> tb_account[j].role_id \in tb_role']
    <3>0. PICK m : m = tb_account[j].user_name OBVIOUS
    <3>1. RowOf(m) = j BY <3>0 DEF RowsFound
    <3>2. RowOf(m)' = j BY <1>2, <3>0 DEF RowsFound
    <3>3. m \in {tb_account[k].user_name : k \in DOMAIN tb_account} BY <3>0
    <3>4. /\ accountBook[m] = [pass |-> tb_account[RowOf(m)].password,
                    ready |-> tb_account[RowOf(m)].role_id \in tb_role]
          /\ accountBook'[m] = [pass |-> tb_account'[RowOf(m)'].password,
                    ready |-> tb_account'[RowOf(m)'].role_id \in tb_role']
      BY <1>2, <3>3, Zenon DEF accountBook
    <3> QED BY <1>2, <3>0, <3>1, <3>2, <3>4, Zenon
  <2>8. n \in DOMAIN accountBook BY <2>3 DEF accountBook
  <2>9. ~accountBook[n].ready
    <3>1. (tb_account[i].role_id \in tb_role) = FALSE BY <2>2, <2>3
    <3>2. accountBook[n] = [pass |-> tb_account[i].password, ready |-> FALSE]
      BY <2>3, <2>7, <3>1, Zenon
    <3> QED BY <3>2, BookEntry
  <2>10. accountBook' = [accountBook EXCEPT ![n].ready = TRUE]
    <3>1. DOMAIN accountBook' = DOMAIN accountBook BY <1>2 DEF accountBook
    <3>2. accountBook'[n] = [accountBook[n] EXCEPT !.ready = TRUE]
      <4>1. (tb_account[i].role_id \in tb_role') = TRUE BY <2>1, <2>3
      <4>2. accountBook'[n] = [pass |-> tb_account[i].password, ready |-> TRUE]
        BY <2>3, <2>7, <4>1, Zenon
      <4>3. (tb_account[i].role_id \in tb_role) = FALSE BY <2>2, <2>3
      <4>4. accountBook[n] = [pass |-> tb_account[i].password, ready |-> FALSE]
        BY <2>3, <2>7, <4>3, Zenon
      <4>5. [accountBook[n] EXCEPT !.ready = TRUE]
            = [pass |-> tb_account[i].password, ready |-> TRUE]
        <5>1. PICK e : e = accountBook[n] OBVIOUS
        <5>2. \A x : [e EXCEPT !.ready = x]
                     = [pass |-> tb_account[i].password, ready |-> x]
          BY <4>4, <5>1, BookEntryReady
        <5>3. [e EXCEPT !.ready = TRUE]
              = [pass |-> tb_account[i].password, ready |-> TRUE]
          BY <5>2, Zenon
        <5> QED BY <5>1, <5>3, Zenon
      <4> QED BY <4>2, <4>5, Zenon
    <3>3. ASSUME NEW m \in DOMAIN accountBook, m # n
          PROVE  accountBook'[m] = accountBook[m]
      <4>1. PICK j \in DOMAIN tb_account : m = tb_account[j].user_name
        BY DEF accountBook
      <4>2. j # i BY <2>3, <3>3, <4>1
      <4>3. (tb_account[j].role_id \in tb_role')
            = (tb_account[j].role_id \in tb_role)
        BY <2>1, <2>4, <4>2
      <4> QED BY <2>7, <4>1, <4>3, Zenon
    <3>4. /\ accountBook' = [m \in DOMAIN accountBook' |-> accountBook'[m]]
          /\ accountBook = [m \in DOMAIN accountBook |-> accountBook[m]]
      BY Zenon DEF accountBook
    <3> QED BY <2>8, <3>1, <3>2, <3>3, <3>4
  <2> QED BY <2>5, <2>6, <2>8, <2>9, <2>10 DEF Service!Complete
<1> QED BY <1>3, <1>4

LEMMA ServiceNext ==
  ASSUME SafeFaults, StoredAsTyped, TypeOK, SocketInv, RoleInv, AccountInv,
         RowsFound, RowsFound', [Next]_vars
  PROVE  [Service!Next]_<<accountBook, playerBook>>
<1>1. CASE UNCHANGED vars
  BY <1>1, BooksQuiet DEF vars, dbVars, sceneVars, tables
<1>2. CASE Start BY <1>2, BooksQuiet DEF Start
<1>3. CASE Crash BY <1>3, ServiceCrash DEF Service!Next
<1>4. ASSUME NEW s \in Sockets, Connection(s)
      PROVE  [Service!Next]_<<accountBook, playerBook>>
  <2>1. UNCHANGED tables BY <1>4 DEF Connection, dbVars, tables
  <2>2. CASE OnMessageConnect(s)
    BY <2>1, <2>2, BooksQuiet DEF OnMessageConnect
  <2>3. CASE OnMessageDisConnect(s)
    BY <2>1, <2>3, ServiceDisConnect DEF Service!Next
  <2> QED BY <1>4, <2>2, <2>3 DEF Connection, OnConnectSocket,
             OnDisConnectSokcet, OnRecvConnect, OnRecvDisConnect
<1>5. ASSUME NEW s \in Sockets, NEW n \in Names, NEW p \in Passwords,
             \/ OnMessageLoginSceneRequest(s, n, p)
             \/ OnMessageCreateAccountRequest(s, n, p)
      PROVE  UNCHANGED <<accountBook, playerBook>>
  BY <1>5, BooksQuiet DEF OnMessageLoginSceneRequest,
                          OnMessageCreateAccountRequest, sceneVars
<1>6. CASE LoadPlayerData BY <1>6, ServiceLoad DEF Service!Next
<1>7. CASE InsertAccount BY <1>7, ServiceInsertAccount DEF Service!Next
<1>8. CASE InsertRole BY <1>8, ServiceInsertRole DEF Service!Next
<1> QED BY <1>1, <1>2, <1>3, <1>4, <1>5, <1>6, <1>7, <1>8 DEF Next

\* The server implements LoginService, for names and passwords that are words
\* and stored as typed: a name is registered once and for all, and only the
\* password of a finished account logs a connection in, whatever connection
\* breaks and wherever the process is killed.
THEOREM ServiceImplemented ==
  ASSUME SafeFaults, StoredAsTyped
  PROVE  Spec => ImplementsLoginService
<1>1. TypeOK /\ SocketInv /\ RoleInv /\ AccountInv /\ RowsFound /\ RowsFound'
        /\ [Next]_vars => [Service!Next]_<<accountBook, playerBook>>
  BY ServiceNext
<1>2. Spec => []SocketInv BY TypeCorrect, SocketInit, SocketNext, PTL DEF Spec
<1>3. Spec => []RoleInv BY TypeCorrect, RoleInit, RoleNext, PTL DEF Spec
<1> QED BY <1>1, <1>2, <1>3, ServiceInit, TypeCorrect, AccountInvHolds,
           RowsAreFound, PTL
        DEF Spec, ImplementsLoginService, Service!Spec

=============================================================================
