------------------------------ MODULE DataBase ------------------------------
(***************************************************************************)
(* CDataBase and CQueryResult (simplebasedata.cpp) over the two tables the *)
(* server uses (config/DBTable.sql).  One MySQL connection and one shared  *)
(* result object serve every statement of the process.                     *)
(*                                                                         *)
(* A statement is described by the set of its possible outcomes: what      *)
(* ExecuteSql returns, what becomes of the connection, and what the shared *)
(* result object (a SELECT) or the table (an INSERT) is left with.         *)
(***************************************************************************)
EXTENDS Integers, Sequences

CONSTANTS
  Names,       \* account names a client may type
  Passwords,   \* passwords a client may type
  Words,       \* texts of which MySQL makes one word: t in quotes is t, and
  Spelled,     \* ... Spelled[t] is what it stores for t without quotes
  NoLiteral,   \* ... or NoLiteral when the unquoted t is refused
  Numbers,     \* bound: numbers a statement with another text may bring up
  MaxRows,     \* bound: rows an INSERT with another text may add
  Faults       \* the faults the environment may inject

Text == Names \cup Passwords

ASSUME DataBaseAssumption ==
  /\ NoLiteral \notin Text
  /\ Words \subseteq Text
  /\ Spelled \in [Words -> Text \cup {NoLiteral}]
  /\ Numbers \subseteq Nat /\ MaxRows \in Nat \ {0}
  /\ Faults \subseteq {"sql_error", "link_lost", "store_error", "crash"}

VARIABLES
  tb_account,    \* rows in insertion order: account_id is the position
  tb_role,       \* the role_id of every row; role_money keeps its default
  mMySql,        \* the connection: "up", or "lost" (there is no reconnect)
  mQueryResult   \* the last stored result: mRowCount > 0, and unread rows

tables == <<tb_account, tb_role>>
dbVars == <<tb_account, tb_role, mMySql, mQueryResult>>

Account == [user_name : Text, password : Text, role_id : Nat]
Row     == [key : Nat, val : Nat]
Result  == [found : BOOLEAN, unread : SUBSET Row]

DataBaseTypeOK ==
  /\ tb_account \in Seq(Account)
  /\ tb_role \in SUBSET Nat
  /\ mMySql \in {"up", "lost"}
  /\ mQueryResult \in Result

\* CDataBase::Initialize makes the one connection.
Initialize == mMySql' = "up"

-----------------------------------------------------------------------------
(* The result sets of the statements scenelogic.cpp sends.                 *)

\* select role_id from tb_account where user_name = n and password = p
RowsOfLoginAnyPassword(n, p) ==          \* mutant: the password is ignored
  {[key |-> i, val |-> tb_account[i].role_id] : i \in
    {j \in DOMAIN tb_account : tb_account[j].user_name = n}}

RowsOfLogin(n, p) ==
  {[key |-> i, val |-> tb_account[i].role_id] : i \in
    {j \in DOMAIN tb_account :
       tb_account[j].user_name = n /\ tb_account[j].password = p}}

\* select role_id from tb_account where user_name = n
RowsOfNameWithRole(n) ==                 \* mutant: only finished accounts
  {[key |-> i, val |-> tb_account[i].role_id] : i \in
    {j \in DOMAIN tb_account : /\ tb_account[j].user_name = n
                               /\ tb_account[j].role_id \in tb_role}}

RowsOfName(n) ==
  {[key |-> i, val |-> tb_account[i].role_id] : i \in
    {j \in DOMAIN tb_account : tb_account[j].user_name = n}}

\* select role_money from tb_role where role_id = r: nothing ever writes
\* role_money, so the value read is its default, 0
RowsOfAnyRole(r) == {[key |-> r, val |-> 0]}   \* mutant: a missing row is read
RowsOfRole(r) == {[key |-> q, val |-> 0] : q \in {r} \cap tb_role}

-----------------------------------------------------------------------------
(* ExecuteSql puts the texts of a client into the statement as they are:   *)
(* escape_string is not called.  What is not a word (a name with a quote   *)
(* or a comma in it) becomes a part of the statement.  Nothing is assumed  *)
(* of what it says then: MySQL may refuse it, a SELECT may give any rows   *)
(* or no result set at all, and an INSERT may add any rows behind the      *)
(* number the statement begins with.  It is still one statement of its     *)
(* kind, since the connection does not take several at once.               *)

\* the rows a SELECT with these texts may give, when `rows' are asked for
Found(texts, rows) ==
  IF texts \subseteq Words THEN {rows} ELSE SUBSET [key : Numbers, val : Numbers]

\* whether MySQL takes an INSERT with these texts
Taken(texts, accepted) == IF texts \subseteq Words THEN {accepted} ELSE BOOLEAN

(* ExecuteSql of a SELECT.  A query that fails returns false.  A query     *)
(* whose result cannot be stored (mysql_store_result gives NULL, also when *)
(* the connection breaks while the rows are read) returns true and leaves  *)
(* the previous result in place.                                           *)

Stored(rows) == [found |-> rows # {}, unread |-> rows]

SelectOutcomes(texts, rows) ==
  IF mMySql # "up"
  THEN {[ok |-> FALSE, link |-> mMySql, result |-> mQueryResult]}
  ELSE    {[ok |-> TRUE, link |-> "up", result |-> Stored(found)] :
             found \in Found(texts, rows)}
     \cup {[ok |-> k, link |-> "up", result |-> mQueryResult] :
             k \in IF texts \subseteq Words THEN {} ELSE BOOLEAN}
     \cup {[ok |-> FALSE, link |-> "up", result |-> mQueryResult] :
             f \in Faults \cap {"sql_error"}}
     \cup {[ok |-> FALSE, link |-> "lost", result |-> mQueryResult] :
             f \in Faults \cap {"link_lost"}}
     \cup {[ok |-> TRUE, link |-> l, result |-> mQueryResult] :
             l \in IF "store_error" \in Faults THEN {"up", "lost"} ELSE {}}

(* ExecuteSql of an INSERT.  An INSERT has no result set, so it leaves the *)
(* result object alone.  MySQL refuses one that is not `accepted'; a       *)
(* connection that breaks may break before or after the row is written;    *)
(* and one that fails at a later row keeps the rows before it (MyISAM).    *)

InsertOutcomes(texts, accepted) ==
  IF mMySql # "up"
  THEN {[ok |-> FALSE, link |-> mMySql, written |-> FALSE]}
  ELSE    {[ok |-> a, link |-> "up", written |-> a] :
             a \in Taken(texts, accepted)}
     \cup {[ok |-> FALSE, link |-> "up", written |-> TRUE] :
             t \in texts \ Words}
     \cup {[ok |-> FALSE, link |-> "up", written |-> FALSE] :
             f \in Faults \cap {"sql_error"}}
     \cup {[ok |-> FALSE, link |-> "lost", written |-> w] :
             w \in IF "link_lost" \in Faults
                   THEN {FALSE} \cup Taken(texts, accepted) ELSE {}}

(* NextRow and the reading of column 0 of the row it fetches: whether it   *)
(* fetched one, the number read (the callers' variable stays 0 otherwise), *)
(* and the rows left.  No statement has an ORDER BY, so it may fetch any   *)
(* unread row.  A NextRow that fetches nothing ends the query, but leaves  *)
(* mRowCount as it was.                                                    *)

NextRow(result) ==
  IF result.unread = {}
  THEN {[got |-> FALSE, val |-> 0, left |-> result]}
  ELSE {[got  |-> TRUE,
         val  |-> row.val,
         left |-> [result EXCEPT !.unread = @ \ {row}]] : row \in result.unread}

=============================================================================
