---------------------------- MODULE LoginService ----------------------------
(***************************************************************************)
(* What the account server promises, without tables, statements or role    *)
(* numbers: a name is registered once and for all, its account becomes     *)
(* ready, and from then on exactly its password logs a connection in.      *)
(***************************************************************************)
CONSTANTS Names, Passwords, Sockets

VARIABLES
  accounts,   \* the registered names: [pass, ready] of each
  players     \* the logged-in sockets: [name, pass] of each

Empty == [x \in {} |-> x]
Add(f, x, y) == [z \in DOMAIN f \cup {x} |-> IF z = x THEN y ELSE f[z]]

Init == accounts = Empty /\ players = Empty

Register(n, p) ==
  /\ n \notin DOMAIN accounts
  /\ accounts' = Add(accounts, n, [pass |-> p, ready |-> FALSE])
  /\ UNCHANGED players

Complete(n) ==
  /\ n \in DOMAIN accounts
  /\ ~accounts[n].ready
  /\ accounts' = [accounts EXCEPT ![n].ready = TRUE]
  /\ UNCHANGED players

LogIn(s, n) ==
  /\ s \notin DOMAIN players
  /\ n \in DOMAIN accounts
  /\ accounts[n].ready
  /\ players' = Add(players, s, [name |-> n, pass |-> accounts[n].pass])
  /\ UNCHANGED accounts

LogOut(s) ==
  /\ s \in DOMAIN players
  /\ players' = [t \in DOMAIN players \ {s} |-> players[t]]
  /\ UNCHANGED accounts

Restart == players' = Empty /\ UNCHANGED accounts

Next ==
  \/ \E n \in Names : Complete(n) \/ \E p \in Passwords : Register(n, p)
  \/ \E s \in Sockets : LogOut(s) \/ \E n \in Names : LogIn(s, n)
  \/ Restart

Spec == Init /\ [][Next]_<<accounts, players>>

=============================================================================
