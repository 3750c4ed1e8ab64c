---------------------------- MODULE SocketEvents ----------------------------
(***************************************************************************)
(* What CSceneLogic may rely on: the callbacks it is given, by descriptor. *)
(* A connection is announced once, on a descriptor no other connection     *)
(* uses; its messages come in order under that descriptor; it is ended     *)
(* once, and its descriptor can then be announced again.                   *)
(***************************************************************************)
EXTENDS Naturals

CONSTANTS Fds, Conns

VARIABLES
  owner,   \* the announced descriptors, with the connection of each
  ended,   \* the connections whose end was announced
  got,     \* got[c]: messages of connection c handed over so far
  calls    \* callbacks made so far

evVars == <<owner, ended, got, calls>>

Call == calls' = calls + 1

Init ==
  /\ owner = [f \in {} |-> 0]
  /\ ended = {}
  /\ got = [c \in Conns |-> 0]
  /\ calls = 0

OnConnectSocket(f, c) ==
  /\ f \notin DOMAIN owner
  /\ c \notin ended
  /\ \A g \in DOMAIN owner : owner[g] # c
  /\ owner' = [g \in DOMAIN owner \cup {f} |-> IF g = f THEN c ELSE owner[g]]
  /\ Call /\ UNCHANGED <<ended, got>>

OnRecvMessage(f) ==
  /\ f \in DOMAIN owner
  /\ got' = [got EXCEPT ![owner[f]] = @ + 1]
  /\ Call /\ UNCHANGED <<owner, ended>>

OnDisConnectSokcet(f) ==
  /\ f \in DOMAIN owner
  /\ owner' = [g \in DOMAIN owner \ {f} |-> owner[g]]
  /\ ended' = ended \cup {owner[f]}
  /\ Call /\ UNCHANGED got

Next == \E f \in Fds : \/ \E c \in Conns : OnConnectSocket(f, c)
                       \/ OnRecvMessage(f)
                       \/ OnDisConnectSokcet(f)

Spec == Init /\ [][Next]_evVars

=============================================================================
