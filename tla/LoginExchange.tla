---------------------------- MODULE LoginExchange ----------------------------
(***************************************************************************)
(* What a user of the client can rely on, whatever happens to the          *)
(* connection: an answer belongs to a request made before, answers come in *)
(* the order of the requests, and none comes twice.  An answer may stay    *)
(* out.                                                                    *)
(***************************************************************************)
EXTENDS Naturals, Sequences

VARIABLES asked,     \* the number of requests made
          answered   \* the answers, oldest first

Init == asked = 0 /\ answered = << >>

Ask == asked' = asked + 1 /\ UNCHANGED answered

\* the notify of a request comes after its response
Before(m, n) ==
  m.req < n.req \/ (m.req = n.req /\ m.kind = "response" /\ n.kind = "notify")

Answer(m) ==
  /\ m.req \in 1 .. asked
  /\ \A i \in DOMAIN answered : Before(answered[i], m)
  /\ answered' = Append(answered, m)
  /\ UNCHANGED asked

Next ==
  Ask \/ \E r \in 1 .. asked, k \in {"response", "notify"} :
           Answer([req |-> r, kind |-> k])

Spec == Init /\ [][Next]_<<asked, answered>>

=============================================================================
