--------------------------- MODULE MessageChannel ---------------------------
(***************************************************************************)
(* A connection as its two ends see it: messages come out whole, once and  *)
(* in the order they went in.                                              *)
(***************************************************************************)
EXTENDS Sequences

CONSTANT Msgs

VARIABLES queue,      \* messages on their way
          delivered   \* messages handed over

Init == queue = << >> /\ delivered = << >>

Send(m) == queue' = Append(queue, m) /\ UNCHANGED delivered

Deliver ==
  /\ queue # << >>
  /\ delivered' = Append(delivered, Head(queue))
  /\ queue' = Tail(queue)

Next == Deliver \/ \E m \in Msgs : Send(m)

Spec == Init /\ [][Next]_<<queue, delivered>>

=============================================================================
