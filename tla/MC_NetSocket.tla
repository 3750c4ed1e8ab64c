---------------------------- MODULE MC_NetSocket ----------------------------
(* An instance of NetSocket: a message of its header only and a longer one. *)
(* The buffer has the proportions of the code's, twice the longest message  *)
(* and one byte.                                                            *)
EXTENDS NetSocket

MCSize == [m \in Msgs |-> IF m = "ping" THEN 2 ELSE 4]

=============================================================================
