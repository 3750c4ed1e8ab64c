--------------------------- MODULE MC_SceneLogic ---------------------------
(***************************************************************************)
(* Instances of SceneLogic for TLC.  Names and passwords are digits or     *)
(* letters: MySQL takes digits without quotes as a number, whose value it  *)
(* stores without leading zeros, and refuses letters.  A name with an      *)
(* apostrophe is not a word.                                               *)
(***************************************************************************)
EXTENDS SceneLogic, TLC

MCWords == Text \ {"o'neill"}

\* "7" and "8" are stored as typed; "007" is stored as "7"; "tom" is refused
MCSpelled ==
  [t \in MCWords |-> IF t = "007" THEN "7"
                  ELSE IF t = "tom" THEN NoLiteral ELSE t]

SocketSymmetry == Permutations(Sockets)

=============================================================================
