----------------------------- MODULE MC_Launch -----------------------------
(* Instances of Launch.                                                     *)
EXTENDS Launch

=============================================================================
