--------------------------- MODULE MC_EpollServer ---------------------------
(* An instance of EpollServer: fewer descriptors than connections, so that  *)
(* descriptors run out and are reused, and one client that sends nothing.   *)
EXTENDS EpollServer

=============================================================================
