------------------------------ MODULE MC_Client ------------------------------
(* An instance of Client: replies of three units, mSize in the second.       *)
EXTENDS Client

=============================================================================
