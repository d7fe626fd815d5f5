------------------------------ MODULE MCClient ------------------------------
(* Client with a buffer of two messages. *)
EXTENDS Client
=============================================================================
