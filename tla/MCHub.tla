------------------------------- MODULE MCHub -------------------------------
(* Hub on small instances. *)
EXTENDS Hub, TLC

Interchangeable == Permutations(Rooms) \cup Permutations(Pages)
=============================================================================
