---------------------------- MODULE MCVideoRoom ----------------------------
(* VideoRoom on a small instance. *)
EXTENDS VideoRoom

(* Pages are interchangeable; the run checks safety only. *)
Interchangeable == Permutations(Pages)
=============================================================================
