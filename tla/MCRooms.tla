------------------------------ MODULE MCRooms ------------------------------
(* Rooms on small instances. *)
EXTENDS Rooms, TLC

(* Connections are interchangeable, and so are rooms; no liveness property *)
(* is checked in the runs that use this.                                   *)
Interchangeable == Permutations(Peers) \cup Permutations(RoomIds) \cup Permutations(IPs)
=============================================================================
