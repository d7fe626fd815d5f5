----------------------------- MODULE MCRoomPage -----------------------------
(* A page opened as the host's and a page opened as a guest's.  Both may   *)
(* share; the cfg says whose connection may be lost.                       *)
EXTENDS RoomPage
=============================================================================
