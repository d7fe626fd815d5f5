--------------------------- MODULE RoomLifecycle ---------------------------
(***************************************************************************)
(* What the room manager promises about the life of a room, without        *)
(* sessions, maps, locks or goroutines.  A room is opened by an address,   *)
(* and an address has one open room.  It is withdrawn for one of two       *)
(* reasons: the same address opened another, or it was entered and then    *)
(* abandoned.  A withdrawn room is closed, once, and stays closed.         *)
(***************************************************************************)
CONSTANTS RoomIds, IPs, NoIP

VARIABLES phase, owner

vars == <<phase, owner>>

Open == {r \in RoomIds : phase[r] \in {"fresh", "entered"}}

Init ==
    /\ phase = [r \in RoomIds |-> "unborn"]
    /\ owner = [r \in RoomIds |-> NoIP]

(* Opening a room withdraws the one its owner had open. *)
OpenRoom(ip, r) ==
    /\ phase[r] = "unborn"
    /\ owner' = [owner EXCEPT ![r] = ip]
    /\ phase' = [x \in RoomIds |->
                    IF x = r THEN "fresh"
                    ELSE IF x \in Open /\ owner[x] = ip THEN "withdrawn"
                    ELSE phase[x]]

Move(r, from, to) ==
    /\ phase[r] = from
    /\ phase' = [phase EXCEPT ![r] = to]
    /\ UNCHANGED owner

Enter(r)   == Move(r, "fresh", "entered")
Abandon(r) == Move(r, "entered", "withdrawn")
Close(r)   == Move(r, "withdrawn", "closed")

Next ==
    \E r \in RoomIds :
        \/ \E ip \in IPs : OpenRoom(ip, r)
        \/ Enter(r)
        \/ Abandon(r)
        \/ Close(r)

Spec == Init /\ [][Next]_vars
FairSpec == Spec /\ \A r \in RoomIds : WF_vars(Close(r))
=============================================================================
