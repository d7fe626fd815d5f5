------------------------------ MODULE Mailbox ------------------------------
(***************************************************************************)
(* What SendJSON promises its callers: a message never blocks the sender;  *)
(* it is dropped only when the box is full or shut; those that were taken  *)
(* arrive in order and without gaps until the connection dies, and then    *)
(* nothing more arrives.                                                   *)
(***************************************************************************)
EXTENDS Naturals, Sequences

CONSTANT Capacity

VARIABLES
    sent,       \* number of messages sent so far; they are 1, 2, ...
    queue,      \* taken and not yet delivered
    received,   \* what the browser has, in order of arrival
    state       \* "up"; "shut", nothing more is taken; "dead"

vars == <<sent, queue, received, state>>

Init ==
    /\ sent = 0
    /\ queue = << >>
    /\ received = << >>
    /\ state = "up"

(* One message may be on the wire besides those in the buffer. *)
Take ==
    /\ state = "up" /\ Len(queue) <= Capacity
    /\ sent' = sent + 1
    /\ queue' = Append(queue, sent')
    /\ UNCHANGED <<received, state>>

Drop ==
    /\ state # "up" \/ Len(queue) >= Capacity
    /\ sent' = sent + 1
    /\ UNCHANGED <<queue, received, state>>

Deliver ==
    /\ state # "dead" /\ queue # << >>
    /\ received' = Append(received, Head(queue))
    /\ queue' = Tail(queue)
    /\ UNCHANGED <<sent, state>>

Shut ==
    /\ state = "up"
    /\ state' = "shut"
    /\ UNCHANGED <<sent, queue, received>>

Die ==
    /\ state # "dead"
    /\ state' = "dead"
    /\ queue' = << >>
    /\ UNCHANGED <<sent, received>>

Next == Take \/ Drop \/ Deliver \/ Shut \/ Die

Spec == Init /\ [][Next]_vars

(* What is taken is delivered, and a shut box dies. *)
FairSpec ==
    /\ Spec
    /\ WF_vars(Deliver)
    /\ WF_vars(state = "shut" /\ Die)
=============================================================================
