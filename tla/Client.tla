------------------------------- MODULE Client -------------------------------
(***************************************************************************)
(* One WebSocket connection of the server (pkg/signaling/client.go): a     *)
(* buffered channel, the goroutine that writes it to the socket, the       *)
(* goroutine that reads the socket, and any number of senders.  SendJSON   *)
(* and the first half of Close are critical sections of c.mu; receiving    *)
(* from the channel and writing to the socket are not.                     *)
(***************************************************************************)
EXTENDS Naturals, Sequences

CONSTANTS
    Capacity,   \* 64 in NewClient
    MaxSent     \* messages sent in a behaviour; bounds the model

ASSUME ClientAssumption == Capacity \in Nat \ {0} /\ MaxSent \in Nat

VARIABLES
    closed,     \* Client.closed
    send,       \* the buffer of Client.send
    sendOpen,   \* whether the channel has not been closed
    panicked,   \* a send or a close of the closed channel: Go panics
    conn,       \* whether the socket is open
    reader,     \* ReadPump: "reading", "closing" (between the two halves of
                \* Close), "done"
    writer,     \* WritePump: "select", "writing", "done"
    writing,    \* the message WritePump has received, 0 for the close frame
    sent,       \* messages handed to SendJSON so far, not in the code
    received    \* what the browser has got, not in the code

vars == <<closed, send, sendOpen, panicked, conn, reader, writer, writing, sent, received>>

(* The messages handed to SendJSON so far. *)
Messages == 1..sent

TypeOK ==
    /\ closed \in BOOLEAN
    /\ send \in Seq(Messages) /\ Len(send) <= Capacity
    /\ sendOpen \in BOOLEAN
    /\ panicked \in BOOLEAN
    /\ conn \in BOOLEAN
    /\ reader \in {"reading", "closing", "done"}
    /\ writer \in {"select", "writing", "done"}
    /\ sent \in 0..MaxSent
    /\ writing \in Messages \cup {0}
    /\ received \in Seq(Messages)

Init ==
    /\ closed = FALSE
    /\ send = << >>
    /\ sendOpen = TRUE
    /\ panicked = FALSE
    /\ conn = TRUE
    /\ reader = "reading"
    /\ writer = "select"
    /\ writing = 0
    /\ sent = 0
    /\ received = << >>

----------------------------------------------------------------------------
(* Mutant: the closed flag is not looked at. *)
SendAnyway ==
    /\ sent < MaxSent
    /\ sent' = sent + 1
    /\ send' = IF Len(send) < Capacity THEN Append(send, sent') ELSE send
    /\ panicked' = (panicked \/ ~sendOpen)
    /\ UNCHANGED <<closed, sendOpen, conn, reader, writer, writing, received>>

(* Mutant: the buffer has no limit. *)
SendUnbounded ==
    /\ sent < MaxSent
    /\ sent' = sent + 1
    /\ send' = IF ~closed THEN Append(send, sent') ELSE send
    /\ panicked' = (panicked \/ (~closed /\ ~sendOpen))
    /\ UNCHANGED <<closed, sendOpen, conn, reader, writer, writing, received>>

(* A full buffer drops the message, a closed client refuses it; neither    *)
(* blocks the caller.                                                      *)
SendJSON ==
    /\ sent < MaxSent
    /\ sent' = sent + 1
    /\ send' = IF ~closed /\ Len(send) < Capacity THEN Append(send, sent') ELSE send
    /\ panicked' = (panicked \/ (~closed /\ ~sendOpen))
    /\ UNCHANGED <<closed, sendOpen, conn, reader, writer, writing, received>>

(* The browser goes away, or a read deadline passes. *)
ConnectionDrops ==
    /\ conn
    /\ conn' = FALSE
    /\ UNCHANGED <<closed, send, sendOpen, panicked, reader, writer, writing, sent, received>>

(* ReadMessage fails, on a dead socket or on a frame it refuses, and       *)
(* ReadPump calls Close.                                                   *)
ReadFails ==
    /\ reader = "reading"
    /\ reader' = "closing"
    /\ closed' = TRUE
    /\ sendOpen' = FALSE
    /\ panicked' = (panicked \/ (~closed /\ ~sendOpen))
    /\ UNCHANGED <<send, conn, writer, writing, sent, received>>

CloseConn ==
    /\ reader = "closing"
    /\ reader' = "done"
    /\ conn' = FALSE
    /\ UNCHANGED <<closed, send, sendOpen, panicked, writer, writing, sent, received>>

(* Mutant: the newest message is taken first. *)
ReceiveLast ==
    /\ writer = "select"
    /\ send # << >>
    /\ writing' = send[Len(send)]
    /\ send' = SubSeq(send, 1, Len(send) - 1)
    /\ writer' = "writing"
    /\ UNCHANGED <<closed, sendOpen, panicked, conn, reader, sent, received>>

(* A closed channel yields what is left in its buffer before it reports    *)
(* that it is closed.                                                      *)
Receive ==
    /\ writer = "select"
    /\ \/ send # << >> /\ writing' = Head(send) /\ send' = Tail(send)
       \/ send = << >> /\ ~sendOpen /\ writing' = 0 /\ UNCHANGED send
    /\ writer' = "writing"
    /\ UNCHANGED <<closed, sendOpen, panicked, conn, reader, sent, received>>

Write ==
    /\ writer = "writing" /\ writing # 0
    /\ conn
    /\ received' = Append(received, writing)
    /\ writer' = "select"
    /\ writing' = 0
    /\ UNCHANGED <<closed, send, sendOpen, panicked, conn, reader, sent>>

(* Mutant: the deferred conn.Close is missing. *)
QuitOpen ==
    /\ writer = "writing"
    /\ writer' = "done"
    /\ writing' = 0
    /\ UNCHANGED <<closed, send, sendOpen, panicked, conn, reader, sent, received>>

(* The close frame was written, or a write failed or passed its deadline;  *)
(* WritePump closes the socket, so that ReadPump ends too.                 *)
Quit ==
    /\ writer = "writing"
    /\ writer' = "done"
    /\ writing' = 0
    /\ conn' = FALSE
    /\ UNCHANGED <<closed, send, sendOpen, panicked, reader, sent, received>>

(* A ping that cannot be written. *)
PingFails ==
    /\ writer = "select"
    /\ writer' = "done"
    /\ conn' = FALSE
    /\ UNCHANGED <<closed, send, sendOpen, panicked, reader, writing, sent, received>>

WritePump == Receive \/ Write \/ Quit

Next == SendJSON \/ ConnectionDrops \/ ReadFails \/ CloseConn \/ WritePump \/ PingFails

(* Go runs both pumps; every write ends, well or at its deadline; a read   *)
(* of a dead socket fails.                                                 *)
Fairness ==
    /\ WF_vars(WritePump)
    /\ WF_vars(~conn /\ ReadFails)
    /\ WF_vars(CloseConn)

Spec == Init /\ [][Next]_vars
FairSpec == Spec /\ Fairness

----------------------------------------------------------------------------
(* Nobody sends on the closed channel or closes it twice, although senders *)
(* hold the client long after its connection is gone.                      *)
NoPanic == ~panicked

(* The pumps end together: when one stops, for whatever reason, the other  *)
(* does, the client refuses messages and the socket is closed.             *)
PumpsEndTogether ==
    (writer = "done" \/ reader # "reading" \/ ~conn) ~>
        (writer = "done" /\ reader = "done" /\ closed /\ ~conn)

(* What the client still has to deliver, and how it looks from outside. *)
inFlight ==
    IF conn /\ writer # "done"
    THEN (IF writing = 0 THEN << >> ELSE <<writing>>) \o send
    ELSE << >>
health ==
    IF ~conn \/ writer = "done" THEN "dead" ELSE IF closed THEN "shut" ELSE "up"

Box == INSTANCE Mailbox WITH queue <- inFlight, state <- health

(* The client implements Mailbox: what it took is delivered in order and   *)
(* without gaps while the connection lives; only a full or closed client   *)
(* drops a message.                                                        *)
ImplementsMailbox == Box!FairSpec
=============================================================================
