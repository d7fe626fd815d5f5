---------------------------- MODULE ClientProofs ----------------------------
(***************************************************************************)
(* Theorems about Client, for every capacity and number of messages.       *)
(***************************************************************************)
EXTENDS Client, SequenceTheorems, TLAPS

(* The flag closed and the closing of the channel are one critical section *)
(* of c.mu, so a sender that sees the flag unset finds the channel open.   *)
ClosedIsFlagged == closed <=> ~sendOpen

(* closed is set where the reader stops reading, in the same section.      *)
Inductive ==
    /\ TypeOK
    /\ NoPanic
    /\ ClosedIsFlagged
    /\ closed <=> reader # "reading"
    /\ writer = "select" => writing = 0

LEMMA SeqGrows ==
  ASSUME NEW S, NEW T, S \subseteq T, NEW s \in Seq(S)
  PROVE  s \in Seq(T)
<1>1. Len(s) \in Nat /\ s \in [1..Len(s) -> S]
  BY LenProperties
<1>2. s \in [1..Len(s) -> T]
  BY <1>1
<1>3. QED
  BY <1>1, <1>2, SeqDef

LEMMA InitInductive == Init => Inductive
<1> SUFFICES ASSUME Init PROVE Inductive
  OBVIOUS
<1>1. Len(<< >>) = 0 /\ << >> \in Seq(Messages)
  OBVIOUS
<1>2. TypeOK
  <2>1. closed \in BOOLEAN /\ sendOpen \in BOOLEAN /\ panicked \in BOOLEAN /\ conn \in BOOLEAN
    BY Zenon DEF Init
  <2>2. send \in Seq(Messages) /\ Len(send) <= Capacity /\ received \in Seq(Messages)
    BY <1>1, ClientAssumption DEF Init
  <2>3. reader \in {"reading", "closing", "done"} /\ writer \in {"select", "writing", "done"}
    BY DEF Init
  <2>4. writing \in Messages \cup {0} /\ sent \in 0..MaxSent
    BY ClientAssumption DEF Init
  <2>5. QED
    BY <2>1, <2>2, <2>3, <2>4 DEF TypeOK
<1>3. NoPanic /\ ClosedIsFlagged /\ (closed <=> reader # "reading") /\ writing = 0
  BY DEF Init, NoPanic, ClosedIsFlagged
<1>4. QED
  BY <1>2, <1>3 DEF Inductive

LEMMA NextInductive == Inductive /\ [Next]_vars => Inductive'
<1> SUFFICES ASSUME Inductive, [Next]_vars
             PROVE  Inductive'
  OBVIOUS
<1> USE ClientAssumption DEF Inductive, TypeOK, NoPanic, ClosedIsFlagged, Messages
<1>1. CASE SendJSON
  <2>1. sent' \in Messages' /\ sent' \in 0..MaxSent /\ Messages \subseteq Messages'
    BY <1>1 DEF SendJSON
  <2>2. send \in Seq(Messages') /\ received \in Seq(Messages')
    BY <2>1, SeqGrows
  <2>3. send' \in Seq(Messages') /\ Len(send') <= Capacity
    <3>1. CASE ~closed /\ Len(send) < Capacity
      BY <1>1, <2>1, <2>2, <3>1 DEF SendJSON
    <3>2. CASE ~(~closed /\ Len(send) < Capacity)
      BY <1>1, <2>2, <3>2 DEF SendJSON
    <3>3. QED
      BY <3>1, <3>2
  <2>4. panicked' = FALSE
    BY <1>1 DEF SendJSON
  <2>5. received' \in Seq(Messages') /\ writing' \in Messages' \cup {0}
    BY <1>1, <2>1, <2>2 DEF SendJSON
  <2>6. QED
    BY <1>1, <2>1, <2>3, <2>4, <2>5 DEF SendJSON
<1>2. CASE ConnectionDrops
  BY <1>2 DEF ConnectionDrops
<1>3. CASE ReadFails
  <2>1. panicked' = FALSE
    BY <1>3 DEF ReadFails
  <2>2. QED
    BY <1>3, <2>1 DEF ReadFails
<1>4. CASE CloseConn
  BY <1>4 DEF CloseConn
<1>5. CASE Receive
  <2>1. CASE send # << >> /\ writing' = Head(send) /\ send' = Tail(send)
    <3>1. send' \in Seq(Messages) /\ Len(send') <= Capacity /\ writing' \in Messages
      BY <2>1
    <3>2. QED
      BY <1>5, <3>1 DEF Receive
  <2>2. CASE send = << >> /\ ~sendOpen /\ writing' = 0 /\ UNCHANGED send
    BY <1>5, <2>2 DEF Receive
  <2>3. QED
    BY <1>5, <2>1, <2>2 DEF Receive
<1>6. CASE Write
  <2>1. writing \in Messages
    BY <1>6 DEF Write
  <2>2. received' \in Seq(Messages)
    BY <1>6, <2>1 DEF Write
  <2>3. QED
    BY <1>6, <2>2 DEF Write
<1>7. CASE Quit
  <2>1. writing' \in Messages \cup {0} /\ writer' \in {"select", "writing", "done"}
    BY <1>7 DEF Quit
  <2>2. conn' \in BOOLEAN
    BY <1>7, Zenon DEF Quit
  <2>3. QED
    BY <1>7, <2>1, <2>2 DEF Quit
<1>8. CASE PingFails
  BY <1>8 DEF PingFails
<1>9. CASE UNCHANGED vars
  BY <1>9 DEF vars
<1>10. QED
  BY <1>1, <1>2, <1>3, <1>4, <1>5, <1>6, <1>7, <1>8, <1>9 DEF Next, WritePump

(* The inductive invariant holds in every reachable state.                 *)
THEOREM InductiveInvariant == Spec => []Inductive
BY InitInductive, NextInductive, PTL DEF Spec

(* The channel never holds more than its capacity, and it, WritePump and   *)
(* the browser have only messages that were handed to SendJSON.            *)
THEOREM TypeCorrect == Spec => []TypeOK
<1>1. Inductive => TypeOK
  BY DEF Inductive
<1>2. QED
  BY <1>1, InductiveInvariant, PTL

(* Nobody sends on the closed channel or closes it twice.                  *)
THEOREM NeverPanics == Spec => []NoPanic
<1>1. Inductive => NoPanic
  BY DEF Inductive
<1>2. QED
  BY <1>1, InductiveInvariant, PTL

----------------------------------------------------------------------------
(* What inFlight becomes in the steps that move a message.                 *)
LEMMA InFlightIs ==
  ASSUME Inductive, conn, writer # "done"
  PROVE  inFlight = IF writing = 0 THEN send ELSE <<writing>> \o send
<1>1. << >> \o send = send
  BY ConcatEmptySeq DEF Inductive, TypeOK
<1>2. QED
  BY <1>1 DEF inFlight

LEMMA Prepended ==
  ASSUME NEW S, NEW x \in S, NEW s \in Seq(S)
  PROVE  /\ <<x>> \o s \in Seq(S) /\ <<x>> \o s # << >>
         /\ Len(<<x>> \o s) = Len(s) + 1
         /\ Head(<<x>> \o s) = x /\ Tail(<<x>> \o s) = s
<1> DEFINE t == <<x>> \o s
<1>1. <<x>> \in Seq(S) /\ Len(<<x>>) = 1 /\ <<x>>[1] = x
  OBVIOUS
<1>2. t \in Seq(S) /\ Len(t) = Len(s) + 1
      /\ \A i \in 1..(Len(s) + 1) : t[i] = IF i <= 1 THEN <<x>>[i] ELSE s[i - 1]
  BY <1>1, ConcatProperties, LenProperties
<1>3. Len(s) \in Nat
  BY LenProperties
<1>4. t # << >>
  BY <1>2, <1>3, EmptySeq
<1> HIDE DEF t
<1>5. Head(t) = x
  BY <1>1, <1>2, <1>3
<1>6. Tail(t) \in Seq(S) /\ Len(Tail(t)) = Len(s) /\ \A i \in 1..Len(s) : Tail(t)[i] = t[i + 1]
  BY <1>2, <1>3, <1>4, HeadTailProperties
<1>7. \A i \in 1..Len(s) : Tail(t)[i] = s[i]
  BY <1>2, <1>3, <1>6
<1>8. Tail(t) = s
  BY <1>6, <1>7, SeqEqual
<1>9. QED
  BY <1>2, <1>4, <1>5, <1>8 DEF t

LEMMA Rejoined ==
  ASSUME NEW S, NEW s \in Seq(S), s # << >>
  PROVE  <<Head(s)>> \o Tail(s) = s
<1>1. Head(s) \in S /\ Tail(s) \in Seq(S) /\ Len(Tail(s)) = Len(s) - 1
      /\ \A i \in 1..Len(Tail(s)) : Tail(s)[i] = s[i + 1]
  BY HeadTailProperties
<1>2. Len(s) \in Nat \ {0}
  BY EmptySeq
<1> DEFINE h == <<Head(s)>>
<1>3. h \in Seq(S) /\ Len(h) = 1 /\ h[1] = s[1]
  BY <1>1, <1>2
<1> HIDE DEF h
<1>4. h \o Tail(s) \in Seq(S) /\ Len(h \o Tail(s)) = Len(s)
      /\ \A i \in 1..Len(s) : (h \o Tail(s))[i] = IF i <= 1 THEN h[i] ELSE Tail(s)[i - 1]
  <2> DEFINE t == Tail(s)
  <2>1. t \in Seq(S) /\ Len(t) = Len(s) - 1
    BY <1>1
  <2> HIDE DEF t
  <2>2. h \o t \in Seq(S) /\ Len(h \o t) = Len(h) + Len(t)
        /\ \A i \in 1..(Len(h) + Len(t)) : (h \o t)[i] = IF i <= Len(h) THEN h[i] ELSE t[i - Len(h)]
    BY <2>1, <1>3, ConcatProperties
  <2>3. Len(h) + Len(t) = Len(s)
    BY <2>1, <1>2, <1>3
  <2>4. QED
    BY <2>2, <2>3, <1>3 DEF t
<1>5. \A i \in 1..Len(s) : (h \o Tail(s))[i] = s[i]
  BY <1>1, <1>2, <1>3, <1>4
<1>6. h \o Tail(s) = s
  BY <1>4, <1>5, SeqEqual
<1>7. QED
  BY <1>6 DEF h

LEMMA AppendedLast ==
  ASSUME NEW S, NEW x \in S, NEW s \in Seq(S), NEW y \in S
  PROVE  <<x>> \o Append(s, y) = Append(<<x>> \o s, y)
<1>1. <<x>> \in Seq(S) /\ <<y>> \in Seq(S)
  OBVIOUS
<1>2. Append(s, y) = s \o <<y>>
  BY AppendIsConcat
<1>3. <<x>> \o s \in Seq(S)
  BY Prepended
<1>4. Append(<<x>> \o s, y) = (<<x>> \o s) \o <<y>>
  BY <1>3, AppendIsConcat
<1>5. QED
  BY <1>1, <1>2, <1>4, ConcatAssociative

----------------------------------------------------------------------------
(* A client that is down stays down, with nothing to deliver.              *)
Down == ~conn \/ writer = "done"

LEMMA DownIsDead == Down => inFlight = << >> /\ health = "dead"
BY DEF Down, inFlight, health

LEMMA SendIsTakeOrDrop ==
  ASSUME Inductive, SendJSON
  PROVE  Box!Take \/ Box!Drop
<1> USE ClientAssumption DEF Inductive, TypeOK
<1>1. sent' = sent + 1 /\ UNCHANGED <<received, conn, writer, writing, closed, health>>
  BY DEF SendJSON, health
<1>2. sent' \in Messages' /\ writing \in Messages' \cup {0} /\ send \in Seq(Messages')
  <2>1. sent' \in Messages' /\ Messages \subseteq Messages'
    BY <1>1 DEF Messages
  <2>2. QED
    BY <2>1, SeqGrows
<1>3. CASE Down
  BY <1>1, <1>3, DownIsDead DEF Down, Box!Drop, inFlight, health
<1>4. CASE ~Down /\ closed
  <2>1. send' = send
    BY <1>4 DEF SendJSON
  <2>2. inFlight' = inFlight
    BY <1>1, <2>1 DEF inFlight
  <2>3. health = "shut"
    BY <1>4 DEF Down, health
  <2>4. QED
    BY <1>1, <2>2, <2>3 DEF Box!Drop
<1>5. CASE ~Down /\ ~closed /\ Len(send) < Capacity
  <2>1. health = "up"
    BY <1>5 DEF Down, health
  <2>2. send' = Append(send, sent')
    BY <1>5 DEF SendJSON
  <2>3. Len(send) \in Nat
    BY LenProperties
  <2>4. CASE writing = 0
    <3>1. inFlight = send
      BY <1>5, <2>4, InFlightIs DEF Down
    <3>2. inFlight' = << >> \o send'
      BY <1>1, <1>5, <2>4 DEF Down, inFlight
    <3>3. send' \in Seq(Messages')
      BY <1>2, <2>2
    <3>4. inFlight' = Append(inFlight, sent')
      BY <2>2, <3>1, <3>2, <3>3, ConcatEmptySeq
    <3>5. QED
      BY <1>1, <1>5, <2>1, <2>3, <3>1, <3>4 DEF Box!Take
  <2>5. CASE writing # 0
    <3>1. writing \in Messages'
      BY <1>2, <2>5
    <3>2. inFlight = <<writing>> \o send
      BY <1>5, <2>5, InFlightIs DEF Down
    <3>3. inFlight' = <<writing>> \o send'
      BY <1>1, <1>5, <2>5 DEF Down, inFlight
    <3>4. inFlight' = Append(inFlight, sent')
      <4>1. send \in Seq(Messages') /\ sent' \in Messages'
        BY <1>2
      <4>2. <<writing>> \o Append(send, sent') = Append(<<writing>> \o send, sent')
        BY <3>1, <4>1, AppendedLast
      <4>3. QED
        BY <2>2, <3>2, <3>3, <4>2
    <3>5. Len(inFlight) = Len(send) + 1
      BY <1>2, <3>1, <3>2, Prepended
    <3>6. QED
      BY <1>1, <1>5, <2>1, <2>3, <3>4, <3>5 DEF Box!Take
  <2>6. QED
    BY <2>4, <2>5
<1>6. CASE ~Down /\ ~closed /\ ~(Len(send) < Capacity)
  <2>1. send' = send
    BY <1>6 DEF SendJSON
  <2>2. inFlight' = inFlight
    BY <1>1, <2>1 DEF inFlight
  <2>3. Len(send) \in Nat /\ Len(send) = Capacity
    BY <1>6, LenProperties
  <2>4. Len(inFlight) >= Capacity
    <3>1. CASE writing = 0
      BY <1>6, <2>3, <3>1, InFlightIs DEF Down
    <3>2. CASE writing # 0
      <4>1. writing \in Messages'
        BY <1>2, <3>2
      <4>2. QED
        BY <1>2, <1>6, <2>3, <3>2, <4>1, InFlightIs, Prepended DEF Down
    <3>3. QED
      BY <3>1, <3>2
  <2>5. QED
    BY <1>1, <2>2, <2>4 DEF Box!Drop
<1>7. QED
  BY <1>3, <1>4, <1>5, <1>6

(* Taking a message from the channel moves it from the buffer to the wire. *)
LEMMA ReceiveIsInternal ==
  ASSUME Inductive, Receive
  PROVE  UNCHANGED <<inFlight, health>>
<1> USE DEF Inductive, TypeOK
<1>1. writing = 0 /\ writer = "select" /\ writer' = "writing" /\ UNCHANGED <<conn, closed>>
  BY DEF Receive
<1>2. health' = health
  BY <1>1 DEF health
<1>3. CASE ~conn
  BY <1>1, <1>2, <1>3 DEF inFlight
<1>4. CASE conn /\ send # << >> /\ writing' = Head(send) /\ send' = Tail(send)
  <2>1. writing' \in Messages
    BY <1>4, HeadTailProperties
  <2>2. writing' # 0
    BY <2>1 DEF Messages
  <2>3. inFlight' = <<Head(send)>> \o Tail(send)
    BY <1>1, <1>4, <2>2 DEF inFlight
  <2>4. inFlight = send
    BY <1>1, <1>4, InFlightIs
  <2>5. QED
    BY <1>2, <1>4, <2>3, <2>4, Rejoined
<1>5. CASE send = << >> /\ writing' = 0 /\ UNCHANGED send
  BY <1>1, <1>2, <1>5 DEF inFlight
<1>6. QED
  BY <1>3, <1>4, <1>5 DEF Receive

LEMMA WriteIsDeliver ==
  ASSUME Inductive, Write
  PROVE  Box!Deliver
<1> USE DEF Inductive, TypeOK
<1>1. /\ conn /\ writer = "writing" /\ writing \in Messages /\ writer' = "select"
      /\ writing' = 0 /\ received' = Append(received, writing)
      /\ UNCHANGED <<conn, closed, send, sent>>
  BY DEF Write, Messages
<1>2. inFlight = <<writing>> \o send
  BY <1>1, InFlightIs DEF Messages
<1>3. inFlight # << >> /\ Head(inFlight) = writing /\ Tail(inFlight) = send
  BY <1>1, <1>2, Prepended
<1>4. inFlight' = << >> \o send
  BY <1>1 DEF inFlight
<1>5. inFlight' = Tail(inFlight)
  BY <1>3, <1>4, ConcatEmptySeq
<1>6. health' = health /\ health # "dead"
  BY <1>1 DEF health
<1>7. QED
  BY <1>1, <1>3, <1>5, <1>6 DEF Box!Deliver

(* The socket dies, or WritePump ends: the client is down.                 *)
LEMMA GoingDownIsDie ==
  ASSUME Down', UNCHANGED <<sent, received>>
  PROVE  Box!Die \/ UNCHANGED <<sent, received, inFlight, health>>
<1>1. inFlight' = << >> /\ health' = "dead"
  BY DEF Down, inFlight, health
<1>2. health = "dead" => inFlight = << >>
  BY DEF inFlight, health
<1>3. QED
  BY <1>1, <1>2 DEF Box!Die

LEMMA ReadFailsIsShut ==
  ASSUME Inductive, ReadFails
  PROVE  Box!Shut \/ UNCHANGED <<sent, received, inFlight, health>>
<1>1. ~closed /\ closed' /\ UNCHANGED <<send, conn, writer, writing, sent, received>>
  BY DEF ReadFails, Inductive, TypeOK
<1>2. inFlight' = inFlight
  BY <1>1 DEF inFlight
<1>3. QED
  BY <1>1, <1>2 DEF health, Box!Shut

(* The safety half of ImplementsMailbox: whatever its pumps, senders and   *)
(* socket do, the client behaves as a Mailbox: it drops a message only when *)
(* full or shut, and delivers the others in order and without gaps.        *)
THEOREM RefinesMailbox == Spec => Box!Spec
<1>1. Init => Box!Init
  <2>1. ASSUME Init PROVE inFlight = << >> /\ health = "up"
    <3>1. << >> \o << >> = << >>
      BY ConcatEmptySeq, EmptySeq
    <3>2. QED
      BY <2>1, <3>1 DEF Init, inFlight, health
  <2>2. QED
    BY <2>1 DEF Init, Box!Init
<1>2. Inductive /\ [Next]_vars => [Box!Next]_(Box!vars)
  <2> SUFFICES ASSUME Inductive, [Next]_vars
               PROVE  Box!Next \/ UNCHANGED <<sent, inFlight, received, health>>
    BY DEF Box!vars
  <2>1. CASE SendJSON
    BY <2>1, SendIsTakeOrDrop DEF Box!Next
  <2>2. CASE ConnectionDrops \/ CloseConn \/ Quit \/ PingFails
    <3>1. Down' /\ UNCHANGED <<sent, received>>
      BY <2>2 DEF ConnectionDrops, CloseConn, Quit, PingFails, Down
    <3>2. QED
      BY <3>1, GoingDownIsDie DEF Box!Next
  <2>3. CASE ReadFails
    BY <2>3, ReadFailsIsShut DEF Box!Next
  <2>4. CASE Receive
    BY <2>4, ReceiveIsInternal DEF Receive
  <2>5. CASE Write
    BY <2>5, WriteIsDeliver DEF Box!Next
  <2>6. CASE UNCHANGED vars
    BY <2>6 DEF vars, inFlight, health
  <2>7. QED
    BY <2>1, <2>2, <2>3, <2>4, <2>5, <2>6 DEF Next, WritePump
<1>3. QED
  BY <1>1, <1>2, InductiveInvariant, PTL DEF Spec, Box!Spec
=============================================================================
