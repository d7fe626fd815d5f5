--------------------------- MODULE RoomPageProofs ---------------------------
(***************************************************************************)
(* Theorems about the pages of a room, for any pages, tracks and bounds:   *)
(* the types of RoomPage, and where a conversation between a page and its  *)
(* handler ends.  The invariants speak of the messages under way: which    *)
(* answer a page that waits has still to get, and which role the room has  *)
(* given it that it does not know of.                                      *)
(***************************************************************************)
EXTENDS RoomPage, FiniteSetTheorems, TLAPS

SignalingStates == {"stable", "offered", "answering", "applying"}
Share == [k : Shares, n : Serials]

PageTyped ==
    /\ ws \in [Pages -> {"connecting", "open", "closed"}]
    /\ role \in [Pages -> {"publisher", "subscriber"}]
    /\ requested \in [Pages -> BOOLEAN]
    /\ pc \in [Pages -> PC]
    /\ made \in [Pages -> Serials]
    /\ pending \in [Pages -> SUBSET Serials]
    /\ shares \in [Pages -> SUBSET Share]
    /\ stream \in [Pages -> Shares \cup {0}]
    /\ captured \in [Pages -> SUBSET Shares]
    /\ canShare \in [Pages -> BOOLEAN]
    /\ clicks \in 0..MaxShares

WireTyped ==
    /\ toServer \in [Pages -> Seq(Message)]
    /\ toPage \in [Pages -> Seq(Message)]

RoomTyped ==
    /\ session \in [Pages -> {"none", "publisher", "subscriber", "left"}]
    /\ publisher \in Pages \cup {NoPage}
    /\ subscribers \in SUBSET Pages
    /\ tracks \in SUBSET Kinds

PeersTyped ==
    /\ peer \in [Pages -> PC]
    /\ due \in [Pages -> SUBSET {"timer", "welcome"}]
    /\ gathered \in [Pages -> BOOLEAN]

TodoTyped == todo \in [Goroutines -> Seq(Instruction)]

HistoryTyped ==
    /\ disturbed \in SUBSET Pages /\ early \in SUBSET Pages /\ outdated \in SUBSET Pages
    /\ unsent \in SUBSET Pages /\ crossed \in SUBSET Pages /\ overlapped \in SUBSET Pages

Typed == PageTyped /\ WireTyped /\ RoomTyped /\ PeersTyped /\ TodoTyped /\ HistoryTyped

(* Of a sequence of messages: one of them has an action in A.              *)
Has(q, A) == \E i \in DOMAIN q : q[i].action \in A

Taken == "publisher already connected"
Answers == {"publish_ok", "live_active", "error", Taken}

(* The handler's role is that under which the room has its peer, and a     *)
(* handler cleans up after its page has gone.                              *)
SessionsAreMembers ==
    \A p \in Pages : /\ publisher = p <=> session[p] = "publisher"
                     /\ p \in subscribers <=> session[p] = "subscriber"
                     /\ session[p] = "left" => ws[p] = "closed"
                     /\ ws[p] = "connecting" => session[p] = "none"

(* A page is refused the room once, in answer to its only join.            *)
JoinFirst(q) == \A i \in DOMAIN q : q[i].action = "join" => i = 1

JoinsComeFirst ==
    \A p \in Pages :
        /\ ws[p] # "open" => toPage[p] = << >>
        /\ ws[p] = "connecting" => toServer[p] = << >>
        /\ JoinFirst(toServer[p])
        /\ Has(toServer[p], {"join"}) => ~Has(toPage[p], {Taken})

(* What the page takes for its role is what the room has it for, but for a *)
(* promotion it is still to be told of.                                    *)
RolesFollow ==
    \A p \in Pages :
        /\ Has(toPage[p], {Taken}) => session[p] = "none"
        /\ Has(toPage[p], {"publish_ok"}) => session[p] \in {"publisher", "left"}
        /\ session[p] = "subscriber" => role[p] = "subscriber"
        /\ session[p] = "publisher" /\ ws[p] = "open" =>
              role[p] = "publisher" \/ Has(toPage[p], {"publish_ok"})

(* Only the handler itself answers a request.                              *)
TellsNegotiate ==
    \A g \in Goroutines : \A i \in DOMAIN todo[g] :
        todo[g][i].do = "tell" => todo[g][i].msg.action \in {"offer", "answer"}

(* A page that waits has its request or an answer under way.               *)
RequestsAreUnderWay ==
    \A p \in Pages : requested[p] =>
        \/ p \in unsent \/ ws[p] = "closed"
        \/ ws[p] = "open" /\ (Has(toServer[p], {"request_publish"}) \/ Has(toPage[p], Answers))

Conversation ==
    SessionsAreMembers /\ JoinsComeFirst /\ RolesFollow /\ TellsNegotiate /\ RequestsAreUnderWay

(* A page whose shares did not overlap has at most one of them under way,  *)
(* and captures at most the stream it can stop.                            *)
SharesAreAlone ==
    \A p \in Pages :
        /\ pc[p].n = 0 => pc[p] = Null
        /\ p \notin overlapped =>
              /\ \A s, t \in shares[p] : s = t
              /\ captured[p] \subseteq {stream[p]}
              /\ \A s \in shares[p] : s.n = 0 => captured[p] = {} /\ stream[p] = 0
              /\ canShare[p] /\ captured[p] # {} => shares[p] # {}

Inductive == Typed /\ Conversation /\ SharesAreAlone

----------------------------------------------------------------------------
(* Values *)

LEMMA Numbers ==
  /\ 0 \in Serials /\ Serials \subseteq Nat /\ Shares \subseteq Nat /\ 0 \notin Shares
  /\ \A n \in Serials : n < MaxPCs => n + 1 \in Serials /\ n + 1 # 0
  /\ \A n \in 0..MaxShares : n < MaxShares => n + 1 \in 0..MaxShares /\ n + 1 \in Shares
BY RoomPageAssumption DEF Serials, Shares

LEMMA GoroutineNames ==
  ASSUME NEW p \in Pages
  PROVE  Session(p) \in Goroutines /\ Callback(p) \in Goroutines /\ Negotiation(p) \in Goroutines
BY DEF Goroutines, Session, Callback, Negotiation

LEMMA NewIsPC ==
  ASSUME NEW n \in Serials
  PROVE  New(n) \in PC /\ New(n).n = n /\ New(n).state = "stable" /\ New(n).remote = 0
BY Numbers DEF New, PC

LEMMA NullIsPC == Null \in PC /\ Null.n = 0 /\ Null.state = "stable" /\ Null.remote = 0
BY NewIsPC, Numbers DEF Null

LEMMA FreshIsPC ==
  ASSUME NEW n \in Serials, NEW s \in SignalingStates, NEW a \in Serials, NEW h \in SUBSET Kinds
  PROVE  /\ [New(n) EXCEPT !.state = s, !.asked = a, !.has = h] \in PC
         /\ [New(n) EXCEPT !.state = s, !.asked = a, !.has = h].n = n
         /\ [New(n) EXCEPT !.has = h] \in PC
         /\ [New(n) EXCEPT !.has = h].n = n
BY Numbers, Zenon DEF New, PC, SignalingStates

LEMMA PCFields ==
  ASSUME NEW c \in PC
  PROVE  /\ c.n \in Serials /\ c.state \in SignalingStates /\ c.asked \in Serials /\ c.remote \in Serials
         /\ c.added \in SUBSET Serials /\ c.has \in SUBSET Kinds
BY DEF PC, SignalingStates

LEMMA MessageFields ==
  ASSUME NEW m \in Message
  PROVE  m.action \in Actions /\ m.n \in Serials /\ m.re \in Serials /\ m.has \in SUBSET Kinds
BY DEF Message

LEMMA MessagesAre ==
  /\ \A a \in Actions : Msg(a) \in Message /\ Msg(a).action = a /\ Msg(a).n = 0 /\ Msg(a).has = {}
  /\ \A n \in Serials : Candidate(n) \in Message /\ Candidate(n).action = "candidate"
  /\ \A n \in Serials, h \in SUBSET Kinds : Offer(n, h) \in Message /\ Offer(n, h).action = "offer"
  /\ \A n, r \in Serials : AnswerTo(n, r) \in Message /\ AnswerTo(n, r).action = "answer"
BY Numbers DEF Actions, Msg, Message, Candidate, Offer, AnswerTo

LEMMA InstructionsAre ==
  /\ \A p \in Pages, m \in Message :
        Tell(p, m) \in Instruction /\ Tell(p, m).do = "tell" /\ Tell(p, m).msg = m
  /\ \A p \in Pages : /\ Reset(p) \in Instruction /\ Reset(p).do = "reset"
                      /\ Renew(p) \in Instruction /\ Renew(p).do = "renew"
BY DEF Tell, Reset, Renew, Instruction

LEMMA InstructionFields ==
  ASSUME NEW i \in Instruction
  PROVE  i.page \in Pages /\ (i.do = "tell" => i.msg \in Message)
BY DEF Instruction

(* The loop that dismisses the guests, in whatever order.                  *)
LEMMA Dismissals ==
  ASSUME NEW S \in SUBSET Pages, NEW guests \in SetToSeqs(S)
  PROVE  /\ Dismiss(guests) \in Seq(Instruction)
         /\ \A i \in DOMAIN Dismiss(guests) : Dismiss(guests)[i].do = "reset"
<1> DEFINE D == 1..Cardinality(S)
<1>1. Cardinality(S) \in Nat
  BY RoomPageAssumption, FS_Subset, FS_CardinalityType
<1>2. guests \in [D -> S]
  BY DEF SetToSeqs
<1>3. Dismiss(guests) = [i \in D |-> Reset(guests[i])]
  BY <1>2 DEF Dismiss
<1>4. \A i \in D : Reset(guests[i]) \in Instruction /\ Reset(guests[i]).do = "reset"
  BY <1>2, InstructionsAre
<1>5. QED
  BY <1>1, <1>3, <1>4

----------------------------------------------------------------------------
(* Queues *)

LEMMA HasAppend ==
  ASSUME NEW T, NEW q \in Seq(T), NEW m \in T, NEW A
  PROVE  Has(Append(q, m), A) <=> Has(q, A) \/ m.action \in A
BY DEF Has

LEMMA HasConcat ==
  ASSUME NEW T, NEW q \in Seq(T), NEW r \in Seq(T), NEW A
  PROVE  Has(q \o r, A) <=> Has(q, A) \/ Has(r, A)
<1> DEFINE c == q \o r
<1>1. /\ DOMAIN c = 1..(Len(q) + Len(r)) /\ DOMAIN q = 1..Len(q) /\ DOMAIN r = 1..Len(r)
      /\ Len(q) \in Nat /\ Len(r) \in Nat
      /\ \A i \in 1..Len(q) : c[i] = q[i]
      /\ \A i \in 1..Len(r) : c[Len(q) + i] = r[i]
  OBVIOUS
<1> HIDE DEF c
<1>2. \A i \in DOMAIN q : i \in DOMAIN c /\ c[i] = q[i]
  BY <1>1
<1>3. \A i \in DOMAIN r : Len(q) + i \in DOMAIN c /\ c[Len(q) + i] = r[i]
  BY <1>1
<1>4. \A i \in DOMAIN c : i \in DOMAIN q \/ (i - Len(q) \in DOMAIN r /\ c[i] = r[i - Len(q)])
  BY <1>1
<1>5. Has(c, A) <=> Has(q, A) \/ Has(r, A)
  BY <1>2, <1>3, <1>4 DEF Has
<1>6. QED
  BY <1>5 DEF c

LEMMA HasTail ==
  ASSUME NEW T, NEW q \in Seq(T), q # << >>, NEW A
  PROVE  /\ Has(Tail(q), A) => Has(q, A)
         /\ Has(q, A) => Head(q).action \in A \/ Has(Tail(q), A)
         /\ Tail(q) \in Seq(T) /\ Head(q) \in T /\ Head(q) = q[1]
<1> DEFINE r == Tail(q)
<1>1. /\ Len(q) \in Nat /\ DOMAIN q = 1..Len(q) /\ DOMAIN r = 1..(Len(q) - 1) /\ Len(q) > 0
      /\ \A i \in 1..(Len(q) - 1) : r[i] = q[i + 1]
      /\ r \in Seq(T) /\ Head(q) \in T /\ Head(q) = q[1]
  OBVIOUS
<1> HIDE DEF r
<1>2. \A i \in DOMAIN r : i + 1 \in DOMAIN q /\ r[i] = q[i + 1]
  BY <1>1
<1>3. \A i \in DOMAIN q : i = 1 \/ (i - 1 \in DOMAIN r /\ r[i - 1] = q[i])
  BY <1>1
<1>4. (Has(r, A) => Has(q, A)) /\ (Has(q, A) => Head(q).action \in A \/ Has(r, A))
  BY <1>1, <1>2, <1>3, Zenon DEF Has
<1>5. QED
  BY <1>1, <1>4 DEF r

LEMMA HasNothing == JoinFirst(<< >>) /\ \A A : ~Has(<< >>, A)
BY DEF Has, JoinFirst

LEMMA HasOne == \A m, A : Has(<<m>>, A) <=> m.action \in A
BY DEF Has

(* What accompanies a description.                                         *)
LEMMA WithCandidates ==
  ASSUME NEW p, NEW n \in Serials, NEW m \in Message
  PROVE  /\ <<m>> \o Candidates(p, n) \in Seq(Message)
         /\ \A A : Has(<<m>> \o Candidates(p, n), A) => m.action \in A \/ "candidate" \in A
<1>1. Candidate(n) \in Message /\ Candidate(n).action = "candidate"
  BY MessagesAre
<1>2. Candidates(p, n) \in {<<Candidate(n)>>, << >>}
  BY DEF Candidates
<1>3. \A A : Has(Candidates(p, n), A) => "candidate" \in A
  BY <1>1, <1>2, HasNothing, HasOne
<1>4. <<m>> \in Seq(Message) /\ Candidates(p, n) \in Seq(Message)
  <2>1. \A x \in Message : <<x>> \in Seq(Message)
    OBVIOUS
  <2>2. << >> \in Seq(Message)
    OBVIOUS
  <2>3. QED
    BY <1>1, <1>2, <2>1, <2>2, Zenon
<1>5. \A A : Has(<<m>> \o Candidates(p, n), A) <=> Has(<<m>>, A) \/ Has(Candidates(p, n), A)
  BY <1>4, HasConcat, Zenon
<1>6. QED
  BY <1>3, <1>4, <1>5, HasOne

LEMMA JoinFirstTail ==
  ASSUME NEW T, NEW q \in Seq(T), q # << >>, JoinFirst(q)
  PROVE  ~Has(Tail(q), {"join"}) /\ JoinFirst(Tail(q))
<1> DEFINE r == Tail(q)
<1>1. /\ Len(q) \in Nat /\ DOMAIN q = 1..Len(q) /\ DOMAIN r = 1..(Len(q) - 1)
      /\ \A i \in 1..(Len(q) - 1) : r[i] = q[i + 1]
  OBVIOUS
<1> HIDE DEF r
<1>2. \A i \in DOMAIN r : i + 1 \in DOMAIN q /\ i + 1 # 1 /\ r[i] = q[i + 1]
  BY <1>1
<1>3. \A i \in DOMAIN r : r[i].action # "join"
  BY <1>2 DEF JoinFirst
<1>4. ~Has(r, {"join"}) /\ JoinFirst(r)
  BY <1>3 DEF Has, JoinFirst
<1>5. QED
  BY <1>4 DEF r

LEMMA JoinFirstConcat ==
  ASSUME NEW T, NEW q \in Seq(T), NEW r \in Seq(T), JoinFirst(q), ~Has(r, {"join"})
  PROVE  JoinFirst(q \o r)
<1> DEFINE c == q \o r
<1>1. /\ DOMAIN c = 1..(Len(q) + Len(r)) /\ DOMAIN q = 1..Len(q) /\ DOMAIN r = 1..Len(r)
      /\ Len(q) \in Nat /\ Len(r) \in Nat
      /\ \A i \in 1..Len(q) : c[i] = q[i]
      /\ \A i \in 1..Len(r) : c[Len(q) + i] = r[i]
  OBVIOUS
<1> HIDE DEF c
<1>2. \A i \in DOMAIN c : (i \in DOMAIN q /\ c[i] = q[i]) \/ (i - Len(q) \in DOMAIN r /\ c[i] = r[i - Len(q)])
  BY <1>1
<1>3. \A i \in DOMAIN r : r[i].action # "join"
  BY DEF Has
<1>4. JoinFirst(c)
  BY <1>2, <1>3 DEF JoinFirst
<1>5. QED
  BY <1>4 DEF c

----------------------------------------------------------------------------
(* What the parts of the actions do *)

LEMMA SendEffect ==
  ASSUME WireTyped, HistoryTyped, NEW p \in Pages, NEW ms \in Seq(Message), Send(p, ms)
  PROVE  /\ toServer' \in [Pages -> Seq(Message)] /\ unsent' \in SUBSET Pages
         /\ \A q \in Pages : q # p => toServer'[q] = toServer[q]
         /\ unsent \subseteq unsent'
         /\ ws[p] = "open" => toServer'[p] = toServer[p] \o ms
         /\ ws[p] # "open" => toServer' = toServer /\ p \in unsent'
<1>1. CASE ws[p] = "open"
  <2>1. toServer' = [toServer EXCEPT ![p] = toServer[p] \o ms] /\ unsent' = unsent
    BY <1>1 DEF Send
  <2>2. toServer[p] \in Seq(Message) /\ toServer[p] \o ms \in Seq(Message)
    BY DEF WireTyped
  <2>3. QED
    BY <1>1, <2>1, <2>2 DEF WireTyped, HistoryTyped
<1>2. CASE ws[p] # "open"
  BY <1>2 DEF Send, WireTyped, HistoryTyped
<1>3. QED
  BY <1>1, <1>2

LEMMA SendJSONEffect ==
  ASSUME WireTyped, NEW p \in Pages, NEW m \in Message, SendJSON(p, m)
  PROVE  /\ toPage' \in [Pages -> Seq(Message)]
         /\ \A q \in Pages : q # p => toPage'[q] = toPage[q]
         /\ ws[p] # "open" => toPage' = toPage
         /\ ws[p] = "open" => \A A : Has(toPage'[p], A) <=> Has(toPage[p], A) \/ m.action \in A
<1>1. toPage[p] \in Seq(Message) /\ Append(toPage[p], m) \in Seq(Message)
  BY DEF WireTyped
<1>2. CASE ws[p] = "open"
  BY <1>1, <1>2, HasAppend DEF SendJSON, WireTyped
<1>3. CASE ws[p] # "open"
  BY <1>3 DEF SendJSON, WireTyped
<1>4. QED
  BY <1>2, <1>3

LEMMA OnMessageEffect ==
  ASSUME WireTyped, NEW p \in Pages, NEW action, OnMessage(p, action)
  PROVE  /\ ws[p] = "open" /\ toPage' \in [Pages -> Seq(Message)]
         /\ \A q \in Pages : q # p => toPage'[q] = toPage[q]
         /\ Head(toPage[p]) \in Message /\ Head(toPage[p]).action = action
         /\ \A A : /\ Has(toPage'[p], A) => Has(toPage[p], A)
                   /\ Has(toPage[p], A) => action \in A \/ Has(toPage'[p], A)
                   /\ action \in A => Has(toPage[p], A)
<1>1. /\ ws[p] = "open" /\ toPage[p] # << >> /\ Head(toPage[p]).action = action
      /\ toPage' = [toPage EXCEPT ![p] = Tail(toPage[p])]
  BY DEF OnMessage, Arrived
<1>2. toPage[p] \in Seq(Message) /\ toPage'[p] = Tail(toPage[p])
  BY <1>1 DEF WireTyped
<1>3. \A A : /\ Has(Tail(toPage[p]), A) => Has(toPage[p], A)
             /\ Has(toPage[p], A) => Head(toPage[p]).action \in A \/ Has(Tail(toPage[p]), A)
  BY <1>1, <1>2, HasTail
<1>4. /\ Tail(toPage[p]) \in Seq(Message) /\ Head(toPage[p]) \in Message
      /\ Head(toPage[p]) = toPage[p][1] /\ 1 \in DOMAIN toPage[p]
  BY <1>1, <1>2
<1>5. \A A : action \in A => Has(toPage[p], A)
  BY <1>1, <1>4 DEF Has
<1>6. toPage' \in [Pages -> Seq(Message)] /\ \A q \in Pages : q # p => toPage'[q] = toPage[q]
  BY <1>1, <1>4 DEF WireTyped
<1>7. QED
  BY <1>1, <1>2, <1>3, <1>4, <1>5, <1>6

LEMMA TakeEffect ==
  ASSUME WireTyped, NEW p \in Pages, NEW action, Take(p, action)
  PROVE  /\ toServer' \in [Pages -> Seq(Message)]
         /\ \A q \in Pages : q # p => toServer'[q] = toServer[q]
         /\ toServer[p] # << >> /\ Head(toServer[p]) \in Message /\ Head(toServer[p]).action = action
         /\ \A A : /\ Has(toServer'[p], A) => Has(toServer[p], A)
                   /\ Has(toServer[p], A) => action \in A \/ Has(toServer'[p], A)
                   /\ action \in A => Has(toServer[p], A)
         /\ JoinFirst(toServer[p]) => JoinFirst(toServer'[p]) /\ ~Has(toServer'[p], {"join"})
<1>1. /\ toServer[p] # << >> /\ Head(toServer[p]).action = action
      /\ toServer' = [toServer EXCEPT ![p] = Tail(toServer[p])]
  BY DEF Take
<1>2. toServer[p] \in Seq(Message) /\ toServer'[p] = Tail(toServer[p])
  BY <1>1 DEF WireTyped
<1>3. \A A : /\ Has(Tail(toServer[p]), A) => Has(toServer[p], A)
             /\ Has(toServer[p], A) => Head(toServer[p]).action \in A \/ Has(Tail(toServer[p]), A)
  BY <1>1, <1>2, HasTail
<1>4. /\ Tail(toServer[p]) \in Seq(Message) /\ Head(toServer[p]) \in Message
      /\ Head(toServer[p]) = toServer[p][1] /\ 1 \in DOMAIN toServer[p]
  BY <1>1, <1>2
<1>5. \A A : action \in A => Has(toServer[p], A)
  BY <1>1, <1>4 DEF Has
<1>6. toServer' \in [Pages -> Seq(Message)] /\ \A q \in Pages : q # p => toServer'[q] = toServer[q]
  BY <1>1, <1>4 DEF WireTyped
<1>7. JoinFirst(toServer[p]) => JoinFirst(toServer'[p]) /\ ~Has(toServer'[p], {"join"})
  BY <1>1, <1>2, JoinFirstTail
<1>8. QED
  BY <1>1, <1>2, <1>3, <1>4, <1>5, <1>6, <1>7

LEMMA DoEffect ==
  ASSUME TodoTyped, TellsNegotiate, NEW g \in Goroutines, NEW is \in Seq(Instruction),
         \A i \in DOMAIN is : is[i].do = "tell" => is[i].msg.action \in {"offer", "answer"},
         Do(g, is)
  PROVE  TodoTyped' /\ TellsNegotiate'
BY DEF Do, TodoTyped, TellsNegotiate

LEMMA StepEffect ==
  ASSUME TodoTyped, TellsNegotiate, NEW g \in Goroutines, NEW do, Step(g, do)
  PROVE  /\ TodoTyped' /\ TellsNegotiate'
         /\ Head(todo[g]) \in Instruction /\ Head(todo[g]).do = do
         /\ do = "tell" => Head(todo[g]).msg.action \in {"offer", "answer"}
<1> DEFINE q == todo[g]
           r == Tail(q)
<1>1. q \in Seq(Instruction) /\ q # << >> /\ Head(q).do = do /\ todo' = [todo EXCEPT ![g] = r]
  BY DEF Step, TodoTyped
<1>2. \A i \in DOMAIN q : q[i].do = "tell" => q[i].msg.action \in {"offer", "answer"}
  BY DEF TellsNegotiate
<1>3. todo'[g] = r /\ \A f \in Goroutines : f # g => todo'[f] = todo[f]
  BY <1>1 DEF TodoTyped
<1> HIDE DEF q
<1>4. /\ Head(q) \in Instruction /\ Head(q) = q[1] /\ 1 \in DOMAIN q /\ r \in Seq(Instruction)
      /\ \A i \in DOMAIN r : i + 1 \in DOMAIN q /\ r[i] = q[i + 1]
  BY <1>1
<1> HIDE DEF r
<1>5. \A i \in DOMAIN r : r[i].do = "tell" => r[i].msg.action \in {"offer", "answer"}
  BY <1>2, <1>4
<1>6. TodoTyped'
  BY <1>1, <1>4 DEF TodoTyped
<1>7. TellsNegotiate'
  BY <1>3, <1>5 DEF TellsNegotiate
<1>8. do = "tell" => Head(q).msg.action \in {"offer", "answer"}
  BY <1>1, <1>2, <1>4
<1>9. QED
  BY <1>1, <1>4, <1>6, <1>7, <1>8 DEF q

LEMMA ReplaceEffect ==
  ASSUME PeersTyped, HistoryTyped, NEW p \in Pages, NEW h \in SUBSET Kinds, ReplacePC(p, h)
  PROVE  /\ peer' \in [Pages -> PC] /\ gathered' \in [Pages -> BOOLEAN]
         /\ early' \in SUBSET Pages /\ outdated' = outdated
BY PCFields, Numbers, FreshIsPC DEF ReplacePC, PeersTyped, SignalingStates, HistoryTyped

LEMMA NewPCEffect ==
  ASSUME PeersTyped, HistoryTyped, NEW p \in Pages, NEW h \in SUBSET Kinds, NewPC(p, h)
  PROVE  /\ peer' \in [Pages -> PC] /\ gathered' \in [Pages -> BOOLEAN]
         /\ early' \in SUBSET Pages /\ outdated' = outdated /\ disturbed' \in SUBSET Pages
BY ReplaceEffect DEF NewPC, HistoryTyped

----------------------------------------------------------------------------
(* The conversation *)

convVars == <<ws, role, requested, toServer, toPage, session, publisher, subscribers, unsent>>

LEMMA ConversationKept == Conversation /\ UNCHANGED convVars /\ TellsNegotiate' => Conversation'
<1> SUFFICES ASSUME Conversation, UNCHANGED convVars, TellsNegotiate'
             PROVE  Conversation'
  OBVIOUS
<1> USE DEF convVars
<1>1. SessionsAreMembers'
  BY DEF Conversation, SessionsAreMembers
<1>2. JoinsComeFirst'
  BY Zenon DEF Conversation, JoinsComeFirst
<1>3. RolesFollow'
  BY DEF Conversation, RolesFollow
<1>4. RequestsAreUnderWay'
  BY DEF Conversation, RequestsAreUnderWay
<1>5. QED
  BY <1>1, <1>2, <1>3, <1>4 DEF Conversation

(* A page sends something that is no join; when it asks to publish it      *)
(* begins to wait.                                                         *)
LEMMA PageSends ==
  ASSUME Typed, Conversation, NEW p \in Pages, NEW ms \in Seq(Message), ~Has(ms, {"join"}),
         Send(p, ms),
         \/ UNCHANGED requested
         \/ requested' = [requested EXCEPT ![p] = TRUE] /\ Has(ms, {"request_publish"}),
         UNCHANGED <<ws, role, toPage, roomVars, todo>>
  PROVE  Conversation' /\ WireTyped' /\ unsent' \in SUBSET Pages
<1>1. /\ toServer' \in [Pages -> Seq(Message)] /\ unsent' \in SUBSET Pages
      /\ \A q \in Pages : q # p => toServer'[q] = toServer[q]
      /\ unsent \subseteq unsent'
      /\ ws[p] = "open" => toServer'[p] = toServer[p] \o ms
      /\ ws[p] # "open" => toServer' = toServer /\ p \in unsent'
  BY SendEffect DEF Typed
<1>2. toServer[p] \in Seq(Message)
  BY DEF Typed, WireTyped
<1>3. \A A : Has(toServer[p] \o ms, A) <=> Has(toServer[p], A) \/ Has(ms, A)
  BY <1>2, HasConcat
<1>4. JoinFirst(toServer[p]) => JoinFirst(toServer[p] \o ms)
  BY <1>2, JoinFirstConcat
<1>5. SessionsAreMembers' /\ RolesFollow' /\ TellsNegotiate'
  BY Zenon DEF Conversation, SessionsAreMembers, RolesFollow, TellsNegotiate, roomVars
<1>6. JoinsComeFirst'
  BY <1>1, <1>3, <1>4, Zenon DEF Conversation, JoinsComeFirst
<1>7. RequestsAreUnderWay'
  <2>1. SUFFICES ASSUME NEW q \in Pages, requested'[q]
                 PROVE  \/ q \in unsent' \/ ws[q] = "closed"
                        \/ ws[q] = "open" /\ (Has(toServer'[q], {"request_publish"}) \/ Has(toPage[q], Answers))
    BY DEF RequestsAreUnderWay
  <2>2. CASE requested[q]
    BY <1>1, <1>3, <2>2, Zenon DEF Conversation, RequestsAreUnderWay
  <2>3. CASE ~requested[q]
    <3>1. q = p /\ Has(ms, {"request_publish"})
      BY <2>1, <2>3 DEF Typed, PageTyped
    <3>2. QED
      BY <1>1, <1>3, <3>1, Zenon
  <2>4. QED
    BY <2>2, <2>3
<1>8. WireTyped'
  BY <1>1 DEF Typed, WireTyped
<1>9. QED
  BY <1>1, <1>5, <1>6, <1>7, <1>8 DEF Conversation

(* A page takes what is no refusal of the room; a promotion tells it its   *)
(* role, and an answer ends its waiting.                                   *)
LEMMA PageHears ==
  ASSUME Typed, Conversation, NEW p \in Pages, NEW action, OnMessage(p, action), action # Taken,
         UNCHANGED <<ws, toServer, unsent, serverVars>>,
         IF action = "publish_ok" THEN role' = [role EXCEPT ![p] = "publisher"] ELSE UNCHANGED role,
         IF action \in Answers THEN requested' = [requested EXCEPT ![p] = FALSE] ELSE UNCHANGED requested
  PROVE  Conversation' /\ WireTyped'
<1>1. /\ ws[p] = "open" /\ toPage' \in [Pages -> Seq(Message)]
      /\ \A q \in Pages : q # p => toPage'[q] = toPage[q]
      /\ \A A : /\ Has(toPage'[p], A) => Has(toPage[p], A)
                /\ Has(toPage[p], A) => action \in A \/ Has(toPage'[p], A)
                /\ action \in A => Has(toPage[p], A)
  BY OnMessageEffect DEF Typed
<1>2. UNCHANGED <<session, publisher, subscribers, todo>>
  BY DEF serverVars, roomVars
<1>3. SessionsAreMembers' /\ TellsNegotiate'
  BY <1>2 DEF Conversation, SessionsAreMembers, TellsNegotiate
<1>4. JoinsComeFirst'
  BY <1>1, <1>2, Zenon DEF Conversation, JoinsComeFirst
<1>5. RolesFollow'
  <2>1. \A q \in Pages : q # p => role'[q] = role[q]
    BY DEF Typed, PageTyped
  <2>2. CASE action = "publish_ok"
    BY <1>1, <1>2, <2>1, <2>2 DEF Typed, PageTyped, Conversation, RolesFollow
  <2>3. CASE action # "publish_ok"
    BY <1>1, <1>2, <2>3, Zenon DEF Conversation, RolesFollow
  <2>4. QED
    BY <2>2, <2>3
<1>6. RequestsAreUnderWay'
  BY <1>1 DEF Typed, PageTyped, Conversation, RequestsAreUnderWay
<1>7. WireTyped'
  BY <1>1 DEF Typed, WireTyped
<1>8. QED
  BY <1>3, <1>4, <1>5, <1>6, <1>7 DEF Conversation

(* The server tells a page something that is about no role.                *)
LEMMA ServerTells ==
  ASSUME Typed, Conversation, NEW p \in Pages, NEW m \in Message,
         m.action \notin {Taken, "publish_ok"}, SendJSON(p, m),
         UNCHANGED <<ws, role, requested, toServer, session, publisher, subscribers, unsent>>,
         TellsNegotiate'
  PROVE  Conversation' /\ WireTyped'
<1>1. /\ toPage' \in [Pages -> Seq(Message)]
      /\ \A q \in Pages : q # p => toPage'[q] = toPage[q]
      /\ ws[p] # "open" => toPage' = toPage
      /\ ws[p] = "open" => \A A : Has(toPage'[p], A) <=> Has(toPage[p], A) \/ m.action \in A
  BY SendJSONEffect DEF Typed
<1>2. SessionsAreMembers'
  BY DEF Conversation, SessionsAreMembers
<1>3. JoinsComeFirst'
  BY <1>1, Zenon DEF Conversation, JoinsComeFirst
<1>4. RolesFollow'
  BY <1>1, Zenon DEF Conversation, RolesFollow
<1>5. RequestsAreUnderWay'
  BY <1>1 DEF Conversation, RequestsAreUnderWay
<1>6. WireTyped'
  BY <1>1 DEF Typed, WireTyped
<1>7. QED
  BY <1>2, <1>3, <1>4, <1>5, <1>6 DEF Conversation

(* The handler takes a message that neither joins nor asks to publish.     *)
LEMMA HandlerTakes ==
  ASSUME Typed, Conversation, NEW p \in Pages, NEW action, Take(p, action),
         action \notin {"join", "request_publish"},
         \/ UNCHANGED toPage
         \/ \E m \in Message : m.action \notin {Taken, "publish_ok"} /\ SendJSON(p, m),
         UNCHANGED <<session, publisher, subscribers>>,
         TellsNegotiate'
  PROVE  Conversation' /\ WireTyped'
<1>1. /\ toServer' \in [Pages -> Seq(Message)] /\ toServer[p] # << >>
      /\ \A q \in Pages : q # p => toServer'[q] = toServer[q]
      /\ \A A : /\ Has(toServer'[p], A) => Has(toServer[p], A)
                /\ Has(toServer[p], A) => action \in A \/ Has(toServer'[p], A)
      /\ JoinFirst(toServer[p]) => JoinFirst(toServer'[p])
  BY TakeEffect, Zenon DEF Typed
<1>2. UNCHANGED <<ws, role, requested, unsent>>
  BY DEF Take, pageVars, pageHistory
<1> DEFINE Told == /\ toPage' \in [Pages -> Seq(Message)]
                   /\ \A q \in Pages : q # p => toPage'[q] = toPage[q]
                   /\ ws[p] # "open" => toPage' = toPage
                   /\ \A A : Has(toPage[p], A) => Has(toPage'[p], A)
                   /\ Has(toPage'[p], {Taken}) => Has(toPage[p], {Taken})
                   /\ Has(toPage'[p], {"publish_ok"}) => Has(toPage[p], {"publish_ok"})
<1>3. Told
  BY SendJSONEffect DEF Typed, WireTyped
<1>4. SessionsAreMembers'
  BY <1>2 DEF Conversation, SessionsAreMembers
<1>5. JoinsComeFirst'
  BY <1>1, <1>2, <1>3, Zenon DEF Conversation, JoinsComeFirst
<1>6. RolesFollow'
  BY <1>2, <1>3, Zenon DEF Conversation, RolesFollow
<1>7. RequestsAreUnderWay'
  BY <1>1, <1>2, <1>3, Zenon DEF Conversation, RequestsAreUnderWay
<1>8. WireTyped'
  BY <1>1, <1>3 DEF Typed, WireTyped
<1>9. QED
  BY <1>4, <1>5, <1>6, <1>7, <1>8 DEF Conversation

----------------------------------------------------------------------------
(* What a step leaves alone *)

LEMMA ServerKept ==
  ASSUME Typed, TellsNegotiate, UNCHANGED serverVars
  PROVE  RoomTyped' /\ PeersTyped' /\ TodoTyped' /\ TellsNegotiate'
         /\ UNCHANGED <<session, publisher, subscribers>> /\ UNCHANGED <<disturbed, early, outdated>>
<1> USE DEF serverVars, roomVars, peerVars, serverHistory, pcHistory
<1>1. RoomTyped' /\ PeersTyped'
  BY DEF Typed, RoomTyped, PeersTyped
<1>2. TodoTyped' /\ TellsNegotiate'
  BY DEF Typed, TodoTyped, TellsNegotiate
<1>3. QED
  BY <1>1, <1>2

LEMMA PageKept ==
  ASSUME Typed, SharesAreAlone, UNCHANGED <<pageVars, pageHistory>>
  PROVE  PageTyped' /\ SharesAreAlone' /\ UNCHANGED <<ws, role, requested, unsent, crossed, overlapped>>
<1> USE DEF pageVars, pcVars, shareVars, pageHistory, shareHistory
<1>1. PageTyped'
  BY DEF Typed, PageTyped
<1>2. SharesAreAlone'
  BY DEF SharesAreAlone
<1>3. QED
  BY <1>1, <1>2

(* The shares of the other pages go on as they did.                        *)
ShareAlone(p) ==
    /\ pc[p].n = 0 => pc[p] = Null
    /\ p \notin overlapped =>
          /\ \A s, t \in shares[p] : s = t
          /\ captured[p] \subseteq {stream[p]}
          /\ \A s \in shares[p] : s.n = 0 => captured[p] = {} /\ stream[p] = 0
          /\ canShare[p] /\ captured[p] # {} => shares[p] # {}

LEMMA OnePage ==
  ASSUME SharesAreAlone, NEW p \in Pages,
         \A q \in Pages : q # p =>
             /\ pc'[q] = pc[q] /\ shares'[q] = shares[q] /\ stream'[q] = stream[q]
             /\ captured'[q] = captured[q] /\ canShare'[q] = canShare[q]
             /\ (q \in overlapped' <=> q \in overlapped),
         /\ pc'[p].n = 0 => pc'[p] = Null
         /\ p \notin overlapped' =>
               /\ \A s, t \in shares'[p] : s = t
               /\ captured'[p] \subseteq {stream'[p]}
               /\ \A s \in shares'[p] : s.n = 0 => captured'[p] = {} /\ stream'[p] = 0
               /\ canShare'[p] /\ captured'[p] # {} => shares'[p] # {}
  PROVE  SharesAreAlone'
BY DEF SharesAreAlone

(* Steps of a peer connection leave the shares alone.                      *)
LEMMA OnlyPC ==
  ASSUME SharesAreAlone, NEW p \in Pages, UNCHANGED <<shareVars, overlapped>>,
         \A q \in Pages : q # p => pc'[q] = pc[q],
         pc'[p].n = 0 => pc'[p] = Null
  PROVE  SharesAreAlone'
BY OnePage DEF shareVars, SharesAreAlone, ShareAlone

LEMMA ClearPCEffect ==
  ASSUME PageTyped, NEW p \in Pages, ClearPC(p)
  PROVE  /\ pc' \in [Pages -> PC] /\ pending' \in [Pages -> SUBSET Serials] /\ pc'[p] = Null
         /\ \A q \in Pages : q # p => pc'[q] = pc[q]
BY NullIsPC DEF PageTyped, ClearPC

LEMMA MakePCEffect ==
  ASSUME PageTyped, NEW p \in Pages, NEW s \in SignalingStates, NEW m \in Message, MakePC(p, s, m)
  PROVE  /\ pc' \in [Pages -> PC] /\ made' \in [Pages -> Serials] /\ pc'[p].n # 0
         /\ \A q \in Pages : q # p => pc'[q] = pc[q]
<1> DEFINE new == [New(made[p] + 1) EXCEPT !.state = s, !.asked = m.n, !.has = m.has]
<1>1. made[p] \in Serials /\ made[p] < MaxPCs
  BY DEF PageTyped, MakePC
<1>2. made[p] + 1 \in Serials /\ made[p] + 1 # 0
  BY <1>1, Numbers, Zenon
<1>3. made' = [made EXCEPT ![p] = made[p] + 1] /\ made'[p] = made[p] + 1
  BY DEF MakePC, PageTyped
<1>4. pc' = [pc EXCEPT ![p] = new]
  BY <1>3, Zenon DEF MakePC
<1>5. new \in PC /\ new.n = made[p] + 1
  <2>1. m.n \in Serials /\ m.has \in SUBSET Kinds
    BY MessageFields
  <2> DEFINE k == made[p] + 1
             a == m.n
             h == m.has
  <2>2. k \in Serials /\ a \in Serials /\ h \in SUBSET Kinds
    BY <1>2, <2>1
  <2> HIDE DEF k, a, h
  <2>3. /\ [New(k) EXCEPT !.state = s, !.asked = a, !.has = h] \in PC
        /\ [New(k) EXCEPT !.state = s, !.asked = a, !.has = h].n = k
    BY <2>2, Numbers, Zenon DEF New, PC, SignalingStates
  <2>4. QED
    BY <2>3 DEF k, a, h
<1> HIDE DEF new
<1>6. QED
  BY <1>2, <1>3, <1>4, <1>5 DEF PageTyped

LEMMA ApplyEffect ==
  ASSUME PageTyped, NEW p \in Pages, Apply(p), pc[p].state # "stable"
  PROVE  /\ pc' \in [Pages -> PC] /\ pending' \in [Pages -> SUBSET Serials]
         /\ pc'[p].n = pc[p].n
         /\ \A q \in Pages : q # p => pc'[q] = pc[q]
<1> DEFINE new == [pc[p] EXCEPT !.state = "stable", !.asked = 0, !.remote = pc[p].asked,
                               !.added = pc[p].added \cup pending[p]]
<1>1. pc[p] \in PC /\ pending[p] \in SUBSET Serials
  BY DEF PageTyped
<1>2. pc[p].asked \in Serials /\ pc[p].added \cup pending[p] \in SUBSET Serials
  BY <1>1, PCFields
<1>3. new \in PC /\ new.n = pc[p].n
  <2> DEFINE c == pc[p]
             n == pc[p].asked
             S == pc[p].added \cup pending[p]
  <2>1. c \in PC /\ n \in Serials /\ S \in SUBSET Serials /\ "stable" \in SignalingStates
    BY <1>1, <1>2 DEF SignalingStates
  <2> HIDE DEF c, n, S
  <2>2. /\ [c EXCEPT !.state = "stable", !.asked = 0, !.remote = n, !.added = S] \in PC
        /\ [c EXCEPT !.state = "stable", !.asked = 0, !.remote = n, !.added = S].n = c.n
    BY <2>1, Numbers, Zenon DEF PC, SignalingStates
  <2>3. QED
    BY <2>2 DEF c, n, S
<1>4. pc' = [pc EXCEPT ![p] = new] /\ pending' = [pending EXCEPT ![p] = {}]
  BY <1>1, Zenon DEF Apply, PageTyped
<1> HIDE DEF new
<1>5. QED
  BY <1>3, <1>4 DEF PageTyped

LEMMA ClearLocalMediaEffect ==
  ASSUME PageTyped, NEW p \in Pages, ClearLocalMedia(p)
  PROVE  /\ pc' \in [Pages -> PC] /\ pending' \in [Pages -> SUBSET Serials] /\ pc'[p] = Null
         /\ stream' \in [Pages -> Shares \cup {0}] /\ stream'[p] = 0
         /\ captured' \in [Pages -> SUBSET Shares] /\ captured'[p] = captured[p] \ {stream[p]}
         /\ \A q \in Pages : q # p =>
               pc'[q] = pc[q] /\ stream'[q] = stream[q] /\ captured'[q] = captured[q]
BY ClearPCEffect DEF ClearLocalMedia, PageTyped

(* A share that starts alone starts with nothing captured.                 *)
LEMMA StartShareEffect ==
  ASSUME Typed, SharesAreAlone, NEW p \in Pages, StartShare(p)
  PROVE  /\ pc' \in [Pages -> PC] /\ pending' \in [Pages -> SUBSET Serials]
         /\ shares' \in [Pages -> SUBSET Share] /\ clicks' \in 0..MaxShares
         /\ overlapped' \in SUBSET Pages
         /\ UNCHANGED <<stream, captured, canShare, made, crossed>>
         /\ SharesAreAlone'
<1> DEFINE s0 == [k |-> clicks + 1, n |-> 0]
<1>1. /\ clicks' = clicks + 1 /\ shares' = [shares EXCEPT ![p] = shares[p] \cup {s0}]
      /\ UNCHANGED <<stream, captured, canShare, made, crossed>>
      /\ overlapped' = IF shares[p] # {} \/ stream[p] # 0 THEN overlapped \cup {p}
                       ELSE IF captured[p] = {} THEN overlapped \ {p} ELSE overlapped
      /\ ClearPC(p) /\ clicks < MaxShares
  BY DEF StartShare
<1>2. clicks + 1 \in 0..MaxShares /\ clicks + 1 \in Shares
  BY <1>1, Numbers DEF Typed, PageTyped
<1>3. s0 \in Share /\ s0.n = 0
  BY <1>2, Numbers DEF Share
<1> HIDE DEF s0
<1>4. shares' \in [Pages -> SUBSET Share] /\ shares'[p] = shares[p] \cup {s0}
      /\ \A q \in Pages : q # p => shares'[q] = shares[q]
  BY <1>1, <1>3 DEF Typed, PageTyped
<1>5. /\ pc' \in [Pages -> PC] /\ pending' \in [Pages -> SUBSET Serials] /\ pc'[p] = Null
      /\ \A q \in Pages : q # p => pc'[q] = pc[q]
  BY <1>1, ClearPCEffect DEF Typed
<1>6. ASSUME p \notin overlapped'
      PROVE  shares'[p] = {s0} /\ captured[p] = {} /\ stream[p] = 0
  BY <1>1, <1>4, <1>6, Numbers DEF Typed, PageTyped, SharesAreAlone
<1>7. SharesAreAlone'
  BY <1>1, <1>4, <1>5, <1>6, OnePage
<1>8. QED
  BY <1>1, <1>2, <1>4, <1>5, <1>7 DEF Typed, HistoryTyped

----------------------------------------------------------------------------
(* The page *)

LEMMA OnOpenInductive ==
  ASSUME Inductive, NEW p \in Pages, OnOpen(p)
  PROVE  Inductive'
<1> USE DEF Inductive
<1>1. /\ ws[p] = "connecting" /\ ws' = [ws EXCEPT ![p] = "open"]
      /\ toServer' = [toServer EXCEPT ![p] = <<Msg("join")>>]
      /\ UNCHANGED <<role, requested, pcVars, shareVars, toPage, serverVars, pageHistory>>
  BY DEF OnOpen
<1>2. Msg("join") \in Message /\ Msg("join").action = "join"
  BY MessagesAre, Zenon DEF Actions
<1>3. <<Msg("join")>> \in Seq(Message) /\ JoinFirst(<<Msg("join")>>)
  BY <1>2 DEF JoinFirst
<1>4. /\ RoomTyped' /\ PeersTyped' /\ TodoTyped' /\ TellsNegotiate'
      /\ UNCHANGED <<session, publisher, subscribers>> /\ UNCHANGED <<disturbed, early, outdated>>
  BY <1>1, ServerKept DEF Conversation
<1>5. /\ WireTyped' /\ toServer'[p] = <<Msg("join")>> /\ ws'[p] = "open"
      /\ \A q \in Pages : q # p => toServer'[q] = toServer[q] /\ ws'[q] = ws[q]
  BY <1>1, <1>3 DEF Typed, WireTyped, PageTyped
<1>6. PageTyped' /\ HistoryTyped' /\ SharesAreAlone' /\ UNCHANGED unsent
  <2> USE <1>1 DEF pcVars, shareVars, pageHistory, shareHistory
  <2>1. PageTyped'
    BY DEF Typed, PageTyped
  <2>2. HistoryTyped' /\ UNCHANGED unsent
    BY <1>4 DEF Typed, HistoryTyped
  <2>3. SharesAreAlone'
    BY DEF SharesAreAlone
  <2>4. QED
    BY <2>1, <2>2, <2>3
<1>7. toPage[p] = << >>
  BY <1>1 DEF Conversation, JoinsComeFirst
<1>8. SessionsAreMembers'
  BY <1>1, <1>4, <1>5 DEF Conversation, SessionsAreMembers
<1>9. JoinsComeFirst'
  BY <1>1, <1>3, <1>5, <1>7, HasNothing DEF Conversation, JoinsComeFirst
<1>10. RolesFollow'
  BY <1>1, <1>4, <1>5 DEF Conversation, SessionsAreMembers, RolesFollow
<1>11. RequestsAreUnderWay'
  BY <1>1, <1>5, <1>6 DEF Conversation, RequestsAreUnderWay
<1>12. QED
  BY <1>4, <1>5, <1>6, <1>8, <1>9, <1>10, <1>11 DEF Typed, Conversation

LEMMA OnCloseInductive ==
  ASSUME Inductive, NEW p \in Pages, OnClose(p)
  PROVE  Inductive'
<1> USE DEF Inductive
<1>1. /\ ws' = [ws EXCEPT ![p] = "closed"]
      /\ toServer' = [toServer EXCEPT ![p] = << >>] /\ toPage' = [toPage EXCEPT ![p] = << >>]
      /\ UNCHANGED <<role, requested, pcVars, shareVars, serverVars, pageHistory>>
  BY DEF OnClose
<1>2. /\ RoomTyped' /\ PeersTyped' /\ TodoTyped' /\ TellsNegotiate'
      /\ UNCHANGED <<session, publisher, subscribers>> /\ UNCHANGED <<disturbed, early, outdated>>
  BY <1>1, ServerKept DEF Conversation
<1>3. WireTyped' /\ toServer'[p] = << >> /\ toPage'[p] = << >> /\ ws'[p] = "closed"
      /\ \A q \in Pages : q # p =>
            toServer'[q] = toServer[q] /\ toPage'[q] = toPage[q] /\ ws'[q] = ws[q]
  BY <1>1 DEF Typed, WireTyped, PageTyped
<1>4. PageTyped' /\ HistoryTyped' /\ SharesAreAlone' /\ UNCHANGED unsent
  <2> USE <1>1 DEF pcVars, shareVars, pageHistory, shareHistory
  <2>1. PageTyped'
    BY DEF Typed, PageTyped
  <2>2. HistoryTyped' /\ UNCHANGED unsent
    BY <1>2 DEF Typed, HistoryTyped
  <2>3. SharesAreAlone'
    BY DEF SharesAreAlone
  <2>4. QED
    BY <2>1, <2>2, <2>3
<1>5. SessionsAreMembers'
  BY <1>2, <1>3 DEF Conversation, SessionsAreMembers
<1>6. JoinsComeFirst'
  BY <1>3, HasNothing, Zenon DEF Conversation, JoinsComeFirst
<1>7. RolesFollow'
  <2>1. UNCHANGED <<role, session>> /\ \A A : ~Has(toPage'[p], A)
    BY <1>1, <1>2, <1>3, HasNothing
  <2>2. QED
    BY <1>3, <2>1, Zenon DEF Conversation, RolesFollow
<1>8. RequestsAreUnderWay'
  BY <1>1, <1>3, <1>4 DEF Conversation, RequestsAreUnderWay
<1>9. QED
  BY <1>2, <1>3, <1>4, <1>5, <1>6, <1>7, <1>8 DEF Typed, Conversation

(* The page is loaded again: its handler, and so its session, is a new one *)
(* that has not joined.                                                    *)
LEMMA OnTakenInductive ==
  ASSUME Inductive, NEW p \in Pages, OnTaken(p)
  PROVE  Inductive'
<1> USE DEF Inductive
<1>1. /\ Arrived(p, Taken) /\ toPage' = [toPage EXCEPT ![p] = << >>]
      /\ ws' = [ws EXCEPT ![p] = "connecting"] /\ role' = [role EXCEPT ![p] = "subscriber"]
      /\ requested' = [requested EXCEPT ![p] = FALSE] /\ ClearPC(p)
      /\ shares' = [shares EXCEPT ![p] = {}] /\ stream' = [stream EXCEPT ![p] = 0]
      /\ captured' = [captured EXCEPT ![p] = {}] /\ canShare' = [canShare EXCEPT ![p] = TRUE]
      /\ toServer' = [toServer EXCEPT ![p] = << >>] /\ overlapped' = overlapped \ {p}
      /\ UNCHANGED <<clicks, made, crossed, unsent, serverVars>>
  BY Zenon DEF OnTaken, Taken
<1>2. /\ RoomTyped' /\ PeersTyped' /\ TodoTyped' /\ TellsNegotiate'
      /\ UNCHANGED <<session, publisher, subscribers>> /\ UNCHANGED <<disturbed, early, outdated>>
  BY <1>1, ServerKept DEF Conversation
<1>3. session[p] = "none"
  BY <1>1 DEF Arrived, Typed, WireTyped, Has, Conversation, RolesFollow
<1>4. WireTyped' /\ toServer'[p] = << >> /\ toPage'[p] = << >>
      /\ \A q \in Pages : q # p => toServer'[q] = toServer[q] /\ toPage'[q] = toPage[q]
  BY <1>1 DEF Typed, WireTyped
<1>5. /\ ws'[p] = "connecting" /\ role'[p] = "subscriber" /\ ~requested'[p]
      /\ \A q \in Pages : q # p => ws'[q] = ws[q] /\ role'[q] = role[q] /\ requested'[q] = requested[q]
  BY <1>1 DEF Typed, PageTyped
<1>6. /\ pc' \in [Pages -> PC] /\ pending' \in [Pages -> SUBSET Serials] /\ pc'[p] = Null
      /\ \A q \in Pages : q # p => pc'[q] = pc[q]
  BY <1>1, ClearPCEffect DEF Typed
<1>7. PageTyped'
  BY <1>1, <1>6, Zenon DEF Typed, PageTyped
<1>8. SharesAreAlone'
  BY <1>1, <1>6, OnePage DEF Typed, PageTyped
<1>9. HistoryTyped'
  BY <1>1, <1>2 DEF Typed, HistoryTyped
<1>10. SessionsAreMembers'
  BY <1>2, <1>3, <1>5 DEF Conversation, SessionsAreMembers
<1>11. JoinsComeFirst'
  BY <1>4, <1>5, HasNothing, ZenonT(60) DEF Conversation, JoinsComeFirst
<1>12. RolesFollow'
  BY <1>2, <1>3, <1>4, <1>5, HasNothing, Zenon DEF Conversation, RolesFollow
<1>13. RequestsAreUnderWay'
  BY <1>1, <1>4, <1>5 DEF Conversation, RequestsAreUnderWay
<1>14. QED
  BY <1>2, <1>4, <1>7, <1>8, <1>9, <1>10, <1>11, <1>12, <1>13 DEF Typed, Conversation

LEMMA RequestShareInductive ==
  ASSUME Inductive, NEW p \in Pages, RequestShare(p)
  PROVE  Inductive'
<1> USE DEF Inductive
<1>1. UNCHANGED <<ws, role, toPage, serverVars>>
  BY DEF RequestShare
<1>2. /\ RoomTyped' /\ PeersTyped' /\ TodoTyped' /\ TellsNegotiate'
      /\ UNCHANGED <<session, publisher, subscribers>> /\ UNCHANGED <<disturbed, early, outdated>>
  BY <1>1, ServerKept DEF Conversation
<1>3. CASE StartShare(p) /\ UNCHANGED <<requested, toServer, unsent>>
  BY <1>1, <1>2, <1>3, StartShareEffect, ConversationKept DEF Typed, PageTyped, WireTyped,
      HistoryTyped, convVars
<1>4. CASE /\ requested' = [requested EXCEPT ![p] = TRUE] /\ Send(p, <<Msg("request_publish")>>)
           /\ UNCHANGED <<pcVars, shareVars, shareHistory>>
  <2>1. Msg("request_publish") \in Message /\ Msg("request_publish").action = "request_publish"
    BY MessagesAre, Zenon DEF Actions
  <2>2. /\ <<Msg("request_publish")>> \in Seq(Message) /\ ~Has(<<Msg("request_publish")>>, {"join"})
        /\ Has(<<Msg("request_publish")>>, {"request_publish"})
    BY <2>1, HasOne
  <2>3. Conversation' /\ WireTyped' /\ unsent' \in SUBSET Pages
    BY <1>1, <1>4, <2>2, PageSends, Zenon DEF serverVars
  <2>4. PageTyped' /\ HistoryTyped' /\ SharesAreAlone'
    <3> USE <1>1, <1>4 DEF pcVars, shareVars, shareHistory
    <3>1. PageTyped'
      BY DEF Typed, PageTyped
    <3>2. HistoryTyped'
      BY <1>2, <2>3 DEF Typed, HistoryTyped
    <3>3. SharesAreAlone'
      BY DEF SharesAreAlone
    <3>4. QED
      BY <3>1, <3>2, <3>3
  <2>5. QED
    BY <1>2, <2>3, <2>4 DEF Typed
<1>5. QED
  BY <1>3, <1>4 DEF RequestShare

(* What remains to be shown of a step in which the server does nothing.    *)
LEMMA PageStep ==
  ASSUME Inductive, UNCHANGED serverVars, PageTyped', WireTyped', Conversation', SharesAreAlone',
         unsent' \in SUBSET Pages, crossed' \in SUBSET Pages, overlapped' \in SUBSET Pages
  PROVE  Inductive'
BY ServerKept DEF Inductive, Conversation, Typed, HistoryTyped

LEMMA HistoryIsTyped ==
  ASSUME Inductive
  PROVE  unsent \in SUBSET Pages /\ crossed \in SUBSET Pages /\ overlapped \in SUBSET Pages
BY DEF Inductive, Typed, HistoryTyped

(* A step that sends nothing and hears nothing.                            *)
LEMMA SilentStep ==
  ASSUME Inductive, UNCHANGED <<ws, role, requested, toServer, toPage, serverVars, pageHistory>>,
         PageTyped', SharesAreAlone'
  PROVE  Inductive'
BY ServerKept, ConversationKept, PageStep, HistoryIsTyped DEF pageHistory, shareHistory, Inductive,
    Conversation, convVars, Typed, WireTyped

LEMMA CapturedInductive ==
  ASSUME Inductive, NEW p \in Pages, Captured(p)
  PROVE  Inductive'
<1> USE DEF Inductive
<1>1. PICK s \in shares[p] :
        /\ s.n = 0
        /\ stream' = [stream EXCEPT ![p] = s.k]
        /\ captured' = [captured EXCEPT ![p] = captured[p] \cup {s.k}]
        /\ IF pc[p] = Null THEN MakePC(p, "stable", Msg("offer")) ELSE UNCHANGED <<pc, made>>
        /\ shares' = [shares EXCEPT ![p] = (shares[p] \ {s}) \cup {[s EXCEPT !.n = pc'[p].n]}]
        /\ UNCHANGED <<ws, role, requested, pending, canShare, clicks, toServer, toPage,
                       serverVars, pageHistory>>
  BY Zenon DEF Captured
<1>2. s \in Share /\ s.k \in Shares /\ shares[p] \subseteq Share
  BY DEF Typed, PageTyped, Share
<1>3. /\ pc' \in [Pages -> PC] /\ made' \in [Pages -> Serials] /\ pc'[p].n # 0
      /\ \A q \in Pages : q # p => pc'[q] = pc[q]
  <2>1. CASE pc[p] = Null
    BY <1>1, <2>1, MakePCEffect, MessagesAre, Zenon DEF Typed, Actions, SignalingStates
  <2>2. CASE pc[p] # Null
    BY <1>1, <2>2 DEF Typed, PageTyped, SharesAreAlone
  <2>3. QED
    BY <2>1, <2>2
<1> DEFINE t == [s EXCEPT !.n = pc'[p].n]
<1>4. t \in Share /\ t.n # 0
  BY <1>2, <1>3, PCFields DEF Share
<1> HIDE DEF t
<1>5. shares' = [shares EXCEPT ![p] = (shares[p] \ {s}) \cup {t}]
  BY <1>1 DEF t
<1>6. /\ shares'[p] = (shares[p] \ {s}) \cup {t} /\ stream'[p] = s.k
      /\ captured'[p] = captured[p] \cup {s.k}
      /\ \A q \in Pages : q # p => /\ shares'[q] = shares[q] /\ stream'[q] = stream[q]
                                   /\ captured'[q] = captured[q]
  BY <1>1, <1>5 DEF Typed, PageTyped
<1>7. PageTyped'
  <2>1. shares' \in [Pages -> SUBSET Share]
    BY <1>2, <1>4, <1>5 DEF Typed, PageTyped
  <2>2. stream' \in [Pages -> Shares \cup {0}] /\ captured' \in [Pages -> SUBSET Shares]
    BY <1>1, <1>2 DEF Typed, PageTyped
  <2>3. QED
    BY <1>1, <1>3, <2>1, <2>2 DEF Typed, PageTyped
<1>8. UNCHANGED <<canShare, overlapped>>
  BY <1>1 DEF pageHistory, shareHistory
<1>9. ASSUME p \notin overlapped
      PROVE  shares'[p] = {t} /\ captured'[p] = {s.k}
  BY <1>1, <1>6, <1>9 DEF SharesAreAlone
<1>10. SharesAreAlone'
  BY <1>3, <1>4, <1>6, <1>8, <1>9, OnePage
<1>11. QED
  BY <1>1, <1>7, <1>10, SilentStep

LEMMA OfferedInductive ==
  ASSUME Inductive, NEW p \in Pages, Offered(p)
  PROVE  Inductive'
<1> USE DEF Inductive
<1>1. PICK s \in shares[p] :
        /\ s.n # 0 /\ s.n = pc[p].n
        /\ pc' = [pc EXCEPT ![p].state = "offered"]
        /\ shares' = [shares EXCEPT ![p] = shares[p] \ {s}]
        /\ canShare' = [canShare EXCEPT ![p] = FALSE]
        /\ Send(p, <<Offer(s.n, {})>> \o Candidates(p, s.n))
        /\ UNCHANGED <<ws, role, requested, pending, made, stream, captured, clicks, toPage,
                       serverVars, shareHistory>>
  BY Zenon DEF Offered
<1>2. s.n \in Serials /\ pc[p] \in PC
  BY DEF Typed, PageTyped, Share
<1>3. Offer(s.n, {}) \in Message /\ Offer(s.n, {}).action = "offer"
  BY <1>2, MessagesAre
<1>4. /\ <<Offer(s.n, {})>> \o Candidates(p, s.n) \in Seq(Message)
      /\ ~Has(<<Offer(s.n, {})>> \o Candidates(p, s.n), {"join"})
  BY <1>2, <1>3, WithCandidates
<1>5. UNCHANGED <<roomVars, todo>>
  BY <1>1 DEF serverVars
<1>6. Conversation' /\ WireTyped' /\ unsent' \in SUBSET Pages
  BY <1>1, <1>4, <1>5, PageSends, Zenon
<1>7. /\ pc' \in [Pages -> PC] /\ pc'[p].n = pc[p].n
      /\ \A q \in Pages : q # p => pc'[q] = pc[q]
  BY <1>1, <1>2 DEF Typed, PageTyped, PC
<1>8. PageTyped'
  BY <1>1, <1>7 DEF Typed, PageTyped
<1>9. UNCHANGED <<crossed, overlapped>>
  BY <1>1 DEF shareHistory
<1>10. SharesAreAlone'
  BY <1>1, <1>7, <1>9, OnePage DEF Typed, PageTyped, SharesAreAlone
<1>11. QED
  BY <1>1, <1>6, <1>8, <1>9, <1>10, PageStep, HistoryIsTyped

LEMMA ShareFailsInductive ==
  ASSUME Inductive, NEW p \in Pages, ShareFails(p)
  PROVE  Inductive'
<1> USE DEF Inductive
<1>1. PICK s \in shares[p] :
        /\ shares' = [shares EXCEPT ![p] = shares[p] \ {s}]
        /\ ClearLocalMedia(p)
        /\ canShare' = [canShare EXCEPT ![p] = TRUE]
        /\ UNCHANGED <<ws, role, requested, made, clicks, toServer, toPage, serverVars,
                       pageHistory>>
  BY Zenon DEF ShareFails
<1>2. /\ pc' \in [Pages -> PC] /\ pending' \in [Pages -> SUBSET Serials] /\ pc'[p] = Null
      /\ stream' \in [Pages -> Shares \cup {0}] /\ stream'[p] = 0
      /\ captured' \in [Pages -> SUBSET Shares] /\ captured'[p] = captured[p] \ {stream[p]}
      /\ \A q \in Pages : q # p =>
            pc'[q] = pc[q] /\ stream'[q] = stream[q] /\ captured'[q] = captured[q]
  BY <1>1, ClearLocalMediaEffect DEF Typed
<1>3. PageTyped'
  BY <1>1, <1>2, Zenon DEF Typed, PageTyped
<1>4. /\ shares'[p] = shares[p] \ {s} /\ canShare'[p]
      /\ \A q \in Pages : q # p => shares'[q] = shares[q] /\ canShare'[q] = canShare[q]
  BY <1>1 DEF Typed, PageTyped
<1>5. UNCHANGED overlapped
  BY <1>1 DEF pageHistory, shareHistory
<1>6. p \notin overlapped => captured'[p] = {} /\ shares'[p] = {}
  BY <1>2, <1>4 DEF SharesAreAlone
<1>7. SharesAreAlone'
  BY <1>2, <1>4, <1>5, <1>6, OnePage
<1>8. QED
  BY <1>1, <1>3, <1>7, SilentStep

LEMMA ShareHangsInductive ==
  ASSUME Inductive, NEW p \in Pages, ShareHangs(p)
  PROVE  Inductive'
<1> USE DEF Inductive
<1>1. PICK s \in shares[p] :
        /\ shares' = [shares EXCEPT ![p] = shares[p] \ {s}]
        /\ overlapped' = overlapped \cup {p}
        /\ UNCHANGED <<ws, role, requested, pcVars, stream, captured, canShare, clicks,
                       toServer, toPage, serverVars, unsent, crossed>>
  BY Zenon DEF ShareHangs
<1>2. UNCHANGED <<pc, made, pending>> /\ UNCHANGED <<session, publisher, subscribers>> /\ TellsNegotiate'
  BY <1>1, ServerKept DEF pcVars, Conversation
<1>3. PageTyped'
  BY <1>1, <1>2 DEF Typed, PageTyped
<1>4. SharesAreAlone'
  BY <1>1, <1>2, OnePage DEF Typed, PageTyped, SharesAreAlone
<1>5. Conversation'
  BY <1>1, <1>2, ConversationKept DEF convVars
<1>6. WireTyped' /\ overlapped' \in SUBSET Pages
  BY <1>1 DEF Typed, WireTyped, HistoryTyped
<1>7. QED
  BY <1>1, <1>3, <1>4, <1>5, <1>6, PageStep, HistoryIsTyped

LEMMA StopShareInductive ==
  ASSUME Inductive, NEW p \in Pages, StopShare(p)
  PROVE  Inductive'
<1> USE DEF Inductive
<1>1. /\ Send(p, <<Msg("stop")>>)
      /\ ClearLocalMedia(p)
      /\ canShare' = [canShare EXCEPT ![p] = TRUE]
      /\ UNCHANGED <<ws, role, requested, made, shares, clicks, toPage, serverVars, shareHistory>>
  BY DEF StopShare
<1>2. /\ pc' \in [Pages -> PC] /\ pending' \in [Pages -> SUBSET Serials] /\ pc'[p] = Null
      /\ stream' \in [Pages -> Shares \cup {0}] /\ stream'[p] = 0
      /\ captured' \in [Pages -> SUBSET Shares] /\ captured'[p] = captured[p] \ {stream[p]}
      /\ \A q \in Pages : q # p =>
            pc'[q] = pc[q] /\ stream'[q] = stream[q] /\ captured'[q] = captured[q]
  BY <1>1, ClearLocalMediaEffect DEF Typed
<1>3. PageTyped'
  BY <1>1, <1>2, Zenon DEF Typed, PageTyped
<1>4. UNCHANGED <<crossed, overlapped, shares>> /\ UNCHANGED <<roomVars, todo>>
  BY <1>1 DEF shareHistory, serverVars
<1>5. \A q \in Pages : q # p => canShare'[q] = canShare[q]
  BY <1>1 DEF Typed, PageTyped
<1>6. SharesAreAlone'
  BY <1>2, <1>4, <1>5, OnePage DEF SharesAreAlone
<1>7. /\ <<Msg("stop")>> \in Seq(Message) /\ ~Has(<<Msg("stop")>>, {"join"})
  <2>1. Msg("stop") \in Message /\ Msg("stop").action = "stop"
    BY MessagesAre, Zenon DEF Actions
  <2>2. QED
    BY <2>1, HasOne
<1>8. Conversation' /\ WireTyped' /\ unsent' \in SUBSET Pages
  BY <1>1, <1>4, <1>7, PageSends, Zenon
<1>9. QED
  BY <1>1, <1>3, <1>4, <1>6, <1>8, PageStep, HistoryIsTyped

(* A message that is no answer to the page's waiting, and of which only    *)
(* the peer connection takes notice.                                       *)
LEMMA HearsOfPC ==
  ASSUME Inductive, NEW p \in Pages, NEW action, OnMessage(p, action), action \notin Answers,
         UNCHANGED <<ws, role, requested, shareVars, toServer, overlapped>>,
         crossed' \in SUBSET Pages,
         pc' \in [Pages -> PC], pending' \in [Pages -> SUBSET Serials], made' \in [Pages -> Serials],
         \A q \in Pages : q # p => pc'[q] = pc[q],
         pc'[p].n = 0 => pc'[p] = Null
  PROVE  Inductive'
<1> USE DEF Inductive
<1>1. UNCHANGED <<serverVars, unsent>>
  BY DEF OnMessage
<1>2. Conversation' /\ WireTyped'
  BY <1>1, PageHears DEF Answers
<1>3. SharesAreAlone'
  BY OnlyPC
<1>4. UNCHANGED <<shares, stream, captured, canShare, clicks>>
  BY DEF shareVars
<1>5. PageTyped'
  BY <1>4 DEF Typed, PageTyped
<1>6. QED
  BY <1>1, <1>2, <1>3, <1>5, PageStep, HistoryIsTyped

LEMMA HandleOfferInductive ==
  ASSUME Inductive, NEW p \in Pages, HandleOffer(p)
  PROVE  Inductive'
BY OnMessageEffect, MakePCEffect, HearsOfPC, HistoryIsTyped DEF HandleOffer, Inductive, Typed,
    SignalingStates, PageTyped, shareHistory, Answers, Taken

LEMMA HandleAnswerInductive ==
  ASSUME Inductive, NEW p \in Pages, HandleAnswer(p)
  PROVE  Inductive'
<1> DEFINE m == Head(toPage[p])
<1>1. /\ OnMessage(p, "answer")
      /\ UNCHANGED <<ws, role, requested, made, pending, shareVars, toServer, overlapped>>
  BY DEF HandleAnswer
<1>2. m \in Message
  BY <1>1, OnMessageEffect DEF Inductive, Typed
<1>3. crossed' \in SUBSET Pages
  BY HistoryIsTyped DEF HandleAnswer
<1>4. /\ pc' \in [Pages -> PC] /\ (pc'[p].n = 0 => pc'[p] = Null)
      /\ \A q \in Pages : q # p => pc'[q] = pc[q]
  <2>1. pc \in [Pages -> PC] /\ pc[p] \in PC /\ (pc[p].n = 0 => pc[p] = Null)
    BY DEF Inductive, Typed, PageTyped, SharesAreAlone
  <2>2. CASE UNCHANGED pc
    BY <2>1, <2>2
  <2>3. CASE pc[p].state = "offered" /\ pc' = [pc EXCEPT ![p].state = "applying", ![p].asked = m.n]
    <3> DEFINE n == m.n
    <3>1. n \in Serials
      BY <1>2, MessageFields
    <3> HIDE DEF m, n
    <3>2. pc' = [pc EXCEPT ![p] = [pc[p] EXCEPT !.state = "applying", !.asked = n]]
      BY <2>1, <2>3, Zenon DEF n
    <3> DEFINE new == [pc[p] EXCEPT !.state = "applying", !.asked = n]
    <3>3. new \in PC /\ new.n = pc[p].n
      BY <2>1, <3>1, Zenon DEF PC
    <3>4. pc[p].n # 0
      BY <2>1, <2>3, NullIsPC
    <3> HIDE DEF new
    <3>5. pc' = [pc EXCEPT ![p] = new]
      BY <3>2 DEF new
    <3>6. QED
      BY <2>1, <3>3, <3>4, <3>5
  <2>4. QED
    BY <2>2, <2>3 DEF HandleAnswer
<1>5. made' \in [Pages -> Serials] /\ pending' \in [Pages -> SUBSET Serials]
  BY <1>1 DEF Inductive, Typed, PageTyped
<1>6. "answer" \notin Answers
  BY DEF Answers, Taken
<1>7. QED
  BY <1>1, <1>3, <1>4, <1>5, <1>6, HearsOfPC

LEMMA HandleCandidateInductive ==
  ASSUME Inductive, NEW p \in Pages, HandleCandidate(p)
  PROVE  Inductive'
<1> DEFINE m == Head(toPage[p])
<1>1. /\ OnMessage(p, "candidate")
      /\ UNCHANGED <<ws, role, requested, made, shareVars, toServer, shareHistory>>
  BY DEF HandleCandidate
<1>2. m.n \in Serials
  BY <1>1, OnMessageEffect, MessageFields DEF Inductive, Typed
<1>3. pc \in [Pages -> PC] /\ pc[p] \in PC /\ (pc[p].n = 0 => pc[p] = Null)
      /\ pending \in [Pages -> SUBSET Serials]
  BY DEF Inductive, Typed, PageTyped, SharesAreAlone
<1>4. /\ pc' \in [Pages -> PC] /\ pending' \in [Pages -> SUBSET Serials]
      /\ (pc'[p].n = 0 => pc'[p] = Null)
      /\ \A q \in Pages : q # p => pc'[q] = pc[q]
  <2> DEFINE n == m.n
  <2>1. CASE UNCHANGED pc /\ pending' = [pending EXCEPT ![p] = pending[p] \cup {n}]
    BY <1>2, <1>3, <2>1
  <2>2. CASE pc[p].remote # 0 /\ pc' = [pc EXCEPT ![p].added = pc[p].added \cup {n}] /\ UNCHANGED pending
    <3> HIDE DEF m
    <3> DEFINE S == pc[p].added \cup {n}
    <3>1. S \in SUBSET Serials
      BY <1>2, <1>3, PCFields
    <3> HIDE DEF S
    <3> DEFINE new == [pc[p] EXCEPT !.added = S]
    <3>2. new \in PC /\ new.n = pc[p].n
      BY <1>3, <3>1 DEF PC
    <3>3. pc[p].n # 0
      BY <1>3, <2>2, NullIsPC
    <3>4. pc' = [pc EXCEPT ![p] = new]
      BY <1>3, <2>2 DEF S
    <3> HIDE DEF new
    <3>5. QED
      BY <1>3, <2>2, <3>2, <3>3, <3>4, Zenon
  <2>3. QED
    BY <2>1, <2>2 DEF HandleCandidate
<1>5. made' \in [Pages -> Serials] /\ UNCHANGED <<crossed, overlapped>>
  BY <1>1 DEF Inductive, Typed, PageTyped, shareHistory
<1>6. "candidate" \notin Answers
  BY DEF Answers, Taken
<1>7. QED
  BY <1>1, <1>4, <1>5, <1>6, HearsOfPC, HistoryIsTyped

LEMMA OnEndedInductive ==
  ASSUME Inductive, NEW p \in Pages, OnEnded(p)
  PROVE  Inductive'
BY ClearPCEffect, HearsOfPC, HistoryIsTyped DEF OnEnded, Inductive, Typed, PageTyped, shareHistory,
    Answers, Taken

LEMMA OnRefusedInductive ==
  ASSUME Inductive, NEW p \in Pages, OnRefused(p)
  PROVE  Inductive'
<1> USE DEF Inductive
<1>1. PICK action \in {"live_active", "error"} : OnMessage(p, action)
  BY DEF OnRefused
<1>2. /\ requested' = [requested EXCEPT ![p] = FALSE]
      /\ UNCHANGED <<ws, role, pcVars, shareVars, toServer, shareHistory>>
  BY DEF OnRefused
<1>3. UNCHANGED <<serverVars, unsent>>
  BY <1>1 DEF OnMessage
<1>4. action \in Answers /\ action # Taken /\ action # "publish_ok"
  BY <1>1, Zenon DEF Answers, Taken
<1>5. Conversation' /\ WireTyped'
  BY <1>1, <1>2, <1>3, <1>4, PageHears, Zenon
<1>6. PageTyped' /\ SharesAreAlone' /\ UNCHANGED <<crossed, overlapped>>
  <2> USE <1>2 DEF pcVars, shareVars, shareHistory
  <2>1. PageTyped'
    BY DEF Typed, PageTyped
  <2>2. SharesAreAlone'
    BY DEF SharesAreAlone
  <2>3. QED
    BY <2>1, <2>2
<1>7. QED
  BY <1>3, <1>5, <1>6, PageStep, HistoryIsTyped

LEMMA OnPublishOkInductive ==
  ASSUME Inductive, NEW p \in Pages, OnPublishOk(p)
  PROVE  Inductive'
<1> USE DEF Inductive
<1>1. /\ OnMessage(p, "publish_ok") /\ role' = [role EXCEPT ![p] = "publisher"]
      /\ requested' = [requested EXCEPT ![p] = FALSE] /\ StartShare(p)
      /\ UNCHANGED <<ws, toServer>>
  BY DEF OnPublishOk
<1>2. UNCHANGED <<serverVars, unsent>>
  BY <1>1 DEF OnMessage
<1>3. Conversation' /\ WireTyped'
  BY <1>1, <1>2, PageHears, Zenon DEF Answers, Taken
<1>4. /\ pc' \in [Pages -> PC] /\ pending' \in [Pages -> SUBSET Serials]
      /\ shares' \in [Pages -> SUBSET Share] /\ clicks' \in 0..MaxShares
      /\ overlapped' \in SUBSET Pages
      /\ UNCHANGED <<stream, captured, canShare, made, crossed>>
      /\ SharesAreAlone'
  BY <1>1, StartShareEffect
<1>5. PageTyped'
  BY <1>1, <1>4, Zenon DEF Typed, PageTyped
<1>6. QED
  BY <1>2, <1>3, <1>4, <1>5, PageStep, HistoryIsTyped

LEMMA AnswerInductive ==
  ASSUME Inductive, NEW p \in Pages, Answer(p)
  PROVE  Inductive'
<1> USE DEF Inductive
<1> DEFINE ms == <<AnswerTo(pc[p].n, pc[p].asked)>> \o Candidates(p, pc[p].n)
<1>1. /\ pc[p].state = "answering" /\ Apply(p) /\ Send(p, ms)
      /\ UNCHANGED <<ws, role, requested, made, shareVars, toPage, serverVars, shareHistory>>
  BY DEF Answer
<1>2. /\ pc' \in [Pages -> PC] /\ pending' \in [Pages -> SUBSET Serials] /\ pc'[p].n = pc[p].n
      /\ \A q \in Pages : q # p => pc'[q] = pc[q]
  BY <1>1, ApplyEffect DEF Typed
<1>3. pc[p] \in PC /\ pc[p].n # 0
  BY <1>1, NullIsPC DEF Typed, PageTyped, SharesAreAlone
<1>4. ms \in Seq(Message) /\ ~Has(ms, {"join"})
  BY <1>3, PCFields, MessagesAre, WithCandidates
<1> HIDE DEF ms
<1>5. Conversation' /\ WireTyped' /\ unsent' \in SUBSET Pages
  BY <1>1, <1>4, PageSends DEF serverVars
<1>6. UNCHANGED <<shares, stream, captured, canShare, clicks, crossed, overlapped>>
  BY <1>1 DEF shareVars, shareHistory
<1>7. PageTyped'
  BY <1>1, <1>2, <1>6 DEF Typed, PageTyped
<1>8. SharesAreAlone'
  BY <1>1, <1>2, <1>3, <1>6, OnlyPC
<1>9. QED
  BY <1>1, <1>5, <1>6, <1>7, <1>8, PageStep, HistoryIsTyped

LEMMA ApplyAnswerInductive ==
  ASSUME Inductive, NEW p \in Pages, ApplyAnswer(p)
  PROVE  Inductive'
<1> USE DEF Inductive
<1>1. /\ pc[p].state = "applying" /\ Apply(p)
      /\ UNCHANGED <<ws, role, requested, made, shareVars, toServer, toPage, serverVars,
                     pageHistory>>
  BY DEF ApplyAnswer
<1>2. /\ pc' \in [Pages -> PC] /\ pending' \in [Pages -> SUBSET Serials] /\ pc'[p].n = pc[p].n
      /\ \A q \in Pages : q # p => pc'[q] = pc[q]
  BY <1>1, ApplyEffect DEF Typed
<1>3. pc[p].n # 0
  BY <1>1, NullIsPC DEF Typed, PageTyped, SharesAreAlone
<1>4. UNCHANGED <<shares, stream, captured, canShare, clicks, overlapped>>
  BY <1>1 DEF shareVars, pageHistory, shareHistory
<1>5. PageTyped'
  BY <1>1, <1>2, <1>4 DEF Typed, PageTyped
<1>6. SharesAreAlone'
  BY <1>1, <1>2, <1>3, <1>4, OnlyPC
<1>7. QED
  BY <1>1, <1>5, <1>6, SilentStep

LEMMA PageInductive ==
  ASSUME Inductive, NEW p \in Pages, Page(p)
  PROVE  Inductive'
<1>1. CASE Receive(p)
  BY <1>1, OnEndedInductive, OnRefusedInductive, OnPublishOkInductive, OnTakenInductive,
     HandleOfferInductive, HandleAnswerInductive, HandleCandidateInductive DEF Receive
<1>2. CASE Settle(p)
  BY <1>2, AnswerInductive, ApplyAnswerInductive, CapturedInductive, OfferedInductive,
     ShareFailsInductive, ShareHangsInductive DEF Settle
<1>3. QED
  BY <1>1, <1>2, OnOpenInductive, OnCloseInductive, RequestShareInductive, StopShareInductive DEF Page

----------------------------------------------------------------------------
(* The server *)

LEMMA ServerStep ==
  ASSUME Inductive, UNCHANGED <<pageVars, pageHistory>>, WireTyped', RoomTyped', PeersTyped', TodoTyped',
         disturbed' \in SUBSET Pages, early' \in SUBSET Pages, outdated' \in SUBSET Pages,
         Conversation'
  PROVE  Inductive'
BY PageKept DEF Inductive, Typed, HistoryTyped

LEMMA ServerHistoryIsTyped ==
  ASSUME Inductive
  PROVE  disturbed \in SUBSET Pages /\ early \in SUBSET Pages /\ outdated \in SUBSET Pages
BY DEF Inductive, Typed, HistoryTyped

(* A step that tells no page anything and changes nobody's session.        *)
LEMMA QuietServerStep ==
  ASSUME Inductive, UNCHANGED <<pageVars, pageHistory, toServer, toPage, session, publisher, subscribers>>,
         RoomTyped', PeersTyped', TodoTyped', TellsNegotiate',
         disturbed' \in SUBSET Pages, early' \in SUBSET Pages, outdated' \in SUBSET Pages
  PROVE  Inductive'
BY ConversationKept, ServerStep DEF pageVars, pageHistory, Inductive, convVars, Typed, WireTyped

(* A step of the handler that takes a message and changes nobody's session.*)
LEMMA HandlerStep ==
  ASSUME Inductive, NEW p \in Pages, NEW action, Take(p, action),
         action \notin {"join", "request_publish"},
         \/ UNCHANGED toPage
         \/ \E m \in Message : m.action \notin {Taken, "publish_ok"} /\ SendJSON(p, m),
         UNCHANGED <<session, publisher, subscribers>>,
         RoomTyped', PeersTyped', TodoTyped', TellsNegotiate',
         disturbed' \in SUBSET Pages, early' \in SUBSET Pages, outdated' \in SUBSET Pages
  PROVE  Inductive'
BY HandlerTakes, ServerStep DEF Take, Inductive

LEMMA TodoKept ==
  ASSUME Inductive, UNCHANGED todo
  PROVE  TodoTyped' /\ TellsNegotiate'
BY DEF Inductive, Typed, TodoTyped, Conversation, TellsNegotiate

LEMMA RoomKept ==
  ASSUME Inductive, UNCHANGED roomVars
  PROVE  RoomTyped' /\ UNCHANGED <<session, publisher, subscribers>>
BY DEF Inductive, Typed, RoomTyped, roomVars

LEMMA PeersKept ==
  ASSUME Inductive, UNCHANGED peerVars
  PROVE  PeersTyped'
BY DEF Inductive, Typed, PeersTyped, peerVars

LEMMA ServerHistoryKept ==
  ASSUME Inductive, UNCHANGED serverHistory
  PROVE  disturbed' \in SUBSET Pages /\ early' \in SUBSET Pages /\ outdated' \in SUBSET Pages
BY DEF Inductive, Typed, HistoryTyped, serverHistory, pcHistory

(* The handler refuses.                                                    *)
LEMMA Refusal ==
  ASSUME Inductive, NEW p \in Pages, NEW a \in {"error", "live_active"}, Reply(p, Msg(a))
  PROVE  /\ \E m \in Message : m.action \notin {Taken, "publish_ok"} /\ SendJSON(p, m)
         /\ TodoTyped' /\ TellsNegotiate'
BY MessagesAre, TodoKept DEF Actions, Reply, Taken

LEMMA StopStreamEffect ==
  ASSUME Inductive, NEW p \in Pages, NEW g \in Goroutines, StopStream(p, g)
  PROVE  RoomTyped' /\ PeersTyped' /\ TodoTyped' /\ TellsNegotiate'
<1> USE DEF Inductive
<1>1. UNCHANGED <<toPage, session, publisher, subscribers, peerVars, serverHistory>>
  BY DEF StopStream
<1>2. TodoTyped /\ TellsNegotiate /\ subscribers \in SUBSET Pages
  BY DEF Typed, Conversation, RoomTyped
<1>3. <<Renew(p)>> \in Seq(Instruction) /\ \A i \in DOMAIN <<Renew(p)>> : <<Renew(p)>>[i].do = "renew"
  BY InstructionsAre
<1>4. CASE tracks' = {} /\ \E guests \in SetToSeqs(subscribers) : Do(g, Dismiss(guests) \o <<Renew(p)>>)
  <2>1. PICK guests \in SetToSeqs(subscribers) : Do(g, Dismiss(guests) \o <<Renew(p)>>)
    BY <1>4
  <2> DEFINE d == Dismiss(guests)
             r == <<Renew(p)>>
             is == d \o r
  <2>2. d \in Seq(Instruction) /\ \A i \in DOMAIN d : d[i].do = "reset"
    BY <1>2, Dismissals
  <2>3. r \in Seq(Instruction) /\ \A i \in DOMAIN r : r[i].do = "renew"
    BY <1>3
  <2> HIDE DEF d, r
  <2>4. is \in Seq(Instruction) /\ \A i \in DOMAIN is : is[i].do \in {"reset", "renew"}
    <3>1. /\ DOMAIN is = 1..(Len(d) + Len(r)) /\ DOMAIN d = 1..Len(d) /\ DOMAIN r = 1..Len(r)
          /\ Len(d) \in Nat /\ Len(r) \in Nat /\ is \in Seq(Instruction)
          /\ \A i \in 1..Len(d) : is[i] = d[i]
          /\ \A i \in 1..Len(r) : is[Len(d) + i] = r[i]
      BY <2>2, <2>3
    <3> HIDE DEF is
    <3>2. \A i \in DOMAIN is : (i \in DOMAIN d /\ is[i] = d[i]) \/ (i - Len(d) \in DOMAIN r /\ is[i] = r[i - Len(d)])
      BY <3>1
    <3>3. QED
      BY <2>2, <2>3, <3>1, <3>2
  <2>5. Do(g, is)
    BY <2>1 DEF d, r
  <2> HIDE DEF is
  <2>6. TodoTyped' /\ TellsNegotiate'
    BY <1>2, <2>4, <2>5, DoEffect
  <2>7. QED
    BY <1>1, <1>4, <2>6, PeersKept DEF Typed, RoomTyped
<1>5. CASE Do(g, <<Renew(p)>>) /\ UNCHANGED tracks
  BY <1>1, <1>2, <1>3, <1>5, DoEffect, PeersKept DEF Typed, RoomTyped
<1>6. CASE UNCHANGED <<tracks, todo>>
  BY <1>1, <1>6, TodoKept, PeersKept DEF Typed, RoomTyped
<1>7. QED
  BY <1>4, <1>5, <1>6 DEF StopStream

LEMMA StopInductive ==
  ASSUME Inductive, NEW p \in Pages, Stop(p)
  PROVE  Inductive'
<1>1. Take(p, "stop")
  BY DEF Stop
<1>2. CASE StopStream(p, Session(p))
  BY <1>1, <1>2, StopStreamEffect, GoroutineNames, HandlerStep, ServerHistoryKept DEF StopStream
<1>3. CASE Reply(p, Msg("error")) /\ UNCHANGED <<roomVars, peerVars, serverHistory>>
  BY <1>1, <1>3, HandlerStep, Refusal, RoomKept, PeersKept, ServerHistoryKept
<1>4. QED
  BY <1>2, <1>3 DEF Stop

LEMMA OnConnectionStateChangeInductive ==
  ASSUME Inductive, NEW p \in Pages, OnConnectionStateChange(p)
  PROVE  Inductive'
BY StopStreamEffect, GoroutineNames, QuietServerStep, ServerHistoryKept DEF OnConnectionStateChange,
    StopStream

LEMMA SetRemoteEffect ==
  ASSUME Inductive, NEW p \in Pages, NEW m \in Message, SetRemote(p, m)
  PROVE  peer' \in [Pages -> PC] /\ disturbed' \in SUBSET Pages
<1>1. peer \in [Pages -> PC] /\ peer[p] \in PC /\ disturbed \in SUBSET Pages
  BY DEF Inductive, Typed, PeersTyped, HistoryTyped
<1> DEFINE n == IF peer[p].remote = 0 THEN m.n ELSE peer[p].remote
<1>2. n \in Serials
  BY <1>1, PCFields, MessageFields
<1> HIDE DEF n
<1>3. peer' = [peer EXCEPT ![p] = [peer[p] EXCEPT !.state = "stable", !.remote = n]]
  BY <1>1, Zenon DEF SetRemote, n
<1>4. [peer[p] EXCEPT !.state = "stable", !.remote = n] \in PC
  BY <1>1, <1>2, Zenon DEF PC
<1>5. disturbed' \in SUBSET Pages
  BY <1>1 DEF SetRemote
<1>6. QED
  BY <1>1, <1>3, <1>4, <1>5

LEMMA ServerHandleOfferInductive ==
  ASSUME Inductive, NEW p \in Pages, ServerHandleOffer(p)
  PROVE  Inductive'
<1> DEFINE m == Head(toServer[p])
<1>1. Take(p, "offer") /\ UNCHANGED <<roomVars, due, early, outdated>>
  BY DEF ServerHandleOffer
<1>2. m \in Message
  BY <1>1, TakeEffect DEF Inductive, Typed
<1>3. RoomTyped' /\ UNCHANGED <<session, publisher, subscribers>>
  BY <1>1, RoomKept
<1>4. early' \in SUBSET Pages /\ outdated' \in SUBSET Pages
  BY <1>1, ServerHistoryIsTyped
<1>5. CASE /\ SetRemote(p, m) /\ gathered' = [gathered EXCEPT ![p] = gathered[p] \/ Gathers(p)]
           /\ Do(Session(p), <<Tell(p, AnswerTo(peer[p].n, m.n))>>) /\ UNCHANGED toPage
  <2>1. peer' \in [Pages -> PC] /\ disturbed' \in SUBSET Pages
    BY <1>2, <1>5, SetRemoteEffect
  <2>2. PeersTyped'
    BY <1>1, <1>5, <2>1 DEF Inductive, Typed, PeersTyped, Gathers
  <2>3. peer[p].n \in Serials /\ m.n \in Serials
    BY <1>2, PCFields, MessageFields DEF Inductive, Typed, PeersTyped
  <2> DEFINE a == AnswerTo(peer[p].n, m.n)
  <2>4. a \in Message /\ a.action = "answer"
    BY <2>3, MessagesAre
  <2> HIDE DEF a
  <2>5. Tell(p, a) \in Instruction /\ Tell(p, a).msg = a
    BY <2>4, InstructionsAre
  <2> DEFINE t == Tell(p, a)
             is == <<t>>
  <2> HIDE DEF t
  <2>6. is \in Seq(Instruction) /\ \A i \in DOMAIN is : is[i].msg.action \in {"offer", "answer"}
    BY <2>4, <2>5 DEF t
  <2>7. Do(Session(p), is)
    BY <1>5 DEF a, t
  <2> HIDE DEF is
  <2>8. TodoTyped' /\ TellsNegotiate'
    BY <2>6, <2>7, DoEffect, GoroutineNames DEF Inductive, Typed, Conversation
  <2>9. QED
    BY <1>1, <1>3, <1>4, <1>5, <2>1, <2>2, <2>8, HandlerStep
<1>6. CASE Reply(p, Msg("error")) /\ UNCHANGED <<peer, gathered, disturbed>>
  BY <1>1, <1>3, <1>4, <1>6, PeersKept, ServerHistoryIsTyped, Refusal, HandlerStep DEF peerVars
<1>7. QED
  BY <1>5, <1>6 DEF ServerHandleOffer

LEMMA ServerHandleAnswerInductive ==
  ASSUME Inductive, NEW p \in Pages, ServerHandleAnswer(p)
  PROVE  Inductive'
<1> DEFINE m == Head(toServer[p])
<1>1. Take(p, "answer") /\ UNCHANGED <<roomVars, due, gathered, early, outdated>>
  BY DEF ServerHandleAnswer
<1>2. m \in Message
  BY <1>1, TakeEffect DEF Inductive, Typed
<1>3. RoomTyped' /\ UNCHANGED <<session, publisher, subscribers>>
  BY <1>1, RoomKept
<1>4. early' \in SUBSET Pages /\ outdated' \in SUBSET Pages
  BY <1>1, ServerHistoryIsTyped
<1>5. CASE SetRemote(p, m) /\ UNCHANGED <<toPage, todo>>
  BY <1>1, <1>2, <1>3, <1>4, <1>5, SetRemoteEffect, TodoKept, HandlerStep DEF Inductive, Typed,
      PeersTyped
<1>6. CASE Reply(p, Msg("error")) /\ UNCHANGED <<peer, disturbed>>
  BY <1>1, <1>3, <1>4, <1>6, PeersKept, ServerHistoryIsTyped, Refusal, HandlerStep DEF peerVars
<1>7. QED
  BY <1>5, <1>6 DEF ServerHandleAnswer

LEMMA ServerHandleCandidateInductive ==
  ASSUME Inductive, NEW p \in Pages, ServerHandleCandidate(p)
  PROVE  Inductive'
<1> DEFINE m == Head(toServer[p])
<1>1. /\ Take(p, "candidate")
      /\ UNCHANGED <<toPage, roomVars, due, gathered, todo, serverHistory>>
  BY DEF ServerHandleCandidate
<1>2. m.n \in Serials
  BY <1>1, TakeEffect, MessageFields DEF Inductive, Typed
<1>3. RoomTyped' /\ UNCHANGED <<session, publisher, subscribers>>
  BY <1>1, RoomKept
<1>4. peer' \in [Pages -> PC]
  <2>1. peer \in [Pages -> PC] /\ peer[p] \in PC
    BY DEF Inductive, Typed, PeersTyped
  <2> DEFINE S == peer[p].added \cup {m.n}
  <2>2. S \in SUBSET Serials
    BY <1>2, <2>1, PCFields
  <2>3. CASE peer' = peer
    BY <2>1, <2>3
  <2>4. CASE peer' = [peer EXCEPT ![p].added = S]
    <3> HIDE DEF S
    <3>1. [peer[p] EXCEPT !.added = S] \in PC
      BY <2>1, <2>2 DEF PC
    <3>2. peer' = [peer EXCEPT ![p] = [peer[p] EXCEPT !.added = S]]
      BY <2>1, <2>4
    <3>3. QED
      BY <2>1, <3>1, <3>2
  <2>5. QED
    BY <2>3, <2>4 DEF ServerHandleCandidate
<1>5. PeersTyped'
  BY <1>1, <1>4 DEF Inductive, Typed, PeersTyped
<1>6. QED
  BY <1>1, <1>3, <1>5, TodoKept, ServerHistoryKept, HandlerStep


(* The handler answers a request, or refuses the room.                     *)
LEMMA HandlerAnswers ==
  ASSUME Typed, Conversation, NEW p \in Pages, NEW action \in {"join", "request_publish"},
         Take(p, action), NEW m \in Message, m.action \in Answers, SendJSON(p, m),
         m.action = Taken => action = "join",
         SessionsAreMembers', TellsNegotiate',
         \A q \in Pages : q # p => session'[q] = session[q],
         Has(toPage[p], {Taken}) \/ m.action = Taken => session'[p] = "none",
         Has(toPage[p], {"publish_ok"}) \/ m.action = "publish_ok" => session'[p] = "publisher",
         session'[p] = "subscriber" => session[p] = "subscriber",
         session'[p] = "publisher" => session[p] = "publisher" \/ m.action = "publish_ok"
  PROVE  Conversation' /\ WireTyped'
<1>1. /\ toServer' \in [Pages -> Seq(Message)] /\ toServer[p] # << >>
      /\ \A q \in Pages : q # p => toServer'[q] = toServer[q]
      /\ \A A : /\ Has(toServer'[p], A) => Has(toServer[p], A)
                /\ Has(toServer[p], A) => action \in A \/ Has(toServer'[p], A)
                /\ action \in A => Has(toServer[p], A)
      /\ JoinFirst(toServer[p]) => JoinFirst(toServer'[p]) /\ ~Has(toServer'[p], {"join"})
  BY TakeEffect DEF Typed
<1>2. UNCHANGED <<ws, role, requested, unsent>>
  BY DEF Take, pageVars, pageHistory
<1>3. /\ toPage' \in [Pages -> Seq(Message)]
      /\ \A q \in Pages : q # p => toPage'[q] = toPage[q]
      /\ ws[p] # "open" => toPage' = toPage
      /\ ws[p] = "open" => \A A : Has(toPage'[p], A) <=> Has(toPage[p], A) \/ m.action \in A
  BY SendJSONEffect DEF Typed
<1>4. ws[p] # "connecting" /\ ws[p] \in {"connecting", "open", "closed"}
  BY <1>1 DEF Conversation, JoinsComeFirst, Typed, PageTyped
<1>5. JoinsComeFirst'
  BY <1>1, <1>2, <1>3, <1>4, Zenon DEF Conversation, JoinsComeFirst
<1>6. RolesFollow'
  BY <1>2, <1>3 DEF Conversation, RolesFollow
<1>7. RequestsAreUnderWay'
  BY <1>1, <1>2, <1>3, <1>4 DEF Conversation, RequestsAreUnderWay
<1>8. WireTyped'
  BY <1>1, <1>3 DEF Typed, WireTyped
<1>9. QED
  BY <1>5, <1>6, <1>7, <1>8 DEF Conversation

(* A page joins under the role it takes itself to have.                    *)
LEMMA HandlerAdmits ==
  ASSUME Typed, Conversation, NEW p \in Pages, Take(p, "join"), session[p] = "none",
         session' = [session EXCEPT ![p] = role[p]],
         SessionsAreMembers', UNCHANGED <<toPage, todo>>
  PROVE  Conversation' /\ WireTyped'
<1>1. /\ toServer' \in [Pages -> Seq(Message)] /\ toServer[p] # << >>
      /\ \A q \in Pages : q # p => toServer'[q] = toServer[q]
      /\ \A A : /\ Has(toServer'[p], A) => Has(toServer[p], A)
                /\ Has(toServer[p], A) => "join" \in A \/ Has(toServer'[p], A)
                /\ "join" \in A => Has(toServer[p], A)
      /\ JoinFirst(toServer[p]) => JoinFirst(toServer'[p]) /\ ~Has(toServer'[p], {"join"})
  BY TakeEffect, Zenon DEF Typed
<1>2. UNCHANGED <<ws, role, requested, unsent>>
  BY DEF Take, pageVars, pageHistory
<1>3. ws[p] # "connecting" /\ ~Has(toPage[p], {Taken})
  BY <1>1, Zenon DEF Conversation, JoinsComeFirst
<1>4. JoinsComeFirst'
  BY <1>1, <1>2, <1>3, Zenon DEF Conversation, JoinsComeFirst
<1>5. RolesFollow'
  BY <1>2, <1>3 DEF Typed, RoomTyped, Conversation, RolesFollow
<1>6. RequestsAreUnderWay'
  BY <1>1, <1>2 DEF Conversation, RequestsAreUnderWay
<1>7. TellsNegotiate'
  BY DEF Conversation, TellsNegotiate
<1>8. WireTyped'
  BY <1>1 DEF Typed, WireTyped
<1>9. QED
  BY <1>4, <1>5, <1>6, <1>7, <1>8 DEF Conversation

LEMMA JoinInductive ==
  ASSUME Inductive, NEW p \in Pages, Join(p)
  PROVE  Inductive'
<1>1. Take(p, "join") /\ session[p] = "none"
  BY Zenon DEF Join
<1>2. UNCHANGED <<pageVars, pageHistory>>
  BY <1>1 DEF Take
<1>3. Typed /\ Conversation /\ PeersTyped /\ HistoryTyped /\ RoomTyped /\ SessionsAreMembers
  BY DEF Inductive, Typed, Conversation
<1>4. ws[p] # "connecting"
  BY <1>1, <1>3, TakeEffect DEF Typed, Conversation, JoinsComeFirst
<1>5. CASE Reply(p, Msg(Taken)) /\ UNCHANGED <<roomVars, peerVars, serverHistory>>
  <2>1. Msg(Taken) \in Message /\ Msg(Taken).action = Taken
    BY MessagesAre, Zenon DEF Actions, Taken
  <2>2. SendJSON(p, Msg(Taken)) /\ UNCHANGED todo
    BY <1>5 DEF Reply
  <2>3. TodoTyped' /\ TellsNegotiate'
    BY <2>2, TodoKept
  <2>4. RoomTyped' /\ UNCHANGED <<session, publisher, subscribers>>
    BY <1>5, RoomKept
  <2>5. UNCHANGED <<ws, role>>
    BY <1>2 DEF pageVars
  <2>6. SessionsAreMembers'
    BY <1>3, <2>4, <2>5 DEF SessionsAreMembers
  <2>7. ~Has(toPage[p], {"publish_ok"})
    BY <1>1, <1>3 DEF Conversation, RolesFollow
  <2>8. Taken \in Answers /\ Taken # "publish_ok"
    BY DEF Taken, Answers
  <2>9. Conversation' /\ WireTyped'
    BY <1>1, <1>3, <2>1, <2>2, <2>3, <2>4, <2>6, <2>7, <2>8, HandlerAnswers
  <2>10. QED
    BY <1>2, <1>5, <2>3, <2>4, <2>9, PeersKept, ServerHistoryKept, ServerStep
<1>6. CASE /\ AddPublisher(p) \/ AddSubscriber(p)
           /\ session' = [session EXCEPT ![p] = role[p]]
           /\ UNCHANGED <<toPage, todo, tracks>>
  <2>1. /\ \E h \in SUBSET Kinds : NewPC(p, h)
        /\ due' \in [Pages -> SUBSET {"timer", "welcome"}]
        /\ \/ role[p] = "publisher" /\ publisher = NoPage /\ publisher' = p /\ subscribers' = subscribers
           \/ role[p] = "subscriber" /\ publisher' = publisher /\ subscribers' = subscribers \cup {p}
    BY <1>3, <1>6 DEF RoomTyped, AddPublisher, PeersTyped, AddSubscriber
  <2>2. /\ peer' \in [Pages -> PC] /\ gathered' \in [Pages -> BOOLEAN]
        /\ early' \in SUBSET Pages /\ outdated' = outdated /\ disturbed' \in SUBSET Pages
    BY <1>3, <2>1, NewPCEffect
  <2>3. PeersTyped'
    BY <2>1, <2>2 DEF PeersTyped
  <2>4. /\ session'[p] = role[p] /\ \A q \in Pages : q # p => session'[q] = session[q]
        /\ role[p] \in {"publisher", "subscriber"}
        /\ session' \in [Pages -> {"none", "publisher", "subscriber", "left"}]
    BY <1>3, <1>6 DEF Typed, PageTyped, RoomTyped
  <2>5. RoomTyped'
    BY <1>3, <1>6, <2>1, <2>4 DEF RoomTyped
  <2>6. SessionsAreMembers'
    BY <1>1, <1>2, <1>3, <1>4, <2>1, <2>4, RoomPageAssumption DEF pageVars, SessionsAreMembers
  <2>7. Conversation' /\ WireTyped'
    BY <1>1, <1>3, <1>6, <2>6, HandlerAdmits, Zenon
  <2>8. TodoTyped'
    BY <1>6, TodoKept
  <2>9. outdated' \in SUBSET Pages
    BY <2>2, <1>3 DEF HistoryTyped
  <2>10. QED
    BY <1>2, <2>2, <2>3, <2>5, <2>7, <2>8, <2>9, ServerStep
<1>7. QED
  BY <1>5, <1>6, Zenon DEF Join, Taken

LEMMA RequestPublishInductive ==
  ASSUME Inductive, NEW p \in Pages, RequestPublish(p)
  PROVE  Inductive'
<1>1. Take(p, "request_publish")
  BY DEF RequestPublish
<1>2. UNCHANGED <<pageVars, pageHistory>>
  BY <1>1 DEF Take
<1>3. Typed /\ Conversation /\ PeersTyped /\ HistoryTyped /\ RoomTyped /\ SessionsAreMembers
  BY DEF Inductive, Typed, Conversation
<1>4. ws[p] # "connecting" /\ UNCHANGED ws
  BY <1>1, <1>2, <1>3, TakeEffect DEF Typed, Conversation, JoinsComeFirst, pageVars
<1>5. ASSUME NEW a \in {"publish_ok", "live_active", "error"}, Reply(p, Msg(a)),
             a = "publish_ok" => session[p] = "publisher",
             UNCHANGED <<roomVars, peerVars, serverHistory>>
      PROVE  Inductive'
  <2>1. Msg(a) \in Message /\ Msg(a).action = a /\ a \in Answers /\ a # Taken
    BY MessagesAre, Zenon DEF Actions, Answers, Taken
  <2>2. SendJSON(p, Msg(a)) /\ UNCHANGED todo
    BY <1>5 DEF Reply
  <2>3. TodoTyped' /\ TellsNegotiate'
    BY <2>2, TodoKept
  <2>4. RoomTyped' /\ UNCHANGED <<session, publisher, subscribers>>
    BY <1>5, RoomKept
  <2>5. SessionsAreMembers'
    BY <1>3, <1>4, <2>4 DEF SessionsAreMembers
  <2>6. /\ Has(toPage[p], {Taken}) => session[p] = "none"
        /\ Has(toPage[p], {"publish_ok"}) => session[p] = "publisher"
    BY <1>1, <1>3 DEF Take, Conversation, RolesFollow
  <2>7. Conversation' /\ WireTyped'
    <3> DEFINE m == Msg(a)
    <3>1. m \in Message /\ m.action = a /\ SendJSON(p, m)
      BY <2>1, <2>2
    <3> HIDE DEF m
    <3>2. QED
      BY <1>1, <1>3, <1>5, <2>1, <2>3, <2>4, <2>5, <2>6, <3>1, HandlerAnswers, Zenon
  <2>8. QED
    BY <1>2, <1>5, <2>3, <2>4, <2>7, PeersKept, ServerHistoryKept, ServerStep
<1>6. CASE /\ session[p] = "subscriber" /\ publisher = NoPage
           /\ PromotePublisher(p) /\ Reply(p, Msg("publish_ok")) /\ UNCHANGED tracks
  <2>1. /\ publisher' = p /\ subscribers' = subscribers \ {p}
        /\ session' = [session EXCEPT ![p] = "publisher"] /\ NewPC(p, {})
        /\ due' = [due EXCEPT ![p] = {}]
    BY <1>6 DEF PromotePublisher
  <2>2. /\ peer' \in [Pages -> PC] /\ gathered' \in [Pages -> BOOLEAN]
        /\ early' \in SUBSET Pages /\ outdated' = outdated /\ disturbed' \in SUBSET Pages
    BY <1>3, <2>1, NewPCEffect
  <2>3. PeersTyped'
    BY <1>3, <2>1, <2>2, Zenon DEF PeersTyped
  <2>4. session'[p] = "publisher" /\ \A q \in Pages : q # p => session'[q] = session[q]
    BY <1>3, <2>1 DEF RoomTyped
  <2>5. RoomTyped'
    BY <1>3, <1>6, <2>1 DEF RoomTyped
  <2>6. SessionsAreMembers'
    BY <1>3, <1>4, <1>6, <2>1, <2>4, RoomPageAssumption DEF SessionsAreMembers
  <2>7. Msg("publish_ok") \in Message /\ Msg("publish_ok").action = "publish_ok"
    BY MessagesAre, Zenon DEF Actions
  <2>8. SendJSON(p, Msg("publish_ok")) /\ UNCHANGED todo
    BY <1>6 DEF Reply
  <2>9. TodoTyped' /\ TellsNegotiate'
    BY <2>8, TodoKept
  <2>10. ~Has(toPage[p], {Taken}) /\ "publish_ok" # Taken /\ "publish_ok" \in Answers
    BY <1>3, <1>6, Zenon DEF Conversation, RolesFollow, Taken, Answers
  <2>11. Conversation' /\ WireTyped'
    <3> DEFINE m == Msg("publish_ok")
    <3>1. m \in Message /\ m.action = "publish_ok" /\ SendJSON(p, m)
      BY <2>7, <2>8
    <3> HIDE DEF m
    <3>2. QED
      BY <1>1, <1>3, <2>4, <2>6, <2>9, <2>10, <3>1, HandlerAnswers
  <2>12. outdated' \in SUBSET Pages
    BY <1>3, <2>2 DEF HistoryTyped
  <2>13. QED
    BY <1>2, <2>2, <2>3, <2>5, <2>9, <2>11, <2>12, ServerStep
<1>7. QED
  BY <1>5, <1>6 DEF RequestPublish

----------------------------------------------------------------------------
(* What Pion and the other goroutines do *)

LEMMA TrackArrivesInductive ==
  ASSUME Inductive, NEW p \in Pages, NEW k \in Kinds, TrackArrives(p, k)
  PROVE  Inductive'
<1>1. /\ tracks' = tracks \cup {k}
      /\ peer' = [q \in Pages |-> IF q \in subscribers THEN [peer[q] EXCEPT !.has = peer[q].has \cup {k}]
                                  ELSE peer[q]]
      /\ due' = [q \in Pages |-> IF q \in subscribers THEN due[q] \cup {"timer"} ELSE due[q]]
      /\ UNCHANGED <<pageVars, pageHistory, toServer, toPage, session, publisher, subscribers,
                     gathered, todo, serverHistory>>
  BY DEF TrackArrives
<1>2. PeersTyped /\ RoomTyped
  BY DEF Inductive, Typed
<1>3. RoomTyped'
  BY <1>1, <1>2 DEF RoomTyped
<1>4. \A q \in Pages : [peer[q] EXCEPT !.has = peer[q].has \cup {k}] \in PC
  <2>1. TAKE q \in Pages
  <2> DEFINE c == peer[q]
             S == peer[q].has \cup {k}
  <2>2. c \in PC /\ S \in SUBSET Kinds
    BY <1>2, PCFields DEF PeersTyped
  <2> HIDE DEF c, S
  <2>3. [c EXCEPT !.has = S] \in PC
    BY <2>2 DEF PC
  <2>4. QED
    BY <2>3 DEF c, S
<1>5. peer' \in [Pages -> PC]
  BY <1>1, <1>2, <1>4 DEF PeersTyped
<1>6. due' \in [Pages -> SUBSET {"timer", "welcome"}]
  BY <1>1, <1>2 DEF PeersTyped
<1>7. PeersTyped'
  BY <1>1, <1>2, <1>5, <1>6 DEF PeersTyped
<1>8. QED
  BY <1>1, <1>3, <1>7, TodoKept, ServerHistoryKept, QuietServerStep

LEMMA NegotiateSubscriberInductive ==
  ASSUME Inductive, NEW q \in Pages, NegotiateSubscriber(q)
  PROVE  Inductive'
<1>1. UNCHANGED <<pageVars, pageHistory, toServer, toPage, roomVars, early, outdated>>
  BY DEF NegotiateSubscriber
<1>2. PICK why \in due[q] :
          /\ due' = [due EXCEPT ![q] = due[q] \ {why}]
          /\ \/ disturbed' = disturbed \cup {q} /\ UNCHANGED <<peer, gathered, todo>>
             \/ /\ peer' = [peer EXCEPT ![q].state = "offered"]
                /\ gathered' = [gathered EXCEPT ![q] = gathered[q] \/ Gathers(q)]
                /\ Do(Negotiation(q), <<Tell(q, Offer(peer[q].n, peer[q].has))>>)
                /\ UNCHANGED disturbed
  BY Zenon DEF NegotiateSubscriber
<1>3. PeersTyped /\ HistoryTyped /\ TodoTyped /\ TellsNegotiate
  BY DEF Inductive, Typed, Conversation
<1>4. RoomTyped' /\ UNCHANGED <<session, publisher, subscribers>>
  BY <1>1, RoomKept
<1>5. due' \in [Pages -> SUBSET {"timer", "welcome"}]
  BY <1>2, <1>3 DEF PeersTyped
<1>6. early' \in SUBSET Pages /\ outdated' \in SUBSET Pages
  BY <1>1, ServerHistoryIsTyped
<1>7. CASE disturbed' = disturbed \cup {q} /\ UNCHANGED <<peer, gathered, todo>>
  BY <1>1, <1>3, <1>4, <1>5, <1>6, <1>7, TodoKept, QuietServerStep DEF PeersTyped, HistoryTyped
<1>8. CASE /\ peer' = [peer EXCEPT ![q].state = "offered"]
           /\ gathered' = [gathered EXCEPT ![q] = gathered[q] \/ Gathers(q)]
           /\ Do(Negotiation(q), <<Tell(q, Offer(peer[q].n, peer[q].has))>>)
           /\ UNCHANGED disturbed
  <2>1. peer[q] \in PC /\ peer[q].n \in Serials /\ peer[q].has \in SUBSET Kinds
    BY <1>3, PCFields DEF PeersTyped
  <2>2. peer' \in [Pages -> PC]
    BY <1>3, <1>8, <2>1 DEF PC, PeersTyped
  <2>3. gathered' \in [Pages -> BOOLEAN]
    BY <1>3, <1>8 DEF PeersTyped, Gathers
  <2>4. PeersTyped'
    BY <1>5, <2>2, <2>3 DEF PeersTyped
  <2> DEFINE o == Offer(peer[q].n, peer[q].has)
  <2>5. o \in Message /\ o.action = "offer"
    BY <2>1, MessagesAre
  <2> HIDE DEF o
  <2>6. Tell(q, o) \in Instruction /\ Tell(q, o).msg = o
    BY <2>5, InstructionsAre
  <2> DEFINE t == Tell(q, o)
             is == <<t>>
  <2> HIDE DEF t
  <2>7. is \in Seq(Instruction) /\ \A i \in DOMAIN is : is[i].msg.action \in {"offer", "answer"}
    BY <2>5, <2>6 DEF t
  <2>8. Do(Negotiation(q), is)
    BY <1>8 DEF o, t
  <2> HIDE DEF is
  <2>9. TodoTyped' /\ TellsNegotiate'
    BY <1>3, <2>7, <2>8, DoEffect, GoroutineNames
  <2>10. disturbed' \in SUBSET Pages
    BY <1>8, ServerHistoryIsTyped
  <2>11. QED
    BY <1>1, <1>4, <1>6, <2>4, <2>9, <2>10, QuietServerStep
<1>9. QED
  BY <1>2, <1>7, <1>8

(* A step that tells a page something about no role, and changes nobody's  *)
(* session.                                                                *)
LEMMA TellingStep ==
  ASSUME Inductive, NEW p \in Pages, NEW m \in Message, m.action \notin {Taken, "publish_ok"}, SendJSON(p, m),
         UNCHANGED <<pageVars, pageHistory, toServer, session, publisher, subscribers>>,
         RoomTyped', PeersTyped', TodoTyped', TellsNegotiate',
         disturbed' \in SUBSET Pages, early' \in SUBSET Pages, outdated' \in SUBSET Pages
  PROVE  Inductive'
BY ServerTells, ServerStep DEF pageVars, pageHistory, Inductive

LEMMA OnICECandidateInductive ==
  ASSUME Inductive, NEW p \in Pages, OnICECandidate(p)
  PROVE  Inductive'
<1> DEFINE m == Candidate(peer[p].n)
<1>1. /\ gathered' = [gathered EXCEPT ![p] = FALSE] /\ SendJSON(p, m)
      /\ early' \in {early, early \cup {p}}
      /\ UNCHANGED <<pageVars, pageHistory, toServer, roomVars, peer, due, todo, disturbed, outdated>>
  BY DEF OnICECandidate
<1>2. m \in Message /\ m.action = "candidate"
  BY PCFields, MessagesAre DEF Inductive, Typed, PeersTyped
<1>3. RoomTyped' /\ UNCHANGED <<session, publisher, subscribers>>
  BY <1>1, RoomKept
<1>4. PeersTyped'
  BY <1>1 DEF Inductive, Typed, PeersTyped
<1>5. disturbed' \in SUBSET Pages /\ early' \in SUBSET Pages /\ outdated' \in SUBSET Pages
  BY <1>1, ServerHistoryIsTyped
<1>6. TodoTyped' /\ TellsNegotiate'
  BY <1>1, TodoKept
<1>7. m.action \notin {Taken, "publish_ok"}
  BY <1>2 DEF Taken
<1> HIDE DEF m
<1>8. QED
  BY <1>1, <1>2, <1>3, <1>4, <1>5, <1>6, <1>7, TellingStep

LEMMA TellNextInductive ==
  ASSUME Inductive, NEW g \in Goroutines, TellNext(g)
  PROVE  Inductive'
<1> DEFINE t == Head(todo[g])
<1>1. /\ Step(g, "tell") /\ SendJSON(t.page, t.msg)
      /\ outdated' \in {outdated, outdated \cup {t.page}}
      /\ UNCHANGED <<peerVars, pcHistory>>
  BY DEF TellNext
<1>2. TodoTyped' /\ TellsNegotiate' /\ t \in Instruction /\ t.do = "tell" /\ t.msg.action \in {"offer", "answer"}
  BY <1>1, StepEffect DEF Inductive, Typed, Conversation
<1>3. UNCHANGED <<pageVars, pageHistory, toServer, roomVars>>
  BY <1>1 DEF Step
<1> HIDE DEF t
<1>4. t.page \in Pages /\ t.msg \in Message /\ t.msg.action \notin {Taken, "publish_ok"}
  BY <1>2, InstructionFields, Zenon DEF Taken
<1>5. RoomTyped' /\ UNCHANGED <<session, publisher, subscribers>>
  BY <1>3, RoomKept
<1>6. disturbed' \in SUBSET Pages /\ early' \in SUBSET Pages /\ outdated' \in SUBSET Pages
  BY <1>1, <1>4, ServerHistoryIsTyped DEF pcHistory
<1>7. QED
  BY <1>1, <1>2, <1>3, <1>4, <1>5, <1>6, PeersKept, TellingStep

LEMMA EndSubscriberInductive ==
  ASSUME Inductive, NEW g \in Goroutines, EndSubscriber(g)
  PROVE  Inductive'
<1> DEFINE q == Head(todo[g]).page
<1>1. /\ Step(g, "reset") /\ SendJSON(q, Msg("ended"))
      /\ \/ /\ ReplacePC(q, {}) /\ due' = [due EXCEPT ![q] = due[q] \ {"timer"}]
            /\ disturbed' \in {disturbed \ {q}, disturbed \cup {q}}
         \/ /\ outdated' = outdated \cup {q}
            /\ UNCHANGED <<peerVars, pcHistory>>
  BY DEF EndSubscriber
<1>2. TodoTyped' /\ TellsNegotiate' /\ q \in Pages
  BY <1>1, StepEffect, InstructionFields DEF Inductive, Typed, Conversation
<1>3. UNCHANGED <<pageVars, pageHistory, toServer, roomVars>>
  BY <1>1 DEF Step
<1> HIDE DEF q
<1>4. Msg("ended") \in Message /\ Msg("ended").action = "ended" /\ "ended" \notin {Taken, "publish_ok"}
  BY MessagesAre, Zenon DEF Actions, Taken
<1>5. RoomTyped' /\ UNCHANGED <<session, publisher, subscribers>>
  BY <1>3, RoomKept
<1>6. PeersTyped' /\ disturbed' \in SUBSET Pages /\ early' \in SUBSET Pages /\ outdated' \in SUBSET Pages
  <2>1. CASE /\ ReplacePC(q, {}) /\ due' = [due EXCEPT ![q] = due[q] \ {"timer"}]
             /\ disturbed' \in {disturbed \ {q}, disturbed \cup {q}}
    BY <1>2, <2>1, ReplaceEffect DEF Inductive, Typed, PeersTyped, HistoryTyped
  <2>2. CASE outdated' = outdated \cup {q} /\ UNCHANGED <<peerVars, pcHistory>>
    BY <1>2, <2>2, PeersKept, ServerHistoryIsTyped DEF pcHistory
  <2>3. QED
    BY <1>1, <2>1, <2>2
<1>7. QED
  <2> DEFINE m == Msg("ended")
  <2>1. m \in Message /\ m.action \notin {Taken, "publish_ok"} /\ SendJSON(q, m)
    BY <1>1, <1>4
  <2> HIDE DEF m
  <2>2. QED
    BY <1>2, <1>3, <1>5, <1>6, <2>1, TellingStep

LEMMA ResetPublisherPCInductive ==
  ASSUME Inductive, NEW g \in Goroutines, ResetPublisherPC(g)
  PROVE  Inductive'
<1> DEFINE p == Head(todo[g]).page
<1>1. /\ Step(g, "renew") /\ UNCHANGED <<toPage, due>>
      /\ \/ NewPC(p, {})
         \/ ReplacePC(p, {}) /\ disturbed' = disturbed \cup {p}
         \/ UNCHANGED <<peer, gathered, serverHistory>>
  BY DEF ResetPublisherPC
<1>2. TodoTyped' /\ TellsNegotiate' /\ p \in Pages
  BY <1>1, StepEffect, InstructionFields DEF Inductive, Typed, Conversation
<1>3. UNCHANGED <<pageVars, pageHistory, toServer, roomVars>>
  BY <1>1 DEF Step
<1> HIDE DEF p
<1>4. RoomTyped' /\ UNCHANGED <<session, publisher, subscribers>>
  BY <1>3, RoomKept
<1>5. PeersTyped' /\ disturbed' \in SUBSET Pages /\ early' \in SUBSET Pages /\ outdated' \in SUBSET Pages
  BY <1>1, <1>2, NewPCEffect, ReplaceEffect, PeersKept, ServerHistoryKept DEF Inductive, Typed,
      PeersTyped, HistoryTyped, peerVars
<1>6. QED
  BY <1>1, <1>2, <1>3, <1>4, <1>5, QuietServerStep

LEMMA CleanupInductive ==
  ASSUME Inductive, NEW p \in Pages, Cleanup(p)
  PROVE  Inductive'
<1>1. /\ ws[p] = "closed"
      /\ session' = [session EXCEPT ![p] = "left"]
      /\ due' = [due EXCEPT ![p] = {}] /\ gathered' = [gathered EXCEPT ![p] = FALSE]
      /\ subscribers' = subscribers \ {p}
      /\ \/ /\ publisher = p /\ publisher' = NoPage /\ tracks' = {}
            /\ \E guests \in SetToSeqs(subscribers) : Do(Session(p), Dismiss(guests))
         \/ publisher # p /\ UNCHANGED <<publisher, tracks, todo>>
      /\ UNCHANGED <<pageVars, pageHistory, toServer, toPage, peer, serverHistory>>
  BY DEF Cleanup
<1>2. Typed /\ Conversation /\ PeersTyped /\ RoomTyped /\ TodoTyped /\ TellsNegotiate
  BY DEF Inductive, Typed, Conversation
<1>3. UNCHANGED <<ws, role, requested, unsent>>
  BY <1>1 DEF pageVars, pageHistory
<1>4. session'[p] = "left" /\ \A q \in Pages : q # p => session'[q] = session[q]
  BY <1>1, <1>2 DEF RoomTyped
<1>5. RoomTyped'
  BY <1>1, <1>2 DEF RoomTyped
<1>6. PeersTyped'
  BY <1>1, <1>2 DEF PeersTyped
<1>7. TodoTyped' /\ TellsNegotiate'
  <2>1. ASSUME NEW guests \in SetToSeqs(subscribers), Do(Session(p), Dismiss(guests))
        PROVE  TodoTyped' /\ TellsNegotiate'
    <3>1. subscribers \in SUBSET Pages
      BY <1>2 DEF RoomTyped
    <3> DEFINE is == Dismiss(guests)
    <3>2. is \in Seq(Instruction) /\ \A i \in DOMAIN is : is[i].do = "reset"
      BY <3>1, Dismissals
    <3>3. Do(Session(p), is)
      BY <2>1
    <3> HIDE DEF is
    <3>4. QED
      BY <1>2, <3>2, <3>3, DoEffect, GoroutineNames
  <2>2. CASE UNCHANGED todo
    BY <2>2, TodoKept
  <2>3. QED
    BY <1>1, <2>1, <2>2
<1>8. SessionsAreMembers'
  BY <1>1, <1>2, <1>3, <1>4, RoomPageAssumption DEF Conversation, SessionsAreMembers
<1>9. toPage[p] = << >> /\ UNCHANGED <<toServer, toPage>>
  BY <1>1, <1>2 DEF Conversation, JoinsComeFirst
<1>10. JoinsComeFirst'
  BY <1>2, <1>3, <1>9, Zenon DEF Conversation, JoinsComeFirst
<1>11. RolesFollow'
  <2>1. ~Has(toPage[p], {Taken}) /\ ~Has(toPage[p], {"publish_ok"})
    BY <1>9, HasNothing
  <2>2. SUFFICES ASSUME NEW q \in Pages
                 PROVE  /\ Has(toPage[q], {Taken}) => session'[q] = "none"
                        /\ Has(toPage[q], {"publish_ok"}) => session'[q] \in {"publisher", "left"}
                        /\ session'[q] = "subscriber" => role[q] = "subscriber"
                        /\ session'[q] = "publisher" /\ ws[q] = "open" =>
                              role[q] = "publisher" \/ Has(toPage[q], {"publish_ok"})
    BY <1>3, <1>9, Zenon DEF RolesFollow
  <2>3. CASE q = p
    BY <1>4, <2>1, <2>3
  <2>4. CASE q # p
    BY <1>2, <1>4, <2>4, Zenon DEF Conversation, RolesFollow
  <2>5. QED
    BY <2>3, <2>4
<1>12. RequestsAreUnderWay'
  BY <1>2, <1>3, <1>9 DEF Conversation, RequestsAreUnderWay
<1>13. WireTyped'
  BY <1>2, <1>9 DEF Typed, WireTyped
<1>14. QED
  BY <1>1, <1>5, <1>6, <1>7, <1>8, <1>10, <1>11, <1>12, <1>13, ServerHistoryKept, ServerStep DEF Conversation

----------------------------------------------------------------------------
(* The invariant *)

LEMMA InitInductive == Init => Inductive
<1> SUFFICES ASSUME Init PROVE Inductive
  OBVIOUS
<1> USE DEF Init
<1>1. PageTyped
  BY Numbers, NullIsPC, RoomPageAssumption DEF PageTyped
<1>2. WireTyped /\ TodoTyped
  BY DEF WireTyped, TodoTyped
<1>3. RoomTyped /\ PeersTyped /\ HistoryTyped
  BY NullIsPC DEF RoomTyped, PeersTyped, HistoryTyped
<1>4. SessionsAreMembers
  BY RoomPageAssumption DEF SessionsAreMembers
<1>5. JoinsComeFirst /\ RolesFollow
  BY HasNothing DEF JoinsComeFirst, RolesFollow
<1>6. TellsNegotiate /\ RequestsAreUnderWay
  BY DEF TellsNegotiate, RequestsAreUnderWay
<1>7. SharesAreAlone
  BY DEF SharesAreAlone
<1>8. QED
  BY <1>1, <1>2, <1>3, <1>4, <1>5, <1>6, <1>7 DEF Inductive, Typed, Conversation

LEMMA StutterInductive == Inductive /\ UNCHANGED vars => Inductive'
<1> SUFFICES ASSUME Inductive, UNCHANGED vars PROVE Inductive'
  OBVIOUS
<1>1. UNCHANGED <<pageVars, pageHistory, toServer, toPage, serverVars>>
  BY DEF vars
<1>2. UNCHANGED <<roomVars, peerVars, todo, serverHistory>>
  BY <1>1 DEF serverVars
<1>3. UNCHANGED <<session, publisher, subscribers>>
  BY <1>2 DEF roomVars
<1>4. QED
  BY <1>1, <1>2, <1>3, RoomKept, PeersKept, TodoKept, ServerHistoryKept, QuietServerStep

LEMMA NextInductive == Inductive /\ [Next]_vars => Inductive'
<1> SUFFICES ASSUME Inductive, [Next]_vars PROVE Inductive'
  OBVIOUS
<1>1. ASSUME NEW p \in Pages, Handle(p) PROVE Inductive'
  BY <1>1, JoinInductive, RequestPublishInductive, StopInductive, ServerHandleOfferInductive,
     ServerHandleAnswerInductive, ServerHandleCandidateInductive DEF Handle
<1>2. ASSUME NEW p \in Pages, Cleanup(p) \/ Pion(p) PROVE Inductive'
  BY <1>2, CleanupInductive, OnConnectionStateChangeInductive, NegotiateSubscriberInductive,
     OnICECandidateInductive, TrackArrivesInductive DEF Pion
<1>3. ASSUME NEW g \in Goroutines, TellNext(g) \/ EndSubscriber(g) \/ ResetPublisherPC(g) PROVE Inductive'
  BY <1>3, TellNextInductive, EndSubscriberInductive, ResetPublisherPCInductive
<1>4. QED
  BY <1>1, <1>2, <1>3, OnConnectionStateChangeInductive, PageInductive, StutterInductive DEF Next, Server

THEOREM InductiveInvariant == Spec => []Inductive
<1>1. QED
  BY InitInductive, NextInductive, PTL DEF Spec

(* The variables of the pages, of the wire and of the room keep their      *)
(* types, and no page is host and guest at once (Room in                   *)
(* pkg/room/room.go, the globals of public/js/webrtc.js).                  *)
THEOREM TypeCorrect == Spec => []TypeOK
<1>1. Inductive => TypeOK
  <2> SUFFICES ASSUME Inductive PROVE TypeOK
    OBVIOUS
  <2> USE DEF Inductive, Typed
  <2>1. \A p \in Pages : \A s \in shares[p] : s \in [k : Shares, n : Serials]
    BY DEF PageTyped, Share
  <2>2. subscribers \in SUBSET (Pages \ {publisher})
    BY DEF RoomTyped, Conversation, SessionsAreMembers
  <2>3. \A g \in Goroutines : \A i \in DOMAIN todo[g] : todo[g][i] \in Instruction
    BY DEF TodoTyped
  <2>4. \A p \in Pages : toServer[p] \in Seq(Message) /\ toPage[p] \in Seq(Message)
    BY DEF WireTyped
  <2>5. {disturbed, early, outdated, unsent, crossed, overlapped} \subseteq SUBSET Pages
    BY DEF HistoryTyped
  <2>6. QED
    BY <2>1, <2>2, <2>3, <2>4, <2>5 DEF TypeOK, PageTyped, RoomTyped, PeersTyped
<1>2. QED
  BY <1>1, InductiveInvariant, PTL

(* Every request_publish is answered (ServeWS in                           *)
(* pkg/signaling/handler.go), so that publishRequestPending of             *)
(* public/js/webrtc.js never blocks the button for good, unless send       *)
(* dropped the request because the page was not yet connected.             *)
THEOREM RequestsAreAnswered == Spec => []RequestIsAnswered
<1>1. Inductive => RequestIsAnswered
  <2> SUFFICES ASSUME Inductive, Quiet, NEW p \in Pages, requested[p], ws[p] = "open"
               PROVE  p \in unsent
    BY DEF RequestIsAnswered
  <2>1. toServer[p] = << >> /\ toPage[p] = << >>
    BY DEF Quiet
  <2>2. ~Has(toServer[p], {"request_publish"}) /\ ~Has(toPage[p], Answers)
    BY <2>1, HasNothing
  <2>3. QED
    BY <2>2 DEF Inductive, Conversation, RequestsAreUnderWay
<1>2. QED
  BY <1>1, InductiveInvariant, PTL

(* Once nothing is under way, currentRole of the page (public/js/webrtc.js)*)
(* is the role of its handler (ServeWS), however promotions, refusals and  *)
(* reloads crossed.                                                        *)
THEOREM RolesAlwaysAgree == Spec => []RolesAgree
<1>1. Inductive => RolesAgree
  <2> SUFFICES ASSUME Inductive, Quiet, NEW p \in Pages, ws[p] = "open", session[p] # "none"
               PROVE  role[p] = session[p]
    BY DEF RolesAgree
  <2>1. toPage[p] = << >>
    BY DEF Quiet
  <2>2. session[p] \in {"publisher", "subscriber"}
    BY DEF Inductive, Typed, RoomTyped, Conversation, SessionsAreMembers
  <2>3. ~Has(toPage[p], {"publish_ok"})
    BY <2>1, HasNothing
  <2>4. QED
    BY <2>2, <2>3 DEF Inductive, Conversation, RolesFollow
<1>2. QED
  BY <1>1, InductiveInvariant, PTL

(* A page that offers to share has stopped every capture it began          *)
(* (clearLocalMedia and startShare in public/js/webrtc.js), however its    *)
(* shares failed or were stopped, if no two of them overlapped.            *)
THEOREM CapturesAreReleased == Spec => []CaptureReleased
<1>1. Inductive => CaptureReleased
  BY DEF Inductive, SharesAreAlone, CaptureReleased, Quiet
<1>2. QED
  BY <1>1, InductiveInvariant, PTL

----------------------------------------------------------------------------
(* Of a sequence: one of its elements is in A; every one is; every element *)
(* in A is in B or has one in B behind it; none in A has one in B behind.  *)
Carries(q, A) == \E i \in DOMAIN q : q[i] \in A
Within(q, A) == \A i \in DOMAIN q : q[i] \in A
Followed(q, A, B) == \A i \in DOMAIN q : q[i] \in A => \E j \in DOMAIN q : j >= i /\ q[j] \in B
Never(q, A, B) == \A i \in DOMAIN q : \A j \in DOMAIN q : i < j /\ q[i] \in A => q[j] \notin B

LEMMA NothingIn ==
  ASSUME NEW A, NEW B
  PROVE  ~Carries(<< >>, A) /\ Within(<< >>, A) /\ Followed(<< >>, A, B) /\ Never(<< >>, A, B)
BY DEF Carries, Within, Followed, Never

LEMMA OneIn ==
  ASSUME NEW m, NEW A, NEW B
  PROVE  /\ Carries(<<m>>, A) <=> m \in A
         /\ Within(<<m>>, A) <=> m \in A
         /\ Followed(<<m>>, A, B) <=> (m \in A => m \in B)
         /\ Never(<<m>>, A, B)
BY DEF Carries, Within, Followed, Never

LEMMA Concatenation ==
  ASSUME NEW T, NEW q \in Seq(T), NEW r \in Seq(T), NEW A, NEW B
  PROVE  /\ Carries(q \o r, A) <=> Carries(q, A) \/ Carries(r, A)
         /\ Within(q \o r, A) <=> Within(q, A) /\ Within(r, A)
         /\ Followed(q, A, B) /\ Followed(r, A, B) => Followed(q \o r, A, B)
         /\ Never(q, A, B) /\ Never(r, A, B) /\ ~(Carries(q, A) /\ Carries(r, B)) => Never(q \o r, A, B)
         /\ Carries(r, B) => \/ Followed(q \o r, A, B)
                             \/ ~Followed(r, A, B)
<1> DEFINE c == q \o r
           n == Len(q)
<1>1. /\ DOMAIN c = 1..(n + Len(r)) /\ DOMAIN q = 1..n /\ DOMAIN r = 1..Len(r)
      /\ n \in Nat /\ Len(r) \in Nat
      /\ \A i \in 1..n : c[i] = q[i]
      /\ \A i \in 1..Len(r) : c[n + i] = r[i]
  OBVIOUS
<1> HIDE DEF c, n
<1>2. \A i \in DOMAIN q : i \in DOMAIN c /\ c[i] = q[i] /\ i \in Nat /\ i <= n
  BY <1>1
<1>3. \A i \in DOMAIN r : n + i \in DOMAIN c /\ c[n + i] = r[i] /\ i \in Nat /\ i > 0
  BY <1>1
<1>4. \A i \in DOMAIN c : \/ i \in DOMAIN q
                          \/ (i - n \in DOMAIN r /\ c[i] = r[i - n] /\ i - n \in Nat /\ i - n > 0 /\ i = n + (i - n))
  BY <1>1
<1>5. n \in Nat /\ DOMAIN c \subseteq Nat
  BY <1>1
<1>6. Carries(c, A) <=> Carries(q, A) \/ Carries(r, A)
  BY <1>2, <1>3, <1>4 DEF Carries
<1>7. Within(c, A) <=> Within(q, A) /\ Within(r, A)
  BY <1>2, <1>3, <1>4 DEF Within
<1>8. ASSUME Followed(r, A, B), Followed(q, A, B) \/ Carries(r, B)
      PROVE  Followed(c, A, B)
  <2> SUFFICES ASSUME NEW i \in DOMAIN c, c[i] \in A
               PROVE  \E j \in DOMAIN c : j >= i /\ c[j] \in B
    BY DEF Followed
  <2>1. CASE i \in DOMAIN q
    <3>1. q[i] \in A /\ i \in Nat /\ i <= n
      BY <1>2, <2>1
    <3>2. CASE Carries(r, B)
      <4>1. PICK j \in DOMAIN r : r[j] \in B
        BY <3>2 DEF Carries
      <4>2. n + j \in DOMAIN c /\ c[n + j] \in B /\ n + j >= i
        BY <1>3, <1>5, <3>1, <4>1
      <4>3. QED
        BY <4>2
    <3>3. CASE Followed(q, A, B)
      <4>1. PICK j \in DOMAIN q : j >= i /\ q[j] \in B
        BY <2>1, <3>1, <3>3 DEF Followed
      <4>2. QED
        BY <1>2, <4>1
    <3>4. QED
      BY <1>8, <3>2, <3>3
  <2>2. CASE i \notin DOMAIN q
    <3>1. i - n \in DOMAIN r /\ r[i - n] \in A /\ i - n \in Nat /\ i = n + (i - n)
      BY <1>4, <2>2
    <3>2. PICK j \in DOMAIN r : j >= i - n /\ r[j] \in B
      BY <1>8, <3>1 DEF Followed
    <3>3. n + j \in DOMAIN c /\ c[n + j] \in B /\ n + j >= i
      BY <1>3, <1>5, <3>1, <3>2
    <3>4. QED
      BY <3>3
  <2>3. QED
    BY <2>1, <2>2
<1>9. ASSUME Never(q, A, B), Never(r, A, B), ~(Carries(q, A) /\ Carries(r, B))
      PROVE  Never(c, A, B)
  <2> SUFFICES ASSUME NEW i \in DOMAIN c, NEW j \in DOMAIN c, i < j, c[i] \in A, c[j] \in B
               PROVE  FALSE
    BY DEF Never
  <2>1. CASE j \in DOMAIN q
    BY <1>1, <1>2, <1>9, <2>1 DEF Never
  <2>2. CASE j \notin DOMAIN q /\ i \in DOMAIN q
    BY <1>2, <1>4, <1>9, <2>2 DEF Carries
  <2>3. CASE i \notin DOMAIN q /\ j \notin DOMAIN q
    BY <1>4, <1>5, <1>9, <2>3 DEF Never
  <2>4. QED
    BY <2>1, <2>2, <2>3
<1>10. QED
  BY <1>6, <1>7, <1>8, <1>9 DEF c

(* SendJSON adds one message.                                              *)
LEMMA Addition ==
  ASSUME NEW T, NEW q \in Seq(T), NEW m \in T, NEW A, NEW B
  PROVE  /\ Carries(Append(q, m), A) <=> Carries(q, A) \/ m \in A
         /\ Within(Append(q, m), A) <=> Within(q, A) /\ m \in A
         /\ Followed(q, A, B) /\ m \notin A => Followed(Append(q, m), A, B)
         /\ m \in B => Followed(Append(q, m), A, B)
         /\ Never(q, A, B) /\ ~(Carries(q, A) /\ m \in B) => Never(Append(q, m), A, B)
<1>1. Append(q, m) = q \o <<m>> /\ <<m>> \in Seq(T)
  OBVIOUS
<1>2. /\ Carries(q \o <<m>>, A) <=> Carries(q, A) \/ Carries(<<m>>, A)
      /\ Within(q \o <<m>>, A) <=> Within(q, A) /\ Within(<<m>>, A)
      /\ Followed(q, A, B) /\ Followed(<<m>>, A, B) => Followed(q \o <<m>>, A, B)
      /\ Never(q, A, B) /\ Never(<<m>>, A, B) /\ ~(Carries(q, A) /\ Carries(<<m>>, B)) => Never(q \o <<m>>, A, B)
      /\ Carries(<<m>>, B) => Followed(q \o <<m>>, A, B) \/ ~Followed(<<m>>, A, B)
  BY <1>1, Concatenation, Zenon
<1>3. QED
  BY <1>1, <1>2, OneIn, Zenon

LEMMA Removal ==
  ASSUME NEW T, NEW q \in Seq(T), q # << >>, NEW A, NEW B
  PROVE  /\ Carries(q, A) <=> Head(q) \in A \/ Carries(Tail(q), A)
         /\ Within(q, A) <=> Head(q) \in A /\ Within(Tail(q), A)
         /\ Followed(q, A, B) => Followed(Tail(q), A, B)
         /\ Followed(q, A, B) /\ Head(q) \in A => Head(q) \in B \/ Carries(Tail(q), B)
         /\ Never(q, A, B) => Never(Tail(q), A, B)
         /\ Never(q, A, B) /\ Head(q) \in A => ~Carries(Tail(q), B)
<1> DEFINE r == Tail(q)
<1>1. /\ Len(q) \in Nat /\ DOMAIN q = 1..Len(q) /\ DOMAIN r = 1..(Len(q) - 1) /\ Len(q) > 0
      /\ \A i \in 1..(Len(q) - 1) : r[i] = q[i + 1]
      /\ Head(q) = q[1]
  OBVIOUS
<1> HIDE DEF r
<1>2. \A i \in DOMAIN r : i + 1 \in DOMAIN q /\ r[i] = q[i + 1] /\ i \in Nat /\ i > 0
  BY <1>1
<1>3. 1 \in DOMAIN q /\ DOMAIN q \subseteq Nat
  BY <1>1
<1>4. \A i \in DOMAIN q : i = 1 \/ (i - 1 \in DOMAIN r /\ r[i - 1] = q[i] /\ i > 1 /\ i \in Nat)
  BY <1>1
<1>5. Carries(q, A) <=> Head(q) \in A \/ Carries(r, A)
  BY <1>1, <1>2, <1>3, <1>4, Zenon DEF Carries
<1>6. Within(q, A) <=> Head(q) \in A /\ Within(r, A)
  BY <1>1, <1>2, <1>3, <1>4, Zenon DEF Within
<1>7. ASSUME Followed(q, A, B)
      PROVE  Followed(r, A, B) /\ (Head(q) \in A => Head(q) \in B \/ Carries(r, B))
  <2>1. ASSUME NEW i \in DOMAIN r, r[i] \in A
        PROVE  \E j \in DOMAIN r : j >= i /\ r[j] \in B
    <3>1. PICK j \in DOMAIN q : j >= i + 1 /\ q[j] \in B
      BY <1>2, <1>7, <2>1 DEF Followed
    <3>2. j - 1 \in DOMAIN r /\ r[j - 1] \in B /\ j - 1 >= i
      BY <1>2, <1>3, <1>4, <3>1
    <3>3. QED
      BY <3>2
  <2>2. ASSUME Head(q) \in A, Head(q) \notin B
        PROVE  Carries(r, B)
    <3>1. PICK j \in DOMAIN q : q[j] \in B
      BY <1>1, <1>3, <1>7, <2>2 DEF Followed
    <3>2. QED
      BY <1>1, <1>4, <2>2, <3>1 DEF Carries
  <2>3. QED
    BY <2>1, <2>2 DEF Followed
<1>8. ASSUME Never(q, A, B)
      PROVE  Never(r, A, B) /\ (Head(q) \in A => ~Carries(r, B))
  <2>1. Never(r, A, B)
    <3> SUFFICES ASSUME NEW i \in DOMAIN r, NEW j \in DOMAIN r, i < j, r[i] \in A
                 PROVE  r[j] \notin B
      BY DEF Never
    <3>1. i + 1 < j + 1 /\ q[i + 1] \in A
      BY <1>2
    <3>2. QED
      BY <1>2, <1>8, <3>1 DEF Never
  <2>2. ASSUME Head(q) \in A, NEW j \in DOMAIN r
        PROVE  r[j] \notin B
    BY <1>1, <1>2, <1>3, <1>8, <2>2 DEF Never
  <2>3. QED
    BY <2>1, <2>2 DEF Carries
<1>9. QED
  BY <1>5, <1>6, <1>7, <1>8 DEF r

LEMMA Widening ==
  ASSUME NEW q, NEW A, NEW B, A \subseteq B
  PROVE  (Carries(q, A) => Carries(q, B)) /\ (Within(q, A) => Within(q, B))
BY DEF Carries, Within

(* Of one set alone.                                                       *)
LEMMA CarriedByEither ==
  ASSUME NEW q \in Seq(Message), NEW r \in Seq(Message), NEW A
  PROVE  Carries(q \o r, A) <=> Carries(q, A) \/ Carries(r, A)
BY Concatenation

LEMMA CarriedBehind ==
  ASSUME NEW T, NEW q \in Seq(T), q # << >>, NEW A
  PROVE  Carries(q, A) <=> Head(q) \in A \/ Carries(Tail(q), A)
BY Removal

LEMMA CarriedAtEnd ==
  ASSUME NEW T, NEW q \in Seq(T), NEW m \in T, NEW A
  PROVE  Carries(Append(q, m), A) <=> Carries(q, A) \/ m \in A
BY Addition

----------------------------------------------------------------------------
(* What a step of one page or of its handler leaves alone *)

PageSame(q) ==
    /\ ws'[q] = ws[q] /\ role'[q] = role[q] /\ pc'[q] = pc[q] /\ made'[q] = made[q]
    /\ pending'[q] = pending[q] /\ shares'[q] = shares[q] /\ stream'[q] = stream[q]
    /\ canShare'[q] = canShare[q] /\ (q \in unsent' <=> q \in unsent)
    /\ (q \in crossed' <=> q \in crossed) /\ (q \in overlapped' <=> q \in overlapped)
WireSame(q) == toServer'[q] = toServer[q] /\ toPage'[q] = toPage[q]
ServerSame(q) ==
    /\ session'[q] = session[q] /\ peer'[q].n = peer[q].n /\ peer'[q].state = peer[q].state
    /\ peer'[q].remote = peer[q].remote /\ peer'[q].added = peer[q].added
    /\ gathered'[q] = gathered[q] /\ (q \in subscribers' <=> q \in subscribers)
    /\ (publisher' = q <=> publisher = q) /\ (q \in early' <=> q \in early)
    /\ (q \in disturbed' <=> q \in disturbed) /\ (q \in outdated' <=> q \in outdated)
OfferSame(q) == peer'[q].has = peer[q].has /\ due'[q] = due[q]
(* Its goroutines have at most a guest less to dismiss.                    *)
TodoSame(q) ==
    \A g \in {Session(q), Negotiation(q), Callback(q)} :
        \/ todo'[g] = todo[g]
        \/ todo[g] # << >> /\ Head(todo[g]).do # "tell" /\ todo'[g] = Tail(todo[g])

LEMMA PageUnchanged ==
  ASSUME UNCHANGED <<pageVars, pageHistory>>
  PROVE  \A q \in Pages : PageSame(q)
BY DEF PageSame, pageVars, pcVars, shareVars, pageHistory, shareHistory

LEMMA ServerUnchanged ==
  ASSUME UNCHANGED serverVars
  PROVE  /\ \A q \in Pages : ServerSame(q) /\ OfferSame(q) /\ TodoSame(q)
         /\ UNCHANGED <<session, publisher, subscribers, tracks, peer, due, gathered, todo,
                        disturbed, early, outdated>>
BY DEF ServerSame, OfferSame, TodoSame, serverVars, roomVars, peerVars, serverHistory, pcHistory

LEMMA WireUnchanged == UNCHANGED <<toServer, toPage>> => \A q \in Pages : WireSame(q)
BY DEF WireSame

LEMMA NullFields ==
  Null.n = 0 /\ Null.state = "stable" /\ Null.asked = 0 /\ Null.remote = 0 /\ Null.added = {} /\ Null.has = {}
BY DEF Null, New

Others(p) == Pages \ {p}
PageActs(p) == UNCHANGED serverVars /\ \A q \in Others(p) : PageSame(q) /\ WireSame(q)

LEMMA OpenDoes ==
  ASSUME Typed, NEW p \in Pages, OnOpen(p)
  PROVE  /\ PageActs(p) /\ ws[p] = "connecting" /\ ws'[p] = "open"
         /\ toServer'[p] = <<Msg("join")>>
         /\ UNCHANGED <<role, pc, made, pending, shares, stream, canShare, toPage, unsent, crossed, overlapped>>
BY DEF OnOpen, pcVars, shareVars, pageHistory, shareHistory, Typed, PageTyped, WireTyped, PageActs,
    PageSame, WireSame, Others

LEMMA CloseDoes ==
  ASSUME Typed, NEW p \in Pages, OnClose(p)
  PROVE  /\ PageActs(p) /\ ws[p] = "open" /\ ws'[p] = "closed" /\ toServer'[p] = << >> /\ toPage'[p] = << >>
         /\ UNCHANGED <<role, pc, made, pending, shares, stream, canShare, unsent, crossed, overlapped>>
BY DEF OnClose, pcVars, shareVars, pageHistory, shareHistory, Typed, PageTyped, WireTyped, PageActs,
    PageSame, WireSame, Others

(* The page takes the first message.                                       *)
LEMMA HearDoes ==
  ASSUME Typed, NEW p \in Pages, NEW a, OnMessage(p, a)
  PROVE  /\ ws[p] = "open" /\ toPage[p] # << >> /\ Head(toPage[p]) \in Message /\ Head(toPage[p]).action = a
         /\ toPage'[p] = Tail(toPage[p]) /\ UNCHANGED <<serverVars, unsent>>
         /\ \A q \in Others(p) : toPage'[q] = toPage[q]
BY DEF OnMessage, Arrived, Typed, WireTyped, Others

(* The page sends, if it is connected.                                     *)
LEMMA SendDoes ==
  ASSUME Typed, NEW p \in Pages, NEW ms, Send(p, ms)
  PROVE  /\ \A q \in Others(p) : toServer'[q] = toServer[q] /\ (q \in unsent' <=> q \in unsent)
         /\ ws[p] = "open" => toServer'[p] = toServer[p] \o ms /\ UNCHANGED unsent
         /\ ws[p] # "open" => UNCHANGED toServer /\ p \in unsent'
BY DEF Typed, WireTyped, HistoryTyped, Send, Others

LEMMA ClearDoes ==
  ASSUME Typed, NEW p \in Pages, ClearPC(p)
  PROVE  /\ pc'[p] = Null /\ pending'[p] = {}
         /\ \A q \in Others(p) : pc'[q] = pc[q] /\ pending'[q] = pending[q]
BY DEF Typed, PageTyped, ClearPC, Others

LEMMA ClearMediaDoes ==
  ASSUME Typed, NEW p \in Pages, ClearLocalMedia(p)
  PROVE  /\ pc'[p] = Null /\ pending'[p] = {} /\ stream'[p] = 0
         /\ \A q \in Others(p) : pc'[q] = pc[q] /\ pending'[q] = pending[q] /\ stream'[q] = stream[q]
BY ClearDoes DEF ClearLocalMedia, Typed, PageTyped, Others

LEMMA MakeDoes ==
  ASSUME Typed, NEW p \in Pages, NEW s \in SignalingStates, NEW m \in Message, MakePC(p, s, m)
  PROVE  /\ made'[p] = made[p] + 1 /\ pc'[p].n = made[p] + 1 /\ made[p] + 1 \in Serials
         /\ pc'[p].state = s /\ pc'[p].asked = m.n /\ pc'[p].remote = 0 /\ pc'[p].has = m.has
         /\ \A q \in Others(p) : pc'[q] = pc[q] /\ made'[q] = made[q]
<1> DEFINE k == made[p] + 1
           new == [New(k) EXCEPT !.state = s, !.asked = m.n, !.has = m.has]
<1>1. made[p] \in Serials /\ made[p] < MaxPCs
  BY DEF Typed, PageTyped, MakePC
<1>2. made' = [made EXCEPT ![p] = k] /\ made'[p] = k /\ k \in Serials
  BY <1>1, Numbers DEF MakePC, Typed, PageTyped
<1> HIDE DEF k
<1>3. pc' = [pc EXCEPT ![p] = new]
  BY <1>2, Zenon DEF MakePC
<1>4. new.n = k /\ new.state = s /\ new.asked = m.n /\ new.remote = 0 /\ new.has = m.has
  BY DEF New
<1> HIDE DEF new
<1>5. QED
  BY <1>2, <1>3, <1>4 DEF Typed, PageTyped, Others, k

LEMMA ApplyDoes ==
  ASSUME Typed, NEW p \in Pages, Apply(p)
  PROVE  /\ pc'[p].n = pc[p].n /\ pc'[p].state = "stable" /\ pc'[p].asked = 0 /\ pc'[p].has = pc[p].has
         /\ pc'[p].remote = pc[p].asked /\ pc'[p].added = pc[p].added \cup pending[p] /\ pending'[p] = {}
         /\ \A q \in Others(p) : pc'[q] = pc[q] /\ pending'[q] = pending[q]
<1> DEFINE new == [pc[p] EXCEPT !.state = "stable", !.asked = 0, !.remote = pc[p].asked,
                               !.added = pc[p].added \cup pending[p]]
<1>1. pc[p] \in PC
  BY DEF Typed, PageTyped
<1>2. /\ new.n = pc[p].n /\ new.state = "stable" /\ new.asked = 0 /\ new.has = pc[p].has
      /\ new.remote = pc[p].asked /\ new.added = pc[p].added \cup pending[p]
  BY <1>1 DEF PC
<1>3. pc' = [pc EXCEPT ![p] = new] /\ pending' = [pending EXCEPT ![p] = {}]
  BY <1>1, Zenon DEF Typed, PageTyped, Apply
<1> HIDE DEF new
<1>4. QED
  BY <1>2, <1>3 DEF Typed, PageTyped, Others

(* What a page offers to share once more.                                  *)
LEMMA StartDoes ==
  ASSUME Typed, NEW p \in Pages, StartShare(p)
  PROVE  /\ pc'[p] = Null /\ pending'[p] = {} /\ UNCHANGED <<stream, canShare, made, crossed>>
         /\ shares'[p] = shares[p] \cup {[k |-> clicks', n |-> 0]}
         /\ p \in overlapped' <=> (shares[p] # {} \/ stream[p] # 0 \/ (captured[p] # {} /\ p \in overlapped))
         /\ \A q \in Others(p) : /\ pc'[q] = pc[q] /\ pending'[q] = pending[q] /\ shares'[q] = shares[q]
                                 /\ (q \in overlapped' <=> q \in overlapped)
<1> DEFINE s0 == [k |-> clicks', n |-> 0]
<1>1. /\ ClearPC(p) /\ UNCHANGED <<stream, canShare, made, crossed>>
      /\ shares' = [shares EXCEPT ![p] = shares[p] \cup {s0}]
      /\ overlapped' = IF shares[p] # {} \/ stream[p] # 0 THEN overlapped \cup {p}
                       ELSE IF captured[p] = {} THEN overlapped \ {p} ELSE overlapped
  BY DEF StartShare
<1> HIDE DEF s0
<1>2. shares'[p] = shares[p] \cup {s0} /\ \A q \in Others(p) : shares'[q] = shares[q]
  BY <1>1 DEF Typed, PageTyped, Others
<1>3. /\ pc'[p] = Null /\ pending'[p] = {}
      /\ \A q \in Others(p) : pc'[q] = pc[q] /\ pending'[q] = pending[q]
  BY <1>1, ClearDoes
<1>4. /\ p \in overlapped' <=> (shares[p] # {} \/ stream[p] # 0 \/ (captured[p] # {} /\ p \in overlapped))
      /\ \A q \in Others(p) : (q \in overlapped' <=> q \in overlapped)
  BY <1>1 DEF Others
<1>5. QED
  BY <1>1, <1>2, <1>3, <1>4, Zenon DEF s0

LEMMA RequestShareDoes ==
  ASSUME Typed, NEW p \in Pages, RequestShare(p)
  PROVE  /\ PageActs(p) /\ canShare[p] /\ UNCHANGED <<ws, role, toPage, made, stream, canShare, crossed>>
         /\ \/ /\ role[p] = "publisher" /\ StartShare(p) /\ UNCHANGED <<toServer, unsent>>
            \/ /\ role[p] = "subscriber" /\ Send(p, <<Msg("request_publish")>>)
               /\ UNCHANGED <<pc, pending, shares, overlapped>>
<1>1. /\ UNCHANGED <<ws, role, toPage, serverVars>> /\ canShare[p]
      /\ \/ /\ role[p] = "publisher" /\ StartShare(p) /\ UNCHANGED <<toServer, unsent>>
         \/ /\ role[p] = "subscriber" /\ Send(p, <<Msg("request_publish")>>)
            /\ UNCHANGED <<pcVars, shareVars, shareHistory>>
  BY DEF RequestShare
<1>2. CASE role[p] = "publisher" /\ StartShare(p) /\ UNCHANGED <<toServer, unsent>>
  BY <1>1, <1>2, StartDoes DEF StartShare, PageActs, PageSame, WireSame
<1>3. CASE role[p] = "subscriber" /\ Send(p, <<Msg("request_publish")>>) /\ UNCHANGED <<pcVars, shareVars, shareHistory>>
  BY <1>1, <1>3, SendDoes DEF pcVars, shareVars, shareHistory, PageActs, PageSame, WireSame
<1>4. QED
  BY <1>1, <1>2, <1>3

LEMMA CapturedDoes ==
  ASSUME Typed, NEW p \in Pages, Captured(p)
  PROVE  /\ PageActs(p)
         /\ UNCHANGED <<ws, role, pending, canShare, toServer, toPage, unsent, crossed, overlapped>>
         /\ \E s \in shares[p] :
               /\ s.n = 0 /\ stream'[p] = s.k /\ stream'[p] # 0
               /\ shares'[p] = (shares[p] \ {s}) \cup {[s EXCEPT !.n = pc'[p].n]}
               /\ [s EXCEPT !.n = pc'[p].n].n = pc'[p].n
         /\ \/ /\ pc[p] = Null
               /\ made'[p] = made[p] + 1 /\ pc'[p].n = made[p] + 1 /\ made[p] + 1 \in Serials
               /\ pc'[p].state = "stable" /\ pc'[p].asked = 0 /\ pc'[p].remote = 0 /\ pc'[p].has = {}
            \/ /\ pc[p] # Null /\ UNCHANGED <<pc, made>>
<1>1. PICK s \in shares[p] :
        /\ s.n = 0
        /\ stream' = [stream EXCEPT ![p] = s.k]
        /\ IF pc[p] = Null THEN MakePC(p, "stable", Msg("offer")) ELSE UNCHANGED <<pc, made>>
        /\ shares' = [shares EXCEPT ![p] = (shares[p] \ {s}) \cup {[s EXCEPT !.n = pc'[p].n]}]
        /\ UNCHANGED <<ws, role, requested, pending, canShare, clicks, toServer, toPage,
                       serverVars, pageHistory>>
  BY Zenon DEF Captured
<1> DEFINE t == [s EXCEPT !.n = pc'[p].n]
<1>2. s \in Share /\ s.k # 0 /\ t.n = pc'[p].n
  BY Numbers DEF Typed, PageTyped, Share
<1> HIDE DEF t
<1>3. shares' = [shares EXCEPT ![p] = (shares[p] \ {s}) \cup {t}]
  BY <1>1 DEF t
<1>4. /\ shares'[p] = (shares[p] \ {s}) \cup {t} /\ stream'[p] = s.k
      /\ \A q \in Others(p) : shares'[q] = shares[q] /\ stream'[q] = stream[q]
  BY <1>1, <1>3 DEF Typed, PageTyped, Others
<1>5. UNCHANGED <<unsent, crossed, overlapped>>
  BY <1>1 DEF pageHistory, shareHistory
<1>6. CASE pc[p] = Null
  <2>1. Msg("offer") \in Message /\ Msg("offer").n = 0 /\ Msg("offer").has = {}
    BY MessagesAre, Zenon DEF Actions
  <2>2. "stable" \in SignalingStates /\ MakePC(p, "stable", Msg("offer"))
    BY <1>1, <1>6 DEF SignalingStates
  <2>3. /\ made'[p] = made[p] + 1 /\ pc'[p].n = made[p] + 1 /\ made[p] + 1 \in Serials
        /\ pc'[p].state = "stable" /\ pc'[p].asked = 0 /\ pc'[p].remote = 0 /\ pc'[p].has = {}
        /\ \A q \in Others(p) : pc'[q] = pc[q] /\ made'[q] = made[q]
    BY <2>1, <2>2, MakeDoes
  <2>4. PageActs(p)
    BY <1>1, <1>4, <1>5, <2>3, Zenon DEF PageActs, PageSame, WireSame
  <2>5. QED
    BY <1>1, <1>2, <1>4, <1>5, <1>6, <2>3, <2>4 DEF t
<1>7. CASE pc[p] # Null
  BY <1>1, <1>2, <1>4, <1>5, <1>7 DEF PageActs, PageSame, WireSame, t
<1>8. QED
  BY <1>6, <1>7

LEMMA OfferedDoes ==
  ASSUME Typed, NEW p \in Pages, Offered(p)
  PROVE  /\ PageActs(p) /\ UNCHANGED <<ws, role, pending, made, stream, toPage, crossed, overlapped>>
         /\ pc'[p].n = pc[p].n /\ pc'[p].state = "offered" /\ pc'[p].asked = pc[p].asked
         /\ pc'[p].remote = pc[p].remote /\ pc'[p].added = pc[p].added /\ pc'[p].has = pc[p].has
         /\ pc[p].state \in {"stable", "offered"} /\ pc[p].n # 0 /\ ~canShare'[p]
         /\ Send(p, <<Offer(pc[p].n, {})>> \o Candidates(p, pc[p].n))
         /\ \E s \in shares[p] : s.n = pc[p].n /\ shares'[p] = shares[p] \ {s}
<1>1. PICK s \in shares[p] :
        /\ s.n # 0 /\ s.n = pc[p].n /\ pc[p].state \in {"stable", "offered"}
        /\ pc' = [pc EXCEPT ![p].state = "offered"]
        /\ shares' = [shares EXCEPT ![p] = shares[p] \ {s}]
        /\ canShare' = [canShare EXCEPT ![p] = FALSE]
        /\ Send(p, <<Offer(s.n, {})>> \o Candidates(p, s.n))
        /\ UNCHANGED <<ws, role, requested, pending, made, stream, captured, clicks, toPage,
                       serverVars, shareHistory>>
  BY Zenon DEF Offered
<1>2. pc[p] \in PC /\ pc' = [pc EXCEPT ![p] = [pc[p] EXCEPT !.state = "offered"]]
  BY <1>1 DEF Typed, PageTyped
<1> DEFINE new == [pc[p] EXCEPT !.state = "offered"]
<1>3. /\ new.n = pc[p].n /\ new.state = "offered" /\ new.asked = pc[p].asked
      /\ new.remote = pc[p].remote /\ new.added = pc[p].added /\ new.has = pc[p].has
  BY <1>2 DEF PC
<1> HIDE DEF new
<1>4. pc'[p] = new /\ \A q \in Others(p) : pc'[q] = pc[q]
  BY <1>2 DEF Typed, PageTyped, Others, new
<1>5. /\ shares'[p] = shares[p] \ {s} /\ ~canShare'[p]
      /\ \A q \in Others(p) : shares'[q] = shares[q] /\ canShare'[q] = canShare[q]
  BY <1>1 DEF Typed, PageTyped, Others
<1>6. UNCHANGED <<crossed, overlapped>>
  BY <1>1 DEF shareHistory
<1>7. PageActs(p)
  BY <1>1, <1>4, <1>5, <1>6, SendDoes, Zenon DEF PageActs, PageSame, WireSame
<1>8. Send(p, <<Offer(pc[p].n, {})>> \o Candidates(p, pc[p].n))
  BY <1>1
<1>9. QED
  BY <1>1, <1>3, <1>4, <1>5, <1>6, <1>7, <1>8

LEMMA ShareFailsDoes ==
  ASSUME Typed, NEW p \in Pages, ShareFails(p)
  PROVE  /\ PageActs(p) /\ UNCHANGED <<ws, role, made, toServer, toPage, unsent, crossed, overlapped>>
         /\ pc'[p] = Null /\ pending'[p] = {} /\ stream'[p] = 0 /\ canShare'[p]
         /\ \E s \in shares[p] : /\ s.n = 0 \/ Abandoned(p, s) \/ pc[p].state = "answering"
                                 /\ shares'[p] = shares[p] \ {s}
<1>1. PICK s \in shares[p] :
        /\ s.n = 0 \/ Abandoned(p, s) \/ pc[p].state = "answering"
        /\ shares' = [shares EXCEPT ![p] = shares[p] \ {s}]
        /\ ClearLocalMedia(p)
        /\ canShare' = [canShare EXCEPT ![p] = TRUE]
        /\ UNCHANGED <<ws, role, requested, made, clicks, toServer, toPage, serverVars,
                       pageHistory>>
  BY Zenon DEF ShareFails
<1>2. /\ pc'[p] = Null /\ pending'[p] = {} /\ stream'[p] = 0
      /\ \A q \in Others(p) : pc'[q] = pc[q] /\ pending'[q] = pending[q] /\ stream'[q] = stream[q]
  BY <1>1, ClearMediaDoes
<1>3. /\ shares'[p] = shares[p] \ {s} /\ canShare'[p]
      /\ \A q \in Others(p) : shares'[q] = shares[q] /\ canShare'[q] = canShare[q]
  BY <1>1 DEF Typed, PageTyped, Others
<1>4. UNCHANGED <<unsent, crossed, overlapped>>
  BY <1>1 DEF pageHistory, shareHistory
<1>5. PageActs(p)
  BY <1>1, <1>2, <1>3, <1>4, Zenon DEF PageActs, PageSame, WireSame
<1>6. QED
  BY <1>1, <1>2, <1>3, <1>4, <1>5

LEMMA ShareHangsDoes ==
  ASSUME Typed, NEW p \in Pages, ShareHangs(p)
  PROVE  /\ PageActs(p) /\ p \in overlapped'
         /\ UNCHANGED <<ws, role, pc, pending, made, stream, canShare, toServer, toPage, unsent, crossed>>
         /\ \E s \in shares[p] : Abandoned(p, s) /\ shares'[p] = shares[p] \ {s}
<1>1. PICK s \in shares[p] :
        /\ Abandoned(p, s)
        /\ shares' = [shares EXCEPT ![p] = shares[p] \ {s}]
        /\ overlapped' = overlapped \cup {p}
        /\ UNCHANGED <<ws, role, requested, pcVars, stream, captured, canShare, clicks,
                       toServer, toPage, serverVars, unsent, crossed>>
  BY Zenon DEF ShareHangs
<1>2. UNCHANGED <<pc, made, pending>>
  BY <1>1 DEF pcVars
<1>3. /\ shares'[p] = shares[p] \ {s} /\ \A q \in Others(p) : shares'[q] = shares[q]
  BY <1>1 DEF Typed, PageTyped, Others
<1>4. \A q \in Others(p) : (q \in overlapped' <=> q \in overlapped)
  BY <1>1 DEF Others
<1>5. PageActs(p)
  BY <1>1, <1>2, <1>3, <1>4 DEF PageActs, PageSame, WireSame
<1>6. QED
  BY <1>1, <1>2, <1>3, <1>5

LEMMA StopShareDoes ==
  ASSUME Typed, NEW p \in Pages, StopShare(p)
  PROVE  /\ PageActs(p) /\ UNCHANGED <<ws, role, made, shares, toPage, crossed, overlapped>>
         /\ ~canShare[p] \/ stream[p] # 0
         /\ pc'[p] = Null /\ pending'[p] = {} /\ stream'[p] = 0 /\ canShare'[p]
         /\ Send(p, <<Msg("stop")>>)
BY ClearMediaDoes, SendDoes DEF StopShare, Typed, PageTyped, Others, shareHistory, PageActs,
    PageSame, WireSame

LEMMA HandleOfferDoes ==
  ASSUME Typed, NEW p \in Pages, HandleOffer(p)
  PROVE  /\ PageActs(p) /\ OnMessage(p, "offer")
         /\ UNCHANGED <<ws, role, shares, stream, canShare, toServer, unsent, crossed, overlapped>>
         /\ made'[p] = made[p] + 1 /\ pc'[p].n = made[p] + 1 /\ made[p] + 1 \in Serials
         /\ pc'[p].state = "answering" /\ pc'[p].asked = Head(toPage[p]).n /\ pc'[p].remote = 0
         /\ pc'[p].has = Head(toPage[p]).has /\ pending'[p] = {}
<1> DEFINE m == Head(toPage[p])
<1>1. /\ OnMessage(p, "offer") /\ MakePC(p, "answering", m)
      /\ pending' = [pending EXCEPT ![p] = {}]
      /\ UNCHANGED <<ws, role, requested, shareVars, toServer, shareHistory>>
  BY DEF HandleOffer
<1>2. m \in Message
  BY <1>1, HearDoes
<1> HIDE DEF m
<1>3. /\ made'[p] = made[p] + 1 /\ pc'[p].n = made[p] + 1 /\ made[p] + 1 \in Serials
      /\ pc'[p].state = "answering" /\ pc'[p].asked = m.n /\ pc'[p].remote = 0 /\ pc'[p].has = m.has
      /\ \A q \in Others(p) : pc'[q] = pc[q] /\ made'[q] = made[q]
  BY <1>1, <1>2, MakeDoes DEF SignalingStates
<1>4. pending'[p] = {} /\ \A q \in Others(p) : pending'[q] = pending[q]
  BY <1>1 DEF Typed, PageTyped, Others
<1>5. UNCHANGED <<shares, stream, canShare, crossed, overlapped>>
  BY <1>1 DEF shareVars, shareHistory
<1>6. UNCHANGED <<serverVars, unsent>> /\ \A q \in Others(p) : toPage'[q] = toPage[q]
  BY <1>1, HearDoes
<1>7. PageActs(p)
  BY <1>1, <1>3, <1>4, <1>5, <1>6 DEF PageActs, PageSame, WireSame
<1>8. QED
  BY <1>1, <1>3, <1>4, <1>5, <1>6, <1>7 DEF m

LEMMA AnswerDoes ==
  ASSUME Typed, NEW p \in Pages, Answer(p)
  PROVE  /\ PageActs(p) /\ pc[p].state = "answering"
         /\ UNCHANGED <<ws, role, made, shares, stream, canShare, toPage, crossed, overlapped>>
         /\ pc'[p].n = pc[p].n /\ pc'[p].state = "stable" /\ pc'[p].asked = 0 /\ pc'[p].has = pc[p].has
         /\ pc'[p].remote = pc[p].asked /\ pc'[p].added = pc[p].added \cup pending[p] /\ pending'[p] = {}
         /\ Send(p, <<AnswerTo(pc[p].n, pc[p].asked)>> \o Candidates(p, pc[p].n))
BY SendDoes, ApplyDoes DEF Answer, shareVars, shareHistory, PageActs, PageSame, WireSame

LEMMA HandleAnswerDoes ==
  ASSUME Typed, NEW p \in Pages, HandleAnswer(p)
  PROVE  /\ PageActs(p) /\ OnMessage(p, "answer")
         /\ UNCHANGED <<ws, role, made, pending, shares, stream, canShare, toServer, unsent, overlapped>>
         /\ \/ pc[p].state # "offered" /\ UNCHANGED <<pc, crossed>>
            \/ /\ pc[p].state = "offered" /\ pc'[p].state = "applying" /\ pc'[p].asked = Head(toPage[p]).n
               /\ pc'[p].n = pc[p].n /\ pc'[p].remote = pc[p].remote
               /\ pc'[p].added = pc[p].added /\ pc'[p].has = pc[p].has
               /\ p \in crossed' <=> Head(toPage[p]).re # pc[p].n
<1> DEFINE m == Head(toPage[p])
<1>1. /\ OnMessage(p, "answer")
      /\ \/ pc[p].state # "offered" /\ UNCHANGED <<pc, crossed>>
         \/ /\ pc[p].state = "offered"
            /\ pc' = [pc EXCEPT ![p].state = "applying", ![p].asked = m.n]
            /\ crossed' = IF m.re = pc[p].n THEN crossed \ {p} ELSE crossed \cup {p}
      /\ UNCHANGED <<ws, role, requested, made, pending, shareVars, toServer, overlapped>>
  BY DEF HandleAnswer
<1>2. UNCHANGED <<shares, stream, canShare>>
  BY <1>1 DEF shareVars
<1>3. UNCHANGED <<serverVars, unsent>> /\ \A q \in Others(p) : toPage'[q] = toPage[q]
  BY <1>1, HearDoes
<1>4. CASE pc[p].state # "offered" /\ UNCHANGED <<pc, crossed>>
  BY <1>1, <1>2, <1>3, <1>4 DEF PageActs, PageSame, WireSame
<1>5. CASE /\ pc[p].state = "offered"
           /\ pc' = [pc EXCEPT ![p].state = "applying", ![p].asked = m.n]
           /\ crossed' = IF m.re = pc[p].n THEN crossed \ {p} ELSE crossed \cup {p}
  <2> HIDE DEF m
  <2>1. pc[p] \in PC /\ pc' = [pc EXCEPT ![p] = [pc[p] EXCEPT !.state = "applying", !.asked = m.n]]
    BY <1>5, Zenon DEF Typed, PageTyped
  <2> DEFINE new == [pc[p] EXCEPT !.state = "applying", !.asked = m.n]
  <2>2. /\ new.n = pc[p].n /\ new.state = "applying" /\ new.asked = m.n
        /\ new.remote = pc[p].remote /\ new.added = pc[p].added /\ new.has = pc[p].has
    BY <2>1 DEF PC
  <2> HIDE DEF new
  <2>3. pc'[p] = new /\ \A q \in Others(p) : pc'[q] = pc[q]
    BY <2>1 DEF Typed, PageTyped, Others, new
  <2>4. (p \in crossed' <=> m.re # pc[p].n) /\ \A q \in Others(p) : (q \in crossed' <=> q \in crossed)
    BY <1>5 DEF Others
  <2>5. PageActs(p)
    BY <1>1, <1>2, <1>3, <2>3, <2>4 DEF PageActs, PageSame, WireSame
  <2>6. QED
    BY <1>1, <1>2, <1>3, <1>5, <2>2, <2>3, <2>4, <2>5 DEF m
<1>6. QED
  BY <1>1, <1>4, <1>5

LEMMA ApplyAnswerDoes ==
  ASSUME Typed, NEW p \in Pages, ApplyAnswer(p)
  PROVE  /\ PageActs(p) /\ pc[p].state = "applying"
         /\ UNCHANGED <<ws, role, made, shares, stream, canShare, toServer, toPage, unsent, crossed, overlapped>>
         /\ pc'[p].n = pc[p].n /\ pc'[p].state = "stable" /\ pc'[p].asked = 0 /\ pc'[p].has = pc[p].has
         /\ pc'[p].remote = pc[p].asked /\ pc'[p].added = pc[p].added \cup pending[p] /\ pending'[p] = {}
BY ApplyDoes DEF ApplyAnswer, shareVars, shareHistory, pageHistory, PageActs, PageSame, WireSame

LEMMA HandleCandidateDoes ==
  ASSUME Typed, NEW p \in Pages, HandleCandidate(p)
  PROVE  /\ PageActs(p) /\ OnMessage(p, "candidate")
         /\ UNCHANGED <<ws, role, made, shares, stream, canShare, toServer, unsent, crossed, overlapped>>
         /\ pc'[p].n = pc[p].n /\ pc'[p].state = pc[p].state /\ pc'[p].asked = pc[p].asked
         /\ pc'[p].remote = pc[p].remote /\ pc'[p].has = pc[p].has
         /\ pc[p].remote = 0 => UNCHANGED pc /\ pending'[p] = pending[p] \cup {Head(toPage[p]).n}
         /\ pc[p].remote # 0 => UNCHANGED pending /\ pc'[p].added = pc[p].added \cup {Head(toPage[p]).n}
<1> DEFINE n == Head(toPage[p]).n
<1>1. /\ OnMessage(p, "candidate")
      /\ \/ /\ pc[p].remote = 0 /\ pending' = [pending EXCEPT ![p] = pending[p] \cup {n}] /\ UNCHANGED pc
         \/ /\ pc[p].remote # 0 /\ pc' = [pc EXCEPT ![p].added = pc[p].added \cup {n}] /\ UNCHANGED pending
      /\ UNCHANGED <<ws, role, requested, made, shareVars, toServer, shareHistory>>
  BY DEF Typed, PageTyped, HandleCandidate
<1> HIDE DEF n
<1>2. UNCHANGED <<shares, stream, canShare, crossed, overlapped>>
  BY <1>1 DEF shareVars, shareHistory
<1>3. UNCHANGED <<serverVars, unsent>> /\ \A q \in Others(p) : toPage'[q] = toPage[q]
  BY <1>1, HearDoes
<1>4. CASE pc[p].remote = 0 /\ pending' = [pending EXCEPT ![p] = pending[p] \cup {n}] /\ UNCHANGED pc
  BY <1>1, <1>2, <1>3, <1>4 DEF Typed, PageTyped, Others, PageActs, PageSame, WireSame, n
<1>5. CASE pc[p].remote # 0 /\ pc' = [pc EXCEPT ![p].added = pc[p].added \cup {n}] /\ UNCHANGED pending
  <2> DEFINE new == [pc[p] EXCEPT !.added = pc[p].added \cup {n}]
  <2>1. pc[p] \in PC /\ pc' = [pc EXCEPT ![p] = new]
    BY <1>5 DEF Typed, PageTyped
  <2>2. /\ new.n = pc[p].n /\ new.state = pc[p].state /\ new.asked = pc[p].asked
        /\ new.remote = pc[p].remote /\ new.has = pc[p].has /\ new.added = pc[p].added \cup {n}
    BY <2>1 DEF PC
  <2> HIDE DEF new
  <2>3. pc'[p] = new /\ \A q \in Others(p) : pc'[q] = pc[q]
    BY <2>1 DEF Typed, PageTyped, Others
  <2>4. PageActs(p)
    BY <1>1, <1>2, <1>3, <1>5, <2>3 DEF PageActs, PageSame, WireSame
  <2>5. QED
    BY <1>1, <1>2, <1>3, <1>5, <2>2, <2>3, <2>4 DEF n
<1>6. QED
  BY <1>1, <1>4, <1>5

LEMMA EndedDoes ==
  ASSUME Typed, NEW p \in Pages, OnEnded(p)
  PROVE  /\ PageActs(p) /\ OnMessage(p, "ended") /\ pc'[p] = Null /\ pending'[p] = {}
         /\ UNCHANGED <<ws, role, made, shares, stream, canShare, toServer, unsent, crossed, overlapped>>
BY HearDoes, ClearDoes DEF OnEnded, shareVars, shareHistory, PageActs, PageSame, WireSame

LEMMA RefusedDoes ==
  ASSUME Typed, NEW p \in Pages, OnRefused(p)
  PROVE  /\ PageActs(p) /\ (OnMessage(p, "live_active") \/ OnMessage(p, "error"))
         /\ UNCHANGED <<ws, role, pc, made, pending, shares, stream, canShare, toServer, unsent, crossed, overlapped>>
<1>1. PICK a \in {"live_active", "error"} : OnMessage(p, a)
  BY DEF OnRefused
<1>2. UNCHANGED <<ws, role, pcVars, shareVars, toServer, shareHistory>>
  BY DEF OnRefused
<1>3. UNCHANGED <<pc, made, pending, shares, stream, canShare, crossed, overlapped>>
  BY <1>2 DEF pcVars, shareVars, shareHistory
<1>4. UNCHANGED <<serverVars, unsent>> /\ \A q \in Others(p) : toPage'[q] = toPage[q]
  BY <1>1, HearDoes
<1>5. PageActs(p)
  BY <1>2, <1>3, <1>4 DEF PageActs, PageSame, WireSame
<1>6. QED
  BY <1>1, <1>2, <1>3, <1>4, <1>5

LEMMA PublishOkDoes ==
  ASSUME Typed, NEW p \in Pages, OnPublishOk(p)
  PROVE  /\ PageActs(p) /\ OnMessage(p, "publish_ok") /\ StartShare(p) /\ role'[p] = "publisher"
         /\ UNCHANGED <<ws, toServer, unsent, made, stream, canShare, crossed>>
<1>1. /\ OnMessage(p, "publish_ok") /\ role' = [role EXCEPT ![p] = "publisher"]
      /\ StartShare(p) /\ UNCHANGED <<ws, toServer>>
  BY DEF OnPublishOk
<1>2. role'[p] = "publisher" /\ \A q \in Others(p) : role'[q] = role[q]
  BY <1>1 DEF Typed, PageTyped, Others
<1>3. UNCHANGED <<serverVars, unsent>> /\ \A q \in Others(p) : toPage'[q] = toPage[q]
  BY <1>1, HearDoes
<1>4. UNCHANGED <<made, stream, canShare, crossed>>
  BY <1>1 DEF StartShare
<1>5. PageActs(p)
  BY <1>1, <1>2, <1>3, <1>4, StartDoes DEF PageActs, PageSame, WireSame
<1>6. QED
  BY <1>1, <1>2, <1>3, <1>4, <1>5

LEMMA TakenDoes ==
  ASSUME Typed, NEW p \in Pages, OnTaken(p)
  PROVE  /\ PageActs(p) /\ Has(toPage[p], {Taken})
         /\ ws'[p] = "connecting" /\ role'[p] = "subscriber" /\ pc'[p] = Null /\ pending'[p] = {}
         /\ shares'[p] = {} /\ stream'[p] = 0 /\ canShare'[p] /\ toServer'[p] = << >> /\ toPage'[p] = << >>
         /\ UNCHANGED <<made, unsent, crossed>> /\ p \notin overlapped'
<1>1. /\ Arrived(p, Taken) /\ toPage' = [toPage EXCEPT ![p] = << >>]
      /\ ws' = [ws EXCEPT ![p] = "connecting"] /\ role' = [role EXCEPT ![p] = "subscriber"]
      /\ ClearPC(p)
      /\ shares' = [shares EXCEPT ![p] = {}] /\ stream' = [stream EXCEPT ![p] = 0]
      /\ canShare' = [canShare EXCEPT ![p] = TRUE]
      /\ toServer' = [toServer EXCEPT ![p] = << >>] /\ overlapped' = overlapped \ {p}
      /\ UNCHANGED <<made, crossed, unsent, serverVars>>
  BY Zenon DEF OnTaken, Taken
<1>2. Has(toPage[p], {Taken})
  BY <1>1 DEF Arrived, Typed, WireTyped, Has
<1>3. /\ ws'[p] = "connecting" /\ role'[p] = "subscriber" /\ pc'[p] = Null /\ pending'[p] = {}
      /\ shares'[p] = {} /\ stream'[p] = 0 /\ canShare'[p] /\ toServer'[p] = << >> /\ toPage'[p] = << >>
  BY <1>1, ClearDoes DEF Typed, PageTyped, WireTyped
<1>4. \A q \in Others(p) : /\ ws'[q] = ws[q] /\ role'[q] = role[q] /\ shares'[q] = shares[q]
                           /\ stream'[q] = stream[q] /\ canShare'[q] = canShare[q]
                           /\ toServer'[q] = toServer[q] /\ toPage'[q] = toPage[q]
                           /\ (q \in overlapped' <=> q \in overlapped)
  BY <1>1 DEF Typed, PageTyped, WireTyped, Others
<1>5. PageActs(p)
  BY <1>1, <1>4, ClearDoes, Zenon DEF PageActs, PageSame, WireSame
<1>6. QED
  BY <1>1, <1>2, <1>3, <1>5

ServerActs(p) ==
    /\ UNCHANGED <<pageVars, pageHistory>>
    /\ \A q \in Others(p) : WireSame(q) /\ ServerSame(q) /\ OfferSame(q) /\ TodoSame(q)

LEMMA TakeDoes ==
  ASSUME Typed, NEW p \in Pages, NEW a, Take(p, a)
  PROVE  /\ todo[Session(p)] = << >> /\ session[p] # "left"
         /\ toServer[p] # << >> /\ Head(toServer[p]) \in Message /\ Head(toServer[p]).action = a
         /\ toServer'[p] = Tail(toServer[p]) /\ UNCHANGED <<pageVars, pageHistory>>
         /\ \A q \in Others(p) : toServer'[q] = toServer[q]
BY DEF Take, Idle, Typed, WireTyped, Others

LEMMA TellDoes ==
  ASSUME Typed, NEW p \in Pages, NEW m, SendJSON(p, m)
  PROVE  /\ ws[p] = "open" => toPage'[p] = Append(toPage[p], m)
         /\ ws[p] # "open" => toPage' = toPage
         /\ \A q \in Others(p) : toPage'[q] = toPage[q]
BY DEF Typed, WireTyped, SendJSON, Others

LEMMA ReplaceDoes ==
  ASSUME Typed, NEW p \in Pages, NEW h \in SUBSET Kinds, ReplacePC(p, h)
  PROVE  /\ peer'[p].n = peer[p].n + 1 /\ peer[p].n + 1 \in Serials
         /\ peer'[p].state = "stable" /\ peer'[p].remote = 0 /\ peer'[p].has = h
         /\ ~gathered'[p] /\ p \notin early' /\ UNCHANGED outdated
         /\ \A q \in Others(p) : peer'[q] = peer[q] /\ gathered'[q] = gathered[q] /\ (q \in early' <=> q \in early)
<1> DEFINE k == peer[p].n + 1
           new == [New(k) EXCEPT !.has = h]
<1>1. /\ peer[p].n < MaxPCs /\ peer' = [peer EXCEPT ![p] = new]
      /\ gathered' = [gathered EXCEPT ![p] = FALSE] /\ early' = early \ {p} /\ UNCHANGED outdated
  BY DEF ReplacePC
<1>2. peer[p].n \in Serials
  BY PCFields DEF Typed, PeersTyped
<1>3. k \in Serials
  BY <1>1, <1>2, Numbers
<1> HIDE DEF k
<1>4. new.n = k /\ new.state = "stable" /\ new.remote = 0 /\ new.has = h
  BY DEF New
<1> HIDE DEF new
<1>5. peer'[p] = new /\ \A q \in Others(p) : peer'[q] = peer[q]
  BY <1>1 DEF Typed, PeersTyped, Others
<1>6. ~gathered'[p] /\ \A q \in Others(p) : gathered'[q] = gathered[q]
  BY <1>1 DEF Typed, PeersTyped, Others
<1>7. QED
  BY <1>1, <1>3, <1>4, <1>5, <1>6 DEF k, Others

LEMMA NewPCDoes ==
  ASSUME Typed, NEW p \in Pages, NEW h \in SUBSET Kinds, NewPC(p, h)
  PROVE  /\ peer'[p].n = peer[p].n + 1 /\ peer[p].n + 1 \in Serials
         /\ peer'[p].state = "stable" /\ peer'[p].remote = 0 /\ peer'[p].has = h
         /\ ~gathered'[p] /\ p \notin early' /\ UNCHANGED outdated /\ p \notin disturbed'
         /\ \A q \in Others(p) : /\ peer'[q] = peer[q] /\ gathered'[q] = gathered[q]
                                 /\ (q \in early' <=> q \in early) /\ (q \in disturbed' <=> q \in disturbed)
BY ReplaceDoes DEF NewPC, Others

(* A goroutine of a page is none of another.                               *)
LEMMA DoDoes ==
  ASSUME Typed, NEW p \in Pages, NEW g \in {Session(p), Negotiation(p), Callback(p)}, NEW is, Do(g, is)
  PROVE  /\ todo'[g] = is /\ \A q \in Others(p) : TodoSame(q)
         /\ \A f \in Goroutines : f # g => todo'[f] = todo[f]
         /\ Session(p) # Negotiation(p) /\ Session(p) # Callback(p) /\ Negotiation(p) # Callback(p)
BY GoroutineNames DEF Do, Typed, TodoTyped, Others, Session, Negotiation, Callback, Goroutines,
    TodoSame

Unbothered == UNCHANGED <<session, publisher, subscribers, tracks, peer, due, gathered, todo,
                          disturbed, early, outdated>>

(* The handler refuses and changes nothing.                                *)
LEMMA RefusalDoes ==
  ASSUME Typed, NEW p \in Pages, NEW a, Take(p, a), NEW m, Reply(p, m), UNCHANGED <<roomVars, peerVars, serverHistory>>
  PROVE  ServerActs(p) /\ SendJSON(p, m) /\ Unbothered
<1>1. SendJSON(p, m) /\ UNCHANGED todo
  BY DEF Reply
<1>2. Unbothered
  BY <1>1 DEF Unbothered, roomVars, peerVars, serverHistory, pcHistory
<1>3. ServerActs(p)
  BY <1>1, <1>2, TakeDoes, TellDoes DEF Unbothered, ServerActs, WireSame, ServerSame, OfferSame, TodoSame
<1>4. QED
  BY <1>1, <1>2, <1>3

LEMMA JoinDoes ==
  ASSUME Inductive, NEW p \in Pages, Join(p)
  PROVE  /\ Take(p, "join") /\ ServerActs(p) /\ session[p] = "none" /\ UNCHANGED <<todo, tracks, outdated>>
         /\ \/ role[p] = "publisher" /\ SendJSON(p, Msg(Taken)) /\ Unbothered
            \/ /\ UNCHANGED toPage /\ session'[p] = role[p]
               /\ \/ /\ role[p] = "publisher" /\ NewPC(p, {}) /\ publisher' = p
                     /\ UNCHANGED <<due, subscribers>>
                  \/ /\ role[p] = "subscriber" /\ NewPC(p, tracks) /\ publisher' # p
                     /\ p \in subscribers' /\ due'[p] = IF tracks = {} THEN {} ELSE {"welcome"}
<1>1. Take(p, "join") /\ session[p] = "none" /\ Typed
  BY Zenon DEF Join, Inductive
<1>2. publisher # p /\ p \notin subscribers
  BY <1>1 DEF Inductive, Conversation, SessionsAreMembers
<1>3. CASE role[p] = "publisher" /\ Reply(p, Msg(Taken)) /\ UNCHANGED <<roomVars, peerVars, serverHistory>>
  BY <1>1, <1>3, RefusalDoes DEF Unbothered
<1>4. CASE /\ AddPublisher(p) \/ AddSubscriber(p)
           /\ session' = [session EXCEPT ![p] = role[p]]
           /\ UNCHANGED <<toPage, todo, tracks>>
  <2>1. session'[p] = role[p] /\ \A q \in Others(p) : session'[q] = session[q]
    BY <1>1, <1>4 DEF Typed, RoomTyped, Others
  <2>2. \A q \in Others(p) : toServer'[q] = toServer[q] /\ toPage'[q] = toPage[q] /\ TodoSame(q)
    BY <1>1, <1>4, TakeDoes DEF TodoSame
  <2>3. CASE AddPublisher(p)
    <3>1. /\ role[p] = "publisher" /\ NewPC(p, {}) /\ publisher' = p /\ publisher = NoPage
          /\ UNCHANGED <<due, subscribers>>
      BY <2>3 DEF AddPublisher
    <3>2. \A q \in Others(p) : publisher' # q /\ publisher # q
      BY <3>1, RoomPageAssumption DEF Others
    <3>3. {} \in SUBSET Kinds
      OBVIOUS
    <3>4. ServerActs(p) /\ UNCHANGED outdated
      BY <1>1, <2>1, <2>2, <3>1, <3>2, <3>3, TakeDoes, NewPCDoes DEF ServerActs, WireSame, ServerSame, OfferSame
    <3>5. QED
      BY <1>1, <1>4, <2>1, <3>1, <3>4
  <2>4. CASE AddSubscriber(p)
    <3>1. /\ role[p] = "subscriber" /\ NewPC(p, tracks) /\ publisher' = publisher
          /\ subscribers' = subscribers \cup {p}
          /\ due' = [due EXCEPT ![p] = IF tracks = {} THEN {} ELSE {"welcome"}]
      BY <2>4 DEF AddSubscriber
    <3>2. /\ due'[p] = (IF tracks = {} THEN {} ELSE {"welcome"}) /\ \A q \in Others(p) : due'[q] = due[q]
      BY <1>1, <3>1 DEF Typed, PeersTyped, Others
    <3>3. tracks \in SUBSET Kinds
      BY <1>1 DEF Typed, RoomTyped
    <3>4. p \in subscribers' /\ \A q \in Others(p) : (q \in subscribers' <=> q \in subscribers)
      BY <3>1 DEF Others
    <3>5. ServerActs(p) /\ UNCHANGED outdated
      BY <1>1, <2>1, <2>2, <3>1, <3>2, <3>3, <3>4, TakeDoes, NewPCDoes DEF ServerActs, WireSame, ServerSame, OfferSame
    <3>6. QED
      BY <1>1, <1>2, <1>4, <2>1, <3>1, <3>2, <3>4, <3>5
  <2>5. QED
    BY <1>4, <2>3, <2>4
<1>5. QED
  BY <1>3, <1>4, Zenon DEF Join, Taken

LEMMA RequestPublishDoes ==
  ASSUME Inductive, NEW p \in Pages, RequestPublish(p)
  PROVE  /\ Take(p, "request_publish") /\ ServerActs(p) /\ UNCHANGED <<todo, tracks, outdated>>
         /\ \/ /\ \E a \in {"publish_ok", "live_active", "error"} : SendJSON(p, Msg(a))
               /\ Unbothered
            \/ /\ session[p] = "subscriber" /\ SendJSON(p, Msg("publish_ok")) /\ NewPC(p, {})
               /\ session'[p] = "publisher" /\ publisher' = p /\ p \notin subscribers' /\ due'[p] = {}
<1>1. Take(p, "request_publish") /\ Typed
  BY DEF RequestPublish, Inductive
<1>2. ASSUME NEW a \in {"publish_ok", "live_active", "error"}, Reply(p, Msg(a)),
             UNCHANGED <<roomVars, peerVars, serverHistory>>
      PROVE  ServerActs(p) /\ SendJSON(p, Msg(a)) /\ Unbothered
  BY <1>1, <1>2, RefusalDoes
<1>3. CASE /\ session[p] = "subscriber" /\ publisher = NoPage /\ PromotePublisher(p)
           /\ Reply(p, Msg("publish_ok")) /\ UNCHANGED tracks
  <2>1. /\ publisher' = p /\ subscribers' = subscribers \ {p}
        /\ session' = [session EXCEPT ![p] = "publisher"]
        /\ NewPC(p, {}) /\ due' = [due EXCEPT ![p] = {}]
    BY <1>3 DEF PromotePublisher
  <2>2. SendJSON(p, Msg("publish_ok")) /\ UNCHANGED todo
    BY <1>3 DEF Reply
  <2>3. /\ session'[p] = "publisher" /\ due'[p] = {}
        /\ \A q \in Others(p) : session'[q] = session[q] /\ due'[q] = due[q]
    BY <1>1, <2>1 DEF Typed, RoomTyped, PeersTyped, Others
  <2>4. p \notin subscribers' /\ \A q \in Others(p) : /\ (q \in subscribers' <=> q \in subscribers)
                                                      /\ publisher' # q /\ publisher # q
    BY <1>3, <2>1, RoomPageAssumption DEF Others
  <2>5. {} \in SUBSET Kinds
    OBVIOUS
  <2>6. ServerActs(p) /\ UNCHANGED outdated
    BY <1>1, <2>1, <2>2, <2>3, <2>4, <2>5, TakeDoes, TellDoes, NewPCDoes
       DEF ServerActs, WireSame, ServerSame, OfferSame, TodoSame
  <2>7. QED
    BY <1>1, <1>3, <2>1, <2>2, <2>3, <2>4, <2>6
<1>4. QED
  BY <1>1, <1>2, <1>3 DEF RequestPublish, Unbothered

StopDone(p, g) ==
    /\ UNCHANGED <<session, publisher, subscribers, peer, due, gathered, disturbed, early, outdated>>
    /\ \/ /\ tracks' = {} /\ \E guests \in SetToSeqs(subscribers) : Do(g, Dismiss(guests) \o <<Renew(p)>>)
       \/ tracks = {} /\ Gone(p) /\ Do(g, <<Renew(p)>>) /\ UNCHANGED tracks
       \/ tracks = {} /\ UNCHANGED <<tracks, todo>>

LEMMA StopStreamDoes ==
  ASSUME Typed, NEW p \in Pages, NEW g \in {Session(p), Callback(p)}, StopStream(p, g)
  PROVE  /\ StopDone(p, g) /\ UNCHANGED toPage
         /\ \A q \in Others(p) : ServerSame(q) /\ OfferSame(q) /\ TodoSame(q)
         /\ \A f \in Goroutines : f # g => todo'[f] = todo[f]
<1>1. StopDone(p, g) /\ UNCHANGED toPage
  BY DEF StopStream, StopDone, peerVars, serverHistory, pcHistory
<1>2. \A q \in Others(p) : ServerSame(q) /\ OfferSame(q)
  BY <1>1 DEF StopDone, ServerSame, OfferSame
<1>3. (\A q \in Others(p) : TodoSame(q)) /\ \A f \in Goroutines : f # g => todo'[f] = todo[f]
  BY <1>1, DoDoes DEF TodoSame, StopDone
<1>4. QED
  BY <1>1, <1>2, <1>3

LEMMA StopDoes ==
  ASSUME Typed, NEW p \in Pages, Stop(p)
  PROVE  /\ Take(p, "stop") /\ ServerActs(p)
         /\ \/ session[p] = "publisher" /\ StopDone(p, Session(p)) /\ UNCHANGED toPage
            \/ SendJSON(p, Msg("error")) /\ Unbothered
BY TakeDoes, StopStreamDoes, RefusalDoes DEF Stop, ServerActs, WireSame

LEMMA FailureDoes ==
  ASSUME Typed, NEW p \in Pages, OnConnectionStateChange(p)
  PROVE  /\ publisher = p /\ Gone(p) /\ todo[Callback(p)] = << >> /\ ServerActs(p)
         /\ StopDone(p, Callback(p)) /\ UNCHANGED <<toServer, toPage>>
         /\ todo'[Session(p)] = todo[Session(p)] /\ todo'[Negotiation(p)] = todo[Negotiation(p)]
BY StopStreamDoes, GoroutineNames DEF OnConnectionStateChange, Session, Callback, Negotiation,
    ServerActs, WireSame

LEMMA SetRemoteDoes ==
  ASSUME Typed, NEW p \in Pages, NEW m \in Message, SetRemote(p, m)
  PROVE  /\ peer'[p].n = peer[p].n /\ peer'[p].state = "stable" /\ peer'[p].added = peer[p].added
         /\ peer'[p].has = peer[p].has
         /\ peer'[p].remote = IF peer[p].remote = 0 THEN m.n ELSE peer[p].remote
         /\ p \in disturbed' <=> \/ peer[p].remote \notin {0, m.n} \/ m.re \notin {0, peer[p].n}
                                 \/ p \in disturbed /\ ~(m.action = "offer" /\ peer[p].remote = 0)
         /\ \A q \in Others(p) : peer'[q] = peer[q] /\ (q \in disturbed' <=> q \in disturbed)
<1> DEFINE n == IF peer[p].remote = 0 THEN m.n ELSE peer[p].remote
           new == [peer[p] EXCEPT !.state = "stable", !.remote = n]
<1>1. peer \in [Pages -> PC] /\ peer[p] \in PC
  BY DEF Typed, PeersTyped
<1>2. peer' = [peer EXCEPT ![p] = new]
  BY <1>1, Zenon DEF SetRemote
<1> HIDE DEF n
<1>3. /\ new.n = peer[p].n /\ new.state = "stable" /\ new.added = peer[p].added
      /\ new.has = peer[p].has /\ new.remote = n
  BY <1>1 DEF PC
<1> HIDE DEF new
<1>4. peer'[p] = new /\ \A q \in Others(p) : peer'[q] = peer[q]
  BY <1>1, <1>2 DEF Others
<1>5. /\ p \in disturbed' <=> \/ peer[p].remote \notin {0, m.n} \/ m.re \notin {0, peer[p].n}
                              \/ p \in disturbed /\ ~(m.action = "offer" /\ peer[p].remote = 0)
      /\ \A q \in Others(p) : (q \in disturbed' <=> q \in disturbed)
  BY DEF SetRemote, Others
<1>6. QED
  BY <1>3, <1>4, <1>5 DEF n

LEMMA ServerHandleOfferDoes ==
  ASSUME Typed, NEW p \in Pages, ServerHandleOffer(p)
  PROVE  /\ Take(p, "offer") /\ ServerActs(p)
         /\ UNCHANGED <<session, publisher, subscribers, tracks, due, early, outdated>>
         /\ \/ /\ session[p] # "none" /\ peer[p].state = "stable" /\ SetRemote(p, Head(toServer[p]))
               /\ gathered'[p] <=> gathered[p] \/ Gathers(p)
               /\ todo'[Session(p)] = <<Tell(p, AnswerTo(peer[p].n, Head(toServer[p]).n))>>
               /\ todo'[Negotiation(p)] = todo[Negotiation(p)] /\ todo'[Callback(p)] = todo[Callback(p)]
               /\ \A f \in Goroutines : f # Session(p) => todo'[f] = todo[f]
               /\ UNCHANGED toPage
            \/ /\ session[p] = "none" \/ peer[p].state # "stable"
               /\ SendJSON(p, Msg("error")) /\ Unbothered
<1> DEFINE m == Head(toServer[p])
           is == <<Tell(p, AnswerTo(peer[p].n, m.n))>>
<1>1. Take(p, "offer") /\ UNCHANGED <<roomVars, due, early, outdated>> /\ m \in Message
  BY TakeDoes DEF ServerHandleOffer
<1>2. UNCHANGED <<session, publisher, subscribers, tracks, due, early, outdated>>
  BY <1>1 DEF roomVars
<1>3. CASE /\ session[p] # "none" /\ peer[p].state = "stable" /\ SetRemote(p, m)
           /\ gathered' = [gathered EXCEPT ![p] = gathered[p] \/ Gathers(p)]
           /\ Do(Session(p), is) /\ UNCHANGED toPage
  <2> HIDE DEF m, is
  <2>1. gathered \in [Pages -> BOOLEAN]
    BY DEF Typed, PeersTyped
  <2>2. (gathered'[p] <=> gathered[p] \/ Gathers(p)) /\ \A q \in Others(p) : gathered'[q] = gathered[q]
    BY <1>3, <2>1, Zenon DEF Others
  <2>3. /\ todo'[Session(p)] = is /\ \A q \in Others(p) : TodoSame(q)
        /\ \A f \in Goroutines : f # Session(p) => todo'[f] = todo[f]
        /\ Session(p) # Negotiation(p) /\ Session(p) # Callback(p)
    BY <1>3, DoDoes
  <2>4. /\ peer'[p].n = peer[p].n /\ \A q \in Others(p) : peer'[q] = peer[q] /\ (q \in disturbed' <=> q \in disturbed)
    BY <1>1, <1>3, SetRemoteDoes
  <2>5. ServerActs(p)
    BY <1>1, <1>2, <1>3, <2>2, <2>3, <2>4, TakeDoes DEF ServerActs, WireSame, ServerSame, OfferSame
  <2>6. QED
    BY <1>1, <1>2, <1>3, <2>2, <2>3, <2>5, GoroutineNames DEF m, is
<1>4. CASE /\ session[p] = "none" \/ peer[p].state # "stable"
           /\ Reply(p, Msg("error")) /\ UNCHANGED <<peer, gathered, disturbed>>
  BY <1>1, <1>2, <1>4, RefusalDoes DEF peerVars, serverHistory, pcHistory
<1>5. gathered \in [Pages -> BOOLEAN]
  BY DEF Typed, PeersTyped
<1>6. QED
  BY <1>3, <1>4, <1>5 DEF ServerHandleOffer

LEMMA ServerHandleAnswerDoes ==
  ASSUME Typed, NEW p \in Pages, ServerHandleAnswer(p)
  PROVE  /\ Take(p, "answer") /\ ServerActs(p)
         /\ UNCHANGED <<session, publisher, subscribers, tracks, due, gathered, early, outdated, todo>>
         /\ \/ /\ session[p] # "none" /\ peer[p].state = "offered" /\ SetRemote(p, Head(toServer[p]))
               /\ UNCHANGED toPage
            \/ /\ session[p] = "none" \/ peer[p].state # "offered"
               /\ SendJSON(p, Msg("error")) /\ Unbothered
<1> DEFINE m == Head(toServer[p])
<1>1. Take(p, "answer") /\ UNCHANGED <<roomVars, due, gathered, early, outdated>> /\ m \in Message
  BY TakeDoes DEF ServerHandleAnswer
<1>2. UNCHANGED <<session, publisher, subscribers, tracks, due, gathered, early, outdated>>
  BY <1>1 DEF roomVars
<1>3. CASE /\ session[p] # "none" /\ peer[p].state = "offered" /\ SetRemote(p, m)
           /\ UNCHANGED <<toPage, todo>>
  BY <1>1, <1>2, <1>3, SetRemoteDoes, TakeDoes DEF ServerActs, WireSame, ServerSame, OfferSame,
      TodoSame
<1>4. CASE /\ session[p] = "none" \/ peer[p].state # "offered"
           /\ Reply(p, Msg("error")) /\ UNCHANGED <<peer, disturbed>>
  BY <1>1, <1>2, <1>4, RefusalDoes DEF peerVars, serverHistory, pcHistory, Unbothered
<1>5. QED
  BY <1>3, <1>4 DEF ServerHandleAnswer

LEMMA ServerHandleCandidateDoes ==
  ASSUME Typed, NEW p \in Pages, ServerHandleCandidate(p)
  PROVE  /\ Take(p, "candidate") /\ ServerActs(p)
         /\ UNCHANGED <<toPage, session, publisher, subscribers, tracks, due, gathered, todo,
                        disturbed, early, outdated>>
         /\ peer'[p].n = peer[p].n /\ peer'[p].state = peer[p].state /\ peer'[p].remote = peer[p].remote
         /\ peer'[p].has = peer[p].has
         /\ peer[p].remote = 0 => peer'[p].added = peer[p].added
         /\ peer[p].remote # 0 => peer'[p].added = peer[p].added \cup {Head(toServer[p]).n}
<1> DEFINE n == Head(toServer[p]).n
<1>1. /\ Take(p, "candidate")
      /\ peer' = IF peer[p].remote = 0 THEN peer ELSE [peer EXCEPT ![p].added = peer[p].added \cup {n}]
      /\ UNCHANGED <<toPage, roomVars, due, gathered, todo, serverHistory>>
  BY DEF Typed, PeersTyped, ServerHandleCandidate
<1> HIDE DEF n
<1>2. UNCHANGED <<toPage, session, publisher, subscribers, tracks, due, gathered, todo, disturbed, early, outdated>>
  BY <1>1 DEF roomVars, serverHistory, pcHistory
<1>3. /\ peer'[p].n = peer[p].n /\ peer'[p].state = peer[p].state /\ peer'[p].remote = peer[p].remote
      /\ peer'[p].has = peer[p].has
      /\ peer[p].remote = 0 => peer'[p].added = peer[p].added
      /\ peer[p].remote # 0 => peer'[p].added = peer[p].added \cup {n}
      /\ \A q \in Others(p) : peer'[q] = peer[q]
  <2>1. CASE peer[p].remote = 0
    BY <1>1, <2>1
  <2>2. CASE peer[p].remote # 0
    <3> DEFINE new == [peer[p] EXCEPT !.added = peer[p].added \cup {n}]
    <3>1. peer[p] \in PC /\ peer' = [peer EXCEPT ![p] = new]
      BY <1>1, <2>2 DEF Typed, PeersTyped
    <3>2. /\ new.n = peer[p].n /\ new.state = peer[p].state /\ new.remote = peer[p].remote
          /\ new.has = peer[p].has /\ new.added = peer[p].added \cup {n}
      BY <3>1 DEF PC
    <3> HIDE DEF new
    <3>3. peer'[p] = new /\ \A q \in Others(p) : peer'[q] = peer[q]
      BY <3>1 DEF Typed, PeersTyped, Others
    <3>4. QED
      BY <2>2, <3>2, <3>3
  <2>3. QED
    BY <2>1, <2>2
<1>4. ServerActs(p)
  BY <1>1, <1>2, <1>3, TakeDoes, Zenon DEF ServerActs, WireSame, ServerSame, OfferSame, TodoSame
<1>5. QED
  BY <1>1, <1>2, <1>3, <1>4 DEF n

LEMMA TrackDoes ==
  ASSUME Typed, NEW p \in Pages, NEW k \in Kinds, TrackArrives(p, k)
  PROVE  /\ UNCHANGED <<pageVars, pageHistory, toServer, toPage, session, publisher, subscribers, todo,
                        gathered, disturbed, early, outdated>>
         /\ publisher = p /\ tracks' = tracks \cup {k}
         /\ \A q \in Pages : /\ WireSame(q) /\ ServerSame(q) /\ TodoSame(q)
                             /\ q \notin subscribers => OfferSame(q)
                             /\ q \in subscribers => /\ peer'[q].has = peer[q].has \cup {k}
                                                     /\ due'[q] = due[q] \cup {"timer"}
<1>1. /\ publisher = p /\ tracks' = tracks \cup {k}
      /\ peer' = [q \in Pages |-> IF q \in subscribers THEN [peer[q] EXCEPT !.has = @ \cup {k}]
                                  ELSE peer[q]]
      /\ due' = [q \in Pages |-> IF q \in subscribers THEN due[q] \cup {"timer"} ELSE due[q]]
      /\ UNCHANGED <<pageVars, pageHistory, toServer, toPage, session, publisher, subscribers,
                     gathered, todo, serverHistory>>
  BY DEF TrackArrives
<1>2. UNCHANGED <<disturbed, early, outdated>>
  BY <1>1 DEF serverHistory, pcHistory
<1>3. ASSUME NEW q \in Pages
      PROVE  /\ WireSame(q) /\ ServerSame(q) /\ TodoSame(q)
             /\ q \notin subscribers => OfferSame(q)
             /\ q \in subscribers => /\ peer'[q].has = peer[q].has \cup {k}
                                     /\ due'[q] = due[q] \cup {"timer"}
  <2> DEFINE new == [peer[q] EXCEPT !.has = peer[q].has \cup {k}]
  <2>1. peer[q] \in PC
    BY DEF Typed, PeersTyped
  <2>2. /\ new.n = peer[q].n /\ new.state = peer[q].state /\ new.remote = peer[q].remote
        /\ new.added = peer[q].added /\ new.has = peer[q].has \cup {k}
    BY <2>1 DEF PC
  <2>3. peer'[q] = (IF q \in subscribers THEN new ELSE peer[q])
        /\ due'[q] = (IF q \in subscribers THEN due[q] \cup {"timer"} ELSE due[q])
    BY <1>1
  <2> HIDE DEF new
  <2>4. QED
    BY <1>1, <1>2, <2>2, <2>3 DEF WireSame, ServerSame, TodoSame, OfferSame
<1>4. QED
  BY <1>1, <1>2, <1>3

LEMMA NegotiateDoes ==
  ASSUME Typed, NEW p \in Pages, NegotiateSubscriber(p)
  PROVE  /\ ServerActs(p) /\ due[p] # {} /\ todo[Negotiation(p)] = << >>
         /\ UNCHANGED <<toServer, toPage, session, publisher, subscribers, tracks, early, outdated>>
         /\ \/ peer[p].state = "offered" /\ p \in disturbed' /\ UNCHANGED <<peer, gathered, todo>>
            \/ /\ peer[p].state = "stable" /\ UNCHANGED disturbed
               /\ peer'[p].n = peer[p].n /\ peer'[p].state = "offered" /\ peer'[p].remote = peer[p].remote
               /\ peer'[p].added = peer[p].added /\ peer'[p].has = peer[p].has
               /\ gathered'[p] <=> gathered[p] \/ Gathers(p)
               /\ todo'[Negotiation(p)] = <<Tell(p, Offer(peer[p].n, peer[p].has))>>
               /\ todo'[Session(p)] = todo[Session(p)] /\ todo'[Callback(p)] = todo[Callback(p)]
               /\ \A f \in Goroutines : f # Negotiation(p) => todo'[f] = todo[f]
<1> DEFINE is == <<Tell(p, Offer(peer[p].n, peer[p].has))>>
<1>1. PICK why \in due[p] :
        /\ due' = [due EXCEPT ![p] = due[p] \ {why}]
        /\ \/ peer[p].state = "offered" /\ disturbed' = disturbed \cup {p} /\ UNCHANGED <<peer, gathered, todo>>
           \/ /\ peer[p].state = "stable" /\ peer' = [peer EXCEPT ![p].state = "offered"]
              /\ gathered' = [gathered EXCEPT ![p] = gathered[p] \/ Gathers(p)]
              /\ Do(Negotiation(p), is) /\ UNCHANGED disturbed
  BY DEF Typed, PeersTyped, NegotiateSubscriber
<1>2. /\ todo[Negotiation(p)] = << >>
      /\ UNCHANGED <<pageVars, pageHistory, toServer, toPage, roomVars, early, outdated>>
  BY DEF NegotiateSubscriber
<1>3. UNCHANGED <<session, publisher, subscribers, tracks>>
  BY <1>2 DEF roomVars
<1>4. \A q \in Others(p) : due'[q] = due[q]
  BY <1>1 DEF Typed, PeersTyped, Others
<1>5. CASE peer[p].state = "offered" /\ disturbed' = disturbed \cup {p} /\ UNCHANGED <<peer, gathered, todo>>
  BY <1>1, <1>2, <1>3, <1>4, <1>5 DEF Others, ServerActs, WireSame, ServerSame, OfferSame, TodoSame
<1>6. CASE /\ peer[p].state = "stable" /\ peer' = [peer EXCEPT ![p].state = "offered"]
           /\ gathered' = [gathered EXCEPT ![p] = gathered[p] \/ Gathers(p)]
           /\ Do(Negotiation(p), is) /\ UNCHANGED disturbed
  <2> HIDE DEF is
  <2>1. gathered \in [Pages -> BOOLEAN] /\ peer \in [Pages -> PC] /\ peer[p] \in PC
    BY DEF Typed, PeersTyped
  <2>2. (gathered'[p] <=> gathered[p] \/ Gathers(p)) /\ \A q \in Others(p) : gathered'[q] = gathered[q]
    BY <1>6, <2>1, Zenon DEF Others
  <2>3. /\ todo'[Negotiation(p)] = is /\ \A q \in Others(p) : TodoSame(q)
        /\ \A f \in Goroutines : f # Negotiation(p) => todo'[f] = todo[f]
        /\ Session(p) # Negotiation(p) /\ Callback(p) # Negotiation(p)
    BY <1>6, DoDoes
  <2> DEFINE new == [peer[p] EXCEPT !.state = "offered"]
  <2>4. peer' = [peer EXCEPT ![p] = new]
    BY <1>6, <2>1
  <2>5. /\ new.n = peer[p].n /\ new.state = "offered" /\ new.remote = peer[p].remote
        /\ new.added = peer[p].added /\ new.has = peer[p].has
    BY <2>1 DEF PC
  <2> HIDE DEF new
  <2>6. peer'[p] = new /\ \A q \in Others(p) : peer'[q] = peer[q]
    BY <2>1, <2>4 DEF Others
  <2>7. ServerActs(p)
    BY <1>2, <1>3, <1>4, <1>6, <2>2, <2>3, <2>6, Zenon DEF ServerActs, WireSame, ServerSame, OfferSame
  <2>8. QED
    BY <1>1, <1>2, <1>3, <1>6, <2>2, <2>3, <2>5, <2>6, <2>7, GoroutineNames DEF is
<1>7. QED
  BY <1>1, <1>5, <1>6

LEMMA CandidateDoes ==
  ASSUME Typed, NEW p \in Pages, OnICECandidate(p)
  PROVE  /\ ServerActs(p) /\ gathered[p] /\ ~gathered'[p] /\ SendJSON(p, Candidate(peer[p].n))
         /\ p \in early' <=> p \in early \/ todo[Negotiation(p)] # << >>
         /\ UNCHANGED <<toServer, session, publisher, subscribers, tracks, peer, due, todo, disturbed, outdated>>
BY TellDoes DEF OnICECandidate, Typed, PeersTyped, Others, roomVars, ServerActs, WireSame,
    ServerSame, OfferSame, TodoSame

LEMMA StepDoes ==
  ASSUME Typed, NEW g \in Goroutines, NEW do, Step(g, do)
  PROVE  /\ todo[g] # << >> /\ Head(todo[g]) \in Instruction /\ Head(todo[g]).do = do /\ todo[g] \in Seq(Instruction)
         /\ Head(todo[g]).page \in Pages
         /\ todo'[g] = Tail(todo[g]) /\ \A f \in Goroutines : f # g => todo'[f] = todo[f]
         /\ do # "tell" => \A q \in Pages : TodoSame(q)
         /\ \A p \in Pages : g \in {Session(p), Negotiation(p), Callback(p)} => \A q \in Others(p) : TodoSame(q)
         /\ UNCHANGED <<pageVars, pageHistory, toServer, session, publisher, subscribers, tracks>>
<1>1. /\ todo[g] # << >> /\ Head(todo[g]).do = do /\ todo' = [todo EXCEPT ![g] = Tail(todo[g])]
      /\ UNCHANGED <<pageVars, pageHistory, toServer, roomVars>>
  BY DEF Step
<1>2. todo \in [Goroutines -> Seq(Instruction)]
  BY DEF Typed, TodoTyped
<1>3. todo'[g] = Tail(todo[g]) /\ \A f \in Goroutines : f # g => todo'[f] = todo[f]
  BY <1>1, <1>2
<1>4. Head(todo[g]) \in Instruction /\ todo[g] \in Seq(Instruction)
  BY <1>1, <1>2
<1>5. Head(todo[g]).page \in Pages
  BY <1>4, InstructionFields
<1>6. do # "tell" => \A q \in Pages : TodoSame(q)
  BY <1>1, <1>3, GoroutineNames DEF TodoSame
<1>7. ASSUME NEW p \in Pages, g \in {Session(p), Negotiation(p), Callback(p)}, NEW q \in Others(p)
      PROVE  TodoSame(q)
  BY <1>3, <1>7 DEF Others, Session, Negotiation, Callback, Goroutines, TodoSame
<1>8. QED
  BY <1>1, <1>3, <1>4, <1>5, <1>6, <1>7 DEF roomVars

LEMMA TellNextDoes ==
  ASSUME Typed, NEW p \in Pages, NEW g \in {Session(p), Negotiation(p)}, TellNext(g), Head(todo[g]).page = p
  PROVE  /\ ServerActs(p) /\ SendJSON(p, Head(todo[g]).msg) /\ Head(todo[g]).do = "tell"
         /\ todo[g] # << >> /\ todo'[g] = Tail(todo[g])
         /\ \A f \in Goroutines : f # g => todo'[f] = todo[f]
         /\ UNCHANGED <<toServer, session, publisher, subscribers, tracks, peer, due, gathered, disturbed, early>>
         /\ p \in outdated' <=> p \in outdated \/ (g = Negotiation(p) /\ p \notin subscribers)
<1>1. /\ Step(g, "tell") /\ SendJSON(p, Head(todo[g]).msg)
      /\ outdated' = IF g = Negotiation(p) /\ p \notin subscribers THEN outdated \cup {p} ELSE outdated
      /\ UNCHANGED <<peerVars, pcHistory>>
  BY DEF TellNext
<1>2. g \in Goroutines
  BY GoroutineNames
<1>3. UNCHANGED <<peer, due, gathered, disturbed, early>>
  BY <1>1 DEF peerVars, pcHistory
<1>4. /\ p \in outdated' <=> p \in outdated \/ (g = Negotiation(p) /\ p \notin subscribers)
      /\ \A q \in Others(p) : (q \in outdated' <=> q \in outdated)
  BY <1>1 DEF Others
<1>5. /\ todo[g] # << >> /\ Head(todo[g]).do = "tell" /\ todo'[g] = Tail(todo[g])
      /\ \A f \in Goroutines : f # g => todo'[f] = todo[f]
      /\ \A q \in Others(p) : TodoSame(q)
      /\ UNCHANGED <<pageVars, pageHistory, toServer, session, publisher, subscribers, tracks>>
  BY <1>1, <1>2, StepDoes
<1>6. ServerActs(p)
  BY <1>1, <1>3, <1>4, <1>5, TellDoes DEF ServerActs, WireSame, ServerSame, OfferSame
<1>7. QED
  BY <1>1, <1>3, <1>4, <1>5, <1>6

(* An instruction that is not to tell is what Reset and Renew make.        *)
LEMMA OtherInstructions ==
  ASSUME NEW i \in Instruction
  PROVE  (i.do = "reset" => i = Reset(i.page)) /\ (i.do = "renew" => i = Renew(i.page))
BY DEF Instruction, Reset, Renew

LEMMA EndDoes ==
  ASSUME Typed, NEW g \in Goroutines, EndSubscriber(g), NEW p \in Pages, Head(todo[g]).page = p
  PROVE  /\ ServerActs(p) /\ TodoSame(p) /\ SendJSON(p, Msg("ended"))
         /\ todo[g] # << >> /\ Head(todo[g]) = Reset(p) /\ todo'[g] = Tail(todo[g])
         /\ \A f \in Goroutines : f # g => todo'[f] = todo[f]
         /\ UNCHANGED <<toServer, session, publisher, subscribers, tracks>>
         /\ \/ /\ p \in subscribers /\ ReplacePC(p, {}) /\ due'[p] = due[p] \ {"timer"}
               /\ p \in disturbed' <=> tracks # {}
            \/ /\ p \notin subscribers /\ p \in outdated' /\ UNCHANGED <<peer, due, gathered, disturbed, early>>
<1>1. /\ Step(g, "reset") /\ SendJSON(p, Msg("ended"))
      /\ \/ /\ p \in subscribers /\ ReplacePC(p, {}) /\ due' = [due EXCEPT ![p] = due[p] \ {"timer"}]
            /\ disturbed' = IF tracks = {} THEN disturbed \ {p} ELSE disturbed \cup {p}
         \/ /\ p \notin subscribers /\ outdated' = outdated \cup {p}
            /\ UNCHANGED <<peerVars, pcHistory>>
  BY DEF EndSubscriber
<1>2. /\ todo[g] # << >> /\ Head(todo[g]) \in Instruction /\ Head(todo[g]).do = "reset"
      /\ todo'[g] = Tail(todo[g])
      /\ \A f \in Goroutines : f # g => todo'[f] = todo[f]
      /\ \A q \in Pages : TodoSame(q)
      /\ UNCHANGED <<pageVars, pageHistory, toServer, session, publisher, subscribers, tracks>>
  BY <1>1, StepDoes
<1>3. Head(todo[g]) = Reset(p)
  BY <1>2, OtherInstructions
<1>4. CASE /\ p \in subscribers /\ ReplacePC(p, {}) /\ due' = [due EXCEPT ![p] = due[p] \ {"timer"}]
           /\ disturbed' = IF tracks = {} THEN disturbed \ {p} ELSE disturbed \cup {p}
  <2>1. due'[p] = due[p] \ {"timer"} /\ \A q \in Others(p) : due'[q] = due[q]
    BY <1>4 DEF Typed, PeersTyped, Others
  <2>2. (p \in disturbed' <=> tracks # {}) /\ \A q \in Others(p) : (q \in disturbed' <=> q \in disturbed)
    BY <1>4 DEF Others
  <2>3. {} \in SUBSET Kinds
    OBVIOUS
  <2>4. ServerActs(p)
    BY <1>1, <1>2, <1>4, <2>1, <2>2, <2>3, ReplaceDoes, TellDoes
       DEF ServerActs, WireSame, ServerSame, OfferSame, Others
  <2>5. QED
    BY <1>1, <1>2, <1>3, <1>4, <2>1, <2>2, <2>4
<1>5. CASE p \notin subscribers /\ outdated' = outdated \cup {p} /\ UNCHANGED <<peerVars, pcHistory>>
  BY <1>1, <1>2, <1>3, <1>5, TellDoes DEF Others, peerVars, pcHistory, ServerActs, WireSame,
      ServerSame, OfferSame
<1>6. QED
  BY <1>1, <1>4, <1>5

LEMMA RenewDoes ==
  ASSUME Typed, NEW g \in Goroutines, ResetPublisherPC(g), NEW p \in Pages, Head(todo[g]).page = p
  PROVE  /\ ServerActs(p) /\ TodoSame(p)
         /\ todo[g] # << >> /\ Head(todo[g]) = Renew(p) /\ todo'[g] = Tail(todo[g])
         /\ \A f \in Goroutines : f # g => todo'[f] = todo[f]
         /\ UNCHANGED <<toServer, toPage, session, publisher, subscribers, tracks, due>>
         /\ \/ publisher = p /\ g = Session(p) /\ NewPC(p, {})
            \/ publisher = p /\ ReplacePC(p, {}) /\ p \in disturbed'
            \/ publisher # p /\ UNCHANGED <<peer, gathered, disturbed, early, outdated>>
<1>1. /\ Step(g, "renew") /\ UNCHANGED <<toPage, due>>
      /\ \/ publisher = p /\ g = Session(p) /\ NewPC(p, {})
         \/ publisher = p /\ ReplacePC(p, {}) /\ disturbed' = disturbed \cup {p}
         \/ publisher # p /\ UNCHANGED <<peer, gathered, serverHistory>>
  BY DEF ResetPublisherPC
<1>2. /\ todo[g] # << >> /\ Head(todo[g]) \in Instruction /\ Head(todo[g]).do = "renew"
      /\ todo'[g] = Tail(todo[g])
      /\ \A f \in Goroutines : f # g => todo'[f] = todo[f]
      /\ \A q \in Pages : TodoSame(q)
      /\ UNCHANGED <<pageVars, pageHistory, toServer, session, publisher, subscribers, tracks>>
  BY <1>1, StepDoes
<1>3. Head(todo[g]) = Renew(p) /\ {} \in SUBSET Kinds
  BY <1>2, OtherInstructions
<1>4. CASE publisher = p /\ g = Session(p) /\ NewPC(p, {})
  BY <1>1, <1>2, <1>3, <1>4, NewPCDoes DEF ServerActs, WireSame, ServerSame, OfferSame, Others
<1>5. CASE publisher = p /\ ReplacePC(p, {}) /\ disturbed' = disturbed \cup {p}
  BY <1>1, <1>2, <1>3, <1>5, ReplaceDoes DEF Others, ServerActs, WireSame, ServerSame, OfferSame
<1>6. CASE publisher # p /\ UNCHANGED <<peer, gathered, serverHistory>>
  BY <1>1, <1>2, <1>3, <1>6 DEF serverHistory, pcHistory, ServerActs, WireSame, ServerSame,
      OfferSame, Others
<1>7. QED
  BY <1>1, <1>4, <1>5, <1>6

LEMMA CleanupDoes ==
  ASSUME Typed, NEW p \in Pages, Cleanup(p)
  PROVE  /\ ServerActs(p) /\ ws[p] = "closed" /\ session'[p] = "left" /\ due'[p] = {} /\ p \notin subscribers'
         /\ publisher' # p /\ todo[Session(p)] = << >>
         /\ UNCHANGED <<toServer, toPage, peer, disturbed, early, outdated>>
         /\ \A f \in Goroutines : f # Session(p) => todo'[f] = todo[f]
         /\ \/ /\ publisher = p /\ tracks' = {}
               /\ \E guests \in SetToSeqs(subscribers) : Do(Session(p), Dismiss(guests))
            \/ /\ publisher # p /\ UNCHANGED <<tracks, todo>>
<1>1. /\ ws[p] = "closed" /\ todo[Session(p)] = << >>
      /\ session' = [session EXCEPT ![p] = "left"]
      /\ due' = [due EXCEPT ![p] = {}] /\ gathered' = [gathered EXCEPT ![p] = FALSE]
      /\ subscribers' = subscribers \ {p}
      /\ \/ /\ publisher = p /\ publisher' = NoPage /\ tracks' = {}
            /\ \E guests \in SetToSeqs(subscribers) : Do(Session(p), Dismiss(guests))
         \/ publisher # p /\ UNCHANGED <<publisher, tracks, todo>>
      /\ UNCHANGED <<pageVars, pageHistory, toServer, toPage, peer, serverHistory>>
  BY DEF Cleanup, Idle
<1>2. UNCHANGED <<disturbed, early, outdated>>
  BY <1>1 DEF serverHistory, pcHistory
<1>3. /\ session'[p] = "left" /\ due'[p] = {} /\ p \notin subscribers'
      /\ \A q \in Others(p) : /\ session'[q] = session[q] /\ due'[q] = due[q] /\ gathered'[q] = gathered[q]
                              /\ (q \in subscribers' <=> q \in subscribers)
  BY <1>1 DEF Typed, RoomTyped, PeersTyped, Others
<1>4. publisher' # p /\ \A q \in Others(p) : (publisher' = q <=> publisher = q)
  BY <1>1, RoomPageAssumption DEF Others
<1>5. (\A q \in Others(p) : TodoSame(q)) /\ \A f \in Goroutines : f # Session(p) => todo'[f] = todo[f]
  BY <1>1, DoDoes DEF TodoSame
<1>6. ServerActs(p)
  BY <1>1, <1>2, <1>3, <1>4, <1>5, Zenon DEF ServerActs, WireSame, ServerSame, OfferSame
<1>7. QED
  BY <1>1, <1>2, <1>3, <1>4, <1>5, <1>6

----------------------------------------------------------------------------
(* Which numbers are in use *)

(* What is under way tells of peer connections that were made.             *)
Spoken(k, n) == {m \in Message : /\ m.action \in {"offer", "answer"} => m.n <= k
                                 /\ m.action = "answer" => m.re \in 1..n}
Told(k, n) == {m \in Message : /\ m.re <= k
                               /\ m.action \in {"offer", "answer"} => m.n \in 1..n}
ToServer(p) == Spoken(made[p], peer[p].n)
ToPage(p) == Told(made[p], peer[p].n)
ByHandler(p) == {i \in Instruction : /\ i.do = "tell" => /\ i.page = p /\ i.msg \in ToPage(p)
                                                         /\ i.msg.action = "answer"
                                     /\ i.do = "renew" => i.page = p}
ByNegotiation(p) == {i \in Instruction : /\ i.do = "tell" /\ i.page = p /\ i.msg \in ToPage(p)
                                         /\ i.msg.action = "offer"}
ByCallback(p) == {i \in Instruction : i.do # "tell" /\ (i.do = "renew" => i.page = p)}

UnderWay(p) ==
    /\ Within(toServer[p], ToServer(p)) /\ Within(toPage[p], ToPage(p))
    /\ Within(todo[Session(p)], ByHandler(p))
    /\ Within(todo[Negotiation(p)], ByNegotiation(p))
    /\ Within(todo[Callback(p)], ByCallback(p))

PageNumbers(p) ==
    /\ pc[p].n <= made[p] /\ \A s \in shares[p] : s.n <= made[p]
    /\ pc[p].asked <= peer[p].n /\ pc[p].remote <= peer[p].n
    /\ pc[p].state = "answering" => pc[p].asked # 0
    /\ pc[p].remote # 0 => pending[p] = {}

(* A page that has not joined has a fresh peer connection or none, and     *)
(* only guests are negotiated with by the server.                          *)
ServerNumbers(p) ==
    /\ peer[p].remote <= made[p] /\ peer[p].state \in {"stable", "offered"}
    /\ session[p] = "none" => peer[p].remote = 0 /\ peer[p].state = "stable"
    /\ session[p] \notin {"none", "left"} => peer[p].n # 0
    /\ due[p] # {} => p \in subscribers

Numbered(p) == UnderWay(p) /\ PageNumbers(p) /\ ServerNumbers(p)

LEMMA Counts ==
  ASSUME Typed, NEW p \in Pages
  PROVE  /\ made[p] \in Nat /\ peer[p].n \in Nat /\ pc[p].n \in Nat /\ pc[p].asked \in Nat
         /\ pc[p].remote \in Nat /\ peer[p].remote \in Nat
         /\ \A s \in shares[p] : s.n \in Nat
         /\ \A m \in Message : m.n \in Nat /\ m.re \in Nat
<1>1. pc[p] \in PC /\ peer[p] \in PC /\ made[p] \in Serials /\ shares[p] \subseteq Share
  BY DEF Typed, PageTyped, PeersTyped
<1>2. \A s \in shares[p] : s.n \in Nat
  BY <1>1, Numbers DEF Share
<1>3. \A m \in Message : m.n \in Nat /\ m.re \in Nat
  BY MessageFields, Numbers
<1>4. QED
  BY <1>1, <1>2, <1>3, PCFields, Numbers, Zenon

LEMMA MoreIsSaid ==
  ASSUME NEW k \in Nat, NEW l \in Nat, NEW n \in Nat, NEW o \in Nat, k <= l, n <= o
  PROVE  Spoken(k, n) \subseteq Spoken(l, o) /\ Told(k, n) \subseteq Told(l, o)
<1>1. \A m \in Message : m.n \in Nat /\ m.re \in Nat
  BY MessageFields, Numbers, Zenon
<1>2. Spoken(k, n) \subseteq Spoken(l, o)
  BY <1>1 DEF Spoken
<1>3. Told(k, n) \subseteq Told(l, o)
  BY <1>1 DEF Told
<1>4. QED
  BY <1>2, <1>3

LEMMA SetsWiden ==
  ASSUME Typed, Typed', NEW p \in Pages, made[p] <= made'[p], peer[p].n <= peer'[p].n
  PROVE  /\ ToServer(p) \subseteq ToServer(p)' /\ ToPage(p) \subseteq ToPage(p)'
         /\ ByHandler(p) \subseteq ByHandler(p)' /\ ByNegotiation(p) \subseteq ByNegotiation(p)'
         /\ ByCallback(p) \subseteq ByCallback(p)'
<1>1. /\ made[p] \in Nat /\ made'[p] \in Nat /\ peer[p].n \in Nat /\ peer'[p].n \in Nat
      /\ \A m \in Message : m.n \in Nat /\ m.re \in Nat
  BY Counts, PCFields, Numbers, Zenon DEF Typed, PageTyped, PeersTyped
<1>2. ToServer(p) \subseteq ToServer(p)'
  BY <1>1, MoreIsSaid DEF ToServer
<1>3. ToPage(p) \subseteq ToPage(p)'
  BY <1>1, MoreIsSaid DEF ToPage
<1>4. QED
  BY <1>2, <1>3 DEF ByHandler, ByNegotiation, ByCallback

LEMMA Queues ==
  ASSUME Typed, NEW p \in Pages
  PROVE  /\ toServer[p] \in Seq(Message) /\ toPage[p] \in Seq(Message)
         /\ todo[Session(p)] \in Seq(Instruction) /\ todo[Negotiation(p)] \in Seq(Instruction)
         /\ todo[Callback(p)] \in Seq(Instruction)
BY GoroutineNames DEF Typed, WireTyped, TodoTyped

(* What a page has to send is kept within what its goroutines may do.      *)
LEMMA TodoWithin ==
  ASSUME Typed, Typed', NEW p \in Pages, Numbered(p), TodoSame(p), made[p] <= made'[p], peer[p].n <= peer'[p].n
  PROVE  /\ Within(todo'[Session(p)], ByHandler(p)') /\ Within(todo'[Negotiation(p)], ByNegotiation(p)')
         /\ Within(todo'[Callback(p)], ByCallback(p)')
<1>1. ASSUME NEW g \in {Session(p), Negotiation(p), Callback(p)}, NEW A, NEW B, Within(todo[g], A), A \subseteq B
      PROVE  Within(todo'[g], B)
  <2>1. Within(todo[g], B)
    BY <1>1, Widening
  <2>2. CASE todo'[g] = todo[g]
    BY <2>1, <2>2
  <2>3. CASE todo[g] # << >> /\ todo'[g] = Tail(todo[g])
    <3>1. todo[g] \in Seq(Instruction)
      BY Queues
    <3>2. Within(Tail(todo[g]), B)
      BY <2>1, <2>3, <3>1, Removal, Zenon
    <3>3. QED
      BY <2>3, <3>2
  <2>4. QED
    BY <2>2, <2>3 DEF TodoSame
<1>2. /\ ByHandler(p) \subseteq ByHandler(p)' /\ ByNegotiation(p) \subseteq ByNegotiation(p)'
      /\ ByCallback(p) \subseteq ByCallback(p)'
  BY SetsWiden
<1>3. QED
  BY <1>1, <1>2 DEF Numbered, UnderWay

LEMMA SameNumbers ==
  ASSUME Typed, Typed', NEW p \in Pages, Numbered(p), PageSame(p), WireSame(p), ServerSame(p), TodoSame(p),
         due'[p] = due[p] \/ p \in subscribers
  PROVE  Numbered(p)'
<1>1. made[p] <= made'[p] /\ peer[p].n <= peer'[p].n
  BY Counts DEF PageSame, ServerSame
<1>2. UnderWay(p)'
  BY <1>1, SetsWiden, Widening, TodoWithin DEF Numbered, UnderWay, WireSame
<1>3. PageNumbers(p)'
  BY DEF Numbered, PageNumbers, PageSame, ServerSame
<1>4. ServerNumbers(p)'
  BY DEF Numbered, ServerNumbers, PageSame, ServerSame
<1>5. QED
  BY <1>2, <1>3, <1>4 DEF Numbered

(* A step of the page: what it takes and sends.                            *)
LEMMA PageCounts ==
  ASSUME Inductive, Inductive', NEW p \in Pages, Numbered(p), PageActs(p), made[p] <= made'[p],
         PageNumbers(p)',
         Within(toServer'[p], ToServer(p)'),
         toPage'[p] \in {toPage[p], << >>} \/ (toPage[p] # << >> /\ toPage'[p] = Tail(toPage[p]))
  PROVE  Numbered(p)'
<1>1. Typed /\ Typed' /\ UNCHANGED <<session, peer, due, subscribers>> /\ TodoSame(p)
  BY ServerUnchanged DEF Inductive, PageActs
<1>2. peer[p].n <= peer'[p].n
  BY <1>1, Counts
<1>3. Within(toPage'[p], ToPage(p)')
  <2>1. Within(toPage[p], ToPage(p)')
    BY <1>1, <1>2, SetsWiden, Widening, Zenon DEF Numbered, UnderWay
  <2>2. toPage[p] # << >> => Within(Tail(toPage[p]), ToPage(p)')
    BY <1>1, <2>1, Queues, Removal, Zenon
  <2>3. Within(<< >>, ToPage(p)')
    BY NothingIn
  <2>4. QED
    BY <2>1, <2>2, <2>3
<1>4. ServerNumbers(p)'
  <2>1. made[p] \in Nat /\ made'[p] \in Nat /\ peer[p].remote \in Nat
    BY <1>1, Counts, Numbers, Zenon DEF Typed, PageTyped
  <2>2. QED
    BY <1>1, <2>1 DEF Numbered, ServerNumbers
<1>5. QED
  BY <1>1, <1>2, <1>3, <1>4, TodoWithin DEF Numbered, UnderWay

LEMMA StillToServer ==
  ASSUME Inductive, Inductive', NEW p \in Pages, Numbered(p), PageActs(p), made[p] <= made'[p]
  PROVE  Within(toServer[p], ToServer(p)')
<1>1. Typed /\ Typed' /\ peer' = peer
  BY ServerUnchanged DEF Inductive, PageActs
<1>2. peer[p].n <= peer'[p].n
  BY <1>1, Counts
<1>3. ToServer(p) \subseteq ToServer(p)'
  BY <1>1, <1>2, SetsWiden
<1>4. QED
  BY <1>3, Widening DEF Numbered, UnderWay

(* What is sent with the candidates that follow it.                        *)
LEMMA CandidatesIn ==
  ASSUME NEW p \in Pages, NEW n \in Serials, NEW m \in Message, NEW A, NEW B
  PROVE  /\ <<m>> \o Candidates(p, n) \in Seq(Message)
         /\ Carries(<<m>> \o Candidates(p, n), A) <=> m \in A \/ (p \in Trickling /\ Candidate(n) \in A)
         /\ m \in A /\ Candidate(n) \in A => Within(<<m>> \o Candidates(p, n), A)
         /\ Candidate(n) \notin A /\ (m \in A => m \in B) => Followed(<<m>> \o Candidates(p, n), A, B)
         /\ Candidate(n) \in B /\ p \in Trickling => Followed(<<m>> \o Candidates(p, n), A, B)
         /\ Candidate(n) \notin B => Never(<<m>> \o Candidates(p, n), A, B)
<1> DEFINE c == Candidates(p, n)
           one == <<m>>
<1>1. Candidate(n) \in Message
  BY MessagesAre
<1>2. c = IF p \in Trickling THEN <<Candidate(n)>> ELSE << >>
  BY DEF Candidates
<1>3. one \in Seq(Message) /\ c \in Seq(Message)
  BY <1>1, <1>2
<1>4. /\ Carries(one, A) <=> m \in A
      /\ Carries(one, B) <=> m \in B
      /\ Within(one, A) <=> m \in A
      /\ Followed(one, A, B) <=> (m \in A => m \in B)
      /\ Never(one, A, B)
  BY OneIn
<1>5. /\ Carries(c, A) <=> p \in Trickling /\ Candidate(n) \in A
      /\ Carries(c, B) <=> p \in Trickling /\ Candidate(n) \in B
      /\ Candidate(n) \in A => Within(c, A)
      /\ Followed(c, A, B) <=> (p \in Trickling /\ Candidate(n) \in A => Candidate(n) \in B)
      /\ Never(c, A, B)
  BY <1>2, OneIn, NothingIn
<1> HIDE DEF c, one
<1>6. /\ one \o c \in Seq(Message)
      /\ Carries(one \o c, A) <=> Carries(one, A) \/ Carries(c, A)
      /\ Within(one \o c, A) <=> Within(one, A) /\ Within(c, A)
      /\ Followed(one, A, B) /\ Followed(c, A, B) => Followed(one \o c, A, B)
      /\ Never(one, A, B) /\ Never(c, A, B) /\ ~(Carries(one, A) /\ Carries(c, B)) => Never(one \o c, A, B)
      /\ Carries(c, B) => Followed(one \o c, A, B) \/ ~Followed(c, A, B)
  BY <1>3, Concatenation
<1>7. QED
  BY <1>4, <1>5, <1>6 DEF c, one

LEMMA WhatMessagesSay ==
  /\ \A a \in Actions : Msg(a) \in Message /\ Msg(a).action = a /\ Msg(a).n = 0 /\ Msg(a).re = 0
  /\ \A n \in Serials : /\ Candidate(n) \in Message /\ Candidate(n).action = "candidate"
                        /\ Candidate(n).n = n /\ Candidate(n).re = 0
  /\ \A n \in Serials, h \in SUBSET Kinds :
        /\ Offer(n, h) \in Message /\ Offer(n, h).action = "offer"
        /\ Offer(n, h).n = n /\ Offer(n, h).re = 0 /\ Offer(n, h).has = h
  /\ \A n, r \in Serials : /\ AnswerTo(n, r) \in Message /\ AnswerTo(n, r).action = "answer"
                           /\ AnswerTo(n, r).n = n /\ AnswerTo(n, r).re = r
BY MessagesAre DEF Msg, Candidate, Offer, AnswerTo

LEMMA SayWhere ==
  ASSUME NEW k \in Nat, NEW n \in Nat
  PROVE  /\ \A a \in Actions \ {"offer", "answer"} : Msg(a) \in Spoken(k, n) /\ Msg(a) \in Told(k, n)
         /\ \A i \in Serials : Candidate(i) \in Spoken(k, n) /\ Candidate(i) \in Told(k, n)
         /\ \A i \in Serials, h \in SUBSET Kinds :
               /\ i <= k => Offer(i, h) \in Spoken(k, n)
               /\ i \in 1..n => Offer(i, h) \in Told(k, n)
         /\ \A i, r \in Serials :
               /\ i <= k /\ r \in 1..n => AnswerTo(i, r) \in Spoken(k, n)
               /\ i \in 1..n /\ r <= k => AnswerTo(i, r) \in Told(k, n)
BY WhatMessagesSay DEF Spoken, Told

LEMMA NextCounts ==
  ASSUME Typed', NEW p \in Pages
  PROVE  made'[p] \in Nat /\ peer'[p].n \in Nat
BY PCFields, Numbers, Zenon DEF Typed, PageTyped, PeersTyped

LEMMA SendsWithin ==
  ASSUME Inductive, Inductive', NEW p \in Pages, Numbered(p), PageActs(p), made[p] <= made'[p],
         NEW ms \in Seq(Message), Send(p, ms), Within(ms, ToServer(p)')
  PROVE  Within(toServer'[p], ToServer(p)')
<1>1. Within(toServer[p], ToServer(p)')
  BY StillToServer
<1>2. toServer[p] \in Seq(Message)
  BY Queues DEF Inductive
<1>3. Within(toServer[p] \o ms, ToServer(p)')
  BY <1>1, <1>2, Concatenation, Zenon
<1>4. QED
  BY <1>1, <1>3, SendDoes, Zenon DEF Inductive

(* Steps that clear the peer connection of the page or leave it alone.     *)
LEMMA ClearedNumbers ==
  ASSUME Inductive, Inductive', NEW p \in Pages, Numbered(p), PageActs(p), UNCHANGED made,
         pc'[p] = Null \/ UNCHANGED <<pc, pending>>,
         \A s \in shares'[p] : s \in shares[p] \/ s.n = 0
  PROVE  PageNumbers(p)'
BY ServerUnchanged, Counts, NullFields DEF Inductive, PageActs, Numbered, PageNumbers

LEMMA SameMade == 
  ASSUME Inductive, NEW p \in Pages, made'[p] = made[p]
  PROVE  made[p] <= made'[p]
BY Counts DEF Inductive

LEMMA OpenNumbered ==
  ASSUME Inductive, Inductive', NEW p \in Pages, Numbered(p), OnOpen(p)
  PROVE  Numbered(p)'
<1>1. PageActs(p) /\ UNCHANGED <<made, pc, pending, shares, toPage>> /\ toServer'[p] = <<Msg("join")>>
  BY OpenDoes DEF Inductive
<1>2. PageNumbers(p)'
  BY <1>1, ClearedNumbers
<1>3. Msg("join") \in ToServer(p)'
  BY NextCounts, SayWhere, Zenon DEF Inductive, Actions, ToServer
<1>4. Within(toServer'[p], ToServer(p)')
  BY <1>1, <1>3, OneIn
<1>5. QED
  BY <1>1, <1>2, <1>4, PageCounts, SameMade

LEMMA CloseNumbered ==
  ASSUME Inductive, Inductive', NEW p \in Pages, Numbered(p), OnClose(p)
  PROVE  Numbered(p)'
BY CloseDoes, ClearedNumbers, NothingIn, PageCounts, SameMade DEF Inductive

LEMMA TakenNumbered ==
  ASSUME Inductive, Inductive', NEW p \in Pages, Numbered(p), OnTaken(p)
  PROVE  Numbered(p)'
BY TakenDoes, ClearedNumbers, NothingIn, PageCounts, SameMade DEF Inductive

(* A step that sends nothing, or something that is no description.         *)
LEMMA ClearingNumbered ==
  ASSUME Inductive, Inductive', NEW p \in Pages, Numbered(p), PageActs(p), UNCHANGED made,
         pc'[p] = Null \/ UNCHANGED <<pc, pending>>,
         \A s \in shares'[p] : s \in shares[p] \/ s.n = 0,
         \/ toServer'[p] = toServer[p]
         \/ \E a \in Actions \ {"offer", "answer"} : Send(p, <<Msg(a)>>),
         toPage'[p] = toPage[p] \/ \E a : OnMessage(p, a)
  PROVE  Numbered(p)'
<1>1. made[p] <= made'[p]
  BY SameMade
<1>2. PageNumbers(p)'
  BY ClearedNumbers
<1>3. Within(toServer'[p], ToServer(p)')
  <2>1. CASE toServer'[p] = toServer[p]
    BY <1>1, <2>1, StillToServer
  <2>2. ASSUME NEW a \in Actions \ {"offer", "answer"}, Send(p, <<Msg(a)>>)
        PROVE  Within(toServer'[p], ToServer(p)')
    <3>1. Msg(a) \in ToServer(p)' /\ Msg(a) \in Message
      BY NextCounts, SayWhere, MessagesAre DEF Inductive, ToServer
    <3>2. Within(<<Msg(a)>>, ToServer(p)') /\ <<Msg(a)>> \in Seq(Message)
      BY <3>1, OneIn
    <3>3. QED
      BY <1>1, <2>2, <3>2, SendsWithin, Zenon
  <2>3. QED
    BY <2>1, <2>2, Zenon
<1>4. toPage'[p] \in {toPage[p], << >>} \/ (toPage[p] # << >> /\ toPage'[p] = Tail(toPage[p]))
  BY HearDoes DEF Inductive
<1>5. QED
  BY <1>1, <1>2, <1>3, <1>4, PageCounts

LEMMA RequestShareNumbered ==
  ASSUME Inductive, Inductive', NEW p \in Pages, Numbered(p), RequestShare(p)
  PROVE  Numbered(p)'
<1>1. PageActs(p) /\ UNCHANGED <<made, toPage>>
  BY RequestShareDoes DEF Inductive
<1>2. CASE StartShare(p) /\ UNCHANGED toServer
  BY <1>1, <1>2, StartDoes, ClearingNumbered DEF Inductive
<1>3. CASE Send(p, <<Msg("request_publish")>>) /\ UNCHANGED <<pc, pending, shares>>
  BY <1>1, <1>3, ClearingNumbered DEF Actions
<1>4. QED
  BY <1>2, <1>3, RequestShareDoes DEF Inductive

LEMMA ShareFailsNumbered ==
  ASSUME Inductive, Inductive', NEW p \in Pages, Numbered(p), ShareFails(p) \/ ShareHangs(p)
  PROVE  Numbered(p)'
BY ShareFailsDoes, ShareHangsDoes, ClearingNumbered DEF Inductive

LEMMA StopShareNumbered ==
  ASSUME Inductive, Inductive', NEW p \in Pages, Numbered(p), StopShare(p)
  PROVE  Numbered(p)'
BY StopShareDoes, ClearingNumbered DEF Inductive, Actions

LEMMA EndedNumbered ==
  ASSUME Inductive, Inductive', NEW p \in Pages, Numbered(p), OnEnded(p) \/ OnRefused(p) \/ OnPublishOk(p)
  PROVE  Numbered(p)'
<1>1. PageActs(p) /\ UNCHANGED <<made, toServer>> /\ \E a : OnMessage(p, a)
  BY EndedDoes, RefusedDoes, PublishOkDoes DEF Inductive
<1>2. pc'[p] = Null \/ UNCHANGED <<pc, pending>>
  BY EndedDoes, RefusedDoes, PublishOkDoes, StartDoes DEF Inductive
<1>3. \A s \in shares'[p] : s \in shares[p] \/ s.n = 0
  <2>1. CASE OnPublishOk(p)
    BY <2>1, PublishOkDoes, StartDoes DEF Inductive
  <2>2. QED
    BY <2>1, EndedDoes, RefusedDoes DEF Inductive
<1>4. QED
  BY <1>1, <1>2, <1>3, ClearingNumbered

(* Steps that keep the peer connection of the page, or give it a new one   *)
(* with the next number.                                                   *)
LEMMA CapturedNumbered ==
  ASSUME Inductive, Inductive', NEW p \in Pages, Numbered(p), Captured(p)
  PROVE  Numbered(p)'
<1>1. PageActs(p) /\ UNCHANGED <<toServer, toPage, pending>> /\ Typed /\ Typed'
  BY CapturedDoes DEF Inductive
<1>2. UNCHANGED peer
  BY <1>1, ServerUnchanged DEF PageActs
<1>3. made[p] <= made'[p] /\ pc'[p].n <= made'[p]
  BY <1>1, Counts, CapturedDoes DEF Numbered, PageNumbers
<1>4. \A s \in shares'[p] : s.n <= made'[p]
  <2>1. PICK s \in shares[p] : /\ shares'[p] = (shares[p] \ {s}) \cup {[s EXCEPT !.n = pc'[p].n]}
                               /\ [s EXCEPT !.n = pc'[p].n].n = pc'[p].n
    BY <1>1, CapturedDoes
  <2>2. \A t \in shares[p] : t.n <= made'[p]
    BY <1>1, <1>3, Counts, NextCounts DEF Numbered, PageNumbers
  <2>3. QED
    BY <1>3, <2>1, <2>2, Zenon
<1>5. PageNumbers(p)'
  BY <1>1, <1>2, <1>3, <1>4, Counts, CapturedDoes DEF Numbered, PageNumbers
<1>6. Within(toServer'[p], ToServer(p)')
  BY <1>1, <1>3, StillToServer
<1>7. QED
  BY <1>1, <1>3, <1>5, <1>6, PageCounts

LEMMA OfferedNumbered ==
  ASSUME Inductive, Inductive', NEW p \in Pages, Numbered(p), Offered(p)
  PROVE  Numbered(p)'
<1>1. /\ PageActs(p) /\ UNCHANGED <<made, toPage, pending>> /\ Typed /\ Typed'
      /\ pc'[p].n = pc[p].n /\ pc'[p].asked = pc[p].asked /\ pc'[p].remote = pc[p].remote
      /\ pc'[p].state = "offered" /\ Send(p, <<Offer(pc[p].n, {})>> \o Candidates(p, pc[p].n))
      /\ \A s \in shares'[p] : s \in shares[p]
  BY OfferedDoes DEF Inductive
<1>2. UNCHANGED peer
  BY <1>1, ServerUnchanged DEF PageActs
<1>3. made[p] <= made'[p]
  BY <1>1, SameMade
<1>4. PageNumbers(p)'
  BY <1>1, <1>2 DEF Numbered, PageNumbers
<1>5. pc[p].n \in Serials /\ pc[p].n <= made'[p] /\ {} \in SUBSET Kinds
  BY <1>1, PCFields DEF Typed, PageTyped, Numbered, PageNumbers
<1>6. /\ Offer(pc[p].n, {}) \in ToServer(p)' /\ Candidate(pc[p].n) \in ToServer(p)'
      /\ Offer(pc[p].n, {}) \in Message
  BY <1>1, <1>5, NextCounts, SayWhere, MessagesAre DEF ToServer
<1>7. /\ <<Offer(pc[p].n, {})>> \o Candidates(p, pc[p].n) \in Seq(Message)
      /\ Within(<<Offer(pc[p].n, {})>> \o Candidates(p, pc[p].n), ToServer(p)')
  <2> DEFINE m == Offer(pc[p].n, {})
             n == pc[p].n
             A == ToServer(p)'
  <2>1. m \in Message /\ n \in Serials /\ m \in A /\ Candidate(n) \in A
    BY <1>5, <1>6
  <2> HIDE DEF m, n, A
  <2>2. <<m>> \o Candidates(p, n) \in Seq(Message) /\ Within(<<m>> \o Candidates(p, n), A)
    BY <2>1, CandidatesIn, Zenon
  <2>3. QED
    BY <2>2 DEF m, n, A
<1>8. Within(toServer'[p], ToServer(p)')
  BY <1>1, <1>3, <1>7, SendsWithin, Zenon
<1>9. QED
  BY <1>1, <1>3, <1>4, <1>8, PageCounts

LEMMA AnswerNumbered ==
  ASSUME Inductive, Inductive', NEW p \in Pages, Numbered(p), Answer(p)
  PROVE  Numbered(p)'
<1>1. /\ PageActs(p) /\ UNCHANGED <<made, toPage, shares>> /\ Typed /\ Typed'
      /\ pc[p].state = "answering"
      /\ pc'[p].n = pc[p].n /\ pc'[p].asked = 0 /\ pc'[p].remote = pc[p].asked /\ pending'[p] = {}
      /\ pc'[p].state = "stable" /\ Send(p, <<AnswerTo(pc[p].n, pc[p].asked)>> \o Candidates(p, pc[p].n))
  BY AnswerDoes DEF Inductive
<1>2. UNCHANGED peer
  BY <1>1, ServerUnchanged DEF PageActs
<1>3. made[p] <= made'[p]
  BY <1>1, SameMade
<1>4. PageNumbers(p)'
  BY <1>1, <1>2, Counts DEF Numbered, PageNumbers
<1>5. /\ pc[p].n \in Serials /\ pc[p].n <= made'[p] /\ pc[p].asked \in Serials
      /\ pc[p].asked \in 1..peer'[p].n
  BY <1>1, <1>2, PCFields, Counts DEF Typed, PageTyped, Numbered, PageNumbers
<1>6. /\ AnswerTo(pc[p].n, pc[p].asked) \in ToServer(p)' /\ Candidate(pc[p].n) \in ToServer(p)'
      /\ AnswerTo(pc[p].n, pc[p].asked) \in Message
  BY <1>1, <1>5, NextCounts, SayWhere, MessagesAre DEF ToServer
<1>7. /\ <<AnswerTo(pc[p].n, pc[p].asked)>> \o Candidates(p, pc[p].n) \in Seq(Message)
      /\ Within(<<AnswerTo(pc[p].n, pc[p].asked)>> \o Candidates(p, pc[p].n), ToServer(p)')
  BY <1>5, <1>6, CandidatesIn, Zenon
<1>8. Within(toServer'[p], ToServer(p)')
  BY <1>1, <1>3, <1>7, SendsWithin, Zenon
<1>9. QED
  BY <1>1, <1>3, <1>4, <1>8, PageCounts

LEMMA ApplyAnswerNumbered ==
  ASSUME Inductive, Inductive', NEW p \in Pages, Numbered(p), ApplyAnswer(p)
  PROVE  Numbered(p)'
BY ApplyAnswerDoes, ServerUnchanged, SameMade, Counts, StillToServer, PageCounts DEF Inductive,
    PageActs, Numbered, PageNumbers

LEMMA HeardFrom ==
  ASSUME Inductive, NEW p \in Pages, Numbered(p), NEW a, OnMessage(p, a)
  PROVE  /\ Head(toPage[p]) \in ToPage(p) /\ Head(toPage[p]) \in Message /\ Head(toPage[p]).action = a
         /\ toPage[p] # << >> /\ toPage[p] \in Seq(Message) /\ toPage'[p] = Tail(toPage[p])
<1>1. toPage[p] \in Seq(Message) /\ toPage[p] # << >> /\ Head(toPage[p]).action = a
      /\ toPage'[p] = Tail(toPage[p]) /\ Head(toPage[p]) \in Message
  BY HearDoes, Queues DEF Inductive
<1>2. Head(toPage[p]) \in ToPage(p)
  BY <1>1, Removal, Zenon DEF Numbered, UnderWay
<1>3. QED
  BY <1>1, <1>2

LEMMA HandleOfferNumbered ==
  ASSUME Inductive, Inductive', NEW p \in Pages, Numbered(p), HandleOffer(p)
  PROVE  Numbered(p)'
<1>1. /\ PageActs(p) /\ UNCHANGED <<toServer, shares>> /\ Typed /\ Typed' /\ OnMessage(p, "offer")
      /\ made'[p] = made[p] + 1 /\ pc'[p].n = made[p] + 1
      /\ pc'[p].asked = Head(toPage[p]).n /\ pc'[p].remote = 0 /\ pending'[p] = {}
  BY HandleOfferDoes DEF Inductive
<1>2. UNCHANGED peer
  BY <1>1, ServerUnchanged DEF PageActs
<1>3. made[p] \in Nat /\ made[p] <= made'[p] /\ pc'[p].n <= made'[p]
  BY <1>1, Counts
<1>4. Head(toPage[p]).n \in 1..peer[p].n /\ peer[p].n \in Nat
  BY <1>1, HeardFrom, Counts DEF ToPage, Told
<1>5. PageNumbers(p)'
  BY <1>1, <1>2, <1>3, <1>4, Counts DEF Numbered, PageNumbers
<1>6. Within(toServer'[p], ToServer(p)')
  BY <1>1, <1>3, StillToServer
<1>7. QED
  BY <1>1, <1>3, <1>5, <1>6, HeardFrom, PageCounts

LEMMA HandleAnswerNumbered ==
  ASSUME Inductive, Inductive', NEW p \in Pages, Numbered(p), HandleAnswer(p)
  PROVE  Numbered(p)'
<1>1. /\ PageActs(p) /\ UNCHANGED <<made, pending, toServer, shares>> /\ Typed /\ Typed' /\ OnMessage(p, "answer")
  BY HandleAnswerDoes DEF Inductive
<1>2. UNCHANGED peer
  BY <1>1, ServerUnchanged DEF PageActs
<1>3. made[p] <= made'[p]
  BY <1>1, SameMade
<1>4. Head(toPage[p]).n \in 1..peer[p].n /\ peer[p].n \in Nat
  BY <1>1, HeardFrom, Counts DEF ToPage, Told
<1>5. PageNumbers(p)'
  BY <1>1, <1>2, <1>4, HandleAnswerDoes DEF Numbered, PageNumbers
<1>6. Within(toServer'[p], ToServer(p)')
  BY <1>1, <1>3, StillToServer
<1>7. QED
  BY <1>1, <1>3, <1>5, <1>6, HeardFrom, PageCounts

LEMMA HandleCandidateNumbered ==
  ASSUME Inductive, Inductive', NEW p \in Pages, Numbered(p), HandleCandidate(p)
  PROVE  Numbered(p)'
BY HandleCandidateDoes, ServerUnchanged, SameMade, StillToServer, HeardFrom, PageCounts
   DEF Inductive, PageActs, Numbered, PageNumbers

LEMMA PageNumbered ==
  ASSUME Inductive, Inductive', NEW p \in Pages, Numbered(p), Page(p)
  PROVE  Numbered(p)'
BY OpenNumbered, CloseNumbered, RequestShareNumbered, StopShareNumbered, EndedNumbered, TakenNumbered,
   HandleOfferNumbered, HandleAnswerNumbered, HandleCandidateNumbered, AnswerNumbered, ApplyAnswerNumbered,
   CapturedNumbered, OfferedNumbered, ShareFailsNumbered DEF Page, Receive, Settle

(* A step of one page is nothing to the others.                            *)
LEMMA OnlyOnePage ==
  ASSUME Inductive, NEW p \in Pages, Page(p)
  PROVE  PageActs(p)
BY OpenDoes, CloseDoes, RequestShareDoes, StopShareDoes, EndedDoes, RefusedDoes, PublishOkDoes, TakenDoes,
   HandleOfferDoes, HandleAnswerDoes, HandleCandidateDoes, AnswerDoes, ApplyAnswerDoes,
   CapturedDoes, OfferedDoes, ShareFailsDoes, ShareHangsDoes, Zenon DEF Page, Receive, Settle, Inductive

LEMMA PageVarsSame ==
  ASSUME UNCHANGED <<pageVars, pageHistory>>
  PROVE  UNCHANGED <<ws, role, requested, pc, made, pending, shares, stream, captured, canShare, unsent, crossed, overlapped>>
BY DEF pageVars, pcVars, shareVars, pageHistory, shareHistory

LEMMA ServerCounts ==
  ASSUME Inductive, Inductive', NEW p \in Pages, Numbered(p), UNCHANGED <<pageVars, pageHistory>>,
         peer[p].n <= peer'[p].n, ServerNumbers(p)',
         Within(toServer'[p], ToServer(p)'), Within(toPage'[p], ToPage(p)'),
         Within(todo'[Session(p)], ByHandler(p)'), Within(todo'[Negotiation(p)], ByNegotiation(p)'),
         Within(todo'[Callback(p)], ByCallback(p)')
  PROVE  Numbered(p)'
BY PageVarsSame, NextCounts, Counts DEF Inductive, Numbered, PageNumbers, UnderWay

LEMMA ServerWidens ==
  ASSUME Inductive, Inductive', NEW p \in Pages, Numbered(p), UNCHANGED <<pageVars, pageHistory>>,
         peer[p].n <= peer'[p].n
  PROVE  /\ made[p] <= made'[p]
         /\ Within(toServer[p], ToServer(p)') /\ Within(toPage[p], ToPage(p)')
         /\ Within(todo[Session(p)], ByHandler(p)') /\ Within(todo[Negotiation(p)], ByNegotiation(p)')
         /\ Within(todo[Callback(p)], ByCallback(p)')
BY PageVarsSame, SameMade, SetsWiden, Widening DEF Inductive, Numbered, UnderWay

LEMMA TakesWithin ==
  ASSUME Inductive, Inductive', NEW p \in Pages, Numbered(p), NEW a, Take(p, a), peer[p].n <= peer'[p].n
  PROVE  Within(toServer'[p], ToServer(p)')
<1>1. /\ toServer[p] # << >> /\ toServer'[p] = Tail(toServer[p]) /\ UNCHANGED <<pageVars, pageHistory>>
  BY TakeDoes DEF Inductive
<1>2. Within(toServer[p], ToServer(p)') /\ toServer[p] \in Seq(Message)
  BY <1>1, ServerWidens, Queues DEF Inductive
<1>3. QED
  BY <1>1, <1>2, Removal

LEMMA TellsWithin ==
  ASSUME Inductive, Inductive', NEW p \in Pages, Numbered(p), UNCHANGED <<pageVars, pageHistory>>,
         peer[p].n <= peer'[p].n, NEW m \in Message, m \in ToPage(p)', SendJSON(p, m)
  PROVE  Within(toPage'[p], ToPage(p)')
<1>1. Within(toPage[p], ToPage(p)') /\ toPage[p] \in Seq(Message)
  BY ServerWidens, Queues DEF Inductive
<1>2. Within(Append(toPage[p], m), ToPage(p)')
  BY <1>1, Addition, Zenon
<1>3. toPage'[p] \in {toPage[p], Append(toPage[p], m)}
  BY TellDoes DEF Inductive
<1>4. QED
  BY <1>1, <1>2, <1>3, Zenon

LEMMA RepliesWithin ==
  ASSUME Inductive, Inductive', NEW p \in Pages, Numbered(p), UNCHANGED <<pageVars, pageHistory>>,
         peer[p].n <= peer'[p].n, NEW a \in Actions \ {"offer", "answer"}, SendJSON(p, Msg(a))
  PROVE  Within(toPage'[p], ToPage(p)')
BY NextCounts, SayWhere, MessagesAre, TellsWithin DEF Inductive, ToPage

(* The handler refuses.                                                    *)
LEMMA RefusalNumbered ==
  ASSUME Inductive, Inductive', NEW p \in Pages, Numbered(p), NEW b, Take(p, b),
         NEW a \in Actions \ {"offer", "answer"}, SendJSON(p, Msg(a)), Unbothered
  PROVE  Numbered(p)'
BY TakeDoes, Counts, PageVarsSame, TakesWithin, RepliesWithin, ServerWidens, ServerCounts
   DEF Inductive, Unbothered, Numbered, ServerNumbers

LEMMA FreshNumbers ==
  ASSUME Inductive, Inductive', NEW p \in Pages,
         peer'[p].n = peer[p].n + 1, peer'[p].state = "stable", peer'[p].remote = 0, due'[p] # {} => p \in subscribers'
  PROVE  peer[p].n <= peer'[p].n /\ ServerNumbers(p)'
BY Counts, NextCounts DEF Inductive, ServerNumbers

LEMMA JoinNumbered ==
  ASSUME Inductive, Inductive', NEW p \in Pages, Numbered(p), Join(p)
  PROVE  Numbered(p)'
<1>1. Take(p, "join") /\ UNCHANGED <<pageVars, pageHistory>> /\ UNCHANGED todo /\ session[p] = "none"
  BY JoinDoes DEF ServerActs
<1>2. CASE SendJSON(p, Msg(Taken)) /\ Unbothered
  BY <1>1, <1>2, RefusalNumbered DEF Taken, Actions
<1>3. CASE UNCHANGED toPage /\ (\/ NewPC(p, {}) /\ UNCHANGED <<due, subscribers>>
                                \/ NewPC(p, tracks) /\ p \in subscribers')
  BY <1>1, <1>3, NewPCDoes, FreshNumbers, TakesWithin, ServerWidens, ServerCounts DEF Numbered,
      ServerNumbers, Inductive, Typed, RoomTyped
<1>4. QED
  BY <1>2, <1>3, JoinDoes

LEMMA RequestPublishNumbered ==
  ASSUME Inductive, Inductive', NEW p \in Pages, Numbered(p), RequestPublish(p)
  PROVE  Numbered(p)'
<1>1. Take(p, "request_publish") /\ UNCHANGED <<pageVars, pageHistory>> /\ UNCHANGED todo
  BY RequestPublishDoes DEF ServerActs
<1>2. \A a \in {"publish_ok", "live_active", "error"} : a \in Actions \ {"offer", "answer"}
  BY Zenon DEF Actions
<1>3. CASE NewPC(p, {}) /\ SendJSON(p, Msg("publish_ok")) /\ due'[p] = {}
  BY <1>1, <1>2, <1>3, NewPCDoes, FreshNumbers, TakesWithin, RepliesWithin, ServerWidens,
      ServerCounts DEF Inductive
<1>4. QED
  BY <1>1, <1>2, <1>3, RefusalNumbered, RequestPublishDoes

(* What a stop or the departure of a host leaves to do.                    *)
LEMMA OtherInstructionsWithin ==
  ASSUME NEW p \in Pages
  PROVE  /\ \A S \in SUBSET Pages : \A guests \in SetToSeqs(S) :
               /\ Within(Dismiss(guests), ByHandler(p)) /\ Within(Dismiss(guests), ByCallback(p))
               /\ Dismiss(guests) \in Seq(Instruction)
         /\ Within(<<Renew(p)>>, ByHandler(p)) /\ Within(<<Renew(p)>>, ByCallback(p))
         /\ <<Renew(p)>> \in Seq(Instruction)
<1>1. \A i \in Instruction : i.do = "reset" => i \in ByHandler(p) /\ i \in ByCallback(p)
  BY DEF ByHandler, ByCallback
<1>2. Renew(p) \in ByHandler(p) /\ Renew(p) \in ByCallback(p) /\ Renew(p) \in Instruction
  BY InstructionsAre DEF Renew, ByHandler, ByCallback
<1>3. ASSUME NEW S \in SUBSET Pages, NEW guests \in SetToSeqs(S)
      PROVE  /\ Within(Dismiss(guests), ByHandler(p)) /\ Within(Dismiss(guests), ByCallback(p))
             /\ Dismiss(guests) \in Seq(Instruction)
  BY <1>1, Dismissals DEF Within
<1>4. QED
  BY <1>2, <1>3, OneIn

LEMMA StopsWithin ==
  ASSUME Inductive, NEW p \in Pages, StopDone(p, Session(p)) \/ StopDone(p, Callback(p)), Numbered(p)
  PROVE  /\ Within(todo'[Session(p)], ByHandler(p)) /\ Within(todo'[Negotiation(p)], ByNegotiation(p))
         /\ Within(todo'[Callback(p)], ByCallback(p))
<1>1. /\ Within(todo[Session(p)], ByHandler(p)) /\ Within(todo[Negotiation(p)], ByNegotiation(p))
      /\ Within(todo[Callback(p)], ByCallback(p))
  BY DEF Numbered, UnderWay
<1>2. subscribers \in SUBSET Pages
  BY DEF Inductive, Typed, RoomTyped
<1>3. ASSUME NEW guests \in SetToSeqs(subscribers)
      PROVE  /\ Within(Dismiss(guests) \o <<Renew(p)>>, ByHandler(p))
             /\ Within(Dismiss(guests) \o <<Renew(p)>>, ByCallback(p))
  BY <1>2, OtherInstructionsWithin, Concatenation, Zenon
<1>4. ASSUME NEW is, Do(Session(p), is), Within(is, ByHandler(p))
      PROVE  /\ Within(todo'[Session(p)], ByHandler(p)) /\ Within(todo'[Negotiation(p)], ByNegotiation(p))
             /\ Within(todo'[Callback(p)], ByCallback(p))
  BY <1>1, <1>4, DoDoes, GoroutineNames DEF Inductive
<1>5. ASSUME NEW is, Do(Callback(p), is), Within(is, ByCallback(p))
      PROVE  /\ Within(todo'[Session(p)], ByHandler(p)) /\ Within(todo'[Negotiation(p)], ByNegotiation(p))
             /\ Within(todo'[Callback(p)], ByCallback(p))
  BY <1>1, <1>5, DoDoes, GoroutineNames DEF Inductive
<1>6. CASE StopDone(p, Session(p))
  BY <1>1, <1>3, <1>4, <1>6, OtherInstructionsWithin DEF StopDone
<1>7. CASE StopDone(p, Callback(p))
  BY <1>1, <1>3, <1>5, <1>7, OtherInstructionsWithin DEF StopDone
<1>8. QED
  BY <1>6, <1>7

LEMMA StopNumbers ==
  ASSUME Inductive, Inductive', NEW p \in Pages, StopDone(p, Session(p)) \/ StopDone(p, Callback(p)), Numbered(p),
         UNCHANGED <<pageVars, pageHistory>>, UNCHANGED toPage, Within(toServer'[p], ToServer(p)')
  PROVE  Numbered(p)'
<1>1. UNCHANGED <<session, subscribers, peer, due>> /\ UNCHANGED <<ws, made>>
  BY PageVarsSame DEF StopDone
<1>2. peer[p].n <= peer'[p].n /\ made[p] <= made'[p]
  BY <1>1, Counts DEF Inductive
<1>3. ServerNumbers(p)'
  BY <1>1 DEF Numbered, ServerNumbers
<1>4. /\ ByHandler(p) \subseteq ByHandler(p)' /\ ByNegotiation(p) \subseteq ByNegotiation(p)'
      /\ ByCallback(p) \subseteq ByCallback(p)'
  BY <1>2, SetsWiden DEF Inductive
<1>5. /\ Within(todo'[Session(p)], ByHandler(p)') /\ Within(todo'[Negotiation(p)], ByNegotiation(p)')
      /\ Within(todo'[Callback(p)], ByCallback(p)')
  BY <1>4, StopsWithin, Widening
<1>6. QED
  BY <1>2, <1>3, <1>5, ServerWidens, ServerCounts

LEMMA StopNumbered ==
  ASSUME Inductive, Inductive', NEW p \in Pages, Numbered(p), Stop(p)
  PROVE  Numbered(p)'
<1>1. Take(p, "stop") /\ UNCHANGED <<pageVars, pageHistory>>
  BY StopDoes DEF Inductive, ServerActs
<1>2. CASE StopDone(p, Session(p)) /\ UNCHANGED toPage
  BY <1>1, <1>2, Counts, TakesWithin, StopNumbers DEF Inductive, StopDone
<1>3. CASE SendJSON(p, Msg("error")) /\ Unbothered
  BY <1>1, <1>3, RefusalNumbered DEF Actions
<1>4. QED
  BY <1>2, <1>3, StopDoes DEF Inductive

LEMMA FailureNumbered ==
  ASSUME Inductive, Inductive', NEW p \in Pages, Numbered(p), OnConnectionStateChange(p)
  PROVE  Numbered(p)'
<1>1. /\ UNCHANGED <<pageVars, pageHistory>> /\ StopDone(p, Callback(p)) /\ UNCHANGED <<toServer, toPage>>
  BY FailureDoes DEF Inductive, ServerActs
<1>2. peer[p].n <= peer'[p].n
  BY <1>1, Counts DEF Inductive, StopDone
<1>3. QED
  BY <1>1, <1>2, ServerWidens, StopNumbers

LEMMA SpokenNumbers ==
  ASSUME Inductive, NEW p \in Pages, Numbered(p), NEW a, Take(p, a)
  PROVE  /\ Head(toServer[p]) \in Message /\ Head(toServer[p]).action = a
         /\ Head(toServer[p]) \in ToServer(p) /\ Head(toServer[p]).n \in Serials /\ Head(toServer[p]).re \in Serials
         /\ a \in {"offer", "answer"} => Head(toServer[p]).n <= made[p]
         /\ a = "answer" => Head(toServer[p]).re \in 1..peer[p].n
<1>1. toServer[p] # << >> /\ Head(toServer[p]) \in Message /\ Head(toServer[p]).action = a /\ toServer[p] \in Seq(Message)
  BY TakeDoes, Queues DEF Inductive
<1>2. Head(toServer[p]) \in ToServer(p)
  BY <1>1, Removal, Zenon DEF Numbered, UnderWay
<1>3. QED
  BY <1>1, <1>2, MessageFields DEF ToServer, Spoken

LEMMA ServerHandleOfferNumbered ==
  ASSUME Inductive, Inductive', NEW p \in Pages, Numbered(p), ServerHandleOffer(p)
  PROVE  Numbered(p)'
<1>1. /\ Take(p, "offer") /\ UNCHANGED <<pageVars, pageHistory>> /\ UNCHANGED <<session, subscribers, due>>
  BY ServerHandleOfferDoes DEF Inductive, ServerActs
<1>2. CASE /\ session[p] # "none" /\ SetRemote(p, Head(toServer[p])) /\ UNCHANGED toPage
           /\ todo'[Session(p)] = <<Tell(p, AnswerTo(peer[p].n, Head(toServer[p]).n))>>
           /\ todo'[Negotiation(p)] = todo[Negotiation(p)] /\ todo'[Callback(p)] = todo[Callback(p)]
  <2> DEFINE m == Head(toServer[p])
             t == Tell(p, AnswerTo(peer[p].n, m.n))
  <2>1. m \in Message /\ m.n \in Serials /\ m.n <= made[p]
    BY <1>1, SpokenNumbers
  <2>2. /\ peer'[p].n = peer[p].n /\ peer'[p].state = "stable"
        /\ peer'[p].remote = IF peer[p].remote = 0 THEN m.n ELSE peer[p].remote
    BY <1>2, <2>1, SetRemoteDoes DEF Inductive
  <2>3. made' = made /\ peer[p].n <= peer'[p].n /\ peer[p].n \in Nat /\ peer[p].n \in Serials /\ session[p] # "left"
    BY <1>1, <2>2, PageVarsSame, Counts, PCFields, TakeDoes DEF Inductive, Typed, PeersTyped
  <2>4. ServerNumbers(p)'
    BY <1>1, <1>2, <2>1, <2>2, <2>3, Counts DEF Inductive, Numbered, ServerNumbers
  <2>5. Within(todo'[Session(p)], ByHandler(p)')
    <3> DEFINE r == AnswerTo(peer[p].n, m.n)
    <3>1. peer[p].n \in 1..peer[p].n
      BY <1>2, <2>3, TakeDoes, <1>1 DEF Numbered, ServerNumbers, Inductive
    <3>2. peer[p].n \in 1..peer'[p].n /\ m.n <= made'[p] /\ made'[p] \in Nat /\ peer'[p].n \in Nat
      BY <2>1, <2>2, <2>3, <3>1, NextCounts DEF Inductive
    <3>3. r \in ToPage(p)' /\ r \in Message /\ r.action = "answer"
      BY <2>1, <2>3, <3>2, SayWhere, MessagesAre DEF ToPage
    <3> HIDE DEF r, m
    <3>4. Tell(p, r) \in Instruction /\ Tell(p, r).do = "tell" /\ Tell(p, r).page = p /\ Tell(p, r).msg = r
      BY <3>3, InstructionsAre DEF Tell
    <3>5. Tell(p, r) \in ByHandler(p)'
      BY <3>3, <3>4 DEF ByHandler
    <3>6. QED
      BY <1>2, <3>5, OneIn DEF r, m
  <2>6. QED
    BY <1>1, <1>2, <2>3, <2>4, <2>5, TakesWithin, ServerWidens, ServerCounts
<1>3. CASE SendJSON(p, Msg("error")) /\ Unbothered
  BY <1>1, <1>3, RefusalNumbered DEF Actions
<1>4. QED
  BY <1>2, <1>3, ServerHandleOfferDoes DEF Inductive

LEMMA ServerHandleAnswerNumbered ==
  ASSUME Inductive, Inductive', NEW p \in Pages, Numbered(p), ServerHandleAnswer(p)
  PROVE  Numbered(p)'
<1>1. /\ Take(p, "answer") /\ UNCHANGED <<pageVars, pageHistory>> /\ UNCHANGED <<session, subscribers, due, todo>>
  BY ServerHandleAnswerDoes DEF Inductive, ServerActs
<1>2. CASE session[p] # "none" /\ SetRemote(p, Head(toServer[p])) /\ UNCHANGED toPage
  <2> DEFINE m == Head(toServer[p])
  <2>1. m \in Message /\ m.n \in Serials /\ m.n <= made[p]
    BY <1>1, SpokenNumbers
  <2>2. /\ peer'[p].n = peer[p].n /\ peer'[p].state = "stable"
        /\ peer'[p].remote = IF peer[p].remote = 0 THEN m.n ELSE peer[p].remote
    BY <1>2, <2>1, SetRemoteDoes DEF Inductive
  <2>3. made' = made /\ peer[p].n <= peer'[p].n
    BY <1>1, <2>2, PageVarsSame, Counts DEF Inductive
  <2>4. ServerNumbers(p)'
    BY <1>1, <1>2, <2>1, <2>2, <2>3, Counts DEF Inductive, Numbered, ServerNumbers
  <2>5. QED
    BY <1>1, <1>2, <2>3, <2>4, TakesWithin, ServerWidens, ServerCounts
<1>3. CASE SendJSON(p, Msg("error")) /\ Unbothered
  BY <1>1, <1>3, RefusalNumbered DEF Actions
<1>4. QED
  BY <1>2, <1>3, ServerHandleAnswerDoes DEF Inductive

(* Steps that change neither who the peers are nor what is told.           *)
LEMMA SilentNumbered ==
  ASSUME Inductive, Inductive', NEW p \in Pages, Numbered(p), UNCHANGED <<pageVars, pageHistory>>,
         UNCHANGED <<session, subscribers, todo>>, peer'[p].n = peer[p].n, peer'[p].remote = peer[p].remote,
         peer'[p].state = peer[p].state, due'[p] # {} => p \in subscribers,
         UNCHANGED toServer \/ \E a : Take(p, a),
         UNCHANGED toPage \/ SendJSON(p, Candidate(peer[p].n))
  PROVE  Numbered(p)'
<1>1. peer[p].n <= peer'[p].n /\ UNCHANGED made /\ peer[p].n \in Serials
  BY PageVarsSame, Counts, PCFields DEF Inductive, Typed, PeersTyped
<1>2. ServerNumbers(p)'
  BY <1>1 DEF Numbered, ServerNumbers
<1>3. Candidate(peer[p].n) \in Message /\ Candidate(peer[p].n) \in ToPage(p)'
  BY <1>1, NextCounts, SayWhere, MessagesAre DEF Inductive, ToPage
<1>4. Within(toPage'[p], ToPage(p)')
  <2>1. CASE UNCHANGED toPage
    BY <1>1, <2>1, ServerWidens
  <2>2. CASE SendJSON(p, Candidate(peer[p].n))
    <3> DEFINE m == Candidate(peer[p].n)
    <3> HIDE DEF m
    <3>1. QED
      BY <1>1, <1>3, <2>2, TellsWithin DEF m
  <2>3. QED
    BY <2>1, <2>2
<1>5. QED
  BY <1>1, <1>2, <1>4, TakesWithin, ServerWidens, ServerCounts

LEMMA ServerHandleCandidateNumbered ==
  ASSUME Inductive, Inductive', NEW p \in Pages, Numbered(p), ServerHandleCandidate(p)
  PROVE  Numbered(p)'
BY ServerHandleCandidateDoes, SilentNumbered DEF Inductive, ServerActs, Numbered, ServerNumbers

LEMMA OnICECandidateNumbered ==
  ASSUME Inductive, Inductive', NEW p \in Pages, Numbered(p), OnICECandidate(p)
  PROVE  Numbered(p)'
BY CandidateDoes, SilentNumbered DEF Inductive, ServerActs, Numbered, ServerNumbers

LEMMA TrackArrivesNumbered ==
  ASSUME Inductive, Inductive', NEW o \in Pages, NEW k \in Kinds, TrackArrives(o, k), NEW p \in Pages, Numbered(p)
  PROVE  Numbered(p)'
BY TrackDoes, SilentNumbered DEF Inductive, Numbered, ServerNumbers, ServerSame, OfferSame

LEMMA NegotiateNumbered ==
  ASSUME Inductive, Inductive', NEW p \in Pages, Numbered(p), NegotiateSubscriber(p)
  PROVE  Numbered(p)'
<1>1. /\ UNCHANGED <<pageVars, pageHistory>> /\ due[p] # {} /\ UNCHANGED <<toServer, toPage, session, subscribers>>
  BY NegotiateDoes DEF Inductive, ServerActs
<1>2. p \in subscribers /\ session[p] = "subscriber"
  BY <1>1 DEF Inductive, Conversation, SessionsAreMembers, Numbered, ServerNumbers
<1>3. CASE UNCHANGED <<peer, todo>>
  BY <1>1, <1>2, <1>3, SilentNumbered
<1>4. CASE /\ peer'[p].n = peer[p].n /\ peer'[p].state = "offered" /\ peer'[p].remote = peer[p].remote
           /\ todo'[Negotiation(p)] = <<Tell(p, Offer(peer[p].n, peer[p].has))>>
           /\ todo'[Session(p)] = todo[Session(p)] /\ todo'[Callback(p)] = todo[Callback(p)]
  <2> DEFINE r == Offer(peer[p].n, peer[p].has)
  <2>1. made' = made /\ peer[p].n <= peer'[p].n /\ peer[p].n \in Nat /\ peer[p] \in PC
    BY <1>1, <1>4, PageVarsSame, Counts DEF Inductive, Typed, PeersTyped
  <2>2. peer[p].n \in 1..peer'[p].n /\ peer[p].n \in Serials /\ peer[p].has \in SUBSET Kinds /\ made'[p] \in Nat /\ peer'[p].n \in Nat
    BY <1>2, <1>4, <2>1, PCFields, NextCounts DEF Numbered, ServerNumbers, Inductive
  <2>3. ServerNumbers(p)'
    BY <1>1, <1>2, <1>4, <2>1 DEF Numbered, ServerNumbers
  <2>4. r \in ToPage(p)' /\ r \in Message /\ r.action = "offer"
    BY <2>2, SayWhere, MessagesAre DEF ToPage
  <2> HIDE DEF r
  <2>5. Tell(p, r) \in Instruction /\ Tell(p, r).do = "tell" /\ Tell(p, r).page = p /\ Tell(p, r).msg = r
    BY <2>4, InstructionsAre DEF Tell
  <2>6. Tell(p, r) \in ByNegotiation(p)'
    BY <2>4, <2>5 DEF ByNegotiation
  <2>7. Within(todo'[Negotiation(p)], ByNegotiation(p)')
    BY <1>4, <2>6, OneIn DEF r
  <2>8. QED
    BY <1>1, <1>4, <2>1, <2>3, <2>7, ServerWidens, ServerCounts
<1>5. QED
  BY <1>3, <1>4, NegotiateDoes DEF Inductive

AllNumbered == \A p \in Pages : Numbered(p)

LEMMA Owners ==
  ASSUME NEW g \in Goroutines
  PROVE  \E o \in Pages : g \in {Session(o), Negotiation(o), Callback(o)}
BY DEF Goroutines, Session, Negotiation, Callback

(* What is told is told by the handler or the negotiation of that page.    *)
LEMMA TellersAre ==
  ASSUME Inductive, AllNumbered, NEW g \in Goroutines, TellNext(g)
  PROVE  \E p \in Pages : /\ Head(todo[g]).page = p /\ g \in {Session(p), Negotiation(p)}
                          /\ Head(todo[g]).msg \in ToPage(p) /\ Head(todo[g]).msg \in Message
                          /\ g = Session(p) => Head(todo[g]).msg.action = "answer"
                          /\ g = Negotiation(p) => Head(todo[g]).msg.action = "offer"
<1>1. PICK o \in Pages : g \in {Session(o), Negotiation(o), Callback(o)}
  BY Owners
<1>2. Numbered(o)
  BY DEF AllNumbered
<1>3. Step(g, "tell")
  BY DEF TellNext
<1>4. /\ todo[g] # << >> /\ Head(todo[g]) \in Instruction /\ Head(todo[g]).do = "tell" /\ todo[g] \in Seq(Instruction)
  BY <1>3, StepDoes DEF Inductive
<1>5. \A A : Within(todo[g], A) => Head(todo[g]) \in A
  BY <1>4, Removal, Zenon
<1>6. CASE g = Session(o)
  BY <1>2, <1>4, <1>5, <1>6, InstructionFields DEF Numbered, UnderWay, Session, Negotiation,
      ByHandler
<1>7. CASE g = Negotiation(o)
  BY <1>2, <1>4, <1>5, <1>7, InstructionFields DEF Numbered, UnderWay, Session, Negotiation,
      ByNegotiation
<1>8. CASE g = Callback(o)
  BY <1>2, <1>4, <1>5, <1>8 DEF Numbered, UnderWay, ByCallback
<1>9. QED
  BY <1>1, <1>6, <1>7, <1>8

LEMMA TellNextNumbered ==
  ASSUME Inductive, Inductive', AllNumbered, NEW p \in Pages, NEW g \in {Session(p), Negotiation(p)}, TellNext(g),
         Head(todo[g]).page = p, Head(todo[g]).msg \in ToPage(p), Head(todo[g]).msg \in Message
  PROVE  Numbered(p)'
<1> DEFINE m == Head(todo[g]).msg
<1>1. /\ UNCHANGED <<pageVars, pageHistory>> /\ SendJSON(p, m)
      /\ UNCHANGED <<toServer, session, subscribers, peer, due>>
      /\ todo[g] # << >> /\ todo'[g] = Tail(todo[g]) /\ \A f \in Goroutines : f # g => todo'[f] = todo[f]
  BY TellNextDoes DEF Inductive, ServerActs
<1>2. Numbered(p) /\ peer[p].n <= peer'[p].n /\ UNCHANGED made
  BY <1>1, PageVarsSame, Counts DEF AllNumbered, Inductive
<1>3. ServerNumbers(p)'
  BY <1>1, <1>2 DEF Numbered, ServerNumbers
<1>4. m \in ToPage(p)'
  BY <1>2, SetsWiden, ServerWidens, <1>1 DEF Inductive
<1>5. Within(toPage'[p], ToPage(p)')
  BY <1>1, <1>2, <1>4, TellsWithin
<1>6. /\ Within(todo'[Session(p)], ByHandler(p)') /\ Within(todo'[Negotiation(p)], ByNegotiation(p)')
      /\ Within(todo'[Callback(p)], ByCallback(p)')
  <2>1. /\ Within(todo[Session(p)], ByHandler(p)') /\ Within(todo[Negotiation(p)], ByNegotiation(p)')
        /\ Within(todo[Callback(p)], ByCallback(p)')
    BY <1>1, <1>2, ServerWidens
  <2>2. /\ todo[g] \in Seq(Instruction) /\ Session(p) \in Goroutines /\ Negotiation(p) \in Goroutines /\ Callback(p) \in Goroutines
        /\ Callback(p) # Session(p) /\ Callback(p) # Negotiation(p)
    BY Queues, GoroutineNames DEF Inductive, Callback, Session, Negotiation
  <2>3. ASSUME NEW A, Within(todo[g], A) PROVE Within(todo'[g], A)
    <3>1. Within(Tail(todo[g]), A)
      BY <1>1, <2>2, <2>3, Removal, Zenon
    <3>2. QED
      BY <1>1, <3>1
  <2>4. QED
    BY <1>1, <2>1, <2>2, <2>3
<1>7. QED
  BY <1>1, <1>2, <1>3, <1>5, <1>6, ServerWidens, ServerCounts

LEMMA EndNumbered ==
  ASSUME Inductive, Inductive', NEW p \in Pages, Numbered(p), NEW g \in Goroutines, Head(todo[g]).page = p,
         EndSubscriber(g)
  PROVE  Numbered(p)'
<1>1. /\ UNCHANGED <<pageVars, pageHistory>> /\ SendJSON(p, Msg("ended")) /\ TodoSame(p)
      /\ UNCHANGED <<toServer, session, subscribers>>
  BY EndDoes DEF Inductive, ServerActs
<1>2. UNCHANGED made
  BY <1>1, PageVarsSame
<1>3. "ended" \in Actions \ {"offer", "answer"} /\ {} \in SUBSET Kinds
  BY DEF Actions
<1>4. peer[p].n <= peer'[p].n /\ ServerNumbers(p)'
  BY <1>1, <1>2, <1>3, ReplaceDoes, FreshNumbers, Counts, EndDoes DEF Inductive, Numbered,
      ServerNumbers
<1>5. made[p] <= made'[p]
  BY <1>2, SameMade
<1>6. QED
  BY <1>1, <1>3, <1>4, <1>5, RepliesWithin, TodoWithin, ServerWidens, ServerCounts DEF Inductive

LEMMA RenewNumbered ==
  ASSUME Inductive, Inductive', NEW p \in Pages, Numbered(p), NEW g \in Goroutines, Head(todo[g]).page = p,
         ResetPublisherPC(g)
  PROVE  Numbered(p)'
<1>1. /\ UNCHANGED <<pageVars, pageHistory>> /\ TodoSame(p)
      /\ UNCHANGED <<toServer, toPage, session, subscribers, due>>
  BY RenewDoes DEF Inductive, ServerActs
<1>2. UNCHANGED made /\ {} \in SUBSET Kinds
  BY <1>1, PageVarsSame
<1>3. peer[p].n <= peer'[p].n /\ ServerNumbers(p)'
  <2>1. CASE NewPC(p, {}) \/ ReplacePC(p, {})
    BY <1>1, <1>2, <2>1, NewPCDoes, ReplaceDoes, FreshNumbers DEF Numbered, ServerNumbers, Inductive
  <2>2. CASE UNCHANGED peer
    BY <1>1, <1>2, <2>2, Counts DEF Inductive, Numbered, ServerNumbers
  <2>3. QED
    BY <2>1, <2>2, RenewDoes DEF Inductive
<1>4. made[p] <= made'[p]
  BY <1>2, SameMade
<1>5. QED
  BY <1>1, <1>3, <1>4, TodoWithin, ServerWidens, ServerCounts DEF Inductive

LEMMA CleanupNumbered ==
  ASSUME Inductive, Inductive', NEW p \in Pages, Numbered(p), Cleanup(p)
  PROVE  Numbered(p)'
<1>1. /\ UNCHANGED <<pageVars, pageHistory>> /\ UNCHANGED <<toServer, toPage, peer>>
      /\ session'[p] = "left" /\ due'[p] = {}
      /\ \A f \in Goroutines : f # Session(p) => todo'[f] = todo[f]
      /\ UNCHANGED todo \/ \E guests \in SetToSeqs(subscribers) : Do(Session(p), Dismiss(guests))
  BY CleanupDoes DEF Inductive, ServerActs
<1>2. UNCHANGED made /\ peer[p].n <= peer'[p].n
  BY <1>1, PageVarsSame, Counts DEF Inductive
<1>3. ServerNumbers(p)'
  BY <1>1, <1>2 DEF Numbered, ServerNumbers
<1>4. /\ Within(todo[Session(p)], ByHandler(p)') /\ Within(todo[Negotiation(p)], ByNegotiation(p)')
      /\ Within(todo[Callback(p)], ByCallback(p)')
  BY <1>1, <1>2, ServerWidens
<1>5. Within(todo'[Session(p)], ByHandler(p)')
  <2>1. ASSUME NEW guests \in SetToSeqs(subscribers), Do(Session(p), Dismiss(guests))
        PROVE  Within(todo'[Session(p)], ByHandler(p)')
    <3>1. Within(Dismiss(guests), ByHandler(p))
      BY OtherInstructionsWithin, Zenon DEF Inductive, Typed, RoomTyped
    <3>2. ByHandler(p) \subseteq ByHandler(p)'
      BY <1>2, SetsWiden, SameMade DEF Inductive
    <3>3. QED
      BY <2>1, <3>1, <3>2, Widening, DoDoes DEF Inductive
  <2>2. QED
    BY <1>1, <1>4, <2>1
<1>6. /\ Within(todo'[Negotiation(p)], ByNegotiation(p)') /\ Within(todo'[Callback(p)], ByCallback(p)')
  BY <1>1, <1>4, GoroutineNames DEF Session, Negotiation, Callback
<1>7. QED
  BY <1>1, <1>2, <1>3, <1>5, <1>6, ServerWidens, ServerCounts

(* A step is of one page or for it, and leaves the others alone; only a    *)
(* track is for every guest.                                               *)
Elsewhere(q) == PageSame(q) /\ WireSame(q) /\ ServerSame(q) /\ OfferSame(q) /\ TodoSame(q)
Tells(p, g) ==
    /\ TellNext(g) /\ Head(todo[g]).page = p /\ Head(todo[g]).msg \in ToPage(p) /\ Head(todo[g]).msg \in Message
    /\ g = Session(p) => Head(todo[g]).msg.action = "answer"
    /\ g = Negotiation(p) => Head(todo[g]).msg.action = "offer"
StepOf(p) ==
    \/ Page(p) \/ Handle(p) \/ Cleanup(p)
    \/ OnConnectionStateChange(p) \/ NegotiateSubscriber(p) \/ OnICECandidate(p)
    \/ \E g \in {Session(p), Negotiation(p)} : Tells(p, g)
    \/ \E g \in Goroutines : (EndSubscriber(g) \/ ResetPublisherPC(g)) /\ Head(todo[g]).page = p

LEMMA PageElsewhere ==
  ASSUME NEW p \in Pages, PageActs(p), NEW q \in Others(p)
  PROVE  Elsewhere(q)
BY ServerUnchanged DEF PageActs, Others, Elsewhere

LEMMA ServerElsewhere ==
  ASSUME NEW p \in Pages, ServerActs(p), NEW q \in Others(p)
  PROVE  Elsewhere(q)
BY PageUnchanged DEF ServerActs, Elsewhere, Others

LEMMA StepsAreApart ==
  ASSUME Inductive, NEW p \in Pages, StepOf(p), NEW q \in Others(p)
  PROVE  Elsewhere(q)
<1>1. CASE Page(p)
  BY <1>1, OnlyOnePage, PageElsewhere
<1>2. CASE Handle(p)
  BY <1>2, JoinDoes, RequestPublishDoes, StopDoes, ServerHandleOfferDoes, ServerHandleAnswerDoes,
     ServerHandleCandidateDoes, ServerElsewhere DEF Handle, Inductive
<1>3. CASE Cleanup(p) \/ OnConnectionStateChange(p) \/ NegotiateSubscriber(p) \/ OnICECandidate(p)
  BY <1>3, CleanupDoes, FailureDoes, NegotiateDoes, CandidateDoes, ServerElsewhere DEF Inductive
<1>4. ASSUME NEW g \in {Session(p), Negotiation(p)}, Tells(p, g)
      PROVE  Elsewhere(q)
  BY <1>4, TellNextDoes, ServerElsewhere DEF Tells, Inductive
<1>5. ASSUME NEW g \in Goroutines, EndSubscriber(g) \/ ResetPublisherPC(g), Head(todo[g]).page = p
      PROVE  Elsewhere(q)
  BY <1>5, EndDoes, RenewDoes, ServerElsewhere DEF Inductive
<1>6. QED
  BY <1>1, <1>2, <1>3, <1>4, <1>5 DEF StepOf

LEMMA Steps ==
  ASSUME Inductive, AllNumbered, [Next]_vars
  PROVE  \/ \E p \in Pages : StepOf(p)
         \/ \E p \in Pages, k \in Kinds : TrackArrives(p, k)
         \/ UNCHANGED vars
<1>1. ASSUME NEW g \in Goroutines, TellNext(g)
      PROVE  \E p \in Pages : StepOf(p)
  <2>1. PICK p \in Pages : g \in {Session(p), Negotiation(p)} /\ Tells(p, g)
    BY <1>1, TellersAre DEF Tells
  <2>2. QED
    BY <2>1 DEF StepOf
<1>2. ASSUME NEW g \in Goroutines, EndSubscriber(g) \/ ResetPublisherPC(g)
      PROVE  \E p \in Pages : StepOf(p)
  BY <1>2, StepDoes DEF EndSubscriber, ResetPublisherPC, Inductive, StepOf
<1>3. ASSUME NEW p \in Pages, Page(p) \/ Handle(p) \/ OnConnectionStateChange(p) \/ Cleanup(p)
      PROVE  \E q \in Pages : StepOf(q)
  BY <1>3 DEF StepOf
<1>4. ASSUME NEW p \in Pages, Pion(p)
      PROVE  \/ \E q \in Pages : StepOf(q)
             \/ \E q \in Pages, k \in Kinds : TrackArrives(q, k)
  BY <1>4 DEF Pion, StepOf
<1>5. CASE Server
  BY <1>1, <1>2, <1>3, <1>4, <1>5 DEF Server
<1>6. QED
  BY <1>3, <1>5 DEF Next

LEMMA StepNumbered ==
  ASSUME Inductive, Inductive', AllNumbered, NEW p \in Pages, StepOf(p)
  PROVE  Numbered(p)'
<1>1. Numbered(p)
  BY DEF AllNumbered
<1>2. CASE Page(p)
  BY <1>1, <1>2, PageNumbered
<1>3. CASE Handle(p)
  BY <1>1, <1>3, JoinNumbered, RequestPublishNumbered, StopNumbered, ServerHandleOfferNumbered,
     ServerHandleAnswerNumbered, ServerHandleCandidateNumbered DEF Handle
<1>4. CASE Cleanup(p) \/ OnConnectionStateChange(p) \/ NegotiateSubscriber(p) \/ OnICECandidate(p)
  BY <1>1, <1>4, CleanupNumbered, FailureNumbered, NegotiateNumbered, OnICECandidateNumbered
<1>5. ASSUME NEW g \in {Session(p), Negotiation(p)}, Tells(p, g)
      PROVE  Numbered(p)'
  BY <1>5, TellNextNumbered DEF Tells
<1>6. ASSUME NEW g \in Goroutines, EndSubscriber(g) \/ ResetPublisherPC(g), Head(todo[g]).page = p
      PROVE  Numbered(p)'
  BY <1>1, <1>6, EndNumbered, RenewNumbered
<1>7. QED
  BY <1>2, <1>3, <1>4, <1>5, <1>6 DEF StepOf

LEMMA ElsewhereNumbered ==
  ASSUME Inductive, Inductive', NEW q \in Pages, Numbered(q), Elsewhere(q)
  PROVE  Numbered(q)'
BY SameNumbers DEF Inductive, Elsewhere, OfferSame

LEMMA StutterElsewhere == UNCHANGED vars => \A q \in Pages : Elsewhere(q)
<1> SUFFICES ASSUME UNCHANGED vars, NEW q \in Pages PROVE Elsewhere(q)
  OBVIOUS
<1>1. UNCHANGED <<pageVars, pageHistory>> /\ UNCHANGED <<toServer, toPage>> /\ UNCHANGED serverVars
  BY DEF vars
<1>2. QED
  BY <1>1, PageUnchanged, WireUnchanged, ServerUnchanged DEF Elsewhere

LEMMA NumberedInit == Init => AllNumbered
<1> SUFFICES ASSUME Init, NEW p \in Pages PROVE Numbered(p)
  BY DEF AllNumbered
<1>1. UnderWay(p)
  BY GoroutineNames, NothingIn DEF Init, UnderWay
<1>2. pc[p] = Null /\ peer[p] = Null /\ made[p] = 0 /\ shares[p] = {} /\ session[p] = "none" /\ due[p] = {}
  BY DEF Init
<1>3. PageNumbers(p) /\ ServerNumbers(p)
  BY <1>2, NullFields DEF PageNumbers, ServerNumbers
<1>4. QED
  BY <1>1, <1>3 DEF Numbered

LEMMA NumberedNext == Inductive /\ AllNumbered /\ [Next]_vars => AllNumbered'
<1> SUFFICES ASSUME Inductive, AllNumbered, [Next]_vars, NEW q \in Pages PROVE Numbered(q)'
  BY DEF AllNumbered
<1>1. Inductive' /\ Numbered(q)
  BY NextInductive DEF AllNumbered
<1>2. ASSUME NEW p \in Pages, StepOf(p)
      PROVE  Numbered(q)'
  BY <1>1, <1>2, StepNumbered, StepsAreApart, ElsewhereNumbered DEF Others
<1>3. ASSUME NEW p \in Pages, NEW k \in Kinds, TrackArrives(p, k)
      PROVE  Numbered(q)'
  BY <1>1, <1>3, TrackArrivesNumbered
<1>4. CASE UNCHANGED vars
  BY <1>1, <1>4, StutterElsewhere, ElsewhereNumbered
<1>5. QED
  BY <1>2, <1>3, <1>4, Steps

----------------------------------------------------------------------------
(* Candidates *)

Sent(A) == {m \in Message : m.action \in A}
Of(A, n) == {m \in Message : m.action \in A /\ m.n = n}

(* The candidate of a page follows its description, to the server or into  *)
(* its peer connection.                                                    *)
PageTrickles(p) ==
    /\ \A n \in Serials : Followed(toServer[p], Of({"offer", "answer"}, n), Of({"candidate"}, n))
    /\ peer[p].remote # 0 =>
          peer[p].remote \in peer[p].added \/ Carries(toServer[p], Of({"candidate"}, peer[p].remote))

(* The server's is still to be sent, or on its way, or at the page.        *)
Gets(p) ==
    \/ gathered[p] \/ p \in early
    \/ Carries(toPage[p], Of({"candidate"}, peer[p].n)) \/ peer[p].n \in pending[p] \cup pc[p].added
Begun(p) == peer[p].state = "offered" /\ peer[p].remote = 0
Replies(p) == pc[p].n # 0 /\ (pc[p].state = "answering" \/ Carries(toServer[p], Of({"answer"}, pc[p].n)))
FollowsOffer(p) ==
    \/ gathered[p] \/ p \in early
    \/ Followed(toPage[p], Sent({"offer"}), Of({"candidate"}, peer[p].n))
ServerTrickles(p) ==
    /\ Begun(p) => FollowsOffer(p) /\ (todo[Negotiation(p)] # << >> => gathered[p] \/ p \in early)
    /\ Begun(p) /\ Replies(p) => Gets(p)
    /\ pc[p].n # 0 /\ peer[p].remote = pc[p].n => Gets(p)

Trickles(p) == ws[p] = "open" /\ p \in Trickling => PageTrickles(p) /\ ServerTrickles(p)

LEMMA Kinship ==
  ASSUME NEW m \in Message, NEW n \in Serials
  PROVE  /\ m.action \notin {"offer", "answer"} => m \notin Of({"offer", "answer"}, n)
         /\ m.action # "candidate" => m \notin Of({"candidate"}, n)
         /\ m.action # "answer" => m \notin Of({"answer"}, n)
         /\ m.action # "offer" => m \notin Sent({"offer"})
         /\ m.n # n => m \notin Of({"offer", "answer"}, n) /\ m \notin Of({"candidate"}, n) /\ m \notin Of({"answer"}, n)
         /\ m.action = "candidate" /\ m.n = n => m \in Of({"candidate"}, n)
         /\ m.action \in {"offer", "answer"} /\ m.n = n => m \in Of({"offer", "answer"}, n)
         /\ m.action = "answer" /\ m.n = n => m \in Of({"answer"}, n)
         /\ m.action = "offer" => m \in Sent({"offer"})
BY DEF Of, Sent

(* What a page sends leaves no description without its candidate.          *)
LEMMA SendsTrickle ==
  ASSUME Typed, NEW p \in Pages, p \in Trickling, NEW m \in Message, NEW k \in Serials,
         m.action \in {"offer", "answer"} => m.n = k, m.action # "candidate", NEW n \in Serials
  PROVE  /\ Followed(<<m>> \o Candidates(p, k), Of({"offer", "answer"}, n), Of({"candidate"}, n))
         /\ Carries(<<m>> \o Candidates(p, k), Of({"answer"}, n)) <=> m \in Of({"answer"}, n)
         /\ <<m>> \o Candidates(p, k) \in Seq(Message)
<1> DEFINE c == Candidate(k)
           A == Of({"offer", "answer"}, n)
           B == Of({"candidate"}, n)
           C == Of({"answer"}, n)
<1>1. c \in Message /\ c.action = "candidate" /\ c.n = k
  BY WhatMessagesSay
<1>2. c \notin A /\ c \notin C /\ (k = n => c \in B) /\ (m \in A => k = n)
  BY <1>1, Kinship DEF Of
<1> HIDE DEF A, B, C
<1>3. /\ <<m>> \o Candidates(p, k) \in Seq(Message)
      /\ Carries(<<m>> \o Candidates(p, k), C) <=> m \in C \/ (p \in Trickling /\ c \in C)
      /\ c \notin A /\ (m \in A => m \in B) => Followed(<<m>> \o Candidates(p, k), A, B)
      /\ c \in B /\ p \in Trickling => Followed(<<m>> \o Candidates(p, k), A, B)
  BY CandidatesIn
<1>4. Followed(<<m>> \o Candidates(p, k), A, B)
  BY <1>2, <1>3
<1>5. QED
  BY <1>2, <1>3, <1>4 DEF A, B, C

(* A step of the page that sends ms and does not lose its connection.      *)
LEMMA PageStillTrickles ==
  ASSUME Inductive, NEW p \in Pages, PageActs(p), PageTrickles(p),
         \/ toServer'[p] = toServer[p]
         \/ \E ms \in Seq(Message) : /\ toServer'[p] = toServer[p] \o ms
                                     /\ \A n \in Serials : Followed(ms, Of({"offer", "answer"}, n), Of({"candidate"}, n))
  PROVE  PageTrickles(p)'
<1>1. peer' = peer /\ toServer[p] \in Seq(Message) /\ peer[p].remote \in Serials
  BY ServerUnchanged, Queues, PCFields DEF PageActs, Inductive, Typed, PeersTyped
<1>2. CASE toServer'[p] = toServer[p]
  BY <1>1, <1>2 DEF PageTrickles
<1>3. ASSUME NEW ms \in Seq(Message), toServer'[p] = toServer[p] \o ms,
             \A n \in Serials : Followed(ms, Of({"offer", "answer"}, n), Of({"candidate"}, n))
      PROVE  PageTrickles(p)'
  <2>1. ASSUME NEW n \in Serials
        PROVE  /\ Followed(toServer'[p], Of({"offer", "answer"}, n), Of({"candidate"}, n))
               /\ Carries(toServer[p], Of({"candidate"}, n)) => Carries(toServer'[p], Of({"candidate"}, n))
    <3> DEFINE A == Of({"offer", "answer"}, n)
               B == Of({"candidate"}, n)
    <3>1. Followed(toServer[p], A, B) /\ Followed(ms, A, B)
      BY <1>3 DEF PageTrickles
    <3> HIDE DEF A, B
    <3>2. /\ Followed(toServer[p], A, B) /\ Followed(ms, A, B) => Followed(toServer[p] \o ms, A, B)
          /\ Carries(toServer[p] \o ms, B) <=> Carries(toServer[p], B) \/ Carries(ms, B)
      BY <1>1, Concatenation, Zenon
    <3>3. QED
      BY <1>3, <3>1, <3>2 DEF A, B
  <2>2. QED
    BY <1>1, <2>1 DEF PageTrickles
<1>4. QED
  BY <1>2, <1>3

(* A step of the page that keeps its peer connection and what that has.    *)
LEMMA PageStillGets ==
  ASSUME Inductive, NEW p \in Pages, PageActs(p), Gets(p),
         pending[p] \cup pc[p].added \subseteq pending'[p] \cup pc'[p].added,
         \/ toPage'[p] = toPage[p]
         \/ /\ toPage[p] # << >> /\ toPage'[p] = Tail(toPage[p])
            /\ Head(toPage[p]).action = "candidate" => Head(toPage[p]).n \in pending'[p] \cup pc'[p].added
  PROVE  Gets(p)'
<1>1. UNCHANGED <<peer, gathered, early>> /\ toPage[p] \in Seq(Message) /\ peer[p].n \in Serials
  BY ServerUnchanged, Queues, PCFields DEF PageActs, Inductive, Typed, PeersTyped
<1> DEFINE C == Of({"candidate"}, peer[p].n)
<1>2. Carries(toPage[p], C) => Carries(toPage'[p], C) \/ peer[p].n \in pending'[p] \cup pc'[p].added
  <2>1. CASE toPage'[p] = toPage[p]
    BY <2>1
  <2>2. CASE /\ toPage[p] # << >> /\ toPage'[p] = Tail(toPage[p])
             /\ Head(toPage[p]).action = "candidate" => Head(toPage[p]).n \in pending'[p] \cup pc'[p].added
    <3>1. Carries(toPage[p], C) => Head(toPage[p]) \in C \/ Carries(Tail(toPage[p]), C)
      BY <1>1, <2>2, Removal, Zenon
    <3>2. Head(toPage[p]) \in C => Head(toPage[p]).action = "candidate" /\ Head(toPage[p]).n = peer[p].n
      BY DEF Of
    <3>3. QED
      BY <2>2, <3>1, <3>2
  <2>3. QED
    BY <2>1, <2>2
<1>3. QED
  BY <1>1, <1>2 DEF Gets

LEMMA OfferStillFollowed ==
  ASSUME Inductive, NEW p \in Pages, PageActs(p), Begun(p)', ServerTrickles(p),
         toPage'[p] = toPage[p] \/ (toPage[p] # << >> /\ toPage'[p] = Tail(toPage[p]))
  PROVE  FollowsOffer(p)' /\ (todo'[Negotiation(p)] # << >> => gathered'[p] \/ p \in early')
BY ServerUnchanged, Queues, Removal, PCFields DEF PageActs, Inductive, ServerTrickles, Begun, Typed,
    PeersTyped, FollowsOffer

LEMMA PageStillServed ==
  ASSUME Inductive, NEW p \in Pages, PageActs(p), ServerTrickles(p),
         toPage'[p] = toPage[p] \/ (toPage[p] # << >> /\ toPage'[p] = Tail(toPage[p])),
         \/ pc'[p].n = 0
         \/ pc'[p].n = pc[p].n /\ (Gets(p) => Gets(p)') /\ (Replies(p)' => Replies(p))
  PROVE  ServerTrickles(p)'
BY ServerUnchanged, OfferStillFollowed DEF PageActs, ServerTrickles, Replies, Begun

Bears(p) == \* what the page has sent, and what it keeps, when its step is over
    /\ \/ toServer'[p] = toServer[p]
       \/ \E ms \in Seq(Message) : /\ toServer'[p] = toServer[p] \o ms
                                   /\ \A n \in Serials : Followed(ms, Of({"offer", "answer"}, n), Of({"candidate"}, n))
    /\ \/ toPage'[p] = toPage[p]
       \/ /\ toPage[p] # << >> /\ toPage'[p] = Tail(toPage[p])
          /\ Head(toPage[p]).action = "candidate" => Head(toPage[p]).n \in pending'[p] \cup pc'[p].added
    /\ \/ pc'[p].n = 0
       \/ /\ pc'[p].n = pc[p].n
          /\ pending[p] \cup pc[p].added \subseteq pending'[p] \cup pc'[p].added
          /\ Replies(p)' => Replies(p)

LEMMA BearingTrickles ==
  ASSUME Inductive, NEW p \in Pages, PageActs(p), Trickles(p), ws'[p] = "open" => ws[p] = "open",
         ws[p] = "open" /\ p \in Trickling /\ ws'[p] = "open" => Bears(p)
  PROVE  Trickles(p)'
<1> SUFFICES ASSUME ws'[p] = "open", p \in Trickling PROVE PageTrickles(p)' /\ ServerTrickles(p)'
  BY DEF Trickles
<1>1. PageTrickles(p) /\ ServerTrickles(p) /\ Bears(p)
  BY DEF Trickles
<1>2. PageTrickles(p)'
  BY <1>1, PageStillTrickles, Zenon DEF Bears
<1>3. toPage'[p] = toPage[p] \/ (toPage[p] # << >> /\ toPage'[p] = Tail(toPage[p]))
  BY <1>1 DEF Bears
<1>4. pending[p] \cup pc[p].added \subseteq pending'[p] \cup pc'[p].added => (Gets(p) => Gets(p)')
  BY <1>1, PageStillGets DEF Bears
<1>5. ServerTrickles(p)'
  BY <1>1, <1>3, <1>4, PageStillServed DEF Bears
<1>6. QED
  BY <1>2, <1>5

LEMMA OpenTrickles ==
  ASSUME Inductive, NEW p \in Pages, Numbered(p), OnOpen(p)
  PROVE  Trickles(p)'
<1>1. /\ PageActs(p) /\ ws[p] = "connecting" /\ toServer'[p] = <<Msg("join")>>
  BY OpenDoes DEF Inductive
<1>2. peer[p].remote = 0 /\ peer[p].state = "stable" /\ UNCHANGED peer
  BY <1>1, ServerUnchanged DEF PageActs, Inductive, Conversation, SessionsAreMembers, Numbered, ServerNumbers
<1>3. Msg("join") \in Message /\ Msg("join").action = "join"
  BY MessagesAre, Zenon DEF Actions
<1>4. \A n \in Serials : Followed(toServer'[p], Of({"offer", "answer"}, n), Of({"candidate"}, n))
  <2> SUFFICES ASSUME NEW n \in Serials
               PROVE  Followed(toServer'[p], Of({"offer", "answer"}, n), Of({"candidate"}, n))
    OBVIOUS
  <2>1. Msg("join") \notin Of({"offer", "answer"}, n)
    BY <1>3, Kinship
  <2>2. QED
    BY <1>1, <2>1, OneIn
<1>5. QED
  BY <1>2, <1>4 DEF Trickles, PageTrickles, ServerTrickles, Begun

(* A message of the page that describes nothing.                           *)
LEMMA PlainSends ==
  ASSUME Inductive, NEW p \in Pages, ws[p] = "open",
         NEW a \in Actions \ {"offer", "answer", "candidate"}, Send(p, <<Msg(a)>>)
  PROVE  /\ \E ms \in Seq(Message) :
               /\ toServer'[p] = toServer[p] \o ms
               /\ \A n \in Serials : Followed(ms, Of({"offer", "answer"}, n), Of({"candidate"}, n))
         /\ \A n \in Serials : Carries(toServer'[p], Of({"answer"}, n)) => Carries(toServer[p], Of({"answer"}, n))
<1> DEFINE ms == <<Msg(a)>>
<1>1. Msg(a) \in Message /\ Msg(a).action = a
  BY MessagesAre
<1>2. toServer'[p] = toServer[p] \o ms /\ toServer[p] \in Seq(Message)
  BY SendDoes, Queues, Zenon DEF Inductive
<1>3. ms \in Seq(Message)
  BY <1>1
<1>4. ASSUME NEW n \in Serials
      PROVE  /\ Followed(ms, Of({"offer", "answer"}, n), Of({"candidate"}, n))
             /\ ~Carries(ms, Of({"answer"}, n))
  <2>1. Msg(a) \notin Of({"offer", "answer"}, n) /\ Msg(a) \notin Of({"answer"}, n)
    BY <1>1, Kinship
  <2>2. QED
    BY <2>1, OneIn
<1> HIDE DEF ms
<1>5. \A n \in Serials : Carries(toServer'[p], Of({"answer"}, n)) => Carries(toServer[p], Of({"answer"}, n))
  BY <1>2, <1>3, <1>4, CarriedByEither
<1>6. QED
  BY <1>2, <1>3, <1>4, <1>5, Zenon

LEMMA OneSerial ==
  ASSUME Inductive, NEW p \in Pages
  PROVE  pc[p].n \in Serials /\ peer[p].n \in Serials /\ peer[p].remote \in Serials /\ pc[p].asked \in Serials
BY PCFields DEF Inductive, Typed, PageTyped, PeersTyped

LEMMA RequestShareTrickles ==
  ASSUME Inductive, NEW p \in Pages, Trickles(p), RequestShare(p)
  PROVE  Trickles(p)'
<1>1. PageActs(p) /\ UNCHANGED <<ws, toPage>>
  BY RequestShareDoes DEF Inductive
<1> SUFFICES ASSUME ws[p] = "open" PROVE Bears(p)
  BY <1>1, BearingTrickles
<1>2. CASE StartShare(p) /\ UNCHANGED toServer
  BY <1>1, <1>2, StartDoes, NullFields DEF Inductive, Bears
<1>3. CASE Send(p, <<Msg("request_publish")>>) /\ UNCHANGED <<pc, pending, shares>>
  BY <1>1, <1>3, PlainSends, OneSerial DEF Actions, Bears, Replies
<1>4. QED
  BY <1>2, <1>3, RequestShareDoes DEF Inductive

LEMMA StopShareTrickles ==
  ASSUME Inductive, NEW p \in Pages, Trickles(p), StopShare(p)
  PROVE  Trickles(p)'
<1>1. PageActs(p) /\ UNCHANGED <<ws, toPage>> /\ pc'[p] = Null /\ Send(p, <<Msg("stop")>>)
  BY StopShareDoes DEF Inductive
<1> SUFFICES ASSUME ws[p] = "open" PROVE Bears(p)
  BY <1>1, BearingTrickles
<1>2. "stop" \in Actions \ {"offer", "answer", "candidate"}
  BY DEF Actions
<1>3. QED
  BY <1>1, <1>2, PlainSends, NullFields, Zenon DEF Bears

LEMMA FailureTrickles ==
  ASSUME Inductive, NEW p \in Pages, Trickles(p), ShareFails(p) \/ ShareHangs(p)
  PROVE  Trickles(p)'
BY ShareFailsDoes, ShareHangsDoes, NullFields, BearingTrickles DEF Inductive, Bears, Replies

LEMMA HeardTrickles ==
  ASSUME Inductive, NEW p \in Pages, Trickles(p), OnEnded(p) \/ OnRefused(p) \/ OnPublishOk(p)
  PROVE  Trickles(p)'
BY EndedDoes, RefusedDoes, PublishOkDoes, StartDoes, HearDoes, NullFields, BearingTrickles
   DEF Inductive, Bears, Replies

LEMMA OfferedTrickles ==
  ASSUME Inductive, NEW p \in Pages, Trickles(p), Offered(p)
  PROVE  Trickles(p)'
<1>1. /\ PageActs(p) /\ UNCHANGED <<ws, toPage, pending>> /\ pc'[p].n = pc[p].n /\ pc'[p].added = pc[p].added
      /\ pc'[p].state = "offered" /\ Send(p, <<Offer(pc[p].n, {})>> \o Candidates(p, pc[p].n))
  BY OfferedDoes DEF Inductive
<1> SUFFICES ASSUME ws[p] = "open", p \in Trickling PROVE Bears(p)
  BY <1>1, BearingTrickles
<1> DEFINE m == Offer(pc[p].n, {})
           k == pc[p].n
<1>2. k \in Serials /\ m \in Message /\ m.action = "offer" /\ m.n = k
  BY OneSerial, WhatMessagesSay
<1>3. toServer'[p] = toServer[p] \o (<<m>> \o Candidates(p, k)) /\ toServer[p] \in Seq(Message)
  BY <1>1, SendDoes, Queues, Zenon DEF Inductive
<1> HIDE DEF m
<1>4. ASSUME NEW n \in Serials
      PROVE  /\ Followed(<<m>> \o Candidates(p, k), Of({"offer", "answer"}, n), Of({"candidate"}, n))
             /\ Carries(<<m>> \o Candidates(p, k), Of({"answer"}, n)) <=> m \in Of({"answer"}, n)
             /\ <<m>> \o Candidates(p, k) \in Seq(Message)
  BY <1>2, SendsTrickle, Numbers DEF Inductive
<1>5. ~Carries(<<m>> \o Candidates(p, k), Of({"answer"}, k)) /\ <<m>> \o Candidates(p, k) \in Seq(Message)
  BY <1>2, <1>4, Kinship
<1> DEFINE ms == <<m>> \o Candidates(p, k)
<1> HIDE DEF ms
<1>6. Carries(toServer[p] \o ms, Of({"answer"}, k)) => Carries(toServer[p], Of({"answer"}, k))
  BY <1>3, <1>5, CarriedByEither DEF ms
<1>7. Replies(p)' => Replies(p)
  BY <1>1, <1>3, <1>6 DEF Replies, ms
<1>8. QED
  BY <1>1, <1>3, <1>4, <1>5, <1>7, Zenon DEF Bears

LEMMA AnswerTrickles ==
  ASSUME Inductive, NEW p \in Pages, Trickles(p), Answer(p)
  PROVE  Trickles(p)'
<1>1. /\ PageActs(p) /\ UNCHANGED <<ws, toPage>> /\ pc[p].state = "answering" /\ pc'[p].n = pc[p].n
      /\ pc'[p].added = pc[p].added \cup pending[p]
      /\ Send(p, <<AnswerTo(pc[p].n, pc[p].asked)>> \o Candidates(p, pc[p].n))
  BY AnswerDoes DEF Inductive
<1> SUFFICES ASSUME ws[p] = "open", p \in Trickling PROVE Bears(p)
  BY <1>1, BearingTrickles
<1> DEFINE m == AnswerTo(pc[p].n, pc[p].asked)
           k == pc[p].n
<1>2. k \in Serials /\ m \in Message /\ m.action = "answer" /\ m.n = k
  BY OneSerial, WhatMessagesSay
<1>3. toServer'[p] = toServer[p] \o (<<m>> \o Candidates(p, k))
  BY <1>1, SendDoes, Zenon DEF Inductive
<1> HIDE DEF m
<1>4. ASSUME NEW n \in Serials
      PROVE  /\ Followed(<<m>> \o Candidates(p, k), Of({"offer", "answer"}, n), Of({"candidate"}, n))
             /\ <<m>> \o Candidates(p, k) \in Seq(Message)
  BY <1>2, SendsTrickle DEF Inductive
<1>5. <<m>> \o Candidates(p, k) \in Seq(Message)
  BY <1>2, <1>4
<1>6. Replies(p)' => Replies(p)
  BY <1>1 DEF Replies
<1>7. QED
  BY <1>1, <1>3, <1>4, <1>5, <1>6, Zenon DEF Bears

LEMMA ApplyAnswerTrickles ==
  ASSUME Inductive, NEW p \in Pages, Trickles(p), ApplyAnswer(p)
  PROVE  Trickles(p)'
BY ApplyAnswerDoes, BearingTrickles DEF Inductive, Bears, Replies

LEMMA HandleAnswerTrickles ==
  ASSUME Inductive, NEW p \in Pages, Trickles(p), HandleAnswer(p)
  PROVE  Trickles(p)'
BY HandleAnswerDoes, HearDoes, BearingTrickles DEF Inductive, Bears, Replies

LEMMA HandleCandidateTrickles ==
  ASSUME Inductive, NEW p \in Pages, Trickles(p), HandleCandidate(p)
  PROVE  Trickles(p)'
BY HandleCandidateDoes, HearDoes, BearingTrickles DEF Inductive, Bears, Replies

(* A new peer connection of the page has a number nobody has heard of.     *)
LEMMA NewAtPage ==
  ASSUME Inductive, NEW p \in Pages, Numbered(p), PageActs(p), UNCHANGED toServer, pc'[p].n = made[p] + 1
  PROVE  peer'[p].remote # pc'[p].n /\ ~Carries(toServer'[p], Of({"answer"}, pc'[p].n))
<1>1. peer[p].remote <= made[p] /\ peer[p].remote \in Nat /\ made[p] \in Nat /\ peer' = peer
  BY ServerUnchanged, Counts DEF PageActs, Inductive, Numbered, ServerNumbers
<1>2. Within(toServer[p], Spoken(made[p], peer[p].n))
  BY DEF Numbered, UnderWay, ToServer
<1>3. ASSUME NEW m \in Of({"answer"}, made[p] + 1), m \in Spoken(made[p], peer[p].n)
      PROVE  FALSE
  BY <1>1, <1>3 DEF Of, Spoken
<1>4. ~Carries(toServer[p], Of({"answer"}, made[p] + 1))
  BY <1>2, <1>3 DEF Carries, Within
<1>5. QED
  BY <1>1, <1>4

LEMMA CapturedTrickles ==
  ASSUME Inductive, NEW p \in Pages, Numbered(p), Trickles(p), Captured(p)
  PROVE  Trickles(p)'
<1>1. PageActs(p) /\ UNCHANGED <<ws, pending, toServer, toPage>>
  BY CapturedDoes DEF Inductive
<1>2. CASE UNCHANGED pc
  BY <1>1, <1>2, BearingTrickles DEF Bears, Replies
<1>3. CASE pc'[p].n = made[p] + 1 /\ pc'[p].state = "stable"
  <2> SUFFICES ASSUME ws[p] = "open", p \in Trickling PROVE PageTrickles(p)' /\ ServerTrickles(p)'
    BY <1>1 DEF Trickles
  <2>1. PageTrickles(p) /\ ServerTrickles(p)
    BY DEF Trickles
  <2>2. PageTrickles(p)'
    BY <1>1, <2>1, PageStillTrickles
  <2>3. ~Replies(p)' /\ peer'[p].remote # pc'[p].n
    BY <1>1, <1>3, NewAtPage DEF Replies
  <2>4. QED
    BY <1>1, <2>1, <2>2, <2>3, OfferStillFollowed DEF ServerTrickles
<1>4. QED
  BY <1>2, <1>3, CapturedDoes DEF Inductive

LEMMA HandleOfferTrickles ==
  ASSUME Inductive, NEW p \in Pages, Numbered(p), Trickles(p), HandleOffer(p)
  PROVE  Trickles(p)'
<1>1. PageActs(p) /\ UNCHANGED <<ws, toServer>> /\ OnMessage(p, "offer") /\ pc'[p].n = made[p] + 1
  BY HandleOfferDoes DEF Inductive
<1>2. /\ toPage[p] # << >> /\ toPage'[p] = Tail(toPage[p]) /\ toPage[p] \in Seq(Message)
      /\ Head(toPage[p]) \in Message /\ Head(toPage[p]).action = "offer"
  BY <1>1, HearDoes, Queues DEF Inductive
<1> SUFFICES ASSUME ws[p] = "open", p \in Trickling PROVE PageTrickles(p)' /\ ServerTrickles(p)'
  BY <1>1 DEF Trickles
<1>3. PageTrickles(p) /\ ServerTrickles(p)
  BY DEF Trickles
<1>4. PageTrickles(p)'
  BY <1>1, <1>3, PageStillTrickles
<1>5. peer'[p].remote # pc'[p].n
  BY <1>1, NewAtPage
<1>6. Begun(p)' => Gets(p)'
  <2> SUFFICES ASSUME Begun(p)' PROVE Gets(p)'
    OBVIOUS
  <2>1. UNCHANGED <<peer, gathered, early>>
    BY <1>1, ServerUnchanged DEF PageActs
  <2>2. FollowsOffer(p)
    BY <1>3, <2>1 DEF ServerTrickles, Begun
  <2>3. Head(toPage[p]) \in Sent({"offer"}) /\ Head(toPage[p]) \notin Of({"candidate"}, peer[p].n)
    BY <1>2 DEF Sent, Of
  <2>4. Followed(toPage[p], Sent({"offer"}), Of({"candidate"}, peer[p].n))
          => Carries(toPage'[p], Of({"candidate"}, peer[p].n))
    BY <1>2, <2>3, Removal
  <2>5. QED
    BY <2>1, <2>2, <2>4 DEF FollowsOffer, Gets
<1>7. QED
  BY <1>1, <1>2, <1>3, <1>4, <1>5, <1>6, OfferStillFollowed DEF ServerTrickles

LEMMA PageKeepsTrickling ==
  ASSUME Inductive, NEW p \in Pages, Numbered(p), Trickles(p), Page(p)
  PROVE  Trickles(p)'
<1>1. CASE OnClose(p) \/ OnTaken(p)
  BY <1>1, CloseDoes, TakenDoes DEF Inductive, Trickles
<1>2. QED
  BY <1>1, OpenTrickles, RequestShareTrickles, StopShareTrickles, FailureTrickles, HeardTrickles, OfferedTrickles,
     AnswerTrickles, ApplyAnswerTrickles, HandleAnswerTrickles, HandleCandidateTrickles, CapturedTrickles,
     HandleOfferTrickles DEF Page, Receive, Settle

(* What the handler takes is no description or candidate of n that it does *)
(* not use.                                                                *)
LEMMA TakesTrickle ==
  ASSUME Inductive, NEW p \in Pages, NEW a, Take(p, a), PageTrickles(p)
  PROVE  /\ \A n \in Serials : /\ Followed(toServer'[p], Of({"offer", "answer"}, n), Of({"candidate"}, n))
                               /\ Carries(toServer[p], Of({"candidate"}, n))
                                     => \/ Carries(toServer'[p], Of({"candidate"}, n))
                                        \/ a = "candidate" /\ Head(toServer[p]).n = n
                               /\ Carries(toServer'[p], Of({"answer"}, n)) => Carries(toServer[p], Of({"answer"}, n))
         /\ a \in {"offer", "answer"} => Carries(toServer'[p], Of({"candidate"}, Head(toServer[p]).n))
<1>1. /\ toServer[p] # << >> /\ Head(toServer[p]) \in Message /\ Head(toServer[p]).action = a
      /\ toServer'[p] = Tail(toServer[p]) /\ toServer[p] \in Seq(Message)
  BY TakeDoes, Queues DEF Inductive
<1>2. ASSUME NEW n \in Serials
      PROVE  /\ Followed(toServer'[p], Of({"offer", "answer"}, n), Of({"candidate"}, n))
             /\ Carries(toServer[p], Of({"candidate"}, n))
                                     => \/ Carries(toServer'[p], Of({"candidate"}, n))
                                        \/ a = "candidate" /\ Head(toServer[p]).n = n
             /\ Carries(toServer'[p], Of({"answer"}, n)) => Carries(toServer[p], Of({"answer"}, n))
  BY <1>1, Removal, CarriedBehind DEF PageTrickles, Of
<1>3. ASSUME a \in {"offer", "answer"}
      PROVE  Carries(toServer'[p], Of({"candidate"}, Head(toServer[p]).n))
  <2> DEFINE n == Head(toServer[p]).n
             A == Of({"offer", "answer"}, n)
             B == Of({"candidate"}, n)
  <2>1. n \in Serials /\ Head(toServer[p]) \in A /\ Head(toServer[p]) \notin B
    BY <1>1, <1>3, MessageFields DEF Of
  <2>2. Followed(toServer[p], A, B)
    BY <2>1 DEF PageTrickles
  <2> HIDE DEF A, B
  <2>3. Carries(Tail(toServer[p]), B)
    BY <1>1, <2>1, <2>2, Removal
  <2>4. QED
    BY <1>1, <2>3 DEF B
<1>4. QED
  BY <1>2, <1>3

LEMMA HandlerTrickles ==
  ASSUME Inductive, NEW p \in Pages, PageTrickles(p),
         \/ UNCHANGED toServer
         \/ \E a : /\ Take(p, a)
                   /\ a = "candidate" => peer[p].remote = 0 \/ Head(toServer[p]).n \in peer'[p].added,
         peer'[p].remote = 0 \/ (peer'[p].remote = peer[p].remote /\ peer[p].added \subseteq peer'[p].added)
  PROVE  PageTrickles(p)'
<1>1. peer[p].remote \in Serials
  BY OneSerial
<1>2. CASE UNCHANGED toServer
  BY <1>2 DEF PageTrickles
<1>3. ASSUME NEW a, Take(p, a), a = "candidate" => peer[p].remote = 0 \/ Head(toServer[p]).n \in peer'[p].added
      PROVE  PageTrickles(p)'
  BY <1>1, <1>3, TakesTrickle DEF PageTrickles
<1>4. QED
  BY <1>2, <1>3

LEMMA FreshTrickles ==
  ASSUME Inductive, NEW p \in Pages, peer'[p].remote = 0, peer'[p].state = "stable"
  PROVE  ServerTrickles(p)'
BY DEF ServerTrickles, Begun

LEMMA TellsTrickle ==
  ASSUME Inductive, NEW p \in Pages, ws[p] = "open", NEW n \in Serials,
         UNCHANGED toPage \/ \E m \in Message : SendJSON(p, m)
  PROVE  Carries(toPage[p], Of({"candidate"}, n)) => Carries(toPage'[p], Of({"candidate"}, n))
<1>1. toPage[p] \in Seq(Message)
  BY Queues DEF Inductive
<1>2. ASSUME NEW m \in Message, SendJSON(p, m)
      PROVE  Carries(toPage[p], Of({"candidate"}, n)) => Carries(toPage'[p], Of({"candidate"}, n))
  <2>1. toPage'[p] = Append(toPage[p], m)
    BY <1>2, TellDoes DEF Inductive
  <2>2. Carries(Append(toPage[p], m), Of({"candidate"}, n)) <=> Carries(toPage[p], Of({"candidate"}, n)) \/ m \in Of({"candidate"}, n)
    BY <1>1, CarriedAtEnd
  <2>3. QED
    BY <2>1, <2>2
<1>3. QED
  BY <1>2

LEMMA OffersTrickle ==
  ASSUME Inductive, NEW p \in Pages, ws[p] = "open", NEW n \in Serials, NEW m \in Message, SendJSON(p, m),
         (m.action # "offer" /\ Followed(toPage[p], Sent({"offer"}), Of({"candidate"}, n))) \/ m \in Of({"candidate"}, n)
  PROVE  Followed(toPage'[p], Sent({"offer"}), Of({"candidate"}, n))
<1>1. toPage[p] \in Seq(Message)
  BY Queues DEF Inductive
<1>2. toPage'[p] = Append(toPage[p], m)
  BY TellDoes DEF Inductive
<1>3. m.action # "offer" => m \notin Sent({"offer"})
  BY Kinship DEF Sent
<1> DEFINE A == Sent({"offer"})
           B == Of({"candidate"}, n)
<1>4. (m \notin A /\ Followed(toPage[p], A, B)) \/ m \in B
  BY <1>3
<1> HIDE DEF A, B
<1>5. Followed(Append(toPage[p], m), A, B)
  BY <1>1, <1>4, Addition
<1>6. QED
  BY <1>2, <1>5 DEF A, B

(* A step of the server that keeps its peer connection as it is.           *)
LEMMA QuietTrickles ==
  ASSUME Inductive, NEW p \in Pages, ws[p] = "open", ServerTrickles(p), UNCHANGED <<pageVars, pageHistory>>,
         peer'[p].n = peer[p].n, peer'[p].state = peer[p].state, peer'[p].remote = peer[p].remote,
         gathered[p] => gathered'[p], p \in early => p \in early',
         todo'[Negotiation(p)] # << >> => todo[Negotiation(p)] # << >>,
         \/ UNCHANGED toServer
         \/ \E a : Take(p, a) /\ PageTrickles(p),
         \/ UNCHANGED toPage
         \/ \E m \in Message : SendJSON(p, m) /\ (m.action # "offer" \/ todo[Negotiation(p)] # << >>)
  PROVE  ServerTrickles(p)'
<1>1. UNCHANGED <<pc, pending, ws>>
  BY PageVarsSame
<1>2. peer[p].n \in Serials /\ pc[p].n \in Serials
  BY OneSerial
<1>3. Gets(p) => Gets(p)'
  BY <1>1, <1>2, TellsTrickle DEF Gets
<1>4. Replies(p)' => Replies(p)
  BY <1>1, <1>2, TakesTrickle DEF Replies
<1>5. ASSUME Begun(p)
      PROVE  FollowsOffer(p)' /\ (todo'[Negotiation(p)] # << >> => gathered'[p] \/ p \in early')
  <2>1. FollowsOffer(p) /\ (todo[Negotiation(p)] # << >> => gathered[p] \/ p \in early)
    BY <1>5 DEF ServerTrickles
  <2>2. CASE gathered[p] \/ p \in early
    BY <2>2 DEF FollowsOffer
  <2>3. CASE ~(gathered[p] \/ p \in early)
    BY <1>2, <2>1, <2>3, OffersTrickle DEF FollowsOffer
  <2>4. QED
    BY <2>2, <2>3
<1>6. QED
  BY <1>1, <1>3, <1>4, <1>5 DEF ServerTrickles, Begun

LEMMA QuietServerTrickles ==
  ASSUME Inductive, NEW p \in Pages, Trickles(p), UNCHANGED <<pageVars, pageHistory>>,
         peer'[p].n = peer[p].n, peer'[p].state = peer[p].state, peer'[p].remote = peer[p].remote,
         peer[p].added \subseteq peer'[p].added,
         gathered[p] => gathered'[p], p \in early => p \in early',
         todo'[Negotiation(p)] # << >> => todo[Negotiation(p)] # << >>,
         \/ UNCHANGED toServer
         \/ \E a : Take(p, a) /\ (a = "candidate" => peer[p].remote = 0 \/ Head(toServer[p]).n \in peer'[p].added),
         \/ UNCHANGED toPage
         \/ \E m \in Message : SendJSON(p, m) /\ (m.action # "offer" \/ todo[Negotiation(p)] # << >>)
  PROVE  Trickles(p)'
<1> SUFFICES ASSUME ws[p] = "open", p \in Trickling, PageTrickles(p), ServerTrickles(p)
             PROVE  PageTrickles(p)' /\ ServerTrickles(p)'
  BY PageVarsSame DEF Trickles
<1>1. PageTrickles(p)'
  BY HandlerTrickles
<1>2. ServerTrickles(p)'
  BY QuietTrickles
<1>3. QED
  BY <1>1, <1>2

LEMMA FreshServerTrickles ==
  ASSUME Inductive, NEW p \in Pages, Trickles(p), UNCHANGED <<pageVars, pageHistory>>,
         peer'[p].state = "stable", peer'[p].remote = 0,
         \/ UNCHANGED toServer
         \/ \E a \in {"join", "request_publish"} : Take(p, a)
  PROVE  Trickles(p)'
<1> SUFFICES ASSUME ws[p] = "open", p \in Trickling, PageTrickles(p), ServerTrickles(p)
             PROVE  PageTrickles(p)' /\ ServerTrickles(p)'
  BY PageVarsSame DEF Trickles
<1>1. PageTrickles(p)'
  BY HandlerTrickles
<1>2. QED
  BY <1>1, FreshTrickles

LEMMA RefusalTrickles ==
  ASSUME Inductive, NEW p \in Pages, Trickles(p), NEW b, Take(p, b), b # "candidate",
         NEW a \in Actions \ {"offer", "answer"}, SendJSON(p, Msg(a)), Unbothered
  PROVE  Trickles(p)'
BY MessagesAre, TakeDoes, QuietServerTrickles DEF Inductive, Unbothered

LEMMA JoinTrickles ==
  ASSUME Inductive, NEW p \in Pages, Trickles(p), Join(p)
  PROVE  Trickles(p)'
<1>1. Take(p, "join") /\ UNCHANGED <<pageVars, pageHistory>>
  BY JoinDoes DEF ServerActs
<1>2. CASE SendJSON(p, Msg(Taken)) /\ Unbothered
  BY <1>1, <1>2, RefusalTrickles DEF Taken, Actions
<1>3. CASE NewPC(p, {}) \/ NewPC(p, tracks)
  BY <1>1, <1>3, NewPCDoes, FreshServerTrickles DEF Inductive, Typed, RoomTyped
<1>4. QED
  BY <1>2, <1>3, JoinDoes

LEMMA RequestPublishTrickles ==
  ASSUME Inductive, NEW p \in Pages, Trickles(p), RequestPublish(p)
  PROVE  Trickles(p)'
<1>1. Take(p, "request_publish") /\ UNCHANGED <<pageVars, pageHistory>>
  BY RequestPublishDoes DEF ServerActs
<1>2. \A a \in {"publish_ok", "live_active", "error"} : a \in Actions \ {"offer", "answer"}
  BY Zenon DEF Actions
<1>3. CASE NewPC(p, {})
  BY <1>1, <1>3, NewPCDoes, FreshServerTrickles DEF Inductive
<1>4. QED
  BY <1>1, <1>2, <1>3, RefusalTrickles, RequestPublishDoes

LEMMA StopTrickles ==
  ASSUME Inductive, NEW p \in Pages, Trickles(p), Stop(p)
  PROVE  Trickles(p)'
<1>1. Take(p, "stop") /\ UNCHANGED <<pageVars, pageHistory>>
  BY StopDoes DEF Inductive, ServerActs
<1>2. CASE StopDone(p, Session(p)) /\ UNCHANGED toPage
  <2>1. UNCHANGED <<peer, gathered, early>>
    BY <1>2 DEF StopDone
  <2>2. todo'[Negotiation(p)] = todo[Negotiation(p)]
    BY <1>2, DoDoes, GoroutineNames DEF StopDone, Inductive
  <2>3. QED
    BY <1>1, <1>2, <2>1, <2>2, QuietServerTrickles
<1>3. CASE SendJSON(p, Msg("error")) /\ Unbothered
  BY <1>1, <1>3, RefusalTrickles DEF Actions
<1>4. QED
  BY <1>2, <1>3, StopDoes DEF Inductive

LEMMA ConnectionFailureTrickles ==
  ASSUME Inductive, NEW p \in Pages, Trickles(p), OnConnectionStateChange(p)
  PROVE  Trickles(p)'
BY FailureDoes, QuietServerTrickles DEF Inductive, ServerActs, StopDone

(* The remote description gives the server's peer connection a page whose  *)
(* candidate is behind it.                                                 *)
LEMMA DescribedTrickles ==
  ASSUME Inductive, NEW p \in Pages, Numbered(p), NEW a \in {"offer", "answer"}, Take(p, a), PageTrickles(p),
         SetRemote(p, Head(toServer[p]))
  PROVE  PageTrickles(p)'
<1> DEFINE m == Head(toServer[p])
<1>1. m \in Message /\ m.n \in Serials
  BY SpokenNumbers
<1>2. peer'[p].added = peer[p].added /\ peer'[p].remote = IF peer[p].remote = 0 THEN m.n ELSE peer[p].remote
  BY <1>1, SetRemoteDoes DEF Inductive
<1>3. /\ \A n \in Serials : /\ Followed(toServer'[p], Of({"offer", "answer"}, n), Of({"candidate"}, n))
                            /\ Carries(toServer[p], Of({"candidate"}, n)) => Carries(toServer'[p], Of({"candidate"}, n))
      /\ Carries(toServer'[p], Of({"candidate"}, m.n))
  BY TakesTrickle
<1>4. peer[p].remote \in Serials
  BY OneSerial
<1>5. QED
  BY <1>2, <1>3, <1>4 DEF PageTrickles

LEMMA ServerHandleOfferTrickles ==
  ASSUME Inductive, NEW p \in Pages, Numbered(p), Trickles(p), ServerHandleOffer(p)
  PROVE  Trickles(p)'
<1>1. Take(p, "offer") /\ UNCHANGED <<pageVars, pageHistory>> /\ UNCHANGED early
  BY ServerHandleOfferDoes DEF Inductive, ServerActs
<1>2. CASE /\ peer[p].state = "stable" /\ SetRemote(p, Head(toServer[p])) /\ UNCHANGED toPage
           /\ gathered'[p] <=> gathered[p] \/ Gathers(p)
  <2> DEFINE m == Head(toServer[p])
  <2> SUFFICES ASSUME ws[p] = "open", p \in Trickling, PageTrickles(p), ServerTrickles(p)
               PROVE  PageTrickles(p)' /\ ServerTrickles(p)'
    BY <1>1, PageVarsSame DEF Trickles
  <2>1. PageTrickles(p)'
    BY <1>1, <1>2, DescribedTrickles
  <2>2. m \in Message /\ m.n \in Serials
    BY <1>1, SpokenNumbers
  <2>3. /\ peer'[p].n = peer[p].n /\ peer'[p].state = "stable"
        /\ peer'[p].remote = IF peer[p].remote = 0 THEN m.n ELSE peer[p].remote
    BY <1>2, <2>2, SetRemoteDoes DEF Inductive
  <2>4. UNCHANGED <<pc, pending>>
    BY <1>1, PageVarsSame
  <2>5. Gets(p) => Gets(p)'
    BY <1>1, <1>2, <2>3, <2>4 DEF Gets
  <2>6. peer[p].remote = 0 => Gets(p)'
    BY <1>2 DEF Gathers, Gets
  <2>7. QED
    BY <2>1, <2>3, <2>4, <2>5, <2>6 DEF ServerTrickles, Begun
<1>3. CASE SendJSON(p, Msg("error")) /\ Unbothered
  BY <1>1, <1>3, RefusalTrickles DEF Actions
<1>4. QED
  BY <1>2, <1>3, ServerHandleOfferDoes DEF Inductive

LEMMA ServerHandleAnswerTrickles ==
  ASSUME Inductive, NEW p \in Pages, Numbered(p), Trickles(p), ServerHandleAnswer(p)
  PROVE  Trickles(p)'
<1>1. Take(p, "answer") /\ UNCHANGED <<pageVars, pageHistory>> /\ UNCHANGED <<gathered, early>>
  BY ServerHandleAnswerDoes DEF Inductive, ServerActs
<1>2. CASE peer[p].state = "offered" /\ SetRemote(p, Head(toServer[p])) /\ UNCHANGED toPage
  <2> DEFINE m == Head(toServer[p])
  <2> SUFFICES ASSUME ws[p] = "open", p \in Trickling, PageTrickles(p), ServerTrickles(p)
               PROVE  PageTrickles(p)' /\ ServerTrickles(p)'
    BY <1>1, PageVarsSame DEF Trickles
  <2>1. PageTrickles(p)'
    BY <1>1, <1>2, DescribedTrickles
  <2>2. m \in Message /\ m.n \in Serials /\ m.action = "answer"
    BY <1>1, SpokenNumbers
  <2>3. /\ peer'[p].n = peer[p].n /\ peer'[p].state = "stable"
        /\ peer'[p].remote = IF peer[p].remote = 0 THEN m.n ELSE peer[p].remote
    BY <1>2, <2>2, SetRemoteDoes DEF Inductive
  <2>4. UNCHANGED <<pc, pending>>
    BY <1>1, PageVarsSame
  <2>5. Gets(p) => Gets(p)'
    BY <1>1, <1>2, <2>3, <2>4 DEF Gets
  <2>6. peer[p].remote = 0 /\ pc[p].n # 0 /\ m.n = pc[p].n => Gets(p)
    BY <1>1, <1>2, <2>2, TakeDoes, Queues, CarriedBehind DEF Of, Inductive, ServerTrickles, Begun,
        Replies
  <2>7. QED
    BY <2>1, <2>3, <2>4, <2>5, <2>6 DEF ServerTrickles, Begun
<1>3. CASE SendJSON(p, Msg("error")) /\ Unbothered
  BY <1>1, <1>3, RefusalTrickles DEF Actions
<1>4. QED
  BY <1>2, <1>3, ServerHandleAnswerDoes DEF Inductive

LEMMA ServerHandleCandidateTrickles ==
  ASSUME Inductive, NEW p \in Pages, Trickles(p), ServerHandleCandidate(p)
  PROVE  Trickles(p)'
BY ServerHandleCandidateDoes, QuietServerTrickles DEF Inductive, ServerActs

LEMMA NegotiateTrickles ==
  ASSUME Inductive, NEW p \in Pages, Trickles(p), NegotiateSubscriber(p)
  PROVE  Trickles(p)'
<1>1. UNCHANGED <<pageVars, pageHistory>> /\ UNCHANGED <<toServer, toPage, early>>
  BY NegotiateDoes DEF Inductive, ServerActs
<1>2. CASE UNCHANGED <<peer, gathered, todo>>
  BY <1>1, <1>2, QuietServerTrickles
<1>3. CASE /\ peer'[p].n = peer[p].n /\ peer'[p].state = "offered" /\ peer'[p].remote = peer[p].remote
           /\ peer'[p].added = peer[p].added /\ (gathered'[p] <=> gathered[p] \/ Gathers(p))
  <2> SUFFICES ASSUME ws[p] = "open", p \in Trickling, PageTrickles(p), ServerTrickles(p)
               PROVE  PageTrickles(p)' /\ ServerTrickles(p)'
    BY <1>1, PageVarsSame DEF Trickles
  <2>1. PageTrickles(p)'
    BY <1>1, <1>3, HandlerTrickles
  <2>2. UNCHANGED <<pc, pending>>
    BY <1>1, PageVarsSame
  <2>3. Gets(p) => Gets(p)'
    BY <1>1, <1>3, <2>2 DEF Gets
  <2>4. peer[p].remote = 0 => gathered'[p]
    BY <1>3 DEF Gathers
  <2>5. QED
    BY <1>3, <2>1, <2>2, <2>3, <2>4 DEF ServerTrickles, Begun, Gets, FollowsOffer
<1>4. QED
  BY <1>2, <1>3, NegotiateDoes DEF Inductive

LEMMA OnICECandidateTrickles ==
  ASSUME Inductive, NEW p \in Pages, Trickles(p), OnICECandidate(p)
  PROVE  Trickles(p)'
<1> DEFINE m == Candidate(peer[p].n)
<1>1. /\ UNCHANGED <<pageVars, pageHistory>> /\ UNCHANGED <<toServer, peer, todo>> /\ SendJSON(p, m)
      /\ p \in early' <=> p \in early \/ todo[Negotiation(p)] # << >>
  BY CandidateDoes DEF Inductive, ServerActs
<1> SUFFICES ASSUME ws[p] = "open", p \in Trickling, PageTrickles(p), ServerTrickles(p)
             PROVE  PageTrickles(p)' /\ ServerTrickles(p)'
  BY <1>1, PageVarsSame DEF Trickles
<1>2. PageTrickles(p)'
  BY <1>1, HandlerTrickles
<1>3. peer[p].n \in Serials /\ m \in Message /\ m \in Of({"candidate"}, peer[p].n)
  BY OneSerial, WhatMessagesSay DEF Of
<1>4. toPage'[p] = Append(toPage[p], m) /\ toPage[p] \in Seq(Message)
  BY <1>1, TellDoes, Queues DEF Inductive
<1> HIDE DEF m
<1>5. Carries(toPage'[p], Of({"candidate"}, peer[p].n))
  BY <1>3, <1>4, CarriedAtEnd
<1>6. Gets(p)'
  BY <1>1, <1>5 DEF Gets
<1>7. Followed(toPage'[p], Sent({"offer"}), Of({"candidate"}, peer[p].n))
  BY <1>1, <1>3, OffersTrickle
<1>8. QED
  BY <1>1, <1>2, <1>6, <1>7 DEF ServerTrickles, FollowsOffer

LEMMA TellNextTrickles ==
  ASSUME Inductive, NEW p \in Pages, Trickles(p), NEW g \in {Session(p), Negotiation(p)}, Tells(p, g)
  PROVE  Trickles(p)'
<1> DEFINE m == Head(todo[g]).msg
<1>1. /\ UNCHANGED <<pageVars, pageHistory>> /\ SendJSON(p, m) /\ UNCHANGED <<toServer, peer, gathered, early>>
      /\ todo[g] # << >> /\ todo'[g] = Tail(todo[g]) /\ \A f \in Goroutines : f # g => todo'[f] = todo[f]
  BY TellNextDoes DEF Inductive, ServerActs, Tells
<1>2. m \in Message /\ (m.action # "offer" \/ todo[Negotiation(p)] # << >>)
  BY <1>1 DEF Tells
<1>3. todo'[Negotiation(p)] # << >> => todo[Negotiation(p)] # << >>
  BY <1>1, GoroutineNames
<1> HIDE DEF m
<1>4. QED
  BY <1>1, <1>2, <1>3, QuietServerTrickles

LEMMA EndTrickles ==
  ASSUME Inductive, NEW p \in Pages, Trickles(p), NEW g \in Goroutines, Head(todo[g]).page = p,
         EndSubscriber(g) \/ ResetPublisherPC(g)
  PROVE  Trickles(p)'
<1>1. /\ UNCHANGED <<pageVars, pageHistory>> /\ UNCHANGED toServer /\ TodoSame(p)
      /\ UNCHANGED toPage \/ SendJSON(p, Msg("ended"))
  BY EndDoes, RenewDoes DEF Inductive, ServerActs
<1>2. CASE NewPC(p, {}) \/ ReplacePC(p, {})
  BY <1>1, <1>2, NewPCDoes, ReplaceDoes, FreshServerTrickles DEF Inductive
<1>3. CASE UNCHANGED <<peer, gathered, early>>
  BY <1>1, <1>3, MessagesAre, QuietServerTrickles DEF Actions, TodoSame
<1>4. QED
  BY <1>2, <1>3, EndDoes, RenewDoes DEF Inductive

AllTrickle == \A p \in Pages : Trickles(p)

LEMMA StepTrickles ==
  ASSUME Inductive, AllNumbered, NEW p \in Pages, Trickles(p), StepOf(p)
  PROVE  Trickles(p)'
<1>1. Numbered(p)
  BY DEF AllNumbered
<1>2. CASE Page(p)
  BY <1>1, <1>2, PageKeepsTrickling
<1>3. CASE Handle(p)
  BY <1>1, <1>3, JoinTrickles, RequestPublishTrickles, StopTrickles, ServerHandleOfferTrickles,
     ServerHandleAnswerTrickles, ServerHandleCandidateTrickles DEF Handle
<1>4. CASE Cleanup(p)
  BY <1>4, CleanupDoes, PageVarsSame DEF Inductive, ServerActs, Trickles
<1>5. CASE OnConnectionStateChange(p) \/ NegotiateSubscriber(p) \/ OnICECandidate(p)
  BY <1>5, ConnectionFailureTrickles, NegotiateTrickles, OnICECandidateTrickles
<1>6. ASSUME NEW g \in {Session(p), Negotiation(p)}, Tells(p, g)
      PROVE  Trickles(p)'
  BY <1>6, TellNextTrickles
<1>7. ASSUME NEW g \in Goroutines, EndSubscriber(g) \/ ResetPublisherPC(g), Head(todo[g]).page = p
      PROVE  Trickles(p)'
  BY <1>7, EndTrickles
<1>8. QED
  BY <1>2, <1>3, <1>4, <1>5, <1>6, <1>7 DEF StepOf

LEMMA ElsewhereTrickles ==
  ASSUME Inductive, NEW q \in Pages, Trickles(q), PageSame(q), WireSame(q), ServerSame(q), TodoSame(q)
  PROVE  Trickles(q)'
<1> SUFFICES ASSUME ws[q] = "open", q \in Trickling, PageTrickles(q), ServerTrickles(q)
             PROVE  PageTrickles(q)' /\ ServerTrickles(q)'
  BY DEF Trickles, PageSame
<1>1. PageTrickles(q)'
  BY DEF PageTrickles, WireSame, ServerSame
<1>2. (Gets(q)' <=> Gets(q)) /\ (Replies(q)' <=> Replies(q)) /\ (Begun(q)' <=> Begun(q))
  BY DEF Gets, Replies, Begun, PageSame, WireSame, ServerSame
<1>3. FollowsOffer(q)' <=> FollowsOffer(q)
  BY DEF FollowsOffer, WireSame, ServerSame
<1>4. todo'[Negotiation(q)] # << >> => todo[Negotiation(q)] # << >>
  BY DEF TodoSame
<1>5. ServerTrickles(q)'
  BY <1>2, <1>3, <1>4 DEF ServerTrickles, PageSame, ServerSame
<1>6. QED
  BY <1>1, <1>5

LEMMA TricklesNext == Inductive /\ AllNumbered /\ AllTrickle /\ [Next]_vars => AllTrickle'
<1> SUFFICES ASSUME Inductive, AllNumbered, AllTrickle, [Next]_vars, NEW q \in Pages PROVE Trickles(q)'
  BY DEF AllTrickle
<1>1. Trickles(q)
  BY DEF AllTrickle
<1>2. ASSUME NEW p \in Pages, StepOf(p)
      PROVE  Trickles(q)'
  BY <1>1, <1>2, StepTrickles, StepsAreApart, ElsewhereTrickles DEF Others, Elsewhere
<1>3. ASSUME NEW p \in Pages, NEW k \in Kinds, TrackArrives(p, k)
      PROVE  Trickles(q)'
  BY <1>1, <1>3, TrackDoes, PageUnchanged, ElsewhereTrickles DEF Inductive
<1>4. CASE UNCHANGED vars
  BY <1>1, <1>4, StutterElsewhere, ElsewhereTrickles DEF Elsewhere
<1>5. QED
  BY <1>2, <1>3, <1>4, Steps

LEMMA TricklesInit == Init => AllTrickle
BY DEF Init, AllTrickle, Trickles

(* Two ends that have each other's description have each other's           *)
(* candidates (pendingCandidates and flushCandidates of                    *)
(* public/js/webrtc.js, OnICECandidate in pkg/signaling/handler.go): a     *)
(* candidate that comes before the description waits for it, and no        *)
(* replacement, reload or second offer lets one go to another connection.  *)
THEOREM CandidatesArrive == Spec => []CandidatesReach
<1> DEFINE Inv == Inductive /\ AllNumbered /\ AllTrickle
<1>1. Init => Inv
  BY InitInductive, NumberedInit, TricklesInit
<1>2. Inv /\ [Next]_vars => Inv'
  BY NextInductive, NumberedNext, TricklesNext
<1>3. Inv => CandidatesReach
  <2> SUFFICES ASSUME Inv, Quiet, NEW p \in Pages, Linked(p), ws[p] = "open", p \in Trickling
               PROVE  pc[p].n \in peer[p].added /\ (peer[p].n \in pc[p].added \/ p \in early)
    BY DEF CandidatesReach
  <2>1. /\ peer[p].n # 0 /\ peer[p].remote = pc[p].n /\ pc[p].remote = peer[p].n
        /\ toServer[p] = << >> /\ toPage[p] = << >> /\ ~gathered[p]
    BY DEF Linked, Quiet
  <2>2. Numbered(p) /\ PageTrickles(p) /\ ServerTrickles(p)
    BY DEF AllNumbered, AllTrickle, Trickles
  <2>3. pending[p] = {}
    BY <2>1, <2>2 DEF Numbered, PageNumbers
  <2>4. pc[p].n # 0
    BY <2>1, NullFields DEF Inductive, SharesAreAlone
  <2>5. pc[p].n \in peer[p].added
    BY <2>1, <2>2, <2>4, NothingIn DEF PageTrickles
  <2>6. peer[p].n \in pc[p].added \/ p \in early
    BY <2>1, <2>2, <2>3, <2>4, NothingIn DEF ServerTrickles, Gets
  <2>7. QED
    BY <2>5, <2>6
<1> HIDE DEF Inv
<1>4. QED
  BY <1>1, <1>2, <1>3, PTL DEF Spec

----------------------------------------------------------------------------
(* Guests *)

(* A guest shares nothing; one at a time is offered.                       *)
GuestRests(q) ==
    /\ role[q] = "subscriber" =>
          canShare[q] /\ stream[q] = 0 /\ shares[q] = {} /\ pc[q].state \in {"stable", "answering"}
    /\ Carries(toServer[q], Sent({"offer"})) => role[q] = "publisher"
    /\ todo[Negotiation(q)] # << >> => Tail(todo[Negotiation(q)]) = << >>

Answering(n) == {m \in Message : m.action = "answer" /\ m.re = n}
Replacing == Sent({"offer", "ended"})

(* Where the offer of the current peer connection of a guest is.           *)
InTodo(q) == todo[Negotiation(q)] # << >> /\ Head(todo[Negotiation(q)]).msg.n = peer[q].n
InPage(q) == Carries(toPage[q], Of({"offer"}, peer[q].n))
AtPage(q) == pc[q].state = "answering" /\ pc[q].asked = peer[q].n
InServer(q) == Carries(toServer[q], Answering(peer[q].n))
Nowhere(q) == ~InPage(q) /\ ~AtPage(q) /\ ~InServer(q)

(* It was made for the tracks h, and will be made again if there are more. *)
Fits(q, h) == h = peer[q].has \/ due[q] # {}
Misfits(q) == {m \in Of({"offer"}, peer[q].n) : ~Fits(q, m.has)}
Astray(q) == {m \in Answering(peer[q].n) : m.n # pc[q].n}

OfferTold(q) == InTodo(q) /\ Nowhere(q) /\ Fits(q, Head(todo[Negotiation(q)]).msg.has)
OfferSent(q) ==
    /\ todo[Negotiation(q)] = << >> /\ InPage(q) /\ ~AtPage(q) /\ ~InServer(q)
    /\ Never(toPage[q], Of({"offer"}, peer[q].n), Replacing)
    /\ ~Carries(toPage[q], Misfits(q))
OfferTaken(q) ==
    /\ todo[Negotiation(q)] = << >> /\ AtPage(q) /\ ~InServer(q)
    /\ ~Carries(toPage[q], Replacing) /\ Fits(q, pc[q].has)
Shown(q) ==
    /\ todo[Negotiation(q)] = << >> /\ ~Carries(toPage[q], Replacing)
    /\ pc[q].state = "stable" /\ pc[q].remote = peer[q].n /\ Fits(q, pc[q].has)
OfferAnswered(q) ==
    /\ Shown(q) /\ InServer(q) /\ Never(toServer[q], Answering(peer[q].n), Answering(peer[q].n))
    /\ ~Carries(toServer[q], Astray(q))

Unoffered(q) ==
    /\ peer[q].state = "stable" /\ ~InTodo(q) /\ Nowhere(q)
    /\ IF peer[q].remote = 0 THEN Fits(q, {}) ELSE Shown(q) /\ pc[q].n = peer[q].remote
UnderOffer(q) ==
    /\ peer[q].state = "offered"
    /\ OfferTold(q) \/ OfferSent(q) \/ OfferTaken(q) \/ OfferAnswered(q)
GuestServed(q) == ws[q] = "open" => Unoffered(q) \/ UnderOffer(q)

(* Its peer connection has the tracks of the room, or is to be replaced.   *)
ResetDue(q) == \E g \in Goroutines : Carries(todo[g], {Reset(q)})
UpToDate(q) == peer[q].has = tracks \/ ResetDue(q)

Welcome(q) == GuestRests(q) /\ (q \in subscribers \ disturbed => UpToDate(q) /\ GuestServed(q))

----------------------------------------------------------------------------
LEMMA GuestKinship ==
  ASSUME NEW m \in Message, NEW n
  PROVE  /\ m.action # "offer" => m \notin Of({"offer"}, n) /\ m \notin Sent({"offer"})
         /\ m.action \notin {"offer", "ended"} => m \notin Replacing
         /\ m.action \in {"offer", "ended"} => m \in Replacing
         /\ m \in Of({"offer"}, n) => m \in Replacing
         /\ m.n # n => m \notin Of({"offer"}, n)
         /\ m.action = "offer" /\ m.n = n => m \in Of({"offer"}, n)
         /\ m.action # "answer" => m \notin Answering(n)
         /\ m.re # n => m \notin Answering(n)
         /\ m.action = "answer" /\ m.re = n => m \in Answering(n)
BY DEF Of, Sent, Replacing, Answering

(* A guest is connected, takes itself for a guest and shares nothing.      *)
LEMMA GuestsAre ==
  ASSUME Inductive, NEW q \in Pages, q \in subscribers, GuestRests(q), ws[q] = "open"
  PROVE  /\ session[q] = "subscriber" /\ role[q] = "subscriber" /\ publisher # q
         /\ canShare[q] /\ stream[q] = 0 /\ shares[q] = {} /\ pc[q].state \in {"stable", "answering"}
         /\ ~Carries(toServer[q], Sent({"offer"}))
         /\ ~Has(toPage[q], {Taken}) /\ ~Has(toPage[q], {"publish_ok"})
BY DEF Inductive, Conversation, SessionsAreMembers, RolesFollow, GuestRests

LEMMA HasHead ==
  ASSUME NEW q \in Seq(Message), q # << >>, NEW a, Head(q).action = a
  PROVE  Has(q, {a})
BY DEF Has

(* What a step that sends the server no answer to its offer, or takes none *)
(* there, leaves of these.                                                 *)
LEMMA AnswersStay ==
  ASSUME NEW q \in Seq(Message), NEW r, NEW A, NEW B, B \subseteq A,
         \/ r = q
         \/ \E ms \in Seq(Message) : r = q \o ms /\ ~Carries(ms, A)
         \/ q # << >> /\ r = Tail(q) /\ Head(q) \notin A
  PROVE  /\ Carries(r, A) <=> Carries(q, A)
         /\ Never(q, A, A) => Never(r, A, A)
         /\ ~Carries(q, B) => ~Carries(r, B)
<1>1. ASSUME NEW ms \in Seq(Message), r = q \o ms, ~Carries(ms, A)
      PROVE  /\ Carries(r, A) <=> Carries(q, A)
             /\ Never(q, A, A) => Never(r, A, A)
             /\ ~Carries(q, B) => ~Carries(r, B)
  <2>1. Never(ms, A, A) /\ ~Carries(ms, B)
    BY <1>1 DEF Never, Carries
  <2>2. /\ Carries(r, A) <=> Carries(q, A) \/ Carries(ms, A)
        /\ Carries(r, B) <=> Carries(q, B) \/ Carries(ms, B)
    BY <1>1, CarriedByEither
  <2>3. Never(q, A, A) => Never(r, A, A)
    BY <1>1, <2>1, Concatenation
  <2>4. QED
    BY <1>1, <2>1, <2>2, <2>3
<1>2. ASSUME q # << >>, r = Tail(q), Head(q) \notin A
      PROVE  /\ Carries(r, A) <=> Carries(q, A)
             /\ Never(q, A, A) => Never(r, A, A)
             /\ ~Carries(q, B) => ~Carries(r, B)
  BY <1>2, CarriedBehind, Removal
<1>3. QED
  BY <1>1, <1>2, Zenon

(* The same of a step that tells or takes nothing that replaces.           *)
LEMMA OffersStay ==
  ASSUME NEW q \in Seq(Message), NEW r, NEW A, NEW B, NEW C, A \subseteq B, C \subseteq A,
         \/ r = q
         \/ \E m \in Message : r = Append(q, m) /\ m \notin B
         \/ q # << >> /\ r = Tail(q) /\ Head(q) \notin B
  PROVE  /\ Carries(r, A) <=> Carries(q, A)
         /\ Carries(r, B) <=> Carries(q, B)
         /\ Never(q, A, B) => Never(r, A, B)
         /\ ~Carries(q, C) => ~Carries(r, C)
<1>1. ASSUME NEW m \in Message, r = Append(q, m), m \notin B
      PROVE  /\ Carries(r, A) <=> Carries(q, A)
             /\ Carries(r, B) <=> Carries(q, B)
             /\ Never(q, A, B) => Never(r, A, B)
             /\ ~Carries(q, C) => ~Carries(r, C)
  BY <1>1, CarriedAtEnd, Addition
<1>2. ASSUME q # << >>, r = Tail(q), Head(q) \notin B
      PROVE  /\ Carries(r, A) <=> Carries(q, A)
             /\ Carries(r, B) <=> Carries(q, B)
             /\ Never(q, A, B) => Never(r, A, B)
             /\ ~Carries(q, C) => ~Carries(r, C)
  BY <1>2, CarriedBehind, Removal
<1>3. QED
  BY <1>1, <1>2

(* A step that does not concern what the guest is offered.                 *)
LEMMA StillServed ==
  ASSUME Inductive, NEW q \in Pages, Unoffered(q) \/ UnderOffer(q),
         peer'[q].n = peer[q].n, peer'[q].state = peer[q].state, peer'[q].remote = peer[q].remote,
         \A h : Fits(q, h) => Fits(q, h)',
         pc'[q].n = pc[q].n, pc'[q].state = pc[q].state, pc'[q].asked = pc[q].asked,
         pc'[q].remote = pc[q].remote, pc'[q].has = pc[q].has,
         todo'[Negotiation(q)] = todo[Negotiation(q)],
         \/ toServer'[q] = toServer[q]
         \/ \E ms \in Seq(Message) : toServer'[q] = toServer[q] \o ms /\ ~Carries(ms, Answering(peer[q].n))
         \/ toServer[q] # << >> /\ toServer'[q] = Tail(toServer[q]) /\ Head(toServer[q]) \notin Answering(peer[q].n),
         \/ toPage'[q] = toPage[q]
         \/ \E m \in Message : toPage'[q] = Append(toPage[q], m) /\ m \notin Replacing
         \/ toPage[q] # << >> /\ toPage'[q] = Tail(toPage[q]) /\ Head(toPage[q]) \notin Replacing
  PROVE  Unoffered(q)' \/ UnderOffer(q)'
<1> DEFINE A == Answering(peer[q].n)
           O == Of({"offer"}, peer[q].n)
<1>1. toServer[q] \in Seq(Message) /\ toPage[q] \in Seq(Message)
  BY Queues DEF Inductive
<1>2. /\ O \subseteq Replacing /\ Misfits(q) \subseteq O /\ Astray(q) \subseteq A
      /\ Misfits(q)' \subseteq Misfits(q) /\ Astray(q)' = Astray(q)
  BY DEF Of, Sent, Replacing, Misfits, Astray
<1>3. /\ Carries(toServer'[q], A) <=> Carries(toServer[q], A)
      /\ Never(toServer[q], A, A) => Never(toServer'[q], A, A)
      /\ ~Carries(toServer[q], Astray(q)) => ~Carries(toServer'[q], Astray(q))
  <2> DEFINE C == Astray(q)
             s == toServer[q]
             r == toServer'[q]
  <2>1. \/ r = s
        \/ \E ms \in Seq(Message) : r = s \o ms /\ ~Carries(ms, A)
        \/ s # << >> /\ r = Tail(s) /\ Head(s) \notin A
    OBVIOUS
  <2>2. s \in Seq(Message) /\ C \subseteq A
    BY <1>1, <1>2
  <2> HIDE DEF A, C, s, r
  <2>3. /\ Carries(r, A) <=> Carries(s, A)
        /\ Never(s, A, A) => Never(r, A, A)
        /\ ~Carries(s, C) => ~Carries(r, C)
    BY <2>1, <2>2, AnswersStay, Zenon
  <2>4. QED
    BY <2>3 DEF C, s, r
<1>4. /\ Carries(toPage'[q], O) <=> Carries(toPage[q], O)
      /\ Carries(toPage'[q], Replacing) <=> Carries(toPage[q], Replacing)
      /\ Never(toPage[q], O, Replacing) => Never(toPage'[q], O, Replacing)
      /\ ~Carries(toPage[q], Misfits(q)) => ~Carries(toPage'[q], Misfits(q))
  <2> DEFINE B == Replacing
             C == Misfits(q)
             s == toPage[q]
             r == toPage'[q]
  <2>1. \/ r = s
        \/ \E m \in Message : r = Append(s, m) /\ m \notin B
        \/ s # << >> /\ r = Tail(s) /\ Head(s) \notin B
    OBVIOUS
  <2>2. s \in Seq(Message) /\ O \subseteq B /\ C \subseteq O
    BY <1>1, <1>2
  <2> HIDE DEF O, B, C, s, r
  <2>3. /\ Carries(r, O) <=> Carries(s, O)
        /\ Carries(r, B) <=> Carries(s, B)
        /\ Never(s, O, B) => Never(r, O, B)
        /\ ~Carries(s, C) => ~Carries(r, C)
    BY <2>1, <2>2, OffersStay, Zenon
  <2>4. QED
    BY <2>3 DEF B, C, s, r
<1>5. ~Carries(toPage[q], Misfits(q)) => ~Carries(toPage'[q], Misfits(q)')
  BY <1>2, <1>4, Widening
<1>6. (InServer(q)' <=> InServer(q)) /\ (InPage(q)' <=> InPage(q)) /\ (AtPage(q)' <=> AtPage(q))
      /\ (InTodo(q)' <=> InTodo(q)) /\ (Nowhere(q)' <=> Nowhere(q))
  BY <1>3, <1>4 DEF InServer, InPage, AtPage, InTodo, Nowhere
<1>7. Shown(q) => Shown(q)'
  BY <1>4 DEF Shown
<1>8. OfferTold(q) => OfferTold(q)'
  BY <1>6 DEF OfferTold
<1>9. OfferSent(q) => OfferSent(q)'
  BY <1>4, <1>5, <1>6 DEF OfferSent
<1>10. OfferTaken(q) => OfferTaken(q)'
  BY <1>4, <1>6 DEF OfferTaken
<1>11. OfferAnswered(q) => OfferAnswered(q)'
  BY <1>2, <1>3, <1>6, <1>7 DEF OfferAnswered
<1>12. Unoffered(q) => Unoffered(q)'
  BY <1>6, <1>7 DEF Unoffered
<1>13. QED
  BY <1>8, <1>9, <1>10, <1>11, <1>12 DEF UnderOffer

(* What a page sends carries no offer.                                     *)
LEMMA NoOfferSent ==
  ASSUME Inductive, NEW q \in Pages, NEW ms \in Seq(Message), Send(q, ms), ~Carries(ms, Sent({"offer"}))
  PROVE  Carries(toServer'[q], Sent({"offer"})) => Carries(toServer[q], Sent({"offer"}))
<1>1. toServer[q] \in Seq(Message)
  BY Queues DEF Inductive
<1>2. toServer'[q] = toServer[q] \o ms \/ toServer'[q] = toServer[q]
  BY SendDoes DEF Inductive
<1>3. Carries(toServer[q] \o ms, Sent({"offer"})) <=> Carries(toServer[q], Sent({"offer"})) \/ Carries(ms, Sent({"offer"}))
  BY <1>1, CarriedByEither
<1>4. QED
  BY <1>2, <1>3, Zenon

LEMMA PlainIsNoOffer ==
  ASSUME NEW a \in Actions \ {"offer", "answer"}
  PROVE  /\ <<Msg(a)>> \in Seq(Message) /\ ~Carries(<<Msg(a)>>, Sent({"offer"}))
         /\ \A n : ~Carries(<<Msg(a)>>, Answering(n))
<1>1. Msg(a) \in Message /\ Msg(a).action = a
  BY WhatMessagesSay
<1>2. Msg(a) \notin Sent({"offer"}) /\ \A n : Msg(a) \notin Answering(n)
  BY <1>1 DEF Sent, Answering
<1>3. QED
  BY <1>1, <1>2, OneIn

LEMMA AnswerIsNoOffer ==
  ASSUME NEW q \in Pages, NEW n \in Serials, NEW k \in Serials
  PROVE  /\ <<AnswerTo(n, k)>> \o Candidates(q, n) \in Seq(Message)
         /\ ~Carries(<<AnswerTo(n, k)>> \o Candidates(q, n), Sent({"offer"}))
<1>1. /\ AnswerTo(n, k) \in Message /\ AnswerTo(n, k).action = "answer"
      /\ Candidate(n) \in Message /\ Candidate(n).action = "candidate"
  BY WhatMessagesSay
<1>2. AnswerTo(n, k) \notin Sent({"offer"}) /\ Candidate(n) \notin Sent({"offer"})
  BY <1>1 DEF Sent
<1>3. QED
  BY <1>1, <1>2, CandidatesIn

LEMMA PageRests ==
  ASSUME Inductive, NEW q \in Pages, GuestRests(q), Page(q)
  PROVE  GuestRests(q)'
<1> DEFINE O == Sent({"offer"})
<1> USE DEF Inductive
<1>1. todo' = todo
  BY OnlyOnePage DEF PageActs, serverVars
<1>2. ASSUME role[q] = "subscriber"
      PROVE  /\ canShare[q] /\ stream[q] = 0 /\ shares[q] = {} /\ pc[q].state \in {"stable", "answering"}
             /\ ~Carries(toServer[q], O)
  BY <1>2 DEF GuestRests
<1>3. role[q] \in {"publisher", "subscriber"} /\ pc[q].n \in Serials /\ pc[q].asked \in Serials
  BY OneSerial DEF Typed, PageTyped
<1> DEFINE Rest == /\ role'[q] = "subscriber" =>
                        /\ canShare'[q] /\ stream'[q] = 0 /\ shares'[q] = {} /\ pc'[q].state \in {"stable", "answering"}
                        /\ ~Carries(toServer'[q], O)
<1>4. Rest /\ role'[q] \in {"publisher", "subscriber"} => GuestRests(q)'
  BY <1>1 DEF GuestRests
<1>5. CASE role[q] = "publisher" /\ role'[q] = role[q]
  BY <1>4, <1>5
<1> SUFFICES ASSUME role[q] = "subscriber" \/ role'[q] # role[q] PROVE GuestRests(q)'
  BY <1>3, <1>5
<1>6. CASE OnOpen(q)
  BY <1>2, <1>3, <1>4, <1>6, PlainIsNoOffer, OpenDoes DEF Actions
<1>7. CASE OnClose(q)
  BY <1>2, <1>3, <1>4, <1>7, CloseDoes, NothingIn
<1>8. CASE RequestShare(q)
  BY <1>2, <1>3, <1>4, <1>8, RequestShareDoes, PlainIsNoOffer, NoOfferSent DEF Actions
<1>9. CASE Captured(q) \/ Offered(q) \/ ShareFails(q) \/ ShareHangs(q)
  BY <1>2, <1>3, <1>9, CapturedDoes, OfferedDoes, ShareFailsDoes, ShareHangsDoes
<1>10. CASE StopShare(q)
  BY <1>2, <1>3, <1>10, StopShareDoes
<1>11. CASE OnEnded(q)
  BY <1>2, <1>3, <1>4, <1>11, EndedDoes, NullFields
<1>12. CASE OnRefused(q)
  BY <1>2, <1>3, <1>4, <1>12, RefusedDoes
<1>13. CASE OnPublishOk(q)
  BY <1>4, <1>13, PublishOkDoes
<1>14. CASE OnTaken(q)
  BY <1>4, <1>14, TakenDoes, NullFields, NothingIn
<1>15. CASE HandleOffer(q)
  BY <1>2, <1>3, <1>4, <1>15, HandleOfferDoes
<1>16. CASE HandleAnswer(q)
  BY <1>2, <1>3, <1>4, <1>16, HandleAnswerDoes
<1>17. CASE HandleCandidate(q)
  BY <1>2, <1>3, <1>4, <1>17, HandleCandidateDoes
<1>18. CASE Answer(q)
  <2> DEFINE ms == <<AnswerTo(pc[q].n, pc[q].asked)>> \o Candidates(q, pc[q].n)
  <2>1. ms \in Seq(Message) /\ ~Carries(ms, O)
    BY <1>3, AnswerIsNoOffer
  <2>2. /\ Send(q, ms) /\ UNCHANGED <<role, canShare, stream, shares>> /\ pc'[q].state = "stable"
    BY <1>18, AnswerDoes
  <2> HIDE DEF ms
  <2>3. Carries(toServer'[q], O) => Carries(toServer[q], O)
    BY <2>1, <2>2, NoOfferSent
  <2>4. QED
    BY <1>2, <1>3, <1>4, <2>2, <2>3
<1>19. CASE ApplyAnswer(q)
  BY <1>2, <1>3, <1>4, <1>19, ApplyAnswerDoes
<1>20. QED
  BY <1>6, <1>7, <1>8, <1>9, <1>10, <1>11, <1>12, <1>13, <1>14, <1>15, <1>16, <1>17, <1>18, <1>19
  DEF Page, Receive, Settle

(* The page takes "ended".                                                 *)
LEMMA EndedServes ==
  ASSUME Inductive, NEW q \in Pages, Numbered(q), Unoffered(q) \/ UnderOffer(q), OnEnded(q)
  PROVE  Unoffered(q)' \/ UnderOffer(q)'
<1> DEFINE O == Of({"offer"}, peer[q].n)
           m == Head(toPage[q])
<1>1. /\ PageActs(q) /\ OnMessage(q, "ended") /\ pc'[q] = Null /\ UNCHANGED toServer
  BY EndedDoes DEF Inductive
<1>2. m \in Message /\ m.action = "ended" /\ toPage[q] # << >> /\ toPage[q] \in Seq(Message) /\ toPage'[q] = Tail(toPage[q])
  BY <1>1, HeardFrom
<1>3. UNCHANGED <<peer, due, todo>>
  BY <1>1 DEF PageActs, serverVars, peerVars
<1>4. m \in Replacing /\ m \notin O /\ m \notin Misfits(q)
  BY <1>2, GuestKinship, Zenon DEF Misfits
<1>5. /\ Carries(toPage'[q], O) <=> Carries(toPage[q], O)
      /\ Carries(toPage[q], Replacing)
      /\ ~Carries(toPage[q], Misfits(q)) => ~Carries(toPage'[q], Misfits(q))
      /\ Never(toPage[q], O, Replacing) => Never(toPage'[q], O, Replacing)
  BY <1>2, <1>4, CarriedBehind, Removal
<1>6. ~AtPage(q)' /\ (InServer(q)' <=> InServer(q)) /\ (InPage(q)' <=> InPage(q)) /\ (InTodo(q)' <=> InTodo(q))
  BY <1>1, <1>3, <1>5, NullFields DEF AtPage, InServer, InPage, InTodo
<1>7. ~Shown(q) /\ ~OfferTaken(q) /\ ~OfferAnswered(q)
  BY <1>5 DEF Shown, OfferTaken, OfferAnswered
<1>8. OfferTold(q) => OfferTold(q)'
  BY <1>3, <1>6 DEF OfferTold, Nowhere, Fits
<1>9. OfferSent(q) => OfferSent(q)'
  BY <1>3, <1>5, <1>6 DEF Misfits, Fits, OfferSent
<1>10. Unoffered(q) => Unoffered(q)'
  BY <1>3, <1>6, <1>7 DEF Unoffered, Nowhere, Fits
<1>11. QED
  BY <1>3, <1>7, <1>8, <1>9, <1>10 DEF UnderOffer

(* The page takes an offer, of this peer connection or of one before it.   *)
LEMMA HandleOfferServes ==
  ASSUME Inductive, NEW q \in Pages, Numbered(q), Unoffered(q) \/ UnderOffer(q), HandleOffer(q)
  PROVE  Unoffered(q)' \/ UnderOffer(q)'
<1> DEFINE n == peer[q].n
           O == Of({"offer"}, n)
           m == Head(toPage[q])
<1>1. /\ PageActs(q) /\ OnMessage(q, "offer") /\ UNCHANGED toServer
      /\ pc'[q].state = "answering" /\ pc'[q].asked = m.n /\ pc'[q].has = m.has
  BY HandleOfferDoes DEF Inductive
<1>2. m \in Message /\ m.action = "offer" /\ toPage[q] # << >> /\ toPage[q] \in Seq(Message) /\ toPage'[q] = Tail(toPage[q])
  BY <1>1, HeardFrom
<1>3. UNCHANGED <<peer, due, todo>>
  BY <1>1 DEF PageActs, serverVars, peerVars
<1>4. m \in Replacing /\ (m \in O <=> m.n = n)
  BY <1>2, GuestKinship, Zenon
<1>5. /\ Carries(toPage[q], O) <=> m \in O \/ Carries(toPage'[q], O)
      /\ Carries(toPage[q], Replacing)
      /\ Carries(toPage[q], Misfits(q)) <=> m \in Misfits(q) \/ Carries(toPage'[q], Misfits(q))
      /\ Never(toPage[q], O, Replacing) => Never(toPage'[q], O, Replacing)
      /\ Never(toPage[q], O, Replacing) /\ m \in O => ~Carries(toPage'[q], Replacing)
  BY <1>2, <1>4, CarriedBehind, Removal
<1>6. (InServer(q)' <=> InServer(q)) /\ (InPage(q) <=> m.n = n \/ InPage(q)') /\ (InTodo(q)' <=> InTodo(q))
      /\ (AtPage(q)' <=> m.n = n)
  BY <1>1, <1>3, <1>4, <1>5 DEF InServer, InPage, InTodo, AtPage
<1> HIDE DEF m, O, n
<1>7. ~Shown(q) /\ ~OfferTaken(q) /\ ~OfferAnswered(q)
  BY <1>5 DEF Shown, OfferTaken, OfferAnswered
<1>8. OfferTold(q) => OfferTold(q)'
  BY <1>3, <1>6 DEF OfferTold, Nowhere, Fits
<1>9. OfferSent(q) /\ m.n # n => OfferSent(q)'
  BY <1>3, <1>5, <1>6 DEF Misfits, Fits, O, n, OfferSent
<1>10. OfferSent(q) /\ m.n = n => OfferTaken(q)'
  <2> SUFFICES ASSUME OfferSent(q), m.n = n PROVE OfferTaken(q)'
    OBVIOUS
  <2>1. ~Carries(toPage'[q], Replacing)
    BY <1>4, <1>5 DEF OfferSent, O, n
  <2>2. Fits(q, m.has)
    BY <1>4, <1>5 DEF OfferSent, Misfits, O, n
  <2>3. QED
    BY <1>1, <1>3, <1>6, <2>1, <2>2 DEF OfferSent, OfferTaken, Fits, m
<1>11. Unoffered(q) => Unoffered(q)'
  BY <1>3, <1>6, <1>7 DEF Unoffered, Nowhere, Fits
<1>12. QED
  BY <1>3, <1>7, <1>8, <1>9, <1>10, <1>11 DEF UnderOffer

(* The page answers, what it was asked last.                               *)
LEMMA AnswerServes ==
  ASSUME Inductive, NEW q \in Pages, Numbered(q), Unoffered(q) \/ UnderOffer(q), Answer(q), ws[q] = "open"
  PROVE  Unoffered(q)' \/ UnderOffer(q)'
<1> DEFINE n == peer[q].n
           A == Answering(n)
           m == AnswerTo(pc[q].n, pc[q].asked)
           ms == <<m>> \o Candidates(q, pc[q].n)
<1>1. /\ PageActs(q) /\ UNCHANGED toPage /\ pc[q].state = "answering"
      /\ pc'[q].n = pc[q].n /\ pc'[q].state = "stable" /\ pc'[q].has = pc[q].has /\ pc'[q].remote = pc[q].asked
      /\ Send(q, ms)
  BY AnswerDoes DEF Inductive
<1>2. UNCHANGED <<peer, due, todo>>
  BY <1>1 DEF PageActs, serverVars, peerVars
<1>3. pc[q].n \in Serials /\ pc[q].asked \in Serials /\ n \in Serials
  BY OneSerial
<1>4. /\ m \in Message /\ m.action = "answer" /\ m.n = pc[q].n /\ m.re = pc[q].asked
      /\ Candidate(pc[q].n) \in Message /\ Candidate(pc[q].n).action = "candidate"
  BY <1>3, WhatMessagesSay
<1>5. (m \in A <=> pc[q].asked = n) /\ Candidate(pc[q].n) \notin A
  BY <1>4, GuestKinship
<1>6. toServer'[q] = toServer[q] \o ms /\ toServer[q] \in Seq(Message)
  BY <1>1, SendDoes, Queues, Zenon DEF Inductive
<1> HIDE DEF m
<1>7. /\ ms \in Seq(Message)
      /\ Carries(ms, A) <=> pc[q].asked = n
      /\ Never(ms, A, A)
  BY <1>3, <1>4, <1>5, CandidatesIn
<1>8. ~Carries(ms, Astray(q))
  <2>1. m \notin Astray(q) /\ Candidate(pc[q].n) \notin Astray(q)
    BY <1>4, <1>5 DEF Astray
  <2>2. QED
    BY <1>3, <1>4, <2>1, CandidatesIn
<1> HIDE DEF ms, A
<1>9. /\ Carries(toServer'[q], A) <=> Carries(toServer[q], A) \/ pc[q].asked = n
      /\ Carries(toServer'[q], Astray(q)) <=> Carries(toServer[q], Astray(q))
      /\ ~Carries(toServer[q], A) => Never(toServer'[q], A, A) /\ ~Carries(toServer[q], Astray(q))
  <2>1. /\ Carries(toServer[q] \o ms, A) <=> Carries(toServer[q], A) \/ Carries(ms, A)
        /\ Carries(toServer[q] \o ms, Astray(q)) <=> Carries(toServer[q], Astray(q)) \/ Carries(ms, Astray(q))
    BY <1>6, <1>7, CarriedByEither
  <2>2. ~Carries(toServer[q], A) => Never(toServer[q], A, A)
    BY DEF Never, Carries
  <2>3. ~Carries(toServer[q], A) => Never(toServer[q] \o ms, A, A)
    BY <1>6, <1>7, <2>2, Concatenation
  <2>4. Astray(q) \subseteq A
    BY DEF Astray, A
  <2>5. ~Carries(toServer[q], A) => ~Carries(toServer[q], Astray(q))
    BY <2>4, Widening
  <2>6. QED
    BY <1>6, <1>7, <1>8, <2>1, <2>3, <2>5
<1>10. /\ (InServer(q)' <=> InServer(q) \/ AtPage(q)) /\ (InPage(q)' <=> InPage(q)) /\ ~AtPage(q)'
       /\ (InTodo(q)' <=> InTodo(q))
  BY <1>1, <1>2, <1>9 DEF InServer, InPage, AtPage, InTodo, A
<1>11. ~Shown(q)
  BY <1>1 DEF Shown
<1>12. OfferTold(q) => OfferTold(q)'
  BY <1>2, <1>10 DEF OfferTold, Nowhere, Fits
<1>13. OfferSent(q) => OfferSent(q)'
  BY <1>1, <1>2, <1>10 DEF Misfits, Fits, OfferSent
<1>14. OfferTaken(q) => OfferAnswered(q)'
  <2> SUFFICES ASSUME OfferTaken(q) PROVE OfferAnswered(q)'
    OBVIOUS
  <2>1. Shown(q)'
    BY <1>1, <1>2 DEF OfferTaken, Shown, Fits, AtPage
  <2>2. Astray(q)' = Astray(q)
    BY <1>1, <1>2 DEF Astray
  <2>3. Never(toServer'[q], A, A) /\ ~Carries(toServer'[q], Astray(q))
    BY <1>9 DEF OfferTaken, InServer, A
  <2>4. InServer(q)'
    BY <1>10 DEF OfferTaken
  <2>5. QED
    BY <1>2, <2>1, <2>2, <2>3, <2>4 DEF OfferAnswered, A
<1>15. Unoffered(q) => Unoffered(q)'
  BY <1>2, <1>10, <1>11 DEF Unoffered, Nowhere, Fits
<1>16. QED
  BY <1>2, <1>11, <1>12, <1>13, <1>14, <1>15 DEF UnderOffer, OfferAnswered

(* The rest of what a page does does not concern what it is offered.       *)
LEMMA PageServes ==
  ASSUME Inductive, NEW q \in Pages, Numbered(q), GuestRests(q), q \in subscribers, GuestServed(q), Page(q)
  PROVE  GuestServed(q)'
<1> USE DEF Inductive
<1>1. PageActs(q) /\ UNCHANGED <<peer, due, todo, session>>
  BY OnlyOnePage DEF PageActs, serverVars, peerVars, roomVars
<1>2. session[q] = "subscriber" /\ ws[q] # "connecting"
  BY DEF Conversation, SessionsAreMembers
<1> SUFFICES ASSUME ws'[q] = "open" PROVE Unoffered(q)' \/ UnderOffer(q)'
  BY DEF GuestServed
<1>3. CASE OnOpen(q)
  BY <1>2, <1>3, OpenDoes
<1>4. CASE OnClose(q)
  BY <1>4, CloseDoes
<1>5. CASE OnTaken(q)
  BY <1>5, TakenDoes
<1> SUFFICES ASSUME ~OnOpen(q), ~OnClose(q), ~OnTaken(q) PROVE Unoffered(q)' \/ UnderOffer(q)'
  BY <1>3, <1>4, <1>5
<1>6. ws[q] = "open"
  BY RequestShareDoes, CapturedDoes, OfferedDoes, ShareFailsDoes, ShareHangsDoes, StopShareDoes, HandleOfferDoes,
     AnswerDoes, HandleAnswerDoes, ApplyAnswerDoes, HandleCandidateDoes, EndedDoes, RefusedDoes, PublishOkDoes, Zenon
  DEF Page, Receive, Settle
<1>7. /\ role[q] = "subscriber" /\ canShare[q] /\ stream[q] = 0 /\ shares[q] = {}
      /\ pc[q].state \in {"stable", "answering"} /\ ~Has(toPage[q], {"publish_ok"})
  BY <1>6, GuestsAre
<1>8. Unoffered(q) \/ UnderOffer(q)
  BY <1>6 DEF GuestServed
<1>9. \A h : Fits(q, h) => Fits(q, h)'
  BY <1>1 DEF Fits
<1>10. ASSUME UNCHANGED toServer, UNCHANGED pc \/ HandleCandidate(q),
              NEW a \in {"live_active", "error", "answer", "candidate"}, OnMessage(q, a)
       PROVE  Unoffered(q)' \/ UnderOffer(q)'
  <2> DEFINE m == Head(toPage[q])
  <2>1. m \in Message /\ m.action = a /\ toPage[q] # << >> /\ toPage'[q] = Tail(toPage[q])
    BY <1>10, HeardFrom
  <2>2. m \notin Replacing
    BY <2>1, GuestKinship, Zenon
  <2>3. /\ pc'[q].n = pc[q].n /\ pc'[q].state = pc[q].state /\ pc'[q].asked = pc[q].asked
        /\ pc'[q].remote = pc[q].remote /\ pc'[q].has = pc[q].has
    BY <1>10, HandleCandidateDoes
  <2>4. QED
    BY <1>1, <1>8, <1>9, <1>10, <2>1, <2>2, <2>3, StillServed
<1>11. CASE RequestShare(q)
  <2>1. "request_publish" \in Actions \ {"offer", "answer"}
    BY DEF Actions
  <2> DEFINE ms == <<Msg("request_publish")>>
  <2>2. Send(q, ms) /\ UNCHANGED <<pc, toPage>>
    BY <1>7, <1>11, RequestShareDoes
  <2>3. ms \in Seq(Message) /\ ~Carries(ms, Answering(peer[q].n))
    BY <2>1, PlainIsNoOffer
  <2> HIDE DEF ms
  <2>4. toServer'[q] = toServer[q] \o ms
    BY <1>6, <2>2, SendDoes
  <2>5. QED
    BY <1>1, <1>8, <1>9, <2>2, <2>3, <2>4, StillServed
<1>12. CASE Captured(q) \/ Offered(q) \/ ShareFails(q) \/ ShareHangs(q) \/ StopShare(q)
  BY <1>7, <1>12, CapturedDoes, OfferedDoes, ShareFailsDoes, ShareHangsDoes, StopShareDoes, Zenon
<1>13. CASE OnPublishOk(q)
  BY <1>7, <1>13, PublishOkDoes, HearDoes, Queues, HasHead
<1>14. CASE OnRefused(q)
  BY <1>10, <1>14, RefusedDoes
<1>15. CASE HandleCandidate(q)
  BY <1>10, <1>15, HandleCandidateDoes
<1>16. CASE HandleAnswer(q)
  BY <1>7, <1>10, <1>16, HandleAnswerDoes
<1>17. CASE ApplyAnswer(q)
  BY <1>7, <1>17, ApplyAnswerDoes
<1>18. CASE OnEnded(q) \/ HandleOffer(q) \/ Answer(q)
  BY <1>6, <1>8, <1>18, EndedServes, HandleOfferServes, AnswerServes
<1>19. QED
  BY <1>11, <1>12, <1>13, <1>14, <1>15, <1>16, <1>17, <1>18 DEF Page, Receive, Settle

LEMMA PageWelcomes ==
  ASSUME Inductive, NEW q \in Pages, Numbered(q), Welcome(q), Page(q)
  PROVE  Welcome(q)'
BY OnlyOnePage, PageRests, PageServes DEF PageActs, serverVars, peerVars, roomVars, serverHistory,
    pcHistory, Welcome, UpToDate, ResetDue

(* The loop over the guests dismisses each of them.                        *)
LEMMA EveryoneIsDismissed ==
  ASSUME Typed, NEW guests \in SetToSeqs(subscribers), NEW q \in subscribers
  PROVE  Dismiss(guests) \in Seq(Instruction) /\ Carries(Dismiss(guests), {Reset(q)})
<1> DEFINE D == 1..Cardinality(subscribers)
<1>1. IsFiniteSet(subscribers) /\ subscribers \in SUBSET Pages /\ Cardinality(subscribers) \in Nat
  BY RoomPageAssumption, FS_Subset, FS_CardinalityType DEF Typed, RoomTyped
<1>2. guests \in [D -> subscribers] /\ \A i, j \in D : i # j => guests[i] # guests[j]
  BY DEF SetToSeqs
<1>3. guests \in Surjection(D, subscribers)
  <2>1. guests \in Injection(D, subscribers)
    BY <1>2 DEF Injection, IsInjective
  <2>2. IsFiniteSet(D) /\ Cardinality(D) = Cardinality(subscribers)
    BY <1>1, FS_Interval
  <2>3. QED
    BY <1>1, <2>1, <2>2, FS_Injection
<1>4. PICK i \in D : guests[i] = q
  BY <1>3 DEF Surjection
<1>5. Dismiss(guests)[i] = Reset(q) /\ i \in DOMAIN Dismiss(guests)
  BY <1>2, <1>4 DEF Dismiss
<1>6. Dismiss(guests) \in Seq(Instruction)
  BY <1>1, Dismissals
<1>7. QED
  BY <1>5, <1>6 DEF Carries

(* A dismissal is due until it is done.                                    *)
LEMMA ResetStays ==
  ASSUME Typed, NEW q \in Pages, ResetDue(q),
         \A g \in Goroutines :
            \/ todo'[g] = todo[g] \/ todo[g] = << >>
            \/ todo[g] # << >> /\ todo'[g] = Tail(todo[g]) /\ Head(todo[g]) # Reset(q)
  PROVE  ResetDue(q)'
<1>1. PICK g \in Goroutines : Carries(todo[g], {Reset(q)})
  BY DEF ResetDue
<1>2. todo[g] \in Seq(Instruction) /\ todo[g] # << >>
  BY <1>1, NothingIn, Zenon DEF Typed, TodoTyped
<1>3. Carries(todo[g], {Reset(q)}) <=> Head(todo[g]) \in {Reset(q)} \/ Carries(Tail(todo[g]), {Reset(q)})
  BY <1>2, CarriedBehind
<1>4. Carries(todo'[g], {Reset(q)})
  BY <1>1, <1>2, <1>3
<1>5. QED
  BY <1>4 DEF ResetDue

(* The end of a stream dismisses every guest; a stop that comes late       *)
(* renews a connection only.                                               *)
LEMMA StopDismisses ==
  ASSUME Inductive, NEW p \in Pages, NEW g \in {Session(p), Callback(p)}, todo[g] = << >>,
         StopDone(p, g), NEW q \in subscribers, UpToDate(q)
  PROVE  UpToDate(q)'
<1> USE DEF Inductive
<1>1. g \in Goroutines /\ q \in Pages /\ peer' = peer
  BY GoroutineNames DEF StopDone, Typed, RoomTyped
<1>2. ASSUME NEW guests \in SetToSeqs(subscribers), Do(g, Dismiss(guests) \o <<Renew(p)>>)
      PROVE  UpToDate(q)'
  BY <1>1, <1>2, EveryoneIsDismissed, OtherInstructionsWithin, Concatenation DEF Do, Typed,
      TodoTyped, UpToDate, ResetDue
<1>3. CASE tracks' = tracks /\ (todo' = todo \/ Do(g, <<Renew(p)>>))
  BY <1>1, <1>3, DoDoes, ResetStays DEF UpToDate
<1>4. QED
  BY <1>2, <1>3 DEF StopDone

LEMMA CleanupDismisses ==
  ASSUME Inductive, NEW p \in Pages, Cleanup(p), NEW q \in subscribers, UpToDate(q)
  PROVE  UpToDate(q)'
<1> USE DEF Inductive
<1>1. q \in Pages /\ peer' = peer /\ Session(p) \in Goroutines
  BY CleanupDoes, GoroutineNames DEF Typed, RoomTyped
<1>2. ASSUME NEW guests \in SetToSeqs(subscribers), Do(Session(p), Dismiss(guests))
      PROVE  UpToDate(q)'
  BY <1>1, <1>2, EveryoneIsDismissed, DoDoes DEF UpToDate, ResetDue
<1>3. CASE UNCHANGED <<tracks, todo>>
  BY <1>1, <1>3 DEF UpToDate, ResetDue
<1>4. QED
  BY <1>2, <1>3, CleanupDoes

LEMMA UpToDateStays ==
  ASSUME Inductive, NEW q \in subscribers, UpToDate(q), UNCHANGED tracks, peer'[q].has = peer[q].has,
         \A g \in Goroutines :
            \/ todo'[g] = todo[g] \/ todo[g] = << >>
            \/ todo[g] # << >> /\ todo'[g] = Tail(todo[g]) /\ Head(todo[g]) # Reset(q)
  PROVE  UpToDate(q)'
BY ResetStays DEF Inductive, Typed, RoomTyped, UpToDate

(* Whoever's step it is, a guest has the tracks of the room or is to be    *)
(* dismissed.                                                              *)
LEMMA StepsKeepUpToDate ==
  ASSUME Inductive, Inductive', NEW p \in Pages, StepOf(p), NEW q \in Pages, Welcome(q),
         q \in subscribers', q \notin disturbed'
  PROVE  UpToDate(q)'
<1> USE DEF Inductive
<1>1. q \in Others(p) => q \in subscribers \ disturbed /\ UpToDate(q) /\ peer'[q].has = peer[q].has
  BY StepsAreApart DEF Elsewhere, ServerSame, OfferSame, Welcome
<1>2. q = p \/ q \in Others(p)
  BY DEF Others
<1>3. publisher' # q /\ session'[q] = "subscriber"
  BY DEF Conversation, SessionsAreMembers
<1>4. q \in subscribers \ disturbed => UpToDate(q)
  BY DEF Welcome
<1>5. CASE UNCHANGED <<peer, todo, tracks, subscribers, disturbed>>
  BY <1>4, <1>5 DEF UpToDate, ResetDue
<1>6. CASE Page(p)
  BY <1>5, <1>6, OnlyOnePage DEF PageActs, serverVars, peerVars, roomVars, serverHistory, pcHistory
<1>7. CASE Unbothered
  BY <1>5, <1>7 DEF Unbothered
<1>8. ASSUME UNCHANGED tracks, q \in subscribers \ disturbed, peer'[q].has = peer[q].has,
             \A g \in Goroutines :
                \/ todo'[g] = todo[g] \/ todo[g] = << >>
                \/ todo[g] # << >> /\ todo'[g] = Tail(todo[g]) /\ Head(todo[g]) # Reset(q)
      PROVE  UpToDate(q)'
  BY <1>4, <1>8, UpToDateStays
<1>9. CASE Join(p)
  <2>1. UNCHANGED <<todo, tracks>>
    BY <1>9, JoinDoes
  <2>2. CASE q \in Others(p)
    BY <1>1, <1>8, <2>1, <2>2
  <2>3. CASE q = p /\ NewPC(p, tracks)
    BY <2>1, <2>3, NewPCDoes DEF Typed, RoomTyped, UpToDate
  <2>4. QED
    BY <1>2, <1>3, <1>7, <1>9, <2>2, <2>3, JoinDoes
<1>10. CASE RequestPublish(p)
  BY <1>1, <1>2, <1>3, <1>7, <1>8, <1>10, RequestPublishDoes
<1>11. ASSUME NEW g \in {Session(p), Callback(p)}, todo[g] = << >>, StopDone(p, g)
       PROVE  UpToDate(q)'
  BY <1>4, <1>11, StopDismisses DEF StopDone
<1>12. CASE Stop(p)
  BY <1>7, <1>11, <1>12, StopDoes, TakeDoes
<1>13. CASE OnConnectionStateChange(p)
  BY <1>11, <1>13, FailureDoes
<1>14. CASE Cleanup(p)
  BY <1>1, <1>2, <1>14, CleanupDoes, CleanupDismisses
<1>15. CASE ServerHandleOffer(p)
  <2>1. /\ UNCHANGED <<tracks, subscribers>> /\ todo[Session(p)] = << >>
        /\ UNCHANGED todo \/ \A f \in Goroutines : f # Session(p) => todo'[f] = todo[f]
    BY <1>15, ServerHandleOfferDoes, TakeDoes DEF Unbothered
  <2>2. CASE q \in Others(p)
    BY <1>1, <1>8, <2>1, <2>2
  <2>3. CASE q = p
    BY <1>3, <1>15, <2>3, ServerHandleOfferDoes, TakeDoes, Queues, CarriedBehind DEF Sent, Welcome,
        GuestRests, Conversation, RolesFollow
  <2>4. QED
    BY <1>2, <2>2, <2>3
<1>16. CASE ServerHandleAnswer(p)
  <2>1. UNCHANGED <<tracks, subscribers, todo>>
    BY <1>16, ServerHandleAnswerDoes
  <2>2. CASE q \in Others(p)
    BY <1>1, <1>8, <2>1, <2>2
  <2>3. CASE q = p /\ SetRemote(p, Head(toServer[p]))
    BY <1>8, <1>16, <2>1, <2>3, ServerHandleAnswerDoes, TakeDoes, SetRemoteDoes
  <2>4. QED
    BY <1>2, <1>7, <1>16, <2>2, <2>3, ServerHandleAnswerDoes
<1>17. CASE ServerHandleCandidate(p)
  BY <1>1, <1>2, <1>8, <1>17, ServerHandleCandidateDoes
<1>18. CASE NegotiateSubscriber(p)
  BY <1>1, <1>2, <1>8, <1>18, NegotiateDoes
<1>19. CASE OnICECandidate(p)
  BY <1>5, <1>19, CandidateDoes
<1>20. ASSUME NEW g \in {Session(p), Negotiation(p)}, Tells(p, g)
       PROVE  UpToDate(q)'
  BY <1>8, <1>20, TellNextDoes DEF Tells, Reset
<1>21. ASSUME NEW g \in Goroutines, EndSubscriber(g), Head(todo[g]).page = p
       PROVE  UpToDate(q)'
  <2>1. /\ UNCHANGED <<tracks, subscribers>> /\ todo[g] # << >> /\ Head(todo[g]) = Reset(p) /\ todo'[g] = Tail(todo[g])
        /\ \A f \in Goroutines : f # g => todo'[f] = todo[f]
    BY <1>21, EndDoes
  <2>2. CASE q \in Others(p)
    BY <1>1, <1>8, <2>1, <2>2 DEF Reset, Others
  <2>3. CASE q = p
    <3>1. ReplacePC(p, {}) /\ tracks = {}
      BY <1>21, <2>1, <2>3, EndDoes
    <3>2. peer'[p].has = {}
      BY <3>1, ReplaceDoes
    <3>3. QED
      BY <2>1, <2>3, <3>1, <3>2 DEF UpToDate
  <2>4. QED
    BY <1>2, <2>2, <2>3
<1>22. ASSUME NEW g \in Goroutines, ResetPublisherPC(g), Head(todo[g]).page = p
       PROVE  UpToDate(q)'
  <2>1. /\ UNCHANGED <<tracks, subscribers, publisher>> /\ todo[g] # << >> /\ Head(todo[g]) = Renew(p)
        /\ todo'[g] = Tail(todo[g]) /\ \A f \in Goroutines : f # g => todo'[f] = todo[f]
    BY <1>22, RenewDoes
  <2>2. Head(todo[g]) # Reset(q)
    BY <2>1 DEF Reset, Renew
  <2>3. CASE q \in Others(p)
    BY <1>1, <1>8, <2>1, <2>2, <2>3
  <2>4. CASE q = p
    BY <1>3, <1>8, <1>22, <2>1, <2>2, <2>4, RenewDoes
  <2>5. QED
    BY <1>2, <2>3, <2>4
<1>23. QED
  BY <1>6, <1>9, <1>10, <1>12, <1>13, <1>14, <1>15, <1>16, <1>17, <1>18, <1>19, <1>20, <1>21, <1>22
  DEF StepOf, Handle

LEMMA Apart ==
  ASSUME NEW q, NEW A, NEW B, Within(q, A), \A m \in A : m \notin B
  PROVE  ~Carries(q, B)
BY DEF Within, Carries

(* A guest has a new peer connection, which nothing under way is for.      *)
LEMMA FreshServes ==
  ASSUME Inductive, NEW q \in Pages, Numbered(q), UNCHANGED <<pageVars, pageHistory>>,
         peer'[q].n = peer[q].n + 1, peer'[q].state = "stable", peer'[q].remote = 0, Fits(q, {})',
         todo'[Negotiation(q)] = todo[Negotiation(q)],
         UNCHANGED toServer \/ \E a : Take(q, a),
         UNCHANGED toPage \/ SendJSON(q, Msg("ended"))
  PROVE  Unoffered(q)'
<1> DEFINE n == peer[q].n + 1
           A == Answering(n)
           O == Of({"offer"}, n)
           s == toServer[q]
           t == toPage[q]
           d == todo[Negotiation(q)]
<1> USE DEF Inductive
<1>1. peer[q].n \in Nat /\ pc[q].asked \in Nat /\ pc[q].asked <= peer[q].n
  BY Counts DEF Numbered, PageNumbers
<1>2. s \in Seq(Message) /\ t \in Seq(Message) /\ d \in Seq(Instruction)
  BY Queues
<1>3. Within(s, ToServer(q)) /\ Within(t, ToPage(q)) /\ Within(d, ByNegotiation(q))
  BY DEF Numbered, UnderWay
<1>4. /\ \A m \in ToServer(q) : m \notin A
      /\ \A m \in ToPage(q) : m \notin O
      /\ \A i \in ByNegotiation(q) : i.msg.n # n
  BY <1>1 DEF ToServer, ToPage, Spoken, Told, ByNegotiation, Answering, Of
<1> HIDE DEF n
<1>5. ~Carries(s, A) /\ ~Carries(t, O)
  BY <1>3, <1>4, Apart
<1>6. d # << >> => Head(d).msg.n # n
  BY <1>2, <1>3, <1>4, Removal
<1>7. ~Carries(toServer'[q], A)
  <2>1. ASSUME NEW a, Take(q, a) PROVE ~Carries(toServer'[q], A)
    BY <1>2, <1>5, <2>1, TakeDoes, CarriedBehind
  <2>2. QED
    BY <1>5, <2>1
<1>8. ~Carries(toPage'[q], O)
  <2>1. CASE SendJSON(q, Msg("ended"))
    <3> DEFINE m == Msg("ended")
    <3>1. m \in Message /\ m \notin O
      BY WhatMessagesSay, GuestKinship, Zenon DEF Actions
    <3>2. toPage'[q] = t \/ toPage'[q] = Append(t, m)
      BY <2>1, TellDoes
    <3> HIDE DEF m
    <3>3. Carries(Append(t, m), O) <=> Carries(t, O) \/ m \in O
      BY <1>2, <3>1, CarriedAtEnd
    <3>4. QED
      BY <1>5, <3>1, <3>2, <3>3, Zenon
  <2>2. QED
    BY <1>5, <2>1
<1>9. peer'[q].n = n /\ pc'[q] = pc[q] /\ pc[q].asked # n
  BY <1>1, PageVarsSame DEF n
<1>10. ~InServer(q)' /\ ~InPage(q)' /\ ~AtPage(q)' /\ ~InTodo(q)'
  BY <1>6, <1>7, <1>8, <1>9 DEF InServer, InPage, AtPage, InTodo
<1>11. QED
  BY <1>10 DEF Unoffered, Nowhere

(* A step of the server that has nothing to do with what it offers.        *)
LEMMA ServerStillServes ==
  ASSUME Inductive, NEW q \in Pages, Numbered(q), ws[q] = "open", Unoffered(q) \/ UnderOffer(q),
         UNCHANGED <<pageVars, pageHistory>>,
         peer'[q].n = peer[q].n, peer'[q].state = peer[q].state, peer'[q].remote = peer[q].remote,
         peer'[q].has = peer[q].has, due'[q] = due[q],
         todo'[Negotiation(q)] = todo[Negotiation(q)],
         \/ UNCHANGED toServer
         \/ \E a : Take(q, a) /\ (a = "answer" => peer[q].state = "stable"),
         \/ UNCHANGED toPage
         \/ \E m \in Message : SendJSON(q, m) /\ m.action \notin {"offer", "ended"}
  PROVE  Unoffered(q)' \/ UnderOffer(q)'
<1> USE DEF Inductive
<1>1. pc' = pc
  BY PageVarsSame
<1>2. \A h : Fits(q, h) => Fits(q, h)'
  BY DEF Fits
<1>3. \/ toServer'[q] = toServer[q]
      \/ toServer[q] # << >> /\ toServer'[q] = Tail(toServer[q]) /\ Head(toServer[q]) \notin Answering(peer[q].n)
  <2>1. ASSUME NEW a, Take(q, a), a = "answer" => peer[q].state = "stable"
        PROVE  toServer[q] # << >> /\ toServer'[q] = Tail(toServer[q]) /\ Head(toServer[q]) \notin Answering(peer[q].n)
    <3>1. toServer[q] # << >> /\ toServer'[q] = Tail(toServer[q]) /\ Head(toServer[q]) \in Message
          /\ Head(toServer[q]).action = a /\ toServer[q] \in Seq(Message)
      BY <2>1, TakeDoes, Queues
    <3>2. CASE a = "answer"
      BY <2>1, <3>1, <3>2, CarriedBehind DEF Unoffered, UnderOffer, Nowhere, InServer
    <3>3. CASE a # "answer"
      BY <3>1, <3>3, GuestKinship
    <3>4. QED
      BY <3>1, <3>2, <3>3
  <2>2. QED
    BY <2>1
<1>4. \/ toPage'[q] = toPage[q]
      \/ \E m \in Message : toPage'[q] = Append(toPage[q], m) /\ m \notin Replacing
  BY TellDoes, GuestKinship
<1>5. QED
  BY <1>1, <1>2, <1>3, <1>4, StillServed

(* An answer that the peer connection of a guest takes, and that does not  *)
(* disturb it, is the one to its offer.                                    *)
LEMMA ServerHandleAnswerServes ==
  ASSUME Inductive, NEW q \in Pages, Numbered(q), Welcome(q), q \in subscribers, ServerHandleAnswer(q),
         q \notin disturbed', ws[q] = "open"
  PROVE  Unoffered(q)' \/ UnderOffer(q)'
<1> DEFINE m == Head(toServer[q])
           A == Answering(peer[q].n)
<1> USE DEF Inductive
<1>1. Take(q, "answer") /\ UNCHANGED <<pageVars, pageHistory>> /\ UNCHANGED <<due, todo>>
  BY ServerHandleAnswerDoes DEF ServerActs
<1>2. /\ m \in Message /\ m.action = "answer" /\ m.n \in Serials /\ m.re \in 1..peer[q].n
      /\ toServer[q] # << >> /\ toServer[q] \in Seq(Message) /\ toServer'[q] = Tail(toServer[q])
  BY <1>1, SpokenNumbers, TakeDoes, Queues
<1>3. pc' = pc
  BY <1>1, PageVarsSame
<1>4. CASE peer[q].state # "offered" /\ SendJSON(q, Msg("error")) /\ Unbothered
  BY <1>1, <1>4, WhatMessagesSay, ServerStillServes DEF Actions, Unbothered, Welcome, GuestServed,
      UnderOffer, Unoffered
<1>5. CASE peer[q].state = "offered" /\ SetRemote(q, m) /\ UNCHANGED toPage
  <2>1. /\ peer'[q].n = peer[q].n /\ peer'[q].state = "stable" /\ peer'[q].has = peer[q].has
        /\ peer'[q].remote = IF peer[q].remote = 0 THEN m.n ELSE peer[q].remote
        /\ q \notin disturbed /\ peer[q].remote \in {0, m.n} /\ m.re \in {0, peer[q].n}
    BY <1>2, <1>5, SetRemoteDoes
  <2>2. peer[q].n \in Nat /\ m.re = peer[q].n /\ peer[q].n # 0 /\ peer'[q].remote = m.n
    BY <1>2, <2>1, Counts
  <2>3. m \in A
    BY <1>2, <2>2, GuestKinship
  <2>4. /\ Carries(toServer[q], A) <=> m \in A \/ Carries(toServer'[q], A)
        /\ Carries(toServer[q], Astray(q)) <=> m \in Astray(q) \/ Carries(toServer'[q], Astray(q))
        /\ Never(toServer[q], A, A) /\ m \in A => ~Carries(toServer'[q], A)
    BY <1>2, CarriedBehind, Removal
  <2> HIDE DEF m
  <2>5. InServer(q)
    BY <2>3, <2>4 DEF InServer
  <2>6. OfferAnswered(q)
    BY <1>5, <2>1, <2>5 DEF Welcome, GuestServed, UnderOffer, Unoffered, Nowhere, OfferTold, OfferSent, OfferTaken
  <2>7. m.n = pc[q].n /\ ~Carries(toServer'[q], A)
    BY <2>3, <2>4, <2>6 DEF OfferAnswered, Astray
  <2>8. Shown(q)
    BY <2>6 DEF OfferAnswered
  <2>9. Shown(q)'
    BY <1>1, <1>3, <1>5, <2>1, <2>8 DEF Shown, Fits
  <2>10. ~InPage(q)'
    BY <1>5, <2>1, <2>8, Widening DEF Of, Sent, Replacing, Shown, InPage
  <2>11. ~AtPage(q)' /\ ~InServer(q)' /\ ~InTodo(q)'
    BY <1>1, <1>3, <2>1, <2>7, <2>8 DEF AtPage, InServer, InTodo, Shown
  <2>12. pc[q].n # 0
    BY <2>2, <2>8, NullFields DEF SharesAreAlone, Shown
  <2>13. QED
    BY <1>3, <2>1, <2>2, <2>7, <2>9, <2>10, <2>11, <2>12 DEF Unoffered, Nowhere
<1>6. QED
  BY <1>4, <1>5, ServerHandleAnswerDoes DEF Conversation, SessionsAreMembers

(* The negotiation makes an offer of all the tracks there are.             *)
LEMMA NegotiateServes ==
  ASSUME Inductive, NEW q \in Pages, Numbered(q), Welcome(q), q \in subscribers, NegotiateSubscriber(q),
         q \notin disturbed', ws[q] = "open"
  PROVE  UnderOffer(q)'
<1> DEFINE m == Offer(peer[q].n, peer[q].has)
           i == Tell(q, m)
<1> USE DEF Inductive
<1>1. /\ UNCHANGED <<pageVars, pageHistory>> /\ UNCHANGED <<toServer, toPage>>
      /\ peer[q].state = "stable" /\ UNCHANGED disturbed
      /\ peer'[q].n = peer[q].n /\ peer'[q].state = "offered" /\ peer'[q].has = peer[q].has
      /\ todo'[Negotiation(q)] = <<i>>
  BY NegotiateDoes DEF ServerActs
<1>2. Unoffered(q)
  BY <1>1 DEF Welcome, GuestServed, UnderOffer
<1>3. peer[q].n \in Serials /\ peer[q].has \in SUBSET Kinds
  BY DEF Typed, PeersTyped, PC
<1>4. m.n = peer[q].n /\ m.has = peer[q].has
  BY <1>3, WhatMessagesSay
<1> HIDE DEF m
<1>5. i.msg = m
  BY DEF Tell
<1> HIDE DEF i
<1>6. todo'[Negotiation(q)] # << >> /\ Head(todo'[Negotiation(q)]) = i
  BY <1>1
<1>7. InTodo(q)' /\ Fits(q, Head(todo[Negotiation(q)]).msg.has)'
  BY <1>1, <1>4, <1>5, <1>6 DEF InTodo, Fits
<1>8. pc' = pc
  BY <1>1, PageVarsSame
<1>9. Nowhere(q)'
  BY <1>1, <1>2, <1>8 DEF Unoffered, Nowhere, InPage, AtPage, InServer
<1>10. QED
  BY <1>1, <1>7, <1>9 DEF UnderOffer, OfferTold

(* The negotiation sends its offer.                                        *)
LEMMA OfferServes ==
  ASSUME Inductive, NEW q \in Pages, Numbered(q), GuestRests(q), Unoffered(q) \/ UnderOffer(q),
         Tells(q, Negotiation(q)), ws[q] = "open"
  PROVE  Unoffered(q)' \/ UnderOffer(q)'
<1> DEFINE m == Head(todo[Negotiation(q)]).msg
           n == peer[q].n
           O == Of({"offer"}, n)
<1> USE DEF Inductive
<1>1. /\ UNCHANGED <<pageVars, pageHistory>> /\ SendJSON(q, m) /\ UNCHANGED <<toServer, peer, due>>
      /\ todo[Negotiation(q)] # << >> /\ todo'[Negotiation(q)] = Tail(todo[Negotiation(q)])
  BY TellNextDoes, GoroutineNames DEF Tells, ServerActs
<1>2. m \in Message /\ m.action = "offer" /\ todo'[Negotiation(q)] = << >>
  BY <1>1 DEF Negotiation, Session, Tells, GuestRests
<1>3. toPage'[q] = Append(toPage[q], m) /\ toPage[q] \in Seq(Message)
  BY <1>1, TellDoes, Queues
<1>4. pc' = pc
  BY <1>1, PageVarsSame
<1>5. (InTodo(q) <=> m.n = n) /\ (m \in O <=> m.n = n)
  BY <1>1, <1>2, GuestKinship DEF InTodo
<1>6. (AtPage(q)' <=> AtPage(q)) /\ (InServer(q)' <=> InServer(q)) /\ ~InTodo(q)'
  BY <1>1, <1>2, <1>4, Zenon DEF AtPage, InServer, InTodo
<1> HIDE DEF m, n
<1>7. InPage(q)' <=> InPage(q) \/ m.n = n
  BY <1>1, <1>2, <1>3, <1>5, CarriedAtEnd DEF InPage, n
<1>8. ~Shown(q) /\ ~OfferSent(q) /\ ~OfferTaken(q) /\ ~OfferAnswered(q)
  BY <1>1 DEF Shown, OfferSent, OfferTaken, OfferAnswered
<1>9. Unoffered(q) => Unoffered(q)'
  BY <1>1, <1>5, <1>6, <1>7, <1>8 DEF Unoffered, Nowhere, Fits
<1>10. ASSUME OfferTold(q) PROVE OfferSent(q)'
  <2>1. m.n = n /\ Nowhere(q) /\ Fits(q, m.has)
    BY <1>5, <1>10 DEF OfferTold, m
  <2>2. ~Carries(toPage[q], O)
    BY <2>1 DEF Nowhere, InPage, n
  <2>3. Never(toPage'[q], O, Replacing)
    BY <1>2, <1>3, <2>2, Addition DEF Never, Carries
  <2>4. ~Carries(toPage'[q], Misfits(q))
    BY <1>2, <1>3, <2>1, <2>2, CarriedAtEnd, Widening DEF Misfits, n
  <2>5. Misfits(q)' = Misfits(q)
    BY <1>1 DEF Misfits, Fits
  <2>6. QED
    BY <1>1, <1>2, <1>6, <1>7, <2>1, <2>3, <2>4, <2>5, Zenon DEF OfferSent, Nowhere, n
<1>11. QED
  BY <1>1, <1>8, <1>9, <1>10 DEF UnderOffer

(* The server's steps leave a guest at rest.                               *)
LEMMA ServerRests ==
  ASSUME Inductive, NEW q \in Pages, GuestRests(q), UNCHANGED <<pageVars, pageHistory>>,
         UNCHANGED toServer \/ \E a : Take(q, a),
         \/ todo'[Negotiation(q)] = todo[Negotiation(q)]
         \/ todo[Negotiation(q)] # << >> /\ todo'[Negotiation(q)] = Tail(todo[Negotiation(q)])
         \/ \E i : todo'[Negotiation(q)] = <<i>>
  PROVE  GuestRests(q)'
<1> USE DEF Inductive
<1>1. UNCHANGED <<role, canShare, stream, shares, pc>>
  BY PageVarsSame
<1>2. Carries(toServer'[q], Sent({"offer"})) => Carries(toServer[q], Sent({"offer"}))
  <2>1. ASSUME NEW a, Take(q, a)
        PROVE  Carries(toServer'[q], Sent({"offer"})) => Carries(toServer[q], Sent({"offer"}))
    BY <2>1, TakeDoes, Queues, CarriedBehind
  <2>2. QED
    BY <2>1
<1>3. todo'[Negotiation(q)] # << >> => Tail(todo'[Negotiation(q)]) = << >>
  <2>1. \A i : Tail(<<i>>) = << >>
    OBVIOUS
  <2>2. QED
    BY <2>1, Zenon DEF GuestRests
<1>4. QED
  BY <1>1, <1>2, <1>3 DEF GuestRests

LEMMA StepRests ==
  ASSUME Inductive, Inductive', NEW q \in Pages, Numbered(q), GuestRests(q), StepOf(q)
  PROVE  GuestRests(q)'
<1> USE DEF Inductive
<1> DEFINE Same == UNCHANGED <<pageVars, pageHistory>> /\ (UNCHANGED toServer \/ \E a : Take(q, a))
           Still == todo'[Negotiation(q)] = todo[Negotiation(q)]
<1>1. CASE Page(q)
  BY <1>1, PageRests
<1>2. CASE Join(q) \/ RequestPublish(q) \/ ServerHandleAnswer(q) \/ ServerHandleCandidate(q)
  BY <1>2, JoinDoes, RequestPublishDoes, ServerHandleAnswerDoes, ServerHandleCandidateDoes,
      ServerRests DEF ServerActs
<1>3. CASE Stop(q)
  <2>1. Same
    BY <1>3, StopDoes DEF ServerActs
  <2>2. todo'[Negotiation(q)] = todo[Negotiation(q)]
    BY <1>3, StopDoes, DoDoes, GoroutineNames DEF StopDone, Unbothered
  <2>3. QED
    BY <2>1, <2>2, ServerRests
<1>4. CASE ServerHandleOffer(q)
  BY <1>4, ServerHandleOfferDoes, ServerRests DEF ServerActs, Unbothered
<1>5. CASE Cleanup(q)
  <2>1. Same
    BY <1>5, CleanupDoes DEF ServerActs
  <2>2. todo'[Negotiation(q)] = todo[Negotiation(q)]
    BY <1>5, CleanupDoes, GoroutineNames DEF Negotiation, Session
  <2>3. QED
    BY <2>1, <2>2, ServerRests
<1>6. CASE OnConnectionStateChange(q)
  BY <1>6, FailureDoes, ServerRests DEF ServerActs
<1>7. CASE NegotiateSubscriber(q)
  BY <1>7, NegotiateDoes, ServerRests DEF ServerActs
<1>8. CASE OnICECandidate(q)
  BY <1>8, CandidateDoes, ServerRests DEF ServerActs
<1>9. ASSUME NEW g \in Goroutines, todo[g] # << >>, todo'[g] = Tail(todo[g]), \A f \in Goroutines : f # g => todo'[f] = todo[f], Same
      PROVE  GuestRests(q)'
  BY <1>9, GoroutineNames, ServerRests
<1>10. ASSUME NEW g \in {Session(q), Negotiation(q)}, Tells(q, g)
       PROVE  GuestRests(q)'
  BY <1>9, <1>10, TellNextDoes, GoroutineNames DEF Tells, ServerActs
<1>11. ASSUME NEW g \in Goroutines, EndSubscriber(g) \/ ResetPublisherPC(g), Head(todo[g]).page = q
       PROVE  GuestRests(q)'
  BY <1>9, <1>11, EndDoes, RenewDoes DEF ServerActs
<1>12. QED
  BY <1>1, <1>2, <1>3, <1>4, <1>5, <1>6, <1>7, <1>8, <1>10, <1>11 DEF StepOf, Handle

LEMMA ElsewhereRests ==
  ASSUME NEW q \in Pages, GuestRests(q), PageSame(q), WireSame(q), TodoSame(q)
  PROVE  GuestRests(q)'
<1>1. todo'[Negotiation(q)] # << >> => Tail(todo'[Negotiation(q)]) = << >>
  BY DEF TodoSame, GuestRests
<1>2. QED
  BY <1>1 DEF GuestRests, PageSame, WireSame

(* The negotiation of a guest only tells, so no other step is its own.     *)
LEMMA NegotiationTells ==
  ASSUME Inductive, NEW q \in Pages, Numbered(q),
         \/ todo'[Negotiation(q)] = todo[Negotiation(q)]
         \/ todo[Negotiation(q)] # << >> /\ Head(todo[Negotiation(q)]).do # "tell"
  PROVE  todo'[Negotiation(q)] = todo[Negotiation(q)]
<1> DEFINE d == todo[Negotiation(q)]
<1>1. d \in Seq(Instruction) /\ Within(d, ByNegotiation(q))
  BY Queues DEF Numbered, UnderWay, Inductive
<1>2. d # << >> => Head(d) \in ByNegotiation(q)
  BY <1>1, Removal, Zenon
<1>3. QED
  BY <1>2 DEF ByNegotiation

(* A page that joins as a guest gets its first peer connection.            *)
LEMMA JoinServes ==
  ASSUME Inductive, Inductive', NEW q \in Pages, Numbered(q), Join(q), q \in subscribers'
  PROVE  Unoffered(q)'
<1> USE DEF Inductive
<1>1. Take(q, "join") /\ UNCHANGED <<pageVars, pageHistory>> /\ session[q] = "none" /\ UNCHANGED todo
  BY JoinDoes DEF ServerActs
<1>2. q \notin subscribers /\ session'[q] = "subscriber"
  BY <1>1 DEF Conversation, SessionsAreMembers
<1>3. UNCHANGED toPage /\ NewPC(q, tracks) /\ due'[q] = IF tracks = {} THEN {} ELSE {"welcome"}
  BY <1>2, JoinDoes DEF Unbothered
<1>4. tracks \in SUBSET Kinds
  BY DEF Typed, RoomTyped
<1>5. peer'[q].n = peer[q].n + 1 /\ peer'[q].state = "stable" /\ peer'[q].remote = 0 /\ peer'[q].has = tracks
  BY <1>3, <1>4, NewPCDoes
<1>6. Fits(q, {})'
  BY <1>3, <1>5 DEF Fits
<1>7. QED
  BY <1>1, <1>3, <1>5, <1>6, FreshServes

(* A guest that is dismissed gets an empty one.                            *)
LEMMA EndServes ==
  ASSUME Inductive, NEW q \in Pages, Numbered(q), NEW g \in Goroutines, EndSubscriber(g),
         Head(todo[g]).page = q, q \in subscribers
  PROVE  Unoffered(q)'
<1> USE DEF Inductive
<1>1. /\ UNCHANGED <<pageVars, pageHistory>> /\ SendJSON(q, Msg("ended")) /\ UNCHANGED toServer
      /\ todo[g] # << >> /\ Head(todo[g]) = Reset(q) /\ \A f \in Goroutines : f # g => todo'[f] = todo[f]
      /\ ReplacePC(q, {})
  BY EndDoes DEF ServerActs
<1>2. peer'[q].n = peer[q].n + 1 /\ peer'[q].state = "stable" /\ peer'[q].remote = 0 /\ peer'[q].has = {}
  BY <1>1, ReplaceDoes
<1>3. todo'[Negotiation(q)] = todo[Negotiation(q)]
  BY <1>1, NegotiationTells, GoroutineNames DEF Reset
<1>4. Fits(q, {})'
  BY <1>2 DEF Fits
<1>5. QED
  BY <1>1, <1>2, <1>3, <1>4, FreshServes

(* What the server does for a guest, the offers apart.                     *)
LEMMA StepServes ==
  ASSUME Inductive, Inductive', NEW q \in Pages, Numbered(q), Welcome(q), StepOf(q), ~Page(q),
         q \in subscribers', q \notin disturbed', ws'[q] = "open"
  PROVE  Unoffered(q)' \/ UnderOffer(q)'
<1> DEFINE Goal == Unoffered(q)' \/ UnderOffer(q)'
<1> USE DEF Inductive
<1>1. publisher' # q /\ session'[q] = "subscriber"
  BY DEF Conversation, SessionsAreMembers
<1>2. ASSUME UNCHANGED <<pageVars, pageHistory>>, UNCHANGED <<subscribers, disturbed>>
      PROVE  ws[q] = "open" /\ q \in subscribers /\ (Unoffered(q) \/ UnderOffer(q))
  BY <1>2, PageVarsSame DEF Welcome, GuestServed
<1>3. ASSUME UNCHANGED <<pageVars, pageHistory>>, UNCHANGED <<subscribers, disturbed>>,
             peer'[q].n = peer[q].n, peer'[q].state = peer[q].state, peer'[q].remote = peer[q].remote,
             peer'[q].has = peer[q].has, due'[q] = due[q],
             todo'[Negotiation(q)] = todo[Negotiation(q)],
             \/ UNCHANGED toServer
             \/ \E a : Take(q, a) /\ (a = "answer" => peer[q].state = "stable"),
             \/ UNCHANGED toPage
             \/ \E m \in Message : SendJSON(q, m) /\ m.action \notin {"offer", "ended"}
      PROVE  Goal
  BY <1>2, <1>3, ServerStillServes
<1>4. ASSUME NEW a \in {"request_publish", "stop"}, Take(q, a), Unbothered, UNCHANGED <<pageVars, pageHistory>>,
             NEW b \in Actions \ {"offer", "ended"}, SendJSON(q, Msg(b))
      PROVE  Goal
  BY <1>3, <1>4, WhatMessagesSay DEF Unbothered
<1>5. CASE Join(q)
  BY <1>5, JoinServes
<1>6. CASE RequestPublish(q)
  BY <1>4, <1>6, RequestPublishDoes DEF Actions, ServerActs
<1>7. CASE Stop(q)
  BY <1>1, <1>4, <1>7, StopDoes DEF Actions, StopDone, ServerActs
<1>8. CASE ServerHandleOffer(q)
  BY <1>1, <1>8, ServerHandleOfferDoes, TakeDoes, Queues, CarriedBehind DEF Sent, Welcome,
      GuestRests, Conversation, RolesFollow
<1>9. CASE ServerHandleAnswer(q)
  BY <1>9, ServerHandleAnswerDoes, PageVarsSame, ServerHandleAnswerServes DEF ServerActs
<1>10. CASE ServerHandleCandidate(q)
  BY <1>3, <1>10, ServerHandleCandidateDoes DEF ServerActs
<1>11. CASE Cleanup(q)
  BY <1>11, CleanupDoes
<1>12. CASE OnConnectionStateChange(q)
  BY <1>1, <1>12, FailureDoes, Zenon DEF StopDone
<1>13. CASE NegotiateSubscriber(q)
  BY <1>13, NegotiateDoes, PageVarsSame, NegotiateServes DEF ServerActs
<1>14. CASE OnICECandidate(q)
  <2>1. peer[q].n \in Serials
    BY DEF Typed, PeersTyped, PC
  <2>2. Candidate(peer[q].n) \in Message /\ Candidate(peer[q].n).action = "candidate"
    BY <2>1, WhatMessagesSay
  <2>3. QED
    BY <1>3, <1>14, <2>2, CandidateDoes DEF ServerActs
<1>15. ASSUME NEW g \in {Session(q), Negotiation(q)}, Tells(q, g)
       PROVE  Goal
  <2>1. /\ UNCHANGED <<pageVars, pageHistory>> /\ SendJSON(q, Head(todo[g]).msg)
        /\ UNCHANGED <<toServer, subscribers, disturbed, peer, due>>
        /\ \A f \in Goroutines : f # g => todo'[f] = todo[f]
    BY <1>15, TellNextDoes DEF Tells, ServerActs
  <2>2. CASE g = Negotiation(q)
    BY <1>2, <1>15, <2>1, <2>2, OfferServes DEF Welcome
  <2>3. CASE g = Session(q)
    <3>1. todo'[Negotiation(q)] = todo[Negotiation(q)]
      BY <2>1, <2>3, GoroutineNames DEF Negotiation, Session
    <3>2. Head(todo[g]).msg \in Message /\ Head(todo[g]).msg.action = "answer"
      BY <1>15, <2>3 DEF Tells
    <3>3. QED
      BY <1>3, <2>1, <3>1, <3>2
  <2>4. QED
    BY <2>2, <2>3
<1>16. ASSUME NEW g \in Goroutines, EndSubscriber(g), Head(todo[g]).page = q
       PROVE  Goal
  BY <1>16, EndDoes, EndServes
<1>17. ASSUME NEW g \in Goroutines, ResetPublisherPC(g), Head(todo[g]).page = q
       PROVE  Goal
  <2>1. /\ UNCHANGED <<pageVars, pageHistory>> /\ UNCHANGED <<toServer, toPage, subscribers, due, publisher>>
        /\ todo[g] # << >> /\ Head(todo[g]) = Renew(q) /\ \A f \in Goroutines : f # g => todo'[f] = todo[f]
    BY <1>17, RenewDoes DEF ServerActs
  <2>2. UNCHANGED <<peer, disturbed>>
    BY <1>1, <1>17, <2>1, RenewDoes
  <2>3. todo'[Negotiation(q)] = todo[Negotiation(q)]
    BY <2>1, NegotiationTells, GoroutineNames DEF Renew
  <2>4. QED
    BY <1>3, <2>1, <2>2, <2>3
<1>18. QED
  BY <1>5, <1>6, <1>7, <1>8, <1>9, <1>10, <1>11, <1>12, <1>13, <1>14, <1>15, <1>16, <1>17 DEF StepOf, Handle

LEMMA ElsewhereWelcomes ==
  ASSUME Inductive, NEW q \in Pages, Numbered(q), Welcome(q), Elsewhere(q),
         q \in subscribers' \ disturbed' => UpToDate(q)'
  PROVE  Welcome(q)'
<1> USE DEF Inductive
<1>1. GuestRests(q)' /\ (q \in subscribers' \ disturbed' => q \in subscribers \ disturbed)
  BY ElsewhereRests DEF Welcome, Elsewhere, ServerSame
<1>2. todo'[Negotiation(q)] = todo[Negotiation(q)]
  BY NegotiationTells DEF Elsewhere, TodoSame
<1>3. \A h : Fits(q, h) => Fits(q, h)'
  BY DEF Elsewhere, OfferSame, Fits
<1>4. ws'[q] = ws[q] /\ pc'[q] = pc[q] /\ toServer'[q] = toServer[q] /\ toPage'[q] = toPage[q]
  BY DEF Elsewhere, PageSame, WireSame
<1>5. peer'[q].n = peer[q].n /\ peer'[q].state = peer[q].state /\ peer'[q].remote = peer[q].remote
  BY DEF Elsewhere, ServerSame
<1>6. GuestServed(q) => GuestServed(q)'
  BY <1>2, <1>3, <1>4, <1>5, StillServed DEF GuestServed
<1>7. QED
  BY <1>1, <1>6 DEF Welcome

LEMMA StepWelcomes ==
  ASSUME Inductive, Inductive', NEW p \in Pages, StepOf(p), NEW q \in Pages, Numbered(q), Welcome(q)
  PROVE  Welcome(q)'
<1>1. q \in subscribers' \ disturbed' => UpToDate(q)'
  BY StepsKeepUpToDate
<1>2. CASE q # p
  BY <1>1, <1>2, StepsAreApart, ElsewhereWelcomes DEF Others
<1>3. CASE q = p /\ Page(p)
  BY <1>3, PageWelcomes
<1>4. CASE q = p /\ ~Page(p)
  BY <1>1, <1>4, StepRests, StepServes DEF Welcome, GuestServed
<1>5. QED
  BY <1>2, <1>3, <1>4

(* A track is added to the peer connections of all guests, and a new offer *)
(* of them is due.                                                         *)
LEMMA TrackWelcomes ==
  ASSUME Inductive, NEW p \in Pages, NEW k \in Kinds, TrackArrives(p, k), NEW q \in Pages, Welcome(q)
  PROVE  Welcome(q)'
<1> USE DEF Inductive
<1>1. /\ UNCHANGED <<pageVars, pageHistory>> /\ UNCHANGED <<toServer, toPage, subscribers, todo, disturbed>>
      /\ tracks' = tracks \cup {k} /\ WireSame(q) /\ ServerSame(q) /\ TodoSame(q)
      /\ q \in subscribers => peer'[q].has = peer[q].has \cup {k} /\ due'[q] = due[q] \cup {"timer"}
  BY TrackDoes
<1>2. GuestRests(q)'
  BY <1>1, PageUnchanged, ElsewhereRests DEF Welcome
<1>3. ASSUME q \in subscribers, UpToDate(q), GuestServed(q)
      PROVE  UpToDate(q)' /\ GuestServed(q)'
  BY <1>1, <1>3, PageVarsSame, StillServed DEF UpToDate, ResetDue, Fits, ServerSame, GuestServed
<1>4. QED
  BY <1>1, <1>2, <1>3 DEF Welcome

AllWelcome == \A q \in Pages : Welcome(q)

LEMMA WelcomeInit == Init => AllWelcome
<1> SUFFICES ASSUME Init, NEW q \in Pages PROVE Welcome(q)
  BY DEF AllWelcome
<1>1. /\ canShare[q] /\ stream[q] = 0 /\ shares[q] = {} /\ pc[q] = Null /\ subscribers = {}
      /\ toServer[q] = << >> /\ todo[Negotiation(q)] = << >>
  BY GoroutineNames DEF Init
<1>2. QED
  BY <1>1, NullFields, NothingIn DEF Welcome, GuestRests

LEMMA WelcomeNext == Inductive /\ AllNumbered /\ AllWelcome /\ [Next]_vars => AllWelcome'
<1> SUFFICES ASSUME Inductive, AllNumbered, AllWelcome, [Next]_vars, NEW q \in Pages PROVE Welcome(q)'
  BY DEF AllWelcome
<1>1. Inductive' /\ Welcome(q) /\ Numbered(q)
  BY NextInductive DEF AllWelcome, AllNumbered
<1>2. ASSUME NEW p \in Pages, StepOf(p)
      PROVE  Welcome(q)'
  BY <1>1, <1>2, StepWelcomes
<1>3. ASSUME NEW p \in Pages, NEW k \in Kinds, TrackArrives(p, k)
      PROVE  Welcome(q)'
  BY <1>1, <1>3, TrackWelcomes
<1>4. CASE UNCHANGED vars
  <2>1. UNCHANGED <<peer, todo, tracks, subscribers, disturbed>>
    BY <1>4 DEF vars, serverVars, roomVars, peerVars, serverHistory, pcHistory
  <2>2. q \in subscribers' \ disturbed' => UpToDate(q)'
    BY <1>1, <2>1 DEF Welcome, UpToDate, ResetDue
  <2>3. QED
    BY <1>1, <1>4, <2>2, StutterElsewhere, ElsewhereWelcomes
<1>5. QED
  BY <1>2, <1>3, <1>4, Steps

(* When nothing is on its way in a live room, every guest is connected and *)
(* was offered every track of the room (AddSubscriber,                     *)
(* handlePublisherTrack, scheduleSubscriberReneg and negotiateSubscriber   *)
(* of pkg/room/room.go, handleOffer of public/js/webrtc.js), whenever it   *)
(* came and however often the stream ended before.  Excepted are four      *)
(* kinds of guests (disturbed): one that could not be offered again, for   *)
(* its answer was still out; one offered again on a connected Peer.PC,     *)
(* which its page answers from a new connection; one whose renewed Peer.PC *)
(* took its late answer to an offer of the one before; and one that was    *)
(* reset late, in a room that was live again.                              *)
THEOREM GuestsAreServed == Spec => []GuestsSee
<1> DEFINE Inv == Inductive /\ AllNumbered /\ AllWelcome
<1>1. Init => Inv
  BY InitInductive, NumberedInit, WelcomeInit
<1>2. Inv /\ [Next]_vars => Inv'
  BY NextInductive, NumberedNext, WelcomeNext
<1>3. Inv => GuestsSee
  <2> SUFFICES ASSUME Inv, Quiet, tracks # {}, NEW q \in subscribers, q \notin disturbed
               PROVE  Linked(q) /\ pc[q].has = tracks
    BY DEF GuestsSee
  <2>1. q \in Pages
    BY DEF Inductive, Typed, RoomTyped
  <2>2. /\ toServer[q] = << >> /\ toPage[q] = << >> /\ due[q] = {} /\ pc[q].state \in {"stable", "offered"}
        /\ ws[q] = "closed" => session[q] = "left"
        /\ \A g \in Goroutines : todo[g] = << >>
    BY <2>1 DEF Quiet
  <2>3. UpToDate(q) /\ GuestServed(q)
    BY <2>1 DEF AllWelcome, Welcome
  <2>4. peer[q].has = tracks
    BY <2>2, <2>3, NothingIn DEF UpToDate, ResetDue
  <2>5. session[q] = "subscriber" /\ ws[q] = "open" /\ peer[q].n # 0
    BY <2>1, <2>2 DEF Inductive, Conversation, SessionsAreMembers, Typed, PageTyped, AllNumbered,
        Numbered, ServerNumbers
  <2>6. ~UnderOffer(q)
    <3>1. todo[Negotiation(q)] = << >>
      BY <2>1, <2>2, GoroutineNames
    <3>2. ~InPage(q) /\ ~AtPage(q) /\ ~InServer(q)
      BY <2>2, NothingIn, Zenon DEF InPage, AtPage, InServer
    <3>3. QED
      BY <3>1, <3>2 DEF UnderOffer, OfferTold, InTodo, OfferSent, OfferTaken, OfferAnswered
  <2>7. Unoffered(q) /\ \A h : Fits(q, h) => h = tracks
    BY <2>2, <2>3, <2>4, <2>5, <2>6 DEF GuestServed, Fits
  <2>8. Shown(q) /\ pc[q].n = peer[q].remote /\ peer[q].state = "stable"
    BY <2>7 DEF Unoffered
  <2>9. QED
    BY <2>5, <2>7, <2>8 DEF Shown, Linked
<1> HIDE DEF Inv
<1>4. QED
  BY <1>1, <1>2, <1>3, PTL DEF Spec

----------------------------------------------------------------------------
(* Hosts *)

(* The offer the handler has not taken, and what is still told to a page   *)
(* of the messages A.                                                      *)
Outstanding(p) == Carries(toServer[p], Of({"offer"}, pc[p].n))
Telling(A) == {i \in Instruction : i.do = "tell" /\ i.msg \in A}
Due(s, t, A) == Carries(s, Telling(A)) \/ Carries(t, A)
AnswerDue(p) == Due(todo[Session(p)], toPage[p], Answering(pc[p].n))
Stale(p) == {m \in Answering(pc[p].n) : ~(m.n = peer[p].n /\ peer[p].remote = pc[p].n)}

(* A page that says it is live has a stream, and no share under way.       *)
Hosting(p) ==
    /\ ~canShare[p] => stream[p] # 0
    /\ \A s \in shares[p] : s.n = pc[p].n /\ s.n # 0 => stream[p] # 0
    /\ ws[p] = "connecting" /\ ~canShare[p] => p \in unsent
    /\ p \notin overlapped /\ ~canShare[p] => shares[p] = {}

(* A host is not called or dismissed as a guest.                           *)
Admitted(p) ==
    /\ publisher = p => peer[p].state = "stable"
    /\ ws[p] = "open" /\ session[p] = "none" => Has(toServer[p], {"join"}) \/ Has(toPage[p], {Taken})
    /\ p \notin outdated =>
          /\ role[p] = "publisher" => ~Carries(toPage[p], Replacing)
          /\ Never(toPage[p], Sent({"publish_ok"}), Replacing)

(* Of a share that has made no offer yet the server has not heard.         *)
Silent(p) == pc[p].state = "stable" /\ ~Outstanding(p) /\ ~AnswerDue(p)
Unheard(p) ==
    p \notin overlapped \cup outdated =>
        \A s \in shares[p] : /\ s.n = 0 => pc[p].n = 0
                             /\ s.n # 0 /\ s.n = pc[p].n => Silent(p)

Live(p) ==
    /\ ws[p] = "open" /\ ~canShare[p] /\ p \notin unsent \cup outdated \cup overlapped
    /\ ~Has(toPage[p], {Taken})

(* How far the connection of a live page is.                               *)
Asking(p) == pc[p].state = "offered" /\ (Outstanding(p) \/ AnswerDue(p))
Accepting(p) == pc[p].state = "applying" /\ pc[p].asked = peer[p].n /\ peer[p].remote = pc[p].n
Connected(p) == pc[p].state = "stable" /\ pc[p].remote = peer[p].n /\ peer[p].remote = pc[p].n

(* What makes the server forget the page comes before its offer.           *)
Restarts == Sent({"join", "offer", "stop"})
Answered(p) ==
    /\ pc[p].n # 0 /\ pc[p].state # "answering"
    /\ Followed(toServer[p], Restarts, Of({"offer"}, pc[p].n))
    /\ Never(toServer[p], Of({"offer"}, pc[p].n), Of({"offer"}, pc[p].n))
    /\ Carries(todo[Session(p)], {Renew(p)}) => Outstanding(p)
    /\ Outstanding(p) => ~AnswerDue(p) /\ (pc[p].state = "offered" \/ p \in crossed)
    /\ Due(todo[Session(p)], toPage[p], Stale(p)) => p \in disturbed
    /\ p \in disturbed \cup crossed \/ Asking(p) \/ Accepting(p) \/ Connected(p)

Heard(p) == Hosting(p) /\ Admitted(p) /\ Unheard(p) /\ (Live(p) => Answered(p))

----------------------------------------------------------------------------
LEMMA HostKinship ==
  ASSUME NEW m \in Message, NEW n
  PROVE  /\ m.action \notin {"join", "offer", "stop"} => m \notin Restarts
         /\ m.action \in {"join", "offer", "stop"} => m \in Restarts
         /\ m.action # "publish_ok" <=> m \notin Sent({"publish_ok"})
         /\ m \in Of({"offer"}, n) => m \in Restarts
BY DEF Of, Sent, Restarts

(* What is told arrives, or waits.                                         *)
LEMMA DueStays ==
  ASSUME NEW s \in Seq(Instruction), NEW t \in Seq(Message), NEW r, NEW u, NEW A,
         \/ r = s
         \/ s # << >> /\ r = Tail(s) /\ Head(s).do # "tell"
         \/ ~Carries(s, Telling(A)) /\ ~Carries(r, Telling(A)),
         \/ u = t
         \/ \E m \in Message : u = Append(t, m) /\ m \notin A
         \/ t # << >> /\ u = Tail(t) /\ Head(t) \notin A
  PROVE  Due(r, u, A) <=> Due(s, t, A)
<1>1. Carries(r, Telling(A)) <=> Carries(s, Telling(A))
  <2>1. ASSUME s # << >>, r = Tail(s), Head(s).do # "tell"
        PROVE  Carries(r, Telling(A)) <=> Carries(s, Telling(A))
    BY <2>1, CarriedBehind DEF Telling
  <2>2. QED
    BY <2>1
<1>2. Carries(u, A) <=> Carries(t, A)
  <2>1. ASSUME NEW m \in Message, u = Append(t, m), m \notin A
        PROVE  Carries(u, A) <=> Carries(t, A)
    BY <2>1, CarriedAtEnd
  <2>2. ASSUME t # << >>, u = Tail(t), Head(t) \notin A
        PROVE  Carries(u, A) <=> Carries(t, A)
    BY <2>2, CarriedBehind
  <2>3. QED
    BY <2>1, <2>2
<1>3. QED
  BY <1>1, <1>2 DEF Due

(* The page takes one message, and the others stay due.                    *)
LEMMA LessIsDue ==
  ASSUME NEW s, NEW t \in Seq(Message), NEW u, NEW A,
         u = t \/ (t # << >> /\ u = Tail(t)) \/ u = << >>
  PROVE  Due(s, u, A) => Due(s, t, A)
BY CarriedBehind, NothingIn DEF Due

LEMMA NothingDue == \A A : ~Due(<< >>, << >>, A)
BY NothingIn DEF Due

LEMMA WiderDue ==
  ASSUME NEW s, NEW t, NEW A, NEW B, A \subseteq B, Due(s, t, A)
  PROVE  Due(s, t, B)
BY Widening DEF Telling, Due

LEMMA PageHosts ==
  ASSUME Inductive, NEW p \in Pages, Numbered(p), Hosting(p), Page(p)
  PROVE  Hosting(p)'
<1> USE DEF Inductive
<1>1. CASE OnOpen(p) \/ OnClose(p) \/ OnRefused(p)
  BY <1>1, OpenDoes, CloseDoes, RefusedDoes DEF Hosting
<1>2. CASE OnTaken(p)
  BY <1>2, TakenDoes DEF Hosting
<1>3. CASE RequestShare(p)
  BY <1>3, RequestShareDoes, StartDoes, NullFields DEF Hosting
<1>4. CASE StopShare(p) \/ ShareFails(p)
  BY <1>4, StopShareDoes, ShareFailsDoes, NullFields DEF Hosting
<1>5. CASE OnEnded(p)
  BY <1>5, EndedDoes, NullFields DEF Hosting
<1>6. CASE OnPublishOk(p)
  BY <1>6, PublishOkDoes, StartDoes, NullFields DEF Hosting
<1>7. CASE HandleOffer(p)
  BY <1>7, HandleOfferDoes, Counts DEF Numbered, PageNumbers, Hosting
<1>8. CASE HandleAnswer(p) \/ HandleCandidate(p) \/ ApplyAnswer(p)
  BY <1>8, HandleAnswerDoes, HandleCandidateDoes, ApplyAnswerDoes DEF Hosting
<1>9. CASE Answer(p)
  <2>1. UNCHANGED <<ws, shares, stream, canShare, overlapped>> /\ pc'[p].n = pc[p].n /\ (p \in unsent => p \in unsent')
    BY <1>9, AnswerDoes, SendDoes, Zenon
  <2>2. QED
    BY <2>1 DEF Hosting
<1>10. CASE Captured(p)
  BY <1>10, CapturedDoes DEF Hosting
<1>11. CASE Offered(p)
  <2>1. /\ UNCHANGED <<ws, stream, overlapped>> /\ pc'[p].n = pc[p].n /\ pc[p].n # 0
        /\ ws[p] # "open" => p \in unsent'
    BY <1>11, OfferedDoes, SendDoes, Zenon
  <2>2. PICK s \in shares[p] : s.n = pc[p].n /\ shares'[p] = shares[p] \ {s}
    BY <1>11, OfferedDoes, Zenon
  <2>3. stream[p] # 0
    BY <2>1, <2>2 DEF Hosting
  <2>4. p \notin overlapped => shares'[p] = {}
    BY <2>2 DEF SharesAreAlone
  <2>5. QED
    BY <2>1, <2>3, <2>4 DEF Hosting
<1>12. CASE ShareHangs(p)
  BY <1>12, ShareHangsDoes DEF Hosting
<1>13. QED
  BY <1>1, <1>2, <1>3, <1>4, <1>5, <1>6, <1>7, <1>8, <1>9, <1>10, <1>11, <1>12 DEF Page, Receive, Settle

LEMMA HostsStay ==
  ASSUME NEW p \in Pages, Hosting(p), PageSame(p)
  PROVE  Hosting(p)'
BY DEF Hosting, PageSame

(* What a connected page does to its wire and its role.                    *)
LEMMA PageTalks ==
  ASSUME Inductive, NEW p \in Pages, Page(p), ~OnOpen(p), ~OnClose(p), ~OnTaken(p)
  PROVE  /\ ws' = ws /\ (role' = role \/ OnPublishOk(p))
         /\ toServer' = toServer \/ \E ms \in Seq(Message) : Send(p, ms)
         /\ toPage' = toPage \/ \E a \in Actions \ {Taken} : OnMessage(p, a)
<1> USE DEF Inductive
<1>1. {"offer", "answer", "candidate", "ended", "live_active", "error", "publish_ok"} \subseteq Actions \ {Taken}
  BY DEF Actions, Taken
<1>2. CASE RequestShare(p)
  BY <1>2, PlainIsNoOffer, RequestShareDoes DEF Actions
<1>3. CASE StopShare(p)
  BY <1>3, PlainIsNoOffer, StopShareDoes DEF Actions
<1>4. CASE OnEnded(p) \/ OnRefused(p) \/ OnPublishOk(p)
  BY <1>1, <1>4, EndedDoes, RefusedDoes, PublishOkDoes
<1>5. CASE HandleOffer(p) \/ HandleAnswer(p) \/ HandleCandidate(p)
  BY <1>1, <1>5, HandleOfferDoes, HandleAnswerDoes, HandleCandidateDoes
<1>6. CASE Answer(p)
  BY <1>6, OneSerial, AnswerIsNoOffer, AnswerDoes
<1>7. CASE Offered(p)
  BY <1>7, OneSerial, WhatMessagesSay, WithCandidates, OfferedDoes
<1>8. CASE ApplyAnswer(p) \/ Captured(p) \/ ShareFails(p) \/ ShareHangs(p)
  BY <1>8, ApplyAnswerDoes, CapturedDoes, ShareFailsDoes, ShareHangsDoes
<1>9. QED
  BY <1>2, <1>3, <1>4, <1>5, <1>6, <1>7, <1>8 DEF Page, Receive, Settle

(* A page that hears is dismissed or called no more than before.           *)
LEMMA PageAdmits ==
  ASSUME Inductive, NEW p \in Pages, Admitted(p), Page(p)
  PROVE  Admitted(p)'
<1> DEFINE Call == Sent({"publish_ok"})
           t == toPage[p]
           s == toServer[p]
<1> USE DEF Inductive
<1>1. UNCHANGED <<publisher, peer, session, outdated>>
  BY OnlyOnePage DEF PageActs, serverVars, roomVars, peerVars, serverHistory
<1>2. CASE OnOpen(p)
  <2>1. /\ toServer'[p] = <<Msg("join")>> /\ UNCHANGED <<role, toPage>>
    BY <1>2, OpenDoes
  <2>2. Msg("join").action = "join"
    BY WhatMessagesSay, Zenon DEF Actions
  <2>3. Has(toServer'[p], {"join"})
    BY <2>1, <2>2, HasOne
  <2>4. QED
    BY <1>1, <2>1, <2>3 DEF Admitted
<1>3. CASE OnClose(p) \/ OnTaken(p)
  BY <1>1, <1>3, CloseDoes, TakenDoes, NothingIn DEF Admitted
<1>4. CASE ~OnOpen(p) /\ ~OnClose(p) /\ ~OnTaken(p)
  <2>1. s \in Seq(Message) /\ t \in Seq(Message)
    BY Queues
  <2>2. Has(s, {"join"}) => Has(toServer'[p], {"join"})
    <3>1. toServer'[p] = s \/ \E ms \in Seq(Message) : toServer'[p] = s \o ms
      BY <1>4, PageTalks, SendDoes, Zenon
    <3>2. \A ms \in Seq(Message) : Has(s \o ms, {"join"}) <=> Has(s, {"join"}) \/ Has(ms, {"join"})
      BY <2>1, HasConcat
    <3>3. QED
      BY <3>1, <3>2, Zenon
  <2>3. \/ toPage'[p] = t
        \/ t # << >> /\ toPage'[p] = Tail(t) /\ Head(t) \in Message /\ Head(t).action # Taken
    BY <1>4, PageTalks, HearDoes
  <2>4. Has(t, {Taken}) => Has(toPage'[p], {Taken})
    BY <2>1, <2>3, HasTail
  <2>5. /\ Carries(toPage'[p], Replacing) => Carries(t, Replacing)
        /\ Never(t, Call, Replacing) => Never(toPage'[p], Call, Replacing)
    <3>1. t # << >> => /\ Carries(Tail(t), Replacing) => Carries(t, Replacing)
                       /\ Never(t, Call, Replacing) => Never(Tail(t), Call, Replacing)
      BY <2>1, Removal, Zenon
    <3>2. QED
      BY <2>3, <3>1
  <2>6. ASSUME p \notin outdated, role'[p] = "publisher"
        PROVE  ~Carries(toPage'[p], Replacing)
    <3>1. CASE role' = role
      BY <2>5, <2>6, <3>1 DEF Admitted
    <3>2. CASE OnPublishOk(p)
      BY <2>1, <2>6, <3>2, PublishOkDoes, HearDoes, Removal DEF Sent, Admitted
    <3>3. QED
      BY <1>4, <3>1, <3>2, PageTalks
  <2>7. ws' = ws
    BY <1>4, PageTalks
  <2>8. QED
    BY <1>1, <2>2, <2>4, <2>5, <2>6, <2>7 DEF Admitted
<1>5. QED
  BY <1>2, <1>3, <1>4

(* Until the join of a page is taken, or its refusal, it waits there.      *)
LEMMA JoinWaits ==
  ASSUME Inductive, NEW p \in Pages, Admitted(p), ws[p] = "open", session[p] = "none",
         UNCHANGED toServer \/ \E a : Take(p, a) /\ a # "join",
         UNCHANGED toPage \/ \E m \in Message : SendJSON(p, m)
  PROVE  Has(toServer'[p], {"join"}) \/ Has(toPage'[p], {Taken})
<1> DEFINE s == toServer[p]
           t == toPage[p]
<1> USE DEF Inductive
<1>1. s \in Seq(Message) /\ t \in Seq(Message)
  BY Queues
<1>2. Has(t, {Taken}) => Has(toPage'[p], {Taken})
  <2>1. toPage'[p] = t \/ \E m \in Message : toPage'[p] = Append(t, m)
    BY TellDoes
  <2>2. \A m \in Message : Has(t, {Taken}) => Has(Append(t, m), {Taken})
    BY <1>1, HasAppend
  <2>3. QED
    BY <2>1, <2>2, Zenon
<1>3. ASSUME NEW a, Take(p, a), a # "join" PROVE ~Has(s, {"join"})
  BY <1>1, <1>3, TakeDoes DEF Conversation, JoinsComeFirst, Has, JoinFirst
<1>4. QED
  BY <1>2, <1>3 DEF Admitted

(* A step of the server that calls or dismisses no host.                   *)
LEMMA StillAdmitted ==
  ASSUME Inductive, NEW p \in Pages, Admitted(p), ws'[p] = ws[p], role'[p] = role[p],
         publisher' = p => peer'[p].state = "stable",
         ws[p] = "open" /\ session'[p] = "none" => Has(toServer'[p], {"join"}) \/ Has(toPage'[p], {Taken}),
         p \in outdated => p \in outdated',
         \/ toPage'[p] = toPage[p]
         \/ \E m \in Message :
               /\ toPage'[p] = Append(toPage[p], m)
               /\ p \notin outdated' /\ m \in Replacing => role[p] # "publisher" /\ ~Has(toPage[p], {"publish_ok"})
  PROVE  Admitted(p)'
<1> DEFINE Call == Sent({"publish_ok"})
           t == toPage[p]
<1> USE DEF Inductive
<1>1. t \in Seq(Message)
  BY Queues
<1>2. ASSUME NEW m \in Message, p \notin outdated',
             toPage'[p] = Append(t, m), m \in Replacing => role[p] # "publisher" /\ ~Has(t, {"publish_ok"})
      PROVE  /\ role[p] = "publisher" => ~Carries(toPage'[p], Replacing)
             /\ Never(toPage'[p], Call, Replacing)
  <2>1. /\ role[p] = "publisher" => ~Carries(t, Replacing)
        /\ Never(t, Call, Replacing)
    BY <1>2 DEF Admitted
  <2>2. Carries(t, Call) => Has(t, {"publish_ok"})
    BY DEF Carries, Has, Sent
  <2>3. Carries(Append(t, m), Replacing) <=> Carries(t, Replacing) \/ m \in Replacing
    BY <1>1, CarriedAtEnd
  <2>4. Never(t, Call, Replacing) /\ ~(Carries(t, Call) /\ m \in Replacing) => Never(Append(t, m), Call, Replacing)
    BY <1>1, Addition
  <2>5. QED
    BY <1>2, <2>1, <2>2, <2>3, <2>4
<1>3. p \notin outdated' => /\ role[p] = "publisher" => ~Carries(toPage'[p], Replacing)
                            /\ Never(toPage'[p], Call, Replacing)
  BY <1>2 DEF Admitted
<1>4. QED
  BY <1>3 DEF Admitted

LEMMA StepAdmits ==
  ASSUME Inductive, Inductive', NEW p \in Pages, Numbered(p), Admitted(p), StepOf(p), ~Page(p)
  PROVE  Admitted(p)'
<1> DEFINE Calm(m) == m \notin Replacing
           Free == /\ session'[p] = "none" => session[p] = "none"
                   /\ UNCHANGED toServer \/ \E a : Take(p, a) /\ a # "join"
<1> USE DEF Inductive
<1>1. UNCHANGED <<pageVars, pageHistory>>
  BY JoinDoes, RequestPublishDoes, StopDoes, ServerHandleOfferDoes, ServerHandleAnswerDoes, ServerHandleCandidateDoes,
     CleanupDoes, FailureDoes, NegotiateDoes, CandidateDoes, TellNextDoes, EndDoes, RenewDoes
  DEF StepOf, Handle, ServerActs, Tells
<1>2. ws' = ws /\ role' = role
  BY <1>1, PageVarsSame
<1>3. ASSUME publisher' = p => peer'[p].state = "stable", p \in outdated => p \in outdated',
             \/ Free
             \/ ws[p] = "open" /\ session'[p] = "none" => Has(toServer'[p], {"join"}) \/ Has(toPage'[p], {Taken}),
             \/ UNCHANGED toPage
             \/ \E m \in Message :
                   /\ SendJSON(p, m)
                   /\ p \notin outdated' /\ m \in Replacing => role[p] # "publisher" /\ ~Has(toPage[p], {"publish_ok"})
      PROVE  Admitted(p)'
  BY <1>2, <1>3, JoinWaits, TellDoes, StillAdmitted
<1>4. publisher = p => peer[p].state = "stable"
  BY DEF Admitted
<1>5. \A a \in Actions \ {"offer", "ended"} : Msg(a) \in Message /\ Msg(a) \notin Replacing /\ Msg(a).action = a
  BY WhatMessagesSay, GuestKinship
<1>6. {"publish_ok", "live_active", "error", Taken} \subseteq Actions \ {"offer", "ended"}
  BY DEF Actions, Taken
<1>7. p \in subscribers => publisher # p /\ role[p] # "publisher" /\ ~Has(toPage[p], {"publish_ok"})
  BY DEF Conversation, SessionsAreMembers, RolesFollow
<1>8. CASE Join(p)
  <2>1. Take(p, "join") /\ UNCHANGED outdated /\ tracks \in SUBSET Kinds
    BY <1>8, JoinDoes DEF Typed, RoomTyped
  <2>2. CASE SendJSON(p, Msg(Taken)) /\ Unbothered
    <3>1. ws[p] = "open" => Has(toPage'[p], {Taken})
      <4> DEFINE m == Msg(Taken)
      <4>1. m \in Message /\ m.action = Taken
        BY <1>5, <1>6
      <4>2. ws[p] = "open" => toPage'[p] = Append(toPage[p], m)
        BY <2>2, TellDoes
      <4>3. Has(Append(toPage[p], m), {Taken})
        <5>1. toPage[p] \in Seq(Message)
          BY Queues
        <5> HIDE DEF m
        <5>2. QED
          BY <4>1, <5>1, HasAppend
      <4>4. QED
        BY <4>2, <4>3, Zenon
    <3>2. QED
      BY <1>3, <1>4, <1>5, <1>6, <2>1, <2>2, <3>1 DEF Unbothered
  <2>3. CASE UNCHANGED toPage /\ session'[p] = role[p] /\ NewPC(p, {})
    BY <1>3, <2>1, <2>3, NewPCDoes DEF Typed, PageTyped
  <2>4. CASE UNCHANGED toPage /\ session'[p] = role[p] /\ publisher' # p
    BY <1>3, <2>1, <2>4 DEF Typed, PageTyped
  <2>5. QED
    BY <1>8, <2>2, <2>3, <2>4, JoinDoes
<1>9. CASE RequestPublish(p)
  <2>1. Take(p, "request_publish") /\ UNCHANGED outdated
    BY <1>9, RequestPublishDoes
  <2>2. \E a \in {"publish_ok", "live_active", "error"} : SendJSON(p, Msg(a))
    BY <1>9, RequestPublishDoes
  <2>3. CASE Unbothered
    BY <1>3, <1>4, <1>5, <1>6, <2>1, <2>2, <2>3 DEF Unbothered
  <2>4. CASE NewPC(p, {}) /\ session'[p] = "publisher"
    BY <1>3, <1>5, <1>6, <2>1, <2>2, <2>4, NewPCDoes
  <2>5. QED
    BY <1>9, <2>3, <2>4, RequestPublishDoes
<1>10. CASE Stop(p)
  BY <1>3, <1>4, <1>5, <1>6, <1>10, StopDoes DEF StopDone, Unbothered
<1>11. CASE ServerHandleOffer(p)
  <2>1. Take(p, "offer") /\ UNCHANGED <<session, publisher, outdated>>
    BY <1>11, ServerHandleOfferDoes
  <2>2. UNCHANGED toPage \/ SendJSON(p, Msg("error"))
    BY <1>11, ServerHandleOfferDoes
  <2>3. UNCHANGED peer \/ peer'[p].state = "stable"
    BY <1>11, <2>1, TakeDoes, ServerHandleOfferDoes, SetRemoteDoes DEF Unbothered
  <2>4. QED
    BY <1>3, <1>4, <1>5, <1>6, <2>1, <2>2, <2>3
<1>12. CASE ServerHandleAnswer(p)
  <2>1. Take(p, "answer") /\ UNCHANGED <<session, publisher, outdated>>
    BY <1>12, ServerHandleAnswerDoes
  <2>2. UNCHANGED toPage \/ SendJSON(p, Msg("error"))
    BY <1>12, ServerHandleAnswerDoes
  <2>3. UNCHANGED peer \/ peer'[p].state = "stable"
    BY <1>12, <2>1, TakeDoes, ServerHandleAnswerDoes, SetRemoteDoes DEF Unbothered
  <2>4. QED
    BY <1>3, <1>4, <1>5, <1>6, <2>1, <2>2, <2>3
<1>13. CASE ServerHandleCandidate(p)
  BY <1>3, <1>4, <1>13, ServerHandleCandidateDoes
<1>14. CASE Cleanup(p)
  BY <1>3, <1>14, CleanupDoes
<1>15. CASE OnConnectionStateChange(p)
  BY <1>3, <1>4, <1>15, FailureDoes, Zenon DEF StopDone
<1>16. CASE NegotiateSubscriber(p)
  BY <1>3, <1>7, <1>16, NegotiateDoes DEF Numbered, ServerNumbers
<1>17. CASE OnICECandidate(p)
  <2>1. Candidate(peer[p].n) \in Message /\ Candidate(peer[p].n) \notin Replacing
    BY WhatMessagesSay, GuestKinship DEF Typed, PeersTyped, PC
  <2>2. QED
    BY <1>3, <1>4, <1>17, <2>1, CandidateDoes
<1>18. ASSUME NEW g \in {Session(p), Negotiation(p)}, Tells(p, g)
       PROVE  Admitted(p)'
  <2> DEFINE m == Head(todo[g]).msg
  <2>1. /\ SendJSON(p, m) /\ UNCHANGED <<toServer, session, publisher, peer>> /\ m \in Message
        /\ p \in outdated' <=> p \in outdated \/ (g = Negotiation(p) /\ p \notin subscribers)
    BY <1>18, TellNextDoes DEF Tells
  <2>2. p \notin outdated' /\ m \in Replacing => p \in subscribers
    BY <1>18, <2>1, GuestKinship DEF Tells
  <2> HIDE DEF m
  <2>3. QED
    BY <1>3, <1>4, <1>7, <2>1, <2>2
<1>19. ASSUME NEW g \in Goroutines, EndSubscriber(g), Head(todo[g]).page = p
       PROVE  Admitted(p)'
  <2>1. SendJSON(p, Msg("ended")) /\ UNCHANGED <<toServer, session, publisher>>
    BY <1>19, EndDoes
  <2>2. Msg("ended") \in Message
    BY WhatMessagesSay, Zenon DEF Actions
  <2>3. CASE p \in subscribers /\ ReplacePC(p, {})
    BY <1>3, <1>7, <2>1, <2>2, <2>3, ReplaceDoes
  <2>4. CASE p \in outdated' /\ UNCHANGED peer
    BY <1>3, <1>4, <2>1, <2>2, <2>4
  <2>5. QED
    BY <1>19, <2>3, <2>4, EndDoes
<1>20. ASSUME NEW g \in Goroutines, ResetPublisherPC(g), Head(todo[g]).page = p
       PROVE  Admitted(p)'
  BY <1>3, <1>20, RenewDoes, NewPCDoes, ReplaceDoes
<1>21. QED
  BY <1>8, <1>9, <1>10, <1>11, <1>12, <1>13, <1>14, <1>15, <1>16, <1>17, <1>18, <1>19, <1>20 DEF StepOf, Handle

LEMMA ElsewhereAdmits ==
  ASSUME NEW q \in Pages, Admitted(q), PageSame(q), WireSame(q), ServerSame(q)
  PROVE  Admitted(q)'
BY DEF Admitted, PageSame, WireSame, ServerSame

(* Nothing is told while guests are dismissed and the host is renewed.     *)
LEMMA NothingTold ==
  ASSUME Typed, NEW p \in Pages, NEW A, NEW is,
         \/ is = << >> \/ is = <<Renew(p)>>
         \/ \E guests \in SetToSeqs(subscribers) : is = Dismiss(guests) \/ is = Dismiss(guests) \o <<Renew(p)>>
  PROVE  ~Carries(is, Telling(A))
<1>1. ~Carries(<<Renew(p)>>, Telling(A)) /\ <<Renew(p)>> \in Seq(Instruction)
  <2>1. Renew(p) \notin Telling(A)
    BY DEF Renew, Telling
  <2>2. QED
    BY <2>1, OneIn, OtherInstructionsWithin, Zenon
<1>2. ASSUME NEW guests \in SetToSeqs(subscribers)
      PROVE  ~Carries(Dismiss(guests), Telling(A)) /\ ~Carries(Dismiss(guests) \o <<Renew(p)>>, Telling(A))
  BY <1>1, Dismissals, Concatenation DEF Typed, RoomTyped, Carries, Telling
<1>3. QED
  BY <1>1, <1>2, NothingIn, Zenon

(* Only by taking an offer does the handler have an answer to send.        *)
LEMMA ServerDue ==
  ASSUME Inductive, NEW p \in Pages, Numbered(p), StepOf(p), ~Page(p), ~ServerHandleOffer(p),
         NEW A, A \subseteq Sent({"answer"})
  PROVE  /\ Due(todo'[Session(p)], toPage'[p], A) => Due(todo[Session(p)], toPage[p], A)
         /\ ws[p] = "open" /\ Due(todo[Session(p)], toPage[p], A) => Due(todo'[Session(p)], toPage'[p], A)
<1> DEFINE d == todo[Session(p)]
           t == toPage[p]
           Goal == /\ Due(todo'[Session(p)], toPage'[p], A) => Due(d, t, A)
                   /\ ws[p] = "open" /\ Due(d, t, A) => Due(todo'[Session(p)], toPage'[p], A)
<1> USE DEF Inductive
<1>1. d \in Seq(Instruction) /\ t \in Seq(Message)
  BY Queues
<1>2. \A m \in Message : m.action # "answer" => m \notin A
  BY DEF Sent
<1>3. ASSUME \/ todo'[Session(p)] = d
             \/ d # << >> /\ todo'[Session(p)] = Tail(d) /\ Head(d).do # "tell"
             \/ ~Carries(d, Telling(A)) /\ ~Carries(todo'[Session(p)], Telling(A)),
             UNCHANGED toPage \/ \E m \in Message : SendJSON(p, m) /\ m.action # "answer"
      PROVE  Goal
  BY <1>1, <1>2, <1>3, TellDoes, DueStays
<1>4. \A a \in Actions \ {"answer"} : Msg(a) \in Message /\ Msg(a).action # "answer"
  BY WhatMessagesSay
<1>5. {"publish_ok", "live_active", "error", "ended", Taken} \subseteq Actions \ {"answer"}
  BY DEF Actions, Taken
<1>6. CASE Join(p)
  BY <1>3, <1>4, <1>5, <1>6, JoinDoes
<1>7. CASE RequestPublish(p)
  BY <1>3, <1>4, <1>5, <1>7, RequestPublishDoes
<1>8. CASE Stop(p)
  <2>1. d = << >> /\ (UNCHANGED toPage \/ SendJSON(p, Msg("error")))
    BY <1>8, StopDoes, TakeDoes
  <2>2. \/ UNCHANGED todo
        \/ \E guests \in SetToSeqs(subscribers) : Do(Session(p), Dismiss(guests) \o <<Renew(p)>>)
        \/ Do(Session(p), <<Renew(p)>>)
    BY <1>8, StopDoes DEF StopDone, Unbothered
  <2>3. \A is : Do(Session(p), is) => todo'[Session(p)] = is
    BY DoDoes
  <2>4. ~Carries(d, Telling(A)) /\ ~Carries(todo'[Session(p)], Telling(A))
    BY <2>1, <2>2, <2>3, NothingTold, Zenon
  <2>5. QED
    BY <1>3, <1>4, <1>5, <2>1, <2>4
<1>9. CASE ServerHandleAnswer(p) \/ ServerHandleCandidate(p)
  BY <1>3, <1>4, <1>5, <1>9, ServerHandleAnswerDoes, ServerHandleCandidateDoes
<1>10. CASE Cleanup(p)
  <2>1. d = << >> /\ UNCHANGED toPage
    BY <1>10, CleanupDoes
  <2>2. UNCHANGED todo \/ \E guests \in SetToSeqs(subscribers) : Do(Session(p), Dismiss(guests))
    BY <1>10, CleanupDoes
  <2>3. \A is : Do(Session(p), is) => todo'[Session(p)] = is
    BY DoDoes
  <2>4. ~Carries(d, Telling(A)) /\ ~Carries(todo'[Session(p)], Telling(A))
    BY <2>1, <2>2, <2>3, NothingTold, Zenon
  <2>5. QED
    BY <1>3, <2>1, <2>4
<1>11. CASE OnConnectionStateChange(p)
  BY <1>3, <1>11, FailureDoes
<1>12. CASE NegotiateSubscriber(p)
  BY <1>3, <1>12, NegotiateDoes
<1>13. CASE OnICECandidate(p)
  <2>1. Candidate(peer[p].n) \in Message /\ Candidate(peer[p].n).action # "answer"
    BY WhatMessagesSay DEF Typed, PeersTyped, PC
  <2>2. QED
    BY <1>3, <1>13, <2>1, CandidateDoes
<1>14. CASE Tells(p, Negotiation(p))
  BY <1>3, <1>14, TellNextDoes, GoroutineNames DEF Negotiation, Session, Tells
<1>15. CASE Tells(p, Session(p))
  <2> DEFINE i == Head(d)
             m == Head(d).msg
  <2>1. /\ SendJSON(p, m) /\ d # << >> /\ todo'[Session(p)] = Tail(d) /\ m \in Message /\ i.do = "tell"
    BY <1>15, TellNextDoes DEF Tells
  <2>2. i \in Telling(A) <=> m \in A
    BY <1>1, <2>1 DEF Telling
  <2>3. Carries(d, Telling(A)) <=> i \in Telling(A) \/ Carries(Tail(d), Telling(A))
    BY <1>1, <2>1, CarriedBehind
  <2>4. /\ ws[p] = "open" => toPage'[p] = Append(t, m)
        /\ ws[p] # "open" => toPage'[p] = t
    BY <2>1, TellDoes
  <2> HIDE DEF m
  <2>5. Carries(Append(t, m), A) <=> Carries(t, A) \/ m \in A
    BY <1>1, <2>1, CarriedAtEnd
  <2>6. QED
    BY <2>1, <2>2, <2>3, <2>4, <2>5, Zenon DEF Due
<1>16. ASSUME NEW g \in Goroutines, EndSubscriber(g) \/ ResetPublisherPC(g), Head(todo[g]).page = p
       PROVE  Goal
  BY <1>3, <1>4, <1>5, <1>16, EndDoes, RenewDoes DEF TodoSame
<1>17. QED
  BY <1>6, <1>7, <1>8, <1>9, <1>10, <1>11, <1>12, <1>13, <1>14, <1>15, <1>16 DEF StepOf, Handle

LEMMA ElsewhereDue ==
  ASSUME Inductive, NEW q \in Pages, WireSame(q), TodoSame(q), NEW A
  PROVE  Due(todo'[Session(q)], toPage'[q], A) <=> Due(todo[Session(q)], toPage[q], A)
BY Queues, DueStays DEF Inductive, WireSame, TodoSame

(* A page hears what was due to it, and sends no offer but that of a share. *)
LEMMA PageDue ==
  ASSUME Inductive, NEW p \in Pages, Page(p), NEW A
  PROVE  Due(todo'[Session(p)], toPage'[p], A) => Due(todo[Session(p)], toPage[p], A)
<1> USE DEF Inductive
<1>1. todo' = todo
  BY OnlyOnePage DEF PageActs, serverVars
<1>2. toPage[p] \in Seq(Message)
  BY Queues
<1>3. toPage'[p] = toPage[p] \/ (toPage[p] # << >> /\ toPage'[p] = Tail(toPage[p])) \/ toPage'[p] = << >>
  BY OpenDoes, CloseDoes, TakenDoes, PageTalks, HearDoes
<1>4. QED
  BY <1>1, <1>2, <1>3, LessIsDue, Zenon

LEMMA PageOffers ==
  ASSUME Inductive, NEW p \in Pages, Page(p), ~Offered(p), NEW n
  PROVE  Carries(toServer'[p], Of({"offer"}, n)) => Carries(toServer[p], Of({"offer"}, n))
<1> DEFINE A == Of({"offer"}, n)
           s == toServer[p]
<1> USE DEF Inductive
<1>1. s \in Seq(Message) /\ ~Carries(<< >>, A) /\ A \subseteq Sent({"offer"})
  BY Queues, NothingIn, Zenon DEF Of, Sent
<1>2. ASSUME NEW ms \in Seq(Message), ~Carries(ms, Sent({"offer"})), Send(p, ms)
      PROVE  Carries(toServer'[p], A) => Carries(s, A)
  <2>1. toServer'[p] = s \/ toServer'[p] = s \o ms
    BY <1>2, SendDoes
  <2>2. ~Carries(ms, A)
    BY <1>1, <1>2, Widening
  <2>3. Carries(s \o ms, A) => Carries(s, A)
    BY <1>1, <2>2, CarriedByEither
  <2> HIDE DEF A, s
  <2>4. QED
    BY <2>1, <2>3, Zenon
<1>3. {"join", "request_publish", "stop"} \subseteq Actions \ {"offer", "answer"}
  BY DEF Actions
<1>4. CASE OnOpen(p)
  <2>1. toServer'[p] = <<Msg("join")>> /\ ~Carries(<<Msg("join")>>, Sent({"offer"}))
    BY <1>3, <1>4, OpenDoes, PlainIsNoOffer
  <2>2. QED
    BY <1>1, <2>1, Widening
<1>5. CASE OnClose(p) \/ OnTaken(p)
  BY <1>1, <1>5, CloseDoes, TakenDoes
<1>6. CASE RequestShare(p) \/ StopShare(p)
  BY <1>2, <1>3, <1>6, RequestShareDoes, StopShareDoes, PlainIsNoOffer
<1>7. CASE Answer(p)
  BY <1>2, <1>7, AnswerDoes, AnswerIsNoOffer, OneSerial, Zenon
<1>8. CASE UNCHANGED toServer
  BY <1>8
<1>9. QED
  BY <1>4, <1>5, <1>6, <1>7, <1>8, EndedDoes, RefusedDoes, PublishOkDoes, HandleOfferDoes, HandleAnswerDoes,
     HandleCandidateDoes, ApplyAnswerDoes, CapturedDoes, ShareFailsDoes, ShareHangsDoes
  DEF Page, Receive, Settle

(* Of the next connection of a page the server has not heard. *)
LEMMA NewIsUnheard ==
  ASSUME Inductive, NEW p \in Pages, Numbered(p)
  PROVE  /\ ~Carries(toServer[p], Of({"offer"}, made[p] + 1))
         /\ ~Due(todo[Session(p)], toPage[p], Answering(made[p] + 1))
<1> DEFINE n == made[p] + 1
<1> USE DEF Inductive
<1>1. made[p] \in Nat /\ \A m \in Message : m.n \in Nat /\ m.re \in Nat
  BY Counts
<1>2. UnderWay(p)
  BY DEF Numbered
<1>3. ~Carries(toServer[p], Of({"offer"}, n))
  BY <1>1, <1>2 DEF ToServer, Spoken, Of, UnderWay, Within, Carries
<1>4. \A m \in ToPage(p) : m \notin Answering(n)
  BY <1>1 DEF ToPage, Told, Answering
<1>5. ~Carries(toPage[p], Answering(n))
  BY <1>2, <1>4 DEF UnderWay, Within, Carries
<1>6. ~Carries(todo[Session(p)], Telling(Answering(n)))
  BY <1>2, <1>4 DEF ByHandler, Telling, UnderWay, Within, Carries
<1>7. QED
  BY <1>3, <1>5, <1>6 DEF Due

LEMMA StillUnheard ==
  ASSUME NEW p \in Pages, Unheard(p), \A s \in shares'[p] : s \in shares[p],
         pc'[p].n = pc[p].n, pc[p].state = "stable" => pc'[p].state = "stable",
         p \in overlapped \cup outdated => p \in overlapped' \cup outdated',
         Silent(p) => ~Outstanding(p)' /\ ~AnswerDue(p)'
  PROVE  Unheard(p)'
BY DEF Unheard, Silent

LEMMA PageUnheard ==
  ASSUME Inductive, NEW p \in Pages, Numbered(p), GuestRests(p), Admitted(p), Unheard(p), Page(p)
  PROVE  Unheard(p)'
<1> USE DEF Inductive
<1>1. outdated' = outdated /\ todo' = todo
  BY OnlyOnePage DEF PageActs, serverVars, serverHistory
<1>2. CASE pc'[p].n = 0
  BY <1>2 DEF Unheard
<1>3. CASE shares'[p] = {} \/ p \in overlapped'
  BY <1>3 DEF Unheard
<1>4. ASSUME ~Offered(p), pc'[p].n = pc[p].n, shares'[p] = shares[p], overlapped' = overlapped,
             pc[p].state = "stable" => pc'[p].state = "stable"
      PROVE  Unheard(p)'
  BY <1>1, <1>4, PageOffers, PageDue, StillUnheard DEF Outstanding, AnswerDue, Silent
<1>5. CASE Offered(p)
  <2>1. PICK s \in shares[p] : shares'[p] = shares[p] \ {s}
    BY <1>5, OfferedDoes, Zenon
  <2>2. p \notin overlapped => shares'[p] = {}
    BY <2>1 DEF SharesAreAlone
  <2>3. QED
    BY <1>3, <1>5, <2>2, OfferedDoes, Zenon
<1>6. CASE RequestShare(p)
  BY <1>2, <1>4, <1>5, <1>6, RequestShareDoes, StartDoes, NullFields
<1>7. CASE StopShare(p) \/ OnEnded(p) \/ OnPublishOk(p) \/ ShareFails(p) \/ OnTaken(p)
  BY <1>2, <1>7, StopShareDoes, EndedDoes, PublishOkDoes, StartDoes, ShareFailsDoes, TakenDoes,
      NullFields
<1>8. CASE ShareHangs(p)
  BY <1>3, <1>8, ShareHangsDoes
<1>9. CASE OnOpen(p) \/ OnClose(p) \/ OnRefused(p) \/ HandleCandidate(p) \/ Answer(p) \/ ApplyAnswer(p)
  BY <1>4, <1>5, <1>9, OpenDoes, CloseDoes, RefusedDoes, HandleCandidateDoes, AnswerDoes,
      ApplyAnswerDoes
<1>10. CASE HandleAnswer(p)
  BY <1>4, <1>5, <1>10, HandleAnswerDoes
<1>11. CASE HandleOffer(p)
  <2>1. UNCHANGED <<shares, overlapped>>
    BY <1>11, HandleOfferDoes
  <2>2. Carries(toPage[p], Replacing)
    <3>1. toPage[p] # << >> /\ Head(toPage[p]) \in Message /\ Head(toPage[p]).action = "offer"
      BY <1>11, HandleOfferDoes, HearDoes
    <3>2. QED
      BY <3>1, Queues, GuestKinship, CarriedBehind, Zenon
  <2>3. shares[p] = {} \/ p \in outdated
    BY <2>2 DEF Typed, PageTyped, GuestRests, Admitted
  <2>4. QED
    BY <1>1, <2>1, <2>3 DEF Unheard
<1>12. CASE Captured(p)
  <2> SUFFICES ASSUME p \notin overlapped \cup outdated
               PROVE  \A s \in shares'[p] : s.n # 0 /\ Silent(p)'
    BY <1>1, <1>12, CapturedDoes DEF Unheard
  <2>1. PICK s \in shares[p] : /\ s.n = 0 /\ shares'[p] = (shares[p] \ {s}) \cup {[s EXCEPT !.n = pc'[p].n]}
                               /\ [s EXCEPT !.n = pc'[p].n].n = pc'[p].n
    BY <1>12, CapturedDoes
  <2>2. pc[p] = Null
    BY <2>1 DEF Unheard, SharesAreAlone
  <2>3. UNCHANGED <<toServer, toPage>> /\ pc'[p].n = made[p] + 1 /\ pc'[p].state = "stable"
    BY <1>12, <2>2, CapturedDoes
  <2>4. shares[p] \ {s} = {}
    BY <2>1 DEF SharesAreAlone
  <2>5. Silent(p)'
    BY <1>1, <2>3, NewIsUnheard DEF Silent, Outstanding, AnswerDue
  <2>6. made[p] + 1 # 0
    BY Counts
  <2>7. QED
    BY <2>1, <2>3, <2>4, <2>5, <2>6, Zenon
<1>13. QED
  BY <1>5, <1>6, <1>7, <1>8, <1>9, <1>10, <1>11, <1>12 DEF Page, Receive, Settle

LEMMA ServerStepKeeps ==
  ASSUME Inductive, NEW p \in Pages, StepOf(p), ~Page(p)
  PROVE  /\ UNCHANGED <<pageVars, pageHistory>>
         /\ p \in outdated => p \in outdated'
         /\ toServer'[p] = toServer[p] \/ (toServer[p] # << >> /\ toServer'[p] = Tail(toServer[p]))
<1> USE DEF Inductive
<1>1. UNCHANGED <<pageVars, pageHistory>>
  BY JoinDoes, RequestPublishDoes, StopDoes, ServerHandleOfferDoes, ServerHandleAnswerDoes, ServerHandleCandidateDoes,
     CleanupDoes, FailureDoes, NegotiateDoes, CandidateDoes, TellNextDoes, EndDoes, RenewDoes
  DEF StepOf, Handle, ServerActs, Tells
<1>2. CASE Handle(p)
  BY <1>1, <1>2, JoinDoes, RequestPublishDoes, StopDoes, ServerHandleOfferDoes,
      ServerHandleAnswerDoes, ServerHandleCandidateDoes, TakeDoes DEF Handle, StopDone, Unbothered
<1>3. CASE Cleanup(p) \/ OnConnectionStateChange(p) \/ NegotiateSubscriber(p) \/ OnICECandidate(p)
  BY <1>1, <1>3, CleanupDoes, FailureDoes, NegotiateDoes, CandidateDoes, Zenon DEF StopDone
<1>4. ASSUME NEW g \in {Session(p), Negotiation(p)}, Tells(p, g)
      PROVE  UNCHANGED toServer /\ (p \in outdated => p \in outdated')
  BY <1>4, TellNextDoes DEF Tells
<1>5. ASSUME NEW g \in Goroutines, EndSubscriber(g), Head(todo[g]).page = p
      PROVE  UNCHANGED toServer /\ (p \in outdated => p \in outdated')
  BY <1>5, EndDoes, ReplaceDoes
<1>6. ASSUME NEW g \in Goroutines, ResetPublisherPC(g), Head(todo[g]).page = p
      PROVE  UNCHANGED toServer /\ (p \in outdated => p \in outdated')
  BY <1>6, RenewDoes, NewPCDoes, ReplaceDoes
<1>7. QED
  BY <1>1, <1>2, <1>3, <1>4, <1>5, <1>6 DEF StepOf

LEMMA StepUnheard ==
  ASSUME Inductive, NEW p \in Pages, Numbered(p), Unheard(p), StepOf(p), ~Page(p)
  PROVE  Unheard(p)'
<1> DEFINE A == Answering(pc[p].n)
           O == Of({"offer"}, pc[p].n)
           s == toServer[p]
<1> USE DEF Inductive
<1>1. /\ UNCHANGED <<pc, shares, overlapped>> /\ (p \in outdated => p \in outdated')
      /\ toServer'[p] = s \/ (s # << >> /\ toServer'[p] = Tail(s))
  BY ServerStepKeeps, PageVarsSame
<1>2. s \in Seq(Message) /\ toPage[p] \in Seq(Message)
  BY Queues
<1>3. Outstanding(p)' => Outstanding(p)
  BY <1>1, <1>2, CarriedBehind DEF Outstanding
<1>4. ASSUME Silent(p)
      PROVE  ~AnswerDue(p)'
  <2>1. CASE ~ServerHandleOffer(p)
    BY <1>1, <1>4, <2>1, ServerDue DEF Answering, Sent, Silent, AnswerDue
  <2>2. CASE ServerHandleOffer(p)
    <3> DEFINE m == Head(s)
               i == Tell(p, AnswerTo(peer[p].n, m.n))
    <3>1. s # << >> /\ m \in Message /\ m.action = "offer" /\ todo[Session(p)] = << >>
      BY <2>2, ServerHandleOfferDoes, TakeDoes
    <3>2. m.n # pc[p].n
      BY <1>2, <1>4, <3>1, CarriedBehind DEF Silent, Outstanding, Of
    <3>3. CASE todo'[Session(p)] = <<i>> /\ UNCHANGED toPage
      <4>1. peer[p].n \in Serials /\ m.n \in Serials
        BY <3>1, MessageFields DEF Typed, PeersTyped, PC
      <4>2. i \notin Telling(A)
        BY <3>2, <4>1, WhatMessagesSay DEF Tell, Telling, Answering
      <4>3. ~Carries(toPage[p], A)
        BY <1>4 DEF Silent, AnswerDue, Due
      <4> HIDE DEF i, A
      <4>4. ~Due(todo'[Session(p)], toPage'[p], A)
        BY <3>3, <4>2, <4>3, OneIn DEF Due
      <4>5. QED
        BY <1>1, <4>4 DEF AnswerDue, A
    <3>4. CASE UNCHANGED todo /\ SendJSON(p, Msg("error"))
      <4> DEFINE e == Msg("error")
      <4>1. e \in Message /\ e \notin A
        BY WhatMessagesSay, Zenon DEF Actions, Answering
      <4>2. toPage'[p] = toPage[p] \/ toPage'[p] = Append(toPage[p], e)
        BY <3>4, TellDoes
      <4>3. ~Carries(toPage[p], A) /\ ~Carries(todo[Session(p)], Telling(A))
        BY <1>4 DEF Silent, AnswerDue, Due
      <4> HIDE DEF e, A
      <4>4. ~Carries(Append(toPage[p], e), A)
        BY <1>2, <4>1, <4>3, CarriedAtEnd
      <4>5. ~Due(todo'[Session(p)], toPage'[p], A)
        BY <3>4, <4>2, <4>3, <4>4, Zenon DEF Due
      <4>6. QED
        BY <1>1, <4>5 DEF AnswerDue, A
    <3>5. QED
      BY <2>2, <3>3, <3>4, ServerHandleOfferDoes DEF Unbothered
  <2>3. QED
    BY <2>1, <2>2
<1>5. QED
  BY <1>1, <1>3, <1>4, StillUnheard DEF Silent

LEMMA ElsewhereUnheard ==
  ASSUME Inductive, NEW q \in Pages, Unheard(q), PageSame(q), WireSame(q), ServerSame(q), TodoSame(q)
  PROVE  Unheard(q)'
BY ElsewhereDue, StillUnheard DEF AnswerDue, PageSame, Outstanding, WireSame, Silent, ServerSame

StaleOf(p) == Due(todo[Session(p)], toPage[p], Stale(p))

(* A page that hears, and is no less answered. *)
LEMMA HeardAndAnswered ==
  ASSUME NEW p \in Pages, Answered(p), pc'[p].n = pc[p].n, pc'[p].state # "answering",
         peer'[p].n = peer[p].n, peer'[p].remote = peer[p].remote, p \in disturbed => p \in disturbed',
         toServer'[p] = toServer[p], todo'[Session(p)] = todo[Session(p)],
         \A A : Due(todo'[Session(p)], toPage'[p], A) => Due(todo[Session(p)], toPage[p], A),
         Outstanding(p) => pc'[p].state = "offered" \/ p \in crossed',
         p \in disturbed' \cup crossed' \/ Asking(p)' \/ Accepting(p)' \/ Connected(p)'
  PROVE  Answered(p)'
<1>1. (Outstanding(p)' <=> Outstanding(p)) /\ (AnswerDue(p)' => AnswerDue(p))
  BY DEF Outstanding, AnswerDue
<1>2. StaleOf(p)' => p \in disturbed'
  BY DEF Stale, StaleOf, Answered
<1>3. QED
  BY <1>1, <1>2 DEF Answered, StaleOf

(* The first offer of a share, and nobody has heard of it before. *)
LEMMA OfferedAnswers ==
  ASSUME Inductive, NEW p \in Pages, Unheard(p), Offered(p), Live(p)'
  PROVE  Answered(p)'
<1> DEFINE n == pc[p].n
           s == toServer[p]
           m == Offer(n, {})
           ms == <<m>> \o Candidates(p, n)
           O == Of({"offer"}, n)
<1> USE DEF Inductive
<1>1. /\ UNCHANGED <<ws, toPage, overlapped>> /\ pc'[p].n = n /\ pc'[p].state = "offered" /\ n # 0
      /\ Send(p, ms) /\ UNCHANGED <<todo, outdated>>
  BY OfferedDoes DEF PageActs, serverVars, serverHistory
<1>2. Silent(p)
  <2>1. p \notin overlapped \cup outdated
    BY <1>1 DEF Live
  <2>2. PICK h \in shares[p] : h.n = pc[p].n
    BY OfferedDoes, Zenon
  <2>3. QED
    BY <1>1, <2>1, <2>2 DEF Unheard
<1>3. toServer'[p] = s \o ms
  BY <1>1, SendDoes, Zenon DEF Live
<1>4. s \in Seq(Message) /\ n \in Serials /\ m \in Message /\ m \in O /\ Candidate(n) \notin O /\ Candidate(n) \notin Restarts
  BY OneSerial, WhatMessagesSay, Queues DEF Of, Restarts, Sent
<1>5. ~Carries(s, O) /\ ~AnswerDue(p)
  BY <1>2 DEF Silent, Outstanding
<1>6. /\ ms \in Seq(Message) /\ Carries(ms, O) /\ Followed(ms, Restarts, O) /\ Never(ms, O, O)
  <2> HIDE DEF m, n, O
  <2>1. QED
    BY <1>4, CandidatesIn
<1>7. Never(s, O, O)
  BY <1>5 DEF Never, Carries
<1>8. Followed(s \o ms, Restarts, O) /\ Never(s \o ms, O, O) /\ Carries(s \o ms, O)
  <2> HIDE DEF s, ms, O
  <2>1. QED
    BY <1>4, <1>5, <1>6, <1>7, Concatenation
<1>9. Outstanding(p)' /\ ~AnswerDue(p)' /\ Asking(p)'
  BY <1>1, <1>3, <1>5, <1>8 DEF Outstanding, AnswerDue, Asking
<1>10. ~StaleOf(p)'
  BY <1>9, WiderDue DEF Stale, StaleOf, AnswerDue
<1>11. Followed(toServer'[p], Restarts, Of({"offer"}, pc'[p].n)) /\ Never(toServer'[p], Of({"offer"}, pc'[p].n), Of({"offer"}, pc'[p].n))
  BY <1>1, <1>3, <1>8
<1>12. QED
  BY <1>1, <1>9, <1>10, <1>11 DEF Answered, StaleOf

(* But by its offer, no page becomes live. *)
LEMMA LiveBefore ==
  ASSUME Inductive, NEW p \in Pages, Hosting(p), GuestRests(p), Admitted(p), Page(p), ~Offered(p), Live(p)'
  PROVE  /\ Live(p) /\ shares[p] = {} /\ ~Carries(toPage[p], Replacing)
         /\ OnRefused(p) \/ HandleAnswer(p) \/ HandleCandidate(p) \/ Answer(p) \/ ApplyAnswer(p)
<1> USE DEF Inductive
<1>1. outdated' = outdated
  BY OnlyOnePage DEF PageActs, serverVars, serverHistory
<1>2. ~OnOpen(p) /\ ~OnClose(p) /\ ~OnTaken(p)
  BY OpenDoes, CloseDoes, TakenDoes DEF Live, Hosting
<1>3. ~canShare[p] /\ ~RequestShare(p) /\ ~StopShare(p) /\ ~ShareFails(p) /\ ~OnPublishOk(p) /\ ~ShareHangs(p)
  <2>1. ~StopShare(p) /\ ~ShareFails(p) /\ ~ShareHangs(p)
    BY StopShareDoes, ShareFailsDoes, ShareHangsDoes DEF Live
  <2>2. canShare' = canShare
    BY <1>2, <2>1, RequestShareDoes, EndedDoes, RefusedDoes, PublishOkDoes, HandleOfferDoes, HandleAnswerDoes,
       HandleCandidateDoes, AnswerDoes, ApplyAnswerDoes, CapturedDoes, Zenon DEF Page, Receive, Settle
  <2>3. ~canShare[p]
    BY <2>2 DEF Live
  <2>4. ~OnPublishOk(p)
    BY <2>3, PublishOkDoes, StartDoes DEF Live, Hosting
  <2>5. QED
    BY <2>1, <2>3, <2>4, RequestShareDoes
<1>4. role[p] = "publisher"
  BY <1>3 DEF Typed, PageTyped, GuestRests
<1>5. ~Carries(toPage[p], Replacing)
  BY <1>1, <1>4 DEF Admitted, Live
<1>6. ~OnEnded(p) /\ ~HandleOffer(p)
  <2>1. ASSUME NEW a \in {"ended", "offer"}, OnMessage(p, a) PROVE FALSE
    BY <1>5, <2>1, HearDoes, Queues, GuestKinship, CarriedBehind
  <2>2. QED
    BY <2>1, EndedDoes, HandleOfferDoes
<1>7. OnRefused(p) \/ HandleAnswer(p) \/ HandleCandidate(p) \/ Answer(p) \/ ApplyAnswer(p) \/ Captured(p)
  BY <1>2, <1>3, <1>6 DEF Page, Receive, Settle
<1>8. UNCHANGED <<ws, overlapped>> /\ (p \in unsent => p \in unsent')
  BY <1>7, AnswerDoes, SendDoes, RefusedDoes, HandleAnswerDoes, HandleCandidateDoes,
      ApplyAnswerDoes, CapturedDoes
<1>9. shares[p] = {} /\ ~Captured(p)
  BY <1>3, <1>8, CapturedDoes DEF Live, Hosting
<1>10. ~Has(toPage[p], {Taken})
  BY <1>2, PageTalks, HearDoes, Queues, HasTail DEF Live
<1>11. QED
  BY <1>1, <1>3, <1>5, <1>7, <1>8, <1>9, <1>10 DEF Live

(* The page takes the answer to its offer, or to an earlier one. *)
LEMMA HandleAnswerAnswers ==
  ASSUME Inductive, NEW p \in Pages, Answered(p), HandleAnswer(p)
  PROVE  Answered(p)'
<1> DEFINE m == Head(toPage[p])
           t == toPage[p]
           d == todo[Session(p)]
<1> USE DEF Inductive
<1>1. /\ UNCHANGED <<toServer, todo, peer, disturbed>> /\ t # << >> /\ m \in Message /\ m.action = "answer"
      /\ toPage'[p] = Tail(t) /\ t \in Seq(Message)
  BY HandleAnswerDoes, HearDoes, Queues DEF PageActs, serverVars, peerVars, serverHistory, pcHistory
<1>2. \A A : Due(todo'[Session(p)], toPage'[p], A) => Due(d, t, A)
  BY <1>1, LessIsDue, Zenon
<1>3. CASE pc[p].state # "offered" /\ UNCHANGED <<pc, crossed>>
  BY <1>1, <1>2, <1>3, HeardAndAnswered DEF Answered, Asking, Accepting, Connected
<1>4. CASE /\ pc[p].state = "offered" /\ pc'[p].state = "applying" /\ pc'[p].asked = m.n /\ pc'[p].n = pc[p].n
           /\ p \in crossed' <=> m.re # pc[p].n
  <2>1. CASE m.re # pc[p].n
    BY <1>1, <1>2, <1>4, <2>1, HeardAndAnswered
  <2>2. CASE m.re = pc[p].n
    <3>1. m \in Answering(pc[p].n)
      BY <1>1, <2>2 DEF Answering
    <3>2. AnswerDue(p)
      BY <1>1, <3>1, CarriedBehind DEF AnswerDue, Due
    <3>3. ~Outstanding(p)
      BY <3>2 DEF Answered
    <3>4. p \in disturbed \/ (m.n = peer[p].n /\ peer[p].remote = pc[p].n)
      BY <1>1, <3>1, CarriedBehind DEF Answered, Stale, Due
    <3>5. p \in disturbed' \/ Accepting(p)'
      BY <1>1, <1>4, <3>4 DEF Accepting
    <3>6. QED
      BY <1>1, <1>2, <1>4, <3>3, <3>5, HeardAndAnswered
  <2>3. QED
    BY <2>1, <2>2
<1>5. QED
  BY <1>3, <1>4, HandleAnswerDoes

LEMMA PageAnswers ==
  ASSUME Inductive, NEW p \in Pages, Hosting(p), GuestRests(p), Admitted(p), Unheard(p), Live(p) => Answered(p),
         Page(p), Live(p)'
  PROVE  Answered(p)'
<1> USE DEF Inductive
<1>1. CASE Offered(p)
  BY <1>1, OfferedAnswers
<1>2. CASE ~Offered(p)
  <2>1. /\ Answered(p)
        /\ OnRefused(p) \/ HandleAnswer(p) \/ HandleCandidate(p) \/ Answer(p) \/ ApplyAnswer(p)
    BY <1>2, LiveBefore
  <2>2. ~Answer(p)
    BY <2>1, AnswerDoes, Zenon DEF Answered
  <2>3. \A A : Due(todo'[Session(p)], toPage'[p], A) => Due(todo[Session(p)], toPage[p], A)
    BY PageDue
  <2>4. UNCHANGED <<todo, peer, disturbed>>
    BY OnlyOnePage DEF PageActs, serverVars, peerVars, serverHistory, pcHistory
  <2>5. CASE OnRefused(p) \/ HandleCandidate(p)
    <3>1. /\ UNCHANGED <<toServer, crossed>> /\ \E a \in {"live_active", "error", "candidate"} : OnMessage(p, a)
          /\ pc'[p].n = pc[p].n /\ pc'[p].state = pc[p].state /\ pc'[p].asked = pc[p].asked
          /\ pc'[p].remote = pc[p].remote
      BY <2>5, RefusedDoes, HandleCandidateDoes
    <3>2. toPage[p] # << >> /\ toPage'[p] = Tail(toPage[p]) /\ Head(toPage[p]) \notin Answering(pc[p].n)
      BY <3>1, HearDoes DEF Answering
    <3>3. AnswerDue(p)' <=> AnswerDue(p)
      <4>1. toPage[p] \in Seq(Message) /\ todo[Session(p)] \in Seq(Instruction)
        BY Queues
      <4> DEFINE A == Answering(pc[p].n)
      <4>2. Head(toPage[p]) \notin A
        BY <3>2
      <4> HIDE DEF A
      <4>3. Due(todo'[Session(p)], toPage'[p], A) <=> Due(todo[Session(p)], toPage[p], A)
        BY <2>4, <3>2, <4>1, <4>2, DueStays, Zenon
      <4>4. QED
        BY <3>1, <4>3 DEF AnswerDue, A
    <3>4. p \in disturbed' \cup crossed' \/ Asking(p)' \/ Accepting(p)' \/ Connected(p)'
      BY <2>1, <2>4, <3>1, <3>3 DEF Answered, Asking, Accepting, Connected, Outstanding
    <3>5. QED
      BY <2>1, <2>3, <2>4, <3>1, <3>4, HeardAndAnswered DEF Answered
  <2>6. CASE ApplyAnswer(p)
    BY <2>1, <2>3, <2>4, <2>6, ApplyAnswerDoes, HeardAndAnswered DEF Answered, Asking, Accepting,
        Connected
  <2>7. QED
    BY <2>1, <2>2, <2>5, <2>6, HandleAnswerAnswers
<1>3. QED
  BY <1>1, <1>2

(* The server takes something else than the offer of the page. *)
LEMMA StillAnswered ==
  ASSUME Inductive, NEW p \in Pages, Answered(p), UNCHANGED <<pageVars, pageHistory>>,
         \/ p \in disturbed'
         \/ /\ peer'[p].n = peer[p].n /\ peer'[p].remote = peer[p].remote /\ p \notin disturbed
            /\ Due(todo'[Session(p)], toPage'[p], Stale(p)) => StaleOf(p),
         AnswerDue(p)' <=> AnswerDue(p),
         Carries(todo'[Session(p)], {Renew(p)}) => Carries(todo[Session(p)], {Renew(p)}),
         \/ toServer'[p] = toServer[p]
         \/ /\ toServer[p] # << >> /\ toServer'[p] = Tail(toServer[p])
            /\ Head(toServer[p]) \notin Of({"offer"}, pc[p].n)
  PROVE  Answered(p)'
<1> DEFINE O == Of({"offer"}, pc[p].n)
           s == toServer[p]
<1> USE DEF Inductive
<1>1. UNCHANGED <<pc, crossed>>
  BY PageVarsSame
<1>2. /\ Carries(toServer'[p], O) <=> Carries(s, O)
      /\ Followed(toServer'[p], Restarts, O) /\ Never(toServer'[p], O, O)
  <2>1. s \in Seq(Message) /\ Followed(s, Restarts, O) /\ Never(s, O, O)
    BY Queues DEF Answered
  <2> HIDE DEF O
  <2>2. s # << >> => /\ Followed(Tail(s), Restarts, O) /\ Never(Tail(s), O, O)
                     /\ Carries(s, O) <=> Head(s) \in O \/ Carries(Tail(s), O)
    BY <2>1, Removal
  <2>3. \/ toServer'[p] = s
        \/ s # << >> /\ toServer'[p] = Tail(s) /\ Head(s) \notin O
    BY DEF O
  <2> HIDE DEF s
  <2>4. QED
    BY <2>1, <2>2, <2>3, Zenon
<1>3. /\ Outstanding(p)' <=> Outstanding(p)
      /\ Followed(toServer'[p], Restarts, Of({"offer"}, pc'[p].n))
      /\ Never(toServer'[p], Of({"offer"}, pc'[p].n), Of({"offer"}, pc'[p].n))
  BY <1>1, <1>2 DEF Outstanding
<1>4. Asking(p)' <=> Asking(p)
  BY <1>1, <1>3 DEF Asking
<1>5. CASE p \in disturbed'
  BY <1>1, <1>3, <1>5 DEF Answered
<1>6. CASE /\ peer'[p].n = peer[p].n /\ peer'[p].remote = peer[p].remote /\ p \notin disturbed
           /\ Due(todo'[Session(p)], toPage'[p], Stale(p)) => StaleOf(p)
  BY <1>1, <1>3, <1>4, <1>6 DEF Stale, Answered, StaleOf, Accepting, Connected
<1>7. QED
  BY <1>5, <1>6

(* The offer of the page is still to be taken. *)
LEMMA StillAsking ==
  ASSUME Inductive, NEW p \in Pages, Answered(p), UNCHANGED <<pageVars, pageHistory>>,
         toServer'[p] = toServer[p] \/ (toServer[p] # << >> /\ toServer'[p] = Tail(toServer[p])),
         Carries(toServer'[p], Of({"offer"}, pc[p].n)), ~AnswerDue(p)'
  PROVE  Answered(p)'
<1> DEFINE O == Of({"offer"}, pc[p].n)
           s == toServer[p]
<1> USE DEF Inductive
<1>1. UNCHANGED <<pc, crossed>>
  BY PageVarsSame
<1>2. /\ Followed(toServer'[p], Restarts, O) /\ Never(toServer'[p], O, O)
      /\ Carries(s, O)
  <2>1. s \in Seq(Message) /\ Followed(s, Restarts, O) /\ Never(s, O, O) /\ Carries(toServer'[p], O)
    BY Queues DEF Answered
  <2>2. toServer'[p] = s \/ (s # << >> /\ toServer'[p] = Tail(s))
    OBVIOUS
  <2> HIDE DEF O
  <2>3. s # << >> => /\ Followed(Tail(s), Restarts, O) /\ Never(Tail(s), O, O)
                     /\ Carries(s, O) <=> Head(s) \in O \/ Carries(Tail(s), O)
    BY <2>1, Removal
  <2> HIDE DEF s
  <2>4. QED
    BY <2>1, <2>2, <2>3, Zenon
<1>3. /\ Outstanding(p)' /\ Outstanding(p)
      /\ Followed(toServer'[p], Restarts, Of({"offer"}, pc'[p].n))
      /\ Never(toServer'[p], Of({"offer"}, pc'[p].n), Of({"offer"}, pc'[p].n))
  BY <1>1, <1>2 DEF Outstanding
<1>4. ~Due(todo'[Session(p)], toPage'[p], Stale(p)')
  BY WiderDue DEF Stale, AnswerDue
<1>5. pc[p].state = "offered" \/ p \in crossed
  BY <1>3 DEF Answered
<1>6. QED
  BY <1>1, <1>3, <1>4, <1>5 DEF Answered, Asking

(* But by its offer, no live page and no page the server keeps is a guest. *)
LEMMA LiveAtServer ==
  ASSUME Inductive, NEW p \in Pages, Numbered(p), GuestRests(p), Admitted(p), StepOf(p), ~Page(p), Live(p)'
  PROVE  /\ Live(p) /\ ws[p] = "open" /\ role[p] = "publisher" /\ p \notin subscribers /\ due[p] = {}
         /\ session[p] = "none" => Has(toServer[p], {"join"})
         /\ session[p] # "none" => session[p] = "publisher" /\ publisher = p /\ peer[p].state = "stable"
<1> USE DEF Inductive
<1>1. UNCHANGED <<ws, role, canShare, unsent, overlapped>> /\ (p \in outdated => p \in outdated')
  BY ServerStepKeeps, PageVarsSame
<1>2. ws[p] = "open" /\ ~canShare[p]
  BY <1>1 DEF Live
<1>3. toPage'[p] = toPage[p] \/ \E m \in Message : toPage'[p] = Append(toPage[p], m)
  <2>1. UNCHANGED toPage \/ \E m \in Message : SendJSON(p, m)
    <3>1. \A a \in Actions : Msg(a) \in Message
      BY WhatMessagesSay
    <3>2. {"publish_ok", "live_active", "error", "ended", Taken} \subseteq Actions
      BY DEF Actions, Taken
    <3>3. CASE Handle(p)
      BY <3>1, <3>2, <3>3, JoinDoes, RequestPublishDoes, StopDoes, ServerHandleOfferDoes, ServerHandleAnswerDoes,
         ServerHandleCandidateDoes DEF Handle
    <3>4. CASE Cleanup(p) \/ OnConnectionStateChange(p) \/ NegotiateSubscriber(p)
      BY <3>4, CleanupDoes, FailureDoes, NegotiateDoes
    <3>5. CASE OnICECandidate(p)
      BY <3>5, WhatMessagesSay, CandidateDoes DEF Typed, PeersTyped, PC
    <3>6. ASSUME NEW g \in {Session(p), Negotiation(p)}, Tells(p, g)
          PROVE  \E m \in Message : SendJSON(p, m)
      BY <3>6, TellNextDoes DEF Tells
    <3>7. ASSUME NEW g \in Goroutines, EndSubscriber(g) \/ ResetPublisherPC(g), Head(todo[g]).page = p
          PROVE  UNCHANGED toPage \/ \E m \in Message : SendJSON(p, m)
      BY <3>1, <3>2, <3>7, EndDoes, RenewDoes
    <3>8. QED
      BY <3>3, <3>4, <3>5, <3>6, <3>7 DEF StepOf
  <2>2. QED
    BY <2>1, TellDoes
<1>4. ~Has(toPage[p], {Taken})
  <2>1. \A m \in Message : Has(toPage[p], {Taken}) => Has(Append(toPage[p], m), {Taken})
    BY Queues, HasAppend
  <2>2. QED
    BY <1>3, <2>1, Zenon DEF Live
<1>5. role[p] = "publisher"
  BY <1>2 DEF Typed, PageTyped, GuestRests
<1>6. session[p] # "subscriber" /\ session[p] # "left"
  BY <1>2, <1>5 DEF Conversation, SessionsAreMembers, RolesFollow
<1>7. session[p] \in {"none", "publisher", "subscriber", "left"}
  BY DEF Typed, RoomTyped
<1>8. p \notin subscribers /\ (session[p] = "publisher" => publisher = p)
  BY <1>6 DEF Conversation, SessionsAreMembers
<1>9. QED
  BY <1>1, <1>2, <1>4, <1>5, <1>6, <1>7, <1>8 DEF Live, Admitted, Numbered, ServerNumbers

(* Without taking an offer, the server lets what is due be due. *)
LEMMA OthersAnswered ==
  ASSUME Inductive, NEW p \in Pages, Numbered(p), GuestRests(p), Admitted(p), Live(p) => Answered(p),
         StepOf(p), ~Page(p), ~ServerHandleOffer(p), Live(p)',
         \/ p \in disturbed'
         \/ peer'[p].n = peer[p].n /\ peer'[p].remote = peer[p].remote /\ (p \in disturbed' <=> p \in disturbed),
         Carries(todo'[Session(p)], {Renew(p)}) => Carries(todo[Session(p)], {Renew(p)}),
         \/ toServer'[p] = toServer[p]
         \/ \E a \in Actions \ {"offer"} : Take(p, a)
  PROVE  Answered(p)'
<1> USE DEF Inductive
<1>1. Answered(p) /\ ws[p] = "open"
  BY LiveAtServer
<1>2. UNCHANGED <<pageVars, pageHistory>> /\ UNCHANGED pc
  BY ServerStepKeeps, PageVarsSame
<1>3. Stale(p) \subseteq Sent({"answer"}) /\ Answering(pc[p].n) \subseteq Sent({"answer"})
  BY DEF Stale, Answering, Sent
<1>4. AnswerDue(p)' <=> AnswerDue(p)
  BY <1>1, <1>2, <1>3, ServerDue DEF AnswerDue
<1>5. Due(todo'[Session(p)], toPage'[p], Stale(p)) => StaleOf(p)
  BY <1>3, ServerDue DEF StaleOf
<1>6. \/ toServer'[p] = toServer[p]
      \/ /\ toServer[p] # << >> /\ toServer'[p] = Tail(toServer[p])
         /\ Head(toServer[p]) \notin Of({"offer"}, pc[p].n)
  BY TakeDoes DEF Of
<1>7. QED
  BY <1>1, <1>2, <1>4, <1>5, <1>6, StillAnswered, Zenon

(* What makes the server forget the page comes before its offer. *)
LEMMA ForgottenBefore ==
  ASSUME Inductive, NEW p \in Pages, Numbered(p), GuestRests(p), Admitted(p), Live(p) => Answered(p),
         StepOf(p), ~Page(p), ~ServerHandleOffer(p), Live(p)',
         \/ \E a \in {"join", "stop"} : Take(p, a)
         \/ toServer'[p] = toServer[p] /\ Outstanding(p)
  PROVE  Answered(p)'
<1> DEFINE O == Of({"offer"}, pc[p].n)
           s == toServer[p]
<1> USE DEF Inductive
<1>1. Answered(p) /\ ws[p] = "open"
  BY LiveAtServer
<1>2. UNCHANGED <<pageVars, pageHistory>> /\ UNCHANGED pc
  BY ServerStepKeeps, PageVarsSame
<1>3. /\ Carries(toServer'[p], O)
      /\ toServer'[p] = s \/ (s # << >> /\ toServer'[p] = Tail(s))
  <2>1. ASSUME NEW a \in {"join", "stop"}, Take(p, a)
        PROVE  /\ Carries(toServer'[p], O)
               /\ s # << >> /\ toServer'[p] = Tail(s)
    <3>1. s # << >> /\ toServer'[p] = Tail(s) /\ Head(s) \in Message /\ Head(s).action = a
      BY <2>1, TakeDoes
    <3>2. Head(s) \in Restarts /\ Head(s) \notin O
      BY <3>1, HostKinship DEF Of
    <3>3. s \in Seq(Message) /\ Followed(s, Restarts, O)
      BY <1>1, Queues DEF Answered
    <3> HIDE DEF O
    <3>4. Carries(Tail(s), O)
      BY <3>1, <3>2, <3>3, Removal
    <3>5. QED
      BY <3>1, <3>4
  <2>2. QED
    BY <2>1 DEF Outstanding
<1>4. Outstanding(p)
  BY <1>3, Queues, CarriedBehind DEF Outstanding
<1>5. ~AnswerDue(p)'
  BY <1>1, <1>2, <1>4, ServerDue DEF Answered, Answering, Sent, AnswerDue
<1>6. QED
  BY <1>1, <1>2, <1>3, <1>5, StillAsking

LEMMA ServerHandleOfferAnswers ==
  ASSUME Inductive, NEW p \in Pages, Numbered(p), GuestRests(p), Admitted(p), Live(p) => Answered(p),
         ServerHandleOffer(p), ~Page(p), Live(p)'
  PROVE  Answered(p)'
<1> DEFINE n == pc[p].n
           O == Of({"offer"}, n)
           A == Answering(n)
           s == toServer[p]
           m == Head(s)
           w == AnswerTo(peer[p].n, m.n)
           i == Tell(p, w)
<1> USE DEF Inductive
<1>1. StepOf(p) /\ Answered(p) /\ ws[p] = "open"
  BY LiveAtServer DEF StepOf, Handle
<1>2. UNCHANGED <<pageVars, pageHistory>> /\ UNCHANGED <<pc, crossed>>
  BY <1>1, ServerStepKeeps, PageVarsSame
<1>3. /\ s # << >> /\ m \in Message /\ m.action = "offer" /\ toServer'[p] = Tail(s) /\ s \in Seq(Message)
      /\ todo[Session(p)] = << >>
  BY ServerHandleOfferDoes, TakeDoes, Queues
<1>4. session[p] # "none" /\ peer[p].state = "stable"
  BY <1>1, <1>3, LiveAtServer DEF Has, Conversation, JoinsComeFirst, JoinFirst
<1>5. /\ SetRemote(p, m) /\ UNCHANGED toPage /\ todo'[Session(p)] = <<i>>
  BY <1>4, ServerHandleOfferDoes
<1>6. /\ i \in Instruction /\ i # Renew(p) /\ i.do = "tell" /\ i.msg = w
      /\ w \in Message /\ w.action = "answer" /\ w.n = peer[p].n /\ w.re = m.n /\ m.re \in Nat
  <2>1. peer[p].n \in Serials /\ m.n \in Serials
    BY <1>3, MessageFields DEF Typed, PeersTyped, PC
  <2>2. w \in Message /\ w.action = "answer" /\ w.n = peer[p].n /\ w.re = m.n
    BY <2>1, WhatMessagesSay
  <2> HIDE DEF w
  <2>3. i \in Instruction /\ i.do = "tell" /\ i.msg = w
    BY <2>2, InstructionsAre DEF Tell
  <2>4. Renew(p).do = "renew"
    BY DEF Renew
  <2>5. QED
    BY <1>3, <2>2, <2>3, <2>4, Counts
<1>7. ~Carries(todo'[Session(p)], {Renew(p)})
  <2> HIDE DEF i
  <2>1. QED
    BY <1>5, <1>6, OneIn
<1>8. Followed(s, Restarts, O) /\ Never(s, O, O)
  BY <1>1 DEF Answered
<1>9. CASE m.n # n
  <2>1. Carries(toServer'[p], O)
    <3>1. m \in Restarts /\ m \notin O
      BY <1>3, <1>9, HostKinship DEF Of
    <3> HIDE DEF O, m
    <3>2. Carries(Tail(s), O)
      BY <1>3, <1>8, <3>1, Removal DEF m
    <3>3. QED
      BY <1>3, <3>2
  <2>2. Outstanding(p)
    BY <1>3, <2>1, CarriedBehind DEF Outstanding
  <2>3. ~AnswerDue(p)'
    <3>1. ~Carries(toPage[p], A)
      BY <1>1, <2>2 DEF Answered, AnswerDue, Due
    <3>2. i \notin Telling(A)
      BY <1>6, <1>9 DEF Telling, Answering
    <3> HIDE DEF i, A
    <3>3. ~Due(todo'[Session(p)], toPage'[p], A)
      BY <1>5, <3>1, <3>2, OneIn DEF Due
    <3>4. QED
      BY <1>2, <3>3 DEF AnswerDue, A
  <2>4. QED
    BY <1>1, <1>2, <1>3, <2>1, <2>3, StillAsking
<1>10. CASE m.n = n
  <2>1. m \in O
    BY <1>3, <1>10 DEF Of
  <2>2. Outstanding(p)
    BY <1>3, <2>1, CarriedBehind DEF Outstanding
  <2>3. ~Carries(toPage[p], A) /\ (pc[p].state = "offered" \/ p \in crossed) /\ n # 0 /\ pc[p].state # "answering"
    BY <1>1, <2>2 DEF Answered, AnswerDue, Due
  <2>4. ~Outstanding(p)' /\ Followed(toServer'[p], Restarts, Of({"offer"}, pc'[p].n))
        /\ Never(toServer'[p], Of({"offer"}, pc'[p].n), Of({"offer"}, pc'[p].n))
    <3>1. O = Of({"offer"}, pc'[p].n)
      BY <1>2
    <3> HIDE DEF O, m
    <3>2. ~Carries(Tail(s), O) /\ Followed(Tail(s), Restarts, O) /\ Never(Tail(s), O, O)
      BY <1>3, <1>8, <2>1, Removal DEF m
    <3>3. QED
      BY <1>3, <3>1, <3>2 DEF Outstanding
  <2>5. AnswerDue(p)'
    <3>1. i \in Telling(A)
      BY <1>6, <1>10 DEF Telling, Answering
    <3> HIDE DEF i, A
    <3>2. Carries(todo'[Session(p)], Telling(A))
      BY <1>5, <3>1, OneIn
    <3>3. QED
      BY <1>2, <3>2 DEF AnswerDue, Due, A
  <2>6. Asking(p)' \/ p \in crossed'
    BY <1>2, <2>3, <2>5 DEF Asking
  <2>7. Due(todo'[Session(p)], toPage'[p], Stale(p)') => p \in disturbed'
    <3> DEFINE B == Stale(p)'
    <3>1. B \subseteq A
      BY <1>2 DEF Stale
    <3>2. ~Carries(toPage'[p], B)
      BY <1>5, <2>3, <3>1, Widening
    <3>3. i \in Telling(B) => p \in disturbed'
      BY <1>2, <1>3, <1>5, <1>6, <1>10, SetRemoteDoes DEF Telling, Stale
    <3> HIDE DEF B, i
    <3>4. Carries(todo'[Session(p)], Telling(B)) => p \in disturbed'
      BY <1>5, <3>3, OneIn
    <3>5. QED
      BY <3>2, <3>4 DEF Due, B
  <2>8. QED
    BY <1>2, <1>7, <2>3, <2>4, <2>6, <2>7 DEF Answered
<1>11. QED
  BY <1>9, <1>10

LEMMA StepAnswers ==
  ASSUME Inductive, NEW p \in Pages, Numbered(p), GuestRests(p), Admitted(p), Live(p) => Answered(p),
         StepOf(p), ~Page(p), Live(p)'
  PROVE  Answered(p)'
<1> DEFINE d == todo[Session(p)]
           R == {Renew(p)}
           Kept == peer'[p].n = peer[p].n /\ peer'[p].remote = peer[p].remote /\ (p \in disturbed' <=> p \in disturbed)
<1> USE DEF Inductive
<1>1. /\ Answered(p) /\ ws[p] = "open" /\ role[p] = "publisher" /\ p \notin subscribers /\ due[p] = {}
      /\ session[p] # "none" => session[p] = "publisher" /\ publisher = p /\ peer[p].state = "stable"
  BY LiveAtServer
<1>2. {"join", "stop", "answer", "candidate", "request_publish"} \subseteq Actions \ {"offer"}
  BY DEF Actions
<1>3. d \in Seq(Instruction)
  BY Queues
<1>4. CASE ServerHandleOffer(p)
  BY <1>4, ServerHandleOfferAnswers
<1>5. ASSUME ~ServerHandleOffer(p), p \in disturbed' \/ Kept,
             todo'[Session(p)] = d \/ (d # << >> /\ todo'[Session(p)] = Tail(d)),
             toServer'[p] = toServer[p] \/ \E a \in Actions \ {"offer"} : Take(p, a)
      PROVE  Answered(p)'
  BY <1>3, <1>5, CarriedBehind, OthersAnswered
<1>6. ASSUME ~ServerHandleOffer(p), \E a \in {"join", "stop"} : Take(p, a)
      PROVE  Answered(p)'
  BY <1>6, ForgottenBefore
<1>7. ASSUME NEW a \in Actions \ {"offer"}, Take(p, a) PROVE ~ServerHandleOffer(p)
  BY <1>7, TakeDoes, ServerHandleOfferDoes
<1>8. CASE Join(p) \/ Stop(p)
  BY <1>2, <1>6, <1>7, <1>8, JoinDoes, StopDoes
<1>9. CASE RequestPublish(p)
  BY <1>1, <1>2, <1>5, <1>7, <1>9, RequestPublishDoes DEF Unbothered
<1>10. CASE ServerHandleAnswer(p)
  BY <1>1, <1>2, <1>5, <1>7, <1>10, ServerHandleAnswerDoes DEF Unbothered
<1>11. CASE ServerHandleCandidate(p)
  BY <1>2, <1>5, <1>7, <1>11, ServerHandleCandidateDoes
<1>12. ~Cleanup(p) /\ ~NegotiateSubscriber(p)
  BY <1>1, CleanupDoes, NegotiateDoes
<1>13. CASE OnConnectionStateChange(p)
  BY <1>4, <1>5, <1>13, FailureDoes DEF StopDone
<1>14. CASE OnICECandidate(p)
  BY <1>4, <1>5, <1>14, CandidateDoes
<1>15. ASSUME NEW g \in {Session(p), Negotiation(p)}, Tells(p, g)
       PROVE  Answered(p)'
  BY <1>4, <1>5, <1>15, TellNextDoes, GoroutineNames DEF Tells
<1>16. ASSUME NEW g \in Goroutines, EndSubscriber(g), Head(todo[g]).page = p
       PROVE  Answered(p)'
  BY <1>1, <1>16, EndDoes DEF Live
<1>17. ASSUME NEW g \in Goroutines, ResetPublisherPC(g), Head(todo[g]).page = p
       PROVE  Answered(p)'
  <2>1. /\ UNCHANGED toServer /\ todo[g] # << >> /\ Head(todo[g]) = Renew(p) /\ todo'[g] = Tail(todo[g])
        /\ \A f \in Goroutines : f # g => todo'[f] = todo[f]
    BY <1>17, RenewDoes
  <2>2. todo'[Session(p)] = d \/ (d # << >> /\ todo'[Session(p)] = Tail(d))
    BY <2>1, GoroutineNames
  <2>3. CASE p \in disturbed' \/ Kept
    BY <1>4, <1>5, <2>1, <2>2, <2>3
  <2>4. CASE g = Session(p) /\ ~ServerHandleOffer(p)
    BY <1>1, <1>3, <2>1, <2>4, CarriedBehind, ForgottenBefore DEF Answered
  <2>5. QED
    BY <1>4, <1>17, <2>3, <2>4, RenewDoes
<1>18. QED
  BY <1>4, <1>8, <1>9, <1>10, <1>11, <1>12, <1>13, <1>14, <1>15, <1>16, <1>17 DEF StepOf, Handle

LEMMA StepHeard ==
  ASSUME Inductive, Inductive', NEW p \in Pages, Numbered(p), GuestRests(p), Heard(p), StepOf(p)
  PROVE  Heard(p)'
<1>1. CASE Page(p)
  BY <1>1, PageHosts, PageAdmits, PageUnheard, PageAnswers DEF Heard
<1>2. CASE ~Page(p)
  BY <1>2, ServerStepKeeps, PageUnchanged, HostsStay, StepAdmits, StepUnheard, StepAnswers DEF Heard
<1>3. QED
  BY <1>1, <1>2

LEMMA ElsewhereHeard ==
  ASSUME Inductive, NEW q \in Pages, Heard(q), PageSame(q), WireSame(q), ServerSame(q), TodoSame(q)
  PROVE  Heard(q)'
<1>1. Hosting(q)' /\ Admitted(q)' /\ Unheard(q)'
  BY HostsStay, ElsewhereAdmits, ElsewhereUnheard DEF Heard
<1>2. Live(q)' <=> Live(q)
  BY DEF Live, PageSame, WireSame, ServerSame
<1>3. Outstanding(q)' <=> Outstanding(q)
  BY DEF Outstanding, PageSame, WireSame
<1>4. AnswerDue(q)' <=> AnswerDue(q)
  BY ElsewhereDue DEF AnswerDue, PageSame
<1>5. StaleOf(q)' => StaleOf(q)
  BY ElsewhereDue DEF Stale, PageSame, ServerSame, StaleOf
<1>6. /\ Asking(q)' <=> Asking(q)
      /\ Accepting(q)' <=> Accepting(q)
      /\ Connected(q)' <=> Connected(q)
  BY <1>3, <1>4 DEF Asking, Accepting, Connected, PageSame, ServerSame
<1>7. Carries(todo'[Session(q)], {Renew(q)}) => Carries(todo[Session(q)], {Renew(q)})
  BY Queues, CarriedBehind DEF Inductive, TodoSame
<1>8. Answered(q) => Answered(q)'
  BY <1>3, <1>4, <1>5, <1>6, <1>7 DEF Answered, StaleOf, PageSame, WireSame, ServerSame
<1>9. QED
  BY <1>1, <1>2, <1>8 DEF Heard

AllHeard == \A p \in Pages : Heard(p)

LEMMA HeardInit == Init => AllHeard
<1> SUFFICES ASSUME Init, NEW p \in Pages PROVE Heard(p)
  BY DEF AllHeard
<1>1. /\ canShare[p] /\ shares[p] = {} /\ ws[p] = "connecting" /\ toPage[p] = << >> /\ publisher # p
  BY RoomPageAssumption DEF Init
<1>2. Hosting(p) /\ Admitted(p) /\ Unheard(p) /\ ~Live(p)
  BY <1>1, NothingIn DEF Hosting, Admitted, Unheard, Live
<1>3. QED
  BY <1>2 DEF Heard

LEMMA HeardNext == Inductive /\ AllNumbered /\ AllWelcome /\ AllHeard /\ [Next]_vars => AllHeard'
<1> SUFFICES ASSUME Inductive, AllNumbered, AllWelcome, AllHeard, [Next]_vars, NEW q \in Pages PROVE Heard(q)'
  BY DEF AllHeard
<1>1. Inductive' /\ Heard(q) /\ Numbered(q) /\ GuestRests(q)
  BY NextInductive DEF AllHeard, AllNumbered, AllWelcome, Welcome
<1>2. ASSUME NEW p \in Pages, StepOf(p)
      PROVE  Heard(q)'
  BY <1>1, <1>2, StepHeard, StepsAreApart, ElsewhereHeard DEF Others, Elsewhere
<1>3. ASSUME NEW p \in Pages, NEW k \in Kinds, TrackArrives(p, k)
      PROVE  Heard(q)'
  BY <1>1, <1>3, TrackDoes, PageUnchanged, ElsewhereHeard DEF Inductive
<1>4. CASE UNCHANGED vars
  BY <1>1, <1>4, StutterElsewhere, ElsewhereHeard DEF Elsewhere
<1>5. QED
  BY <1>2, <1>3, <1>4, Steps

(* When nothing is on its way, a page that says it is live is connected to *)
(* the server (startShare, stopShare and handleAnswer of                   *)
(* public/js/webrtc.js, handleOffer of pkg/signaling/handler.go,           *)
(* StopStream and resetPublisherPC of pkg/room/room.go): what makes the    *)
(* server forget a page, its join or its stop, it takes before the offer   *)
(* of the page's next share, and the answer is of the connection that took *)
(* the offer.  The pages excepted are those HostIsHeard names.             *)
THEOREM LivePagesAreHeard == Spec => []HostIsHeard
<1> DEFINE Inv == Inductive /\ AllNumbered /\ AllWelcome /\ AllHeard
<1>1. Init => Inv
  BY InitInductive, NumberedInit, WelcomeInit, HeardInit
<1>2. Inv /\ [Next]_vars => Inv'
  BY NextInductive, NumberedNext, WelcomeNext, HeardNext
<1>3. Inv => HostIsHeard
  <2> SUFFICES ASSUME Inv, Quiet, NEW p \in Pages, ws[p] = "open", ~canShare[p],
                      p \notin disturbed \cup unsent \cup crossed \cup outdated \cup overlapped
               PROVE  Linked(p)
    BY DEF HostIsHeard
  <2>1. /\ toServer[p] = << >> /\ toPage[p] = << >> /\ todo[Session(p)] = << >>
        /\ pc[p].state \in {"stable", "offered"}
    BY GoroutineNames DEF Quiet
  <2>2. ~Has(toServer[p], {"join"}) /\ ~Has(toPage[p], {Taken}) /\ ~Outstanding(p) /\ ~AnswerDue(p)
    BY <2>1, HasNothing, NothingIn, NothingDue DEF Outstanding, AnswerDue
  <2>3. Heard(p) /\ GuestRests(p) /\ Numbered(p)
    BY DEF AllHeard, AllWelcome, Welcome, AllNumbered
  <2>4. Connected(p)
    BY <2>1, <2>2, <2>3 DEF Heard, Live, Answered, Asking, Accepting
  <2>5. session[p] = "publisher" /\ publisher = p
    BY <2>2, <2>3 DEF Heard, Admitted, GuestRests, Inductive, Typed, RoomTyped, Conversation,
        SessionsAreMembers, RolesFollow
  <2>6. peer[p].n # 0 /\ peer[p].state = "stable"
    BY <2>3, <2>5 DEF Heard, Admitted, Numbered, ServerNumbers
  <2>7. QED
    BY <2>4, <2>6 DEF Connected, Linked
<1> HIDE DEF Inv
<1>4. QED
  BY <1>1, <1>2, <1>3, PTL DEF Spec
=============================================================================
