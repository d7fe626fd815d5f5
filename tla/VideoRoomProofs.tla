--------------------------- MODULE VideoRoomProofs ---------------------------
(***************************************************************************)
(* Theorems about VideoRoom, for any pages and any bounds.                 *)
(***************************************************************************)
EXTENDS VideoRoom, CastPageProofs, FiniteSetTheorems

RoomTyped ==
    /\ broadcasterId \in Ids \cup {None}
    /\ watchers \in SUBSET Ids
    /\ sockets \in SUBSET Ids
    /\ registered \in SUBSET Ids /\ twice \in SUBSET Ids

(* RolesAreConnected with what it rests on: an event comes from a          *)
(* connection the server has, for a page is online only on such a one, and *)
(* the server drops only connections no page is online on.                 *)
Connected ==
    /\ \A p \in Pages : Online(p) => conn[p] \in sockets
    /\ \A c \in sockets \cup registered : c <= opened
    /\ RolesAreConnected

(* A page that broadcasts on a connection of a former broadcaster is about *)
(* to take over again or to be stopped.                                    *)
Stopped ==
    \A p \in Pages : Online(p) /\ casting[p] /\ conn[p] \in registered =>
        \/ broadcasterId = conn[p]
        \/ Has(outbox[p], Kind("broadcaster"))
        \/ Has(inbox[p], Kind("forceStop"))

Inductive == PagePart /\ RoomTyped /\ Connected /\ Stopped

LEMMA InitInductive == Init => Inductive
<1> SUFFICES ASSUME Init PROVE Inductive
  OBVIOUS
<1>1. PagePart
  BY PageInitPart DEF Init
<1>2. \A p \in Pages : ~Online(p)
  BY DEF Init, PageInit, Online
<1>3. RoomTyped /\ Connected
  BY <1>2, Numbers DEF Init, RoomTyped, Connected, RolesAreConnected
<1>4. QED
  BY <1>1, <1>2, <1>3 DEF Inductive, Stopped

----------------------------------------------------------------------------
(* What a page does *)

LEMMA PageInductive ==
  ASSUME Inductive, NEW p \in Pages, PageStep(p), UNCHANGED roomVars
  PROVE  Inductive'
<1>1. PageTyped /\ Effect(p)
  BY PageStepEffect DEF Inductive, PagePart
<1>2. UNCHANGED <<conn, opened, broadcasterId, watchers, sockets, registered, twice>>
  BY <1>1 DEF Effect, roomVars, history
<1>3. PagePart'
  BY <1>1, PageKeepsNumbers, PageTakesItBack DEF Inductive, PagePart, Effect
<1>4. \A q \in Pages : Online(q)' => Online(q)
  BY <1>1, OthersKeep, StandsAfter DEF Online
<1>5. RoomTyped' /\ Connected'
  BY <1>2, <1>4 DEF Inductive, RoomTyped, Connected, RolesAreConnected
<1>6. ASSUME NEW q \in Pages, Online(q)', casting'[q], conn'[q] \in registered'
      PROVE  \/ broadcasterId' = conn'[q]
             \/ Has(outbox'[q], Kind("broadcaster"))
             \/ Has(inbox'[q], Kind("forceStop"))
  <2>1. CASE q = p
    <3>1. /\ Has(outbox[p], Kind("broadcaster")) => Has(outbox'[p], Kind("broadcaster"))
          /\ \/ Has(outbox'[p], Kind("broadcaster"))
             \/ casting[p] /\ (Has(inbox[p], Kind("forceStop")) => Has(inbox'[p], Kind("forceStop")))
      BY <1>1, <1>6, <2>1, RoleAfter
    <3>2. QED
      BY <1>2, <1>4, <1>6, <2>1, <3>1 DEF Inductive, Stopped
  <2>2. CASE q # p
    BY <1>1, <1>2, <1>4, <1>6, <2>2, OthersKeep DEF Inductive, Stopped
  <2>3. QED
    BY <2>1, <2>2
<1>7. QED
  BY <1>3, <1>5, <1>6 DEF Inductive, Stopped

----------------------------------------------------------------------------
(* What the server does *)

(* A connection that opens is new to the maps.                             *)
LEMMA ConnectionInductive ==
  ASSUME Inductive, NEW p \in Pages, Connection(p)
  PROVE  Inductive'
<1>1. /\ PagePart' /\ opened' = opened + 1 /\ opened' \in Ids
      /\ link' = [link EXCEPT ![p] = "open"] /\ conn' = [conn EXCEPT ![p] = opened']
      /\ inbox' = [inbox EXCEPT ![p] = << >>] /\ UNCHANGED casting
      /\ \A q \in Pages \ {p} : outbox'[q] = outbox[q]
  BY ConnectEffect DEF Connection, Inductive, PagePart
<1>2. sockets' = sockets \cup {opened'} /\ UNCHANGED <<broadcasterId, watchers, registered, twice>>
  BY DEF Connection, history
<1>3. opened \in Nat
  BY CastPageAssumption DEF Inductive, PagePart, PageTyped
<1>4. \A c \in sockets \cup registered : c \in Nat /\ c <= opened
  BY Numbers DEF Inductive, RoomTyped, Connected
<1>5. opened' \notin registered /\ \A c \in sockets' \cup registered' : c <= opened'
  BY <1>1, <1>2, <1>3, <1>4
<1>6. RoomTyped'
  BY <1>1, <1>2 DEF Inductive, RoomTyped
<1>7. \A q \in Pages : Online(q)' => conn'[q] \in sockets'
  BY <1>1, <1>2 DEF Inductive, PagePart, PageTyped, Connected, Online
<1>8. RolesAreConnected'
  BY <1>2 DEF Inductive, Connected, RolesAreConnected
<1>9. Stopped'
  <2>1. ASSUME NEW q \in Pages, q # p
        PROVE  /\ conn'[q] = conn[q] /\ inbox'[q] = inbox[q] /\ outbox'[q] = outbox[q]
               /\ casting'[q] = casting[q] /\ (Online(q)' => Online(q))
    BY <1>1, <2>1 DEF Inductive, PagePart, PageTyped, Online
  <2>2. conn'[p] \notin registered'
    BY <1>1, <1>2, <1>5 DEF Inductive, PagePart, PageTyped
  <2>3. QED
    BY <1>2, <2>1, <2>2 DEF Inductive, Stopped
<1>10. QED
  BY <1>1, <1>5, <1>6, <1>7, <1>8, <1>9 DEF Inductive, Connected

LEMMA EmitEffect ==
  ASSUME NEW box \in [Pages -> Seq(Inward)], NEW S, NEW m \in Inward,
         NEW new, new = Emit(box, S, m)
  PROVE  /\ new \in [Pages -> Seq(Inward)]
         /\ \A p \in Pages : new[p] =
               IF Online(p) /\ conn[p] \in S \cap sockets THEN Append(box[p], m) ELSE box[p]
         /\ \A p \in Pages : ~Online(p) => new[p] = box[p]
         /\ \A p \in Pages : \A A : Has(box[p], A) => Has(new[p], A)
<1>1. \A p \in Pages : new[p] =
         IF Online(p) /\ conn[p] \in S \cap sockets THEN Append(box[p], m) ELSE box[p]
  BY DEF Emit
<1>2. \A p \in Pages : box[p] \in Seq(Inward) /\ Append(box[p], m) \in Seq(Inward)
  OBVIOUS
<1>3. new \in [Pages -> Seq(Inward)]
  BY <1>2 DEF Emit
<1>4. ASSUME NEW p \in Pages, NEW A, Has(box[p], A)
      PROVE  Has(new[p], A)
  <2>1. Has(Append(box[p], m), A)
    BY <1>2, <1>4, AppendHas
  <2>2. QED
    BY <1>1, <1>4, <2>1
<1>5. QED
  BY <1>1, <1>3, <1>4

LEMMA EmittedToInboxes ==
  ASSUME inbox \in [Pages -> Seq(Inward)], NEW S, NEW m \in Inward,
         inbox' = inbox \/ inbox' = Emit(inbox, S, m)
  PROVE  /\ inbox' \in [Pages -> Seq(Inward)]
         /\ \A p \in Pages : ~Online(p) => inbox'[p] = inbox[p]
         /\ \A p \in Pages : \A A : Has(inbox[p], A) => Has(inbox'[p], A)
<1>1. inbox' \in [Pages -> Seq(Inward)]
  BY EmitEffect
<1>2. \A p \in Pages : ~Online(p) => inbox'[p] = inbox[p]
  BY EmitEffect
<1>3. \A p \in Pages : \A A : Has(inbox[p], A) => Has(inbox'[p], A)
  BY EmitEffect
<1>4. QED
  BY <1>1, <1>2, <1>3

(* The server takes the next message of a page.                            *)
LEMMA OnEffect ==
  ASSUME Inductive, NEW p \in Pages, NEW k \in Kinds, On(p, k),
         inbox' \in [Pages -> Seq(Inward)],
         \A q \in Pages : ~Online(q) => inbox'[q] = inbox[q]
  PROVE  /\ PagePart' /\ UNCHANGED <<conn, opened, link, casting, peers, shown, faults, sockets>>
         /\ Online(p) /\ Event(p) \in Outward /\ Event(p).kind = k
         /\ conn[p] \in Ids /\ conn[p] \in sockets /\ conn[p] <= opened
         /\ \A q \in Pages : \A A : Event(p) \notin A /\ Has(outbox[q], A) => Has(outbox'[q], A)
         /\ \A q \in Pages \ {p} : outbox'[q] = outbox[q]
<1>1. /\ UNCHANGED <<conn, opened, link, casting, starting, clicks, peers, made, shown, faults, sockets>>
      /\ Online(p) /\ outbox[p] # << >> /\ Head(outbox[p]).kind = k
      /\ outbox' = [outbox EXCEPT ![p] = Tail(outbox[p])]
  BY DEF On, linkVars, castVars, peerVars
<1>2. PageTyped /\ Numbered /\ TakesItBack
  BY DEF Inductive, PagePart
<1>3. outbox[p] \in Seq(Outward) /\ Head(outbox[p]) \in Outward /\ Tail(outbox[p]) \in Seq(Outward)
  BY <1>1, <1>2 DEF PageTyped
<1>4. outbox' \in [Pages -> Seq(Outward)] /\ outbox'[p] = Tail(outbox[p])
      /\ \A q \in Pages \ {p} : outbox'[q] = outbox[q]
  BY <1>1, <1>2, <1>3 DEF PageTyped
<1>5. /\ link' \in [Pages -> {"down", "open", "left"}]
      /\ \A q \in Pages : /\ Online(q)' <=> Online(q)
                          /\ ~Online(q)' => inbox'[q] = << >>
  BY <1>1, <1>2 DEF PageTyped, Numbered, Online
<1>6. PagePart'
  BY <1>1, <1>2, <1>4, <1>5, ServerKeeps DEF PagePart
<1>7. ASSUME NEW A, Event(p) \notin A, Has(outbox[p], A) PROVE Has(outbox'[p], A)
  BY <1>1, <1>3, <1>4, <1>7, TailHas DEF Event
<1>8. conn[p] \in Ids /\ conn[p] \in sockets /\ conn[p] <= opened
  BY <1>1, <1>2 DEF Inductive, Connected, RoomTyped, Numbered
<1>9. QED
  BY <1>1, <1>3, <1>4, <1>6, <1>7, <1>8 DEF Event

LEMMA BroadcasterInductive ==
  ASSUME Inductive, NEW p \in Pages, Broadcaster(p)
  PROVE  Inductive'
<1> DEFINE stop == Plain("forceStop")
           news == Plain("broadcaster")
           former == {broadcasterId} \ {Me(p)}
           all == Ids \ {Me(p)}
<1>1. /\ On(p, "broadcaster") /\ broadcasterId' = conn[p] /\ watchers' = watchers \ {conn[p]}
      /\ registered' = registered \cup {conn[p]} /\ UNCHANGED twice
      /\ inbox' = Emit(Emit(inbox, former, stop), all, news)
  BY DEF Broadcaster, Me
<1>2. stop \in Inward /\ news \in Inward /\ stop \in Kind("forceStop")
  BY MessagesAre DEF Kinds, Inward, Named, Kind
<1>3. inbox \in [Pages -> Seq(Inward)]
  BY DEF Inductive, PagePart, PageTyped
<1> HIDE DEF stop, news, former, all
<1>4. PICK told : told = Emit(inbox, former, stop)
  OBVIOUS
<1>5. /\ told \in [Pages -> Seq(Inward)]
      /\ \A q \in Pages : told[q] = IF Online(q) /\ conn[q] \in former \cap sockets
                                   THEN Append(inbox[q], stop) ELSE inbox[q]
      /\ \A q \in Pages : \A A : Has(inbox[q], A) => Has(told[q], A)
  <2>1. told \in [Pages -> Seq(Inward)]
    BY <1>2, <1>3, <1>4, EmitEffect
  <2>2. \A q \in Pages : told[q] = IF Online(q) /\ conn[q] \in former \cap sockets
                                THEN Append(inbox[q], stop) ELSE inbox[q]
    BY <1>2, <1>3, <1>4, EmitEffect
  <2>3. \A q \in Pages : \A A : Has(inbox[q], A) => Has(told[q], A)
    BY <1>2, <1>3, <1>4, EmitEffect
  <2>4. QED
    BY <2>1, <2>2, <2>3
<1>6. /\ inbox' \in [Pages -> Seq(Inward)]
      /\ \A q \in Pages : ~Online(q) => inbox'[q] = told[q]
      /\ \A q \in Pages : \A A : Has(told[q], A) => Has(inbox'[q], A)
  <2>1. inbox' = Emit(told, all, news) /\ told \in [Pages -> Seq(Inward)] /\ news \in Inward
    BY <1>1, <1>2, <1>4, <1>5
  <2>2. inbox' \in [Pages -> Seq(Inward)]
    BY <2>1, EmitEffect
  <2>3. \A q \in Pages : ~Online(q) => inbox'[q] = told[q]
    BY <2>1, EmitEffect
  <2>4. \A q \in Pages : \A A : Has(told[q], A) => Has(inbox'[q], A)
    BY <2>1, EmitEffect
  <2>5. QED
    BY <2>2, <2>3, <2>4
<1>7. /\ PagePart' /\ UNCHANGED <<conn, opened, link, casting, peers, sockets>>
      /\ Online(p) /\ conn[p] \in Ids /\ conn[p] \in sockets /\ conn[p] <= opened
      /\ \A q \in Pages \ {p} : outbox'[q] = outbox[q]
  BY <1>1, <1>5, <1>6, OnEffect DEF Kinds
<1>8. RoomTyped' /\ Connected'
  BY <1>1, <1>7 DEF Inductive, RoomTyped, Connected, RolesAreConnected, Online
<1>9. ASSUME NEW q \in Pages, Online(q), casting[q], conn[q] \in registered', q # p
      PROVE  Has(outbox'[q], Kind("broadcaster")) \/ Has(inbox'[q], Kind("forceStop"))
  <2>1. conn[q] # conn[p] /\ conn[q] \in registered /\ conn[q] \in sockets
    BY <1>1, <1>7, <1>9 DEF Inductive, PagePart, Numbered, Connected
  <2>2. CASE broadcasterId = conn[q]
    <3>1. told[q] = Append(inbox[q], stop) /\ inbox[q] \in Seq(Inward)
      BY <1>3, <1>5, <1>9, <2>1, <2>2 DEF former, Me
    <3>2. Has(told[q], Kind("forceStop"))
      BY <1>2, <3>1, AppendHas
    <3>3. QED
      BY <1>6, <3>2
  <2>3. CASE broadcasterId # conn[q]
    BY <1>5, <1>6, <1>7, <1>9, <2>1, <2>3 DEF Inductive, Stopped
  <2>4. QED
    BY <2>2, <2>3
<1>10. Stopped'
  BY <1>1, <1>7, <1>9 DEF Stopped, Online
<1>11. QED
  BY <1>7, <1>8, <1>10 DEF Inductive

(* Other messages make no broadcaster, and take no forceStop back.         *)
LEMMA OtherEventInductive ==
  ASSUME Inductive, NEW p \in Pages, NEW k \in Kinds \ {"broadcaster"}, On(p, k),
         NEW S, NEW m \in Inward,
         inbox' = inbox \/ inbox' = Emit(inbox, S, m),
         UNCHANGED <<broadcasterId, registered>>, twice' \in SUBSET Ids,
         \/ watchers' = watchers
         \/ watchers' = watchers \cup {conn[p]} /\ broadcasterId # conn[p]
  PROVE  Inductive'
<1>1. inbox \in [Pages -> Seq(Inward)]
  BY DEF Inductive, PagePart, PageTyped
<1>2. /\ inbox' \in [Pages -> Seq(Inward)]
      /\ \A q \in Pages : ~Online(q) => inbox'[q] = inbox[q]
      /\ \A q \in Pages : \A A : Has(inbox[q], A) => Has(inbox'[q], A)
  BY <1>1, EmittedToInboxes
<1>3. /\ PagePart' /\ UNCHANGED <<conn, opened, link, casting, peers, sockets>>
      /\ Online(p) /\ conn[p] \in Ids /\ conn[p] \in sockets /\ Event(p).kind # "broadcaster"
      /\ \A q \in Pages : \A A : Event(p) \notin A /\ Has(outbox[q], A) => Has(outbox'[q], A)
  BY <1>2, OnEffect
<1>4. RoomTyped' /\ Connected'
  BY <1>3 DEF Inductive, RoomTyped, Connected, RolesAreConnected, Online
<1>5. Event(p) \notin Kind("broadcaster")
  BY <1>3 DEF Kind
<1>6. Stopped'
  BY <1>2, <1>3, <1>5 DEF Inductive, Stopped, Online
<1>7. QED
  BY <1>3, <1>4, <1>6 DEF Inductive

LEMMA WatcherInductive ==
  ASSUME Inductive, NEW p \in Pages, Watcher(p)
  PROVE  Inductive'
<1> DEFINE m == About("watcher", conn[p])
<1>1. /\ On(p, "watcher") /\ UNCHANGED <<broadcasterId, registered>>
      /\ inbox' = inbox \/ inbox' = Emit(inbox, {broadcasterId}, m)
      /\ \/ watchers' = watchers
         \/ watchers' = watchers \cup {conn[p]} /\ broadcasterId # conn[p]
      /\ twice' \in {twice, twice \cup {conn[p]}}
  BY DEF Watcher, Me
<1>2. conn[p] \in Ids
  BY <1>1 DEF On, Inductive, Connected, RoomTyped
<1>3. m \in Inward
  BY <1>2, MessagesAre DEF Kinds, Inward, Named
<1>4. twice' \in SUBSET Ids
  BY <1>1, <1>2 DEF Inductive, RoomTyped
<1> HIDE DEF m
<1>5. QED
  BY <1>1, <1>3, <1>4, OtherEventInductive DEF Kinds

LEMMA RelayInductive ==
  ASSUME Inductive, NEW p \in Pages, Relay(p)
  PROVE  Inductive'
<1> DEFINE m == [Event(p) EXCEPT !.id = conn[p]]
<1>1. PICK k \in {"offer", "answer", "candidate"} : On(p, k)
  BY DEF Relay
<1>2. inbox' = Emit(inbox, {Event(p).id}, m) /\ UNCHANGED <<broadcasterId, watchers, registered, twice>>
  BY DEF Relay, history, Me
<1>3. conn[p] \in Ids /\ Event(p) \in Outward /\ Event(p).kind = k
  <2>1. Online(p) /\ outbox[p] # << >> /\ Head(outbox[p]).kind = k
    BY <1>1 DEF On
  <2>2. Head(outbox[p]) \in Outward
    BY <2>1 DEF Inductive, PagePart, PageTyped
  <2>3. QED
    BY <2>1, <2>2 DEF Event, Inductive, Connected, RoomTyped
<1>4. m \in Inward
  BY <1>3, RelayedMessage
<1>5. twice' \in SUBSET Ids /\ k \in Kinds \ {"broadcaster"}
  BY <1>2 DEF Inductive, RoomTyped, Kinds
<1> HIDE DEF m
<1>6. QED
  BY <1>1, <1>2, <1>4, <1>5, OtherEventInductive

LEMMA DisconnectInductive ==
  ASSUME Inductive, NEW c \in Ids, Disconnect(c)
  PROVE  Inductive'
<1> DEFINE left == Plain("broadcasterLeft")
           gone == About("disconnectPeer", c)
<1>1. /\ sockets' = sockets \ {c} /\ watchers' = watchers \ {c}
      /\ UNCHANGED <<conn, opened, link, outbox, casting, starting, clicks, peers, made, shown, faults,
                     registered, twice>>
      /\ \A p \in Pages : ~(Online(p) /\ conn[p] = c)
      /\ \/ broadcasterId = c /\ broadcasterId' = None /\ inbox' = Emit(inbox, Ids, left)
         \/ broadcasterId # c /\ broadcasterId' = broadcasterId
            /\ inbox' = Emit(inbox, {broadcasterId}, gone)
  BY DEF Disconnect, linkVars, castVars, peerVars, history
<1>2. left \in Inward /\ gone \in Inward
  BY MessagesAre DEF Kinds, Inward, Named
<1>3. PageTyped /\ Numbered /\ TakesItBack
  BY DEF Inductive, PagePart
<1> HIDE DEF left, gone
<1>4. /\ inbox' \in [Pages -> Seq(Inward)]
      /\ \A q \in Pages : ~Online(q) => inbox'[q] = inbox[q]
      /\ \A q \in Pages : \A A : Has(inbox[q], A) => Has(inbox'[q], A)
  BY <1>1, <1>2, <1>3, EmittedToInboxes DEF PageTyped
<1>5. PagePart'
  <2>1. /\ link' \in [Pages -> {"down", "open", "left"}] /\ outbox' \in [Pages -> Seq(Outward)]
        /\ \A q \in Pages : (Online(q)' => Online(q)) /\ (~Online(q)' => inbox'[q] = << >>)
        /\ \A q \in Pages : outbox'[q] = outbox[q] /\ link'[q] = link[q]
    BY <1>1, <1>3, <1>4 DEF PageTyped, Numbered, Online
  <2>2. QED
    BY <1>1, <1>3, <1>4, <2>1, ServerKeeps DEF PagePart
<1>6. RoomTyped' /\ Connected'
  BY <1>1, Numbers DEF Inductive, RoomTyped, Connected, RolesAreConnected, Online
<1>7. Stopped'
  BY <1>1, <1>4 DEF Inductive, Stopped, Online
<1>8. QED
  BY <1>5, <1>6, <1>7 DEF Inductive

LEMMA NextInductive == Inductive /\ [Next]_vars => Inductive'
<1> SUFFICES ASSUME Inductive, [Next]_vars
             PROVE  Inductive'
  OBVIOUS
<1>1. ASSUME NEW p \in Pages,
             \/ Transmit(p) \/ Called(p) \/ AsBroadcaster(p) \/ AsWatcher(p)
             \/ InEitherRole(p) \/ Fails(p) \/ Away(p)
      PROVE  PageStep(p)
  BY <1>1 DEF Transmit, Called, AsBroadcaster, AsWatcher, InEitherRole, Fails, Away, PageStep, OnMessage
<1>2. CASE UNCHANGED vars
  <2>1. /\ UNCHANGED <<conn, opened, link, inbox, outbox, casting, starting, clicks, peers, made, shown,
                       faults, broadcasterId, watchers, sockets, registered, twice>>
    BY <1>2 DEF vars, pageVars, linkVars, castVars, peerVars, roomVars, history
  <2>2. PagePart'
    BY <2>1 DEF Inductive, PagePart, PageTyped, Numbered, TakesItBack, Online
  <2>3. RoomTyped' /\ Connected' /\ Stopped'
    BY <2>1 DEF Inductive, RoomTyped, Connected, RolesAreConnected, Stopped, Online
  <2>4. QED
    BY <2>2, <2>3 DEF Inductive
<1>3. CASE Next
  <2>1. ASSUME NEW p \in Pages, Connection(p) \/ Broadcaster(p) \/ Watcher(p) \/ Relay(p)
        PROVE  Inductive'
    BY <2>1, ConnectionInductive, BroadcasterInductive, WatcherInductive, RelayInductive
  <2>2. ASSUME NEW c \in Ids, Disconnect(c) PROVE Inductive'
    BY <2>2, DisconnectInductive
  <2>3. QED
    BY <1>1, <1>3, <2>1, <2>2, PageInductive DEF Next
<1>4. QED
  BY <1>2, <1>3

----------------------------------------------------------------------------
(* When a broadcaster leaves *)

(* A page is online on the connection c.                                   *)
Live(c) == \E p \in Pages : Online(p) /\ conn[p] = c
OneHasLeft == \E r \in registered : ~Live(r)

(* The page p is going to make an offer to id.                             *)
Asks(p, id) ==
    \/ Has(inbox[p], Of("watcher", id))
    \/ id \in DOMAIN peers[p] /\ peers[p][id].state = "offering"
    \/ Has(outbox[p], Of("offer", id))

(* The page p shows id, or has its offer under way.                        *)
Sees(p, id) == Has(inbox[p], Of("offer", id)) \/ shown[p] = id

(* Offers go to others, and only from pages that have been the broadcaster *)
(* under their connection or under one they have lost.                     *)
OffersFollow ==
    \A p \in Pages, id \in Ids :
        /\ Asks(p, id) => id <= opened /\ id # conn[p] /\ (conn[p] \in registered \/ OneHasLeft)
        /\ Sees(p, id) => /\ id <= opened /\ id # conn[p] /\ conn[p] # None
                          /\ id \in registered \/ OneHasLeft

(* A connection is lost by a fault only.                                   *)
FaultsAreCounted ==
    /\ faults = 0 => \A c \in Ids : c <= opened => Live(c)
    /\ faults \in {0, 1} =>
          \A c, d \in Ids : c <= opened /\ d <= opened => Live(c) \/ Live(d) \/ c = d

BroadcasterIsRegistered ==
    /\ broadcasterId \in registered \cup {None}
    /\ \A b \in Ids : registered = {b} /\ b \in sockets => broadcasterId = b

(* Who broadcasts and still shows the broadcaster before it has the server *)
(* told; what happens after a second loss is left open.                    *)
TakeoverIsUnderWay ==
    \A b \in Ids, p \in Pages :
        registered = {b} /\ (faults = 0 \/ (faults = 1 /\ ~Live(b)))
            /\ Online(p) /\ casting[p] /\ shown[p] = b => Has(outbox[p], Kind("broadcaster"))

(* A page is told that the only broadcaster has left after every offer of  *)
(* this broadcaster.                                                       *)
TurnsDark(b, p) ==
    /\ Followed(inbox[p], Of("offer", b), Kind("broadcasterLeft"))
    /\ shown[p] = b => Has(inbox[p], Kind("broadcasterLeft")) \/ Has(outbox[p], Kind("broadcaster"))

AllTurnDark ==
    \A b \in Ids, p \in Pages :
        registered = {b} /\ b \notin sockets /\ faults \in {0, 1} /\ Online(p) => TurnsDark(b, p)

Watched ==
    OffersFollow /\ FaultsAreCounted /\ BroadcasterIsRegistered /\ TakeoverIsUnderWay /\ AllTurnDark

LEMMA InitWatched == Init => Watched
<1> SUFFICES ASSUME Init PROVE Watched
  OBVIOUS
<1>1. /\ registered = {} /\ broadcasterId = None /\ opened = 0
      /\ \A p \in Pages : /\ inbox[p] = << >> /\ outbox[p] = << >>
                          /\ DOMAIN peers[p] = {} /\ shown[p] = None
  BY DEF Init, PageInit
<1>2. \A p \in Pages, id \in Ids : ~Asks(p, id) /\ ~Sees(p, id)
  BY <1>1, HasNothing, Numbers DEF Asks, Sees
<1>3. \A c \in Ids : ~(c <= opened)
  BY <1>1 DEF Ids
<1>4. OffersFollow /\ FaultsAreCounted
  BY <1>2, <1>3 DEF OffersFollow, FaultsAreCounted
<1>5. registered \subseteq {} /\ \A b \in Ids : registered # {b}
  BY <1>1
<1>6. QED
  BY <1>1, <1>4, <1>5 DEF Watched, BroadcasterIsRegistered, TakeoverIsUnderWay, AllTurnDark

LEMMA TailDiffers ==
  ASSUME NEW T, NEW q \in Seq(T), q # << >>
  PROVE  Tail(q) # q
<1> DEFINE r == Tail(q)
<1>1. Len(q) \in Nat /\ Len(r) = Len(q) - 1
  OBVIOUS
<1> HIDE DEF r
<1>2. r # q
  BY <1>1
<1>3. QED
  BY <1>2 DEF r

(* A step of a page asks for no offer and brings none.                     *)
LEMMA PageAsksNothing ==
  ASSUME PageTyped, NEW p \in Pages, PageStep(p), Effect(p), NEW q \in Pages, NEW id \in Ids
  PROVE  (Asks(q, id)' => Asks(q, id)) /\ (Sees(q, id)' => Sees(q, id))
<1>1. \A A : Has(inbox'[q], A) => Has(inbox[q], A)
  BY InboxAfter
<1>2. CASE q # p
  <2>1. outbox'[q] = outbox[q] /\ peers'[q] = peers[q] /\ shown'[q] = shown[q]
    BY <1>2, OthersKeep, VideoAfter
  <2>2. QED
    BY <1>1, <2>1 DEF Asks, Sees
<1>3. ASSUME q = p, NEW k \in Kinds, Hears(p, k) PROVE Has(inbox[p], Of(k, Msg(p).id))
  <2>1. inbox[p] \in Seq(Inward) /\ inbox[p] # << >> /\ Head(inbox[p]) \in Of(k, Msg(p).id)
    BY <1>3 DEF Hears, PageTyped, Msg, Inward, Of
  <2>2. QED
    BY <2>1, TailHas
<1>4. ASSUME q = p, Sees(p, id)' PROVE Sees(p, id)
  <2>1. CASE Hears(p, "offer") /\ shown'[p] = Msg(p).id
    BY <1>1, <1>3, <1>4, <2>1 DEF Sees, Kinds
  <2>2. CASE shown'[p] \in {None, shown[p]}
    BY <1>1, <1>4, <2>2, Numbers DEF Sees
  <2>3. QED
    BY <2>1, <2>2, VideoAfter
<1>5. ASSUME q = p, id \in DOMAIN peers'[p], peers'[p][id].state = "offering"
      PROVE  Asks(p, id)
  <2>1. CASE Keeps(p)
    BY <1>5, <2>1 DEF Keeps, Asks
  <2>2. CASE Hears(p, "watcher") /\ Makes(p, Msg(p).id, "offering")
    BY <1>3, <1>5, <2>2 DEF Makes, Asks, Kinds
  <2>3. CASE Hears(p, "offer") /\ Makes(p, Msg(p).id, "answering")
    BY <1>5, <2>3 DEF Makes, Asks
  <2>4. QED
    BY <2>1, <2>2, <2>3 DEF Effect, Peering
<1>6. Has(outbox'[p], Of("offer", id)) => Asks(p, id)
  BY OffersAfter DEF Asks
<1>7. QED
  BY <1>1, <1>2, <1>4, <1>5, <1>6 DEF Asks

LEMMA PageWatched ==
  ASSUME Inductive, Watched, NEW p \in Pages, PageStep(p), UNCHANGED roomVars
  PROVE  Watched'
<1>1. PageTyped /\ Numbered /\ Connected /\ Effect(p)
  BY PageStepEffect DEF Inductive, PagePart
<1>2. UNCHANGED <<conn, opened, broadcasterId, sockets, registered>>
  BY <1>1 DEF Effect, roomVars, history
<1>3. \A q \in Pages : (Online(q)' => Online(q)) /\ (q # p => Online(q)' = Online(q))
  BY <1>1, OthersKeep, StandsAfter DEF Online
<1>4. \A c : Live(c)' => Live(c)
  BY <1>2, <1>3 DEF Live
<1>5. \A c : Live(c) => Live(c)' \/ (c = conn[p] /\ Online(p) /\ ~Online(p)')
  BY <1>2, <1>3 DEF Live
<1>6. /\ faults \in Nat /\ (faults' = faults \/ faults' = faults + 1)
      /\ Online(p) /\ ~Online(p)' => faults' = faults + 1
  BY <1>1, VideoAfter, CastPageAssumption DEF PageTyped
<1>7. OneHasLeft => OneHasLeft'
  BY <1>2, <1>4 DEF OneHasLeft
<1>8. OffersFollow'
  <2>1. \A q \in Pages, id \in Ids : (Asks(q, id)' => Asks(q, id)) /\ (Sees(q, id)' => Sees(q, id))
    BY <1>1, PageAsksNothing
  <2>2. QED
    BY <1>2, <1>7, <2>1 DEF Watched, OffersFollow
<1>9. FaultsAreCounted'
  BY <1>2, <1>5, <1>6 DEF Watched, FaultsAreCounted
<1>10. BroadcasterIsRegistered'
  BY <1>2 DEF Watched, BroadcasterIsRegistered
<1>11. \A q \in Pages : Online(q)' =>
          \A k : Has(outbox[q], Kind(k)) => Has(outbox'[q], Kind(k))
  BY <1>1, OthersKeep, RoleAfter
<1>12. ASSUME NEW b \in Ids, NEW q \in Pages, registered = {b},
              faults' = 0 \/ (faults' = 1 /\ ~Live(b)'),
              Online(q)', casting'[q], shown'[q] = b
       PROVE  Has(outbox'[q], Kind("broadcaster"))
  <2>1. faults = 0 \/ (faults = 1 /\ ~Live(b))
    BY <1>5, <1>6, <1>12
  <2>2. CASE q # p
    BY <1>3, <1>11, <1>12, <2>1, <2>2, OthersKeep, VideoAfter, <1>1 DEF Watched, TakeoverIsUnderWay
  <2>3. CASE q = p
    <3>1. Has(outbox'[p], Kind("broadcaster")) \/ casting[p]
      BY <1>1, <1>12, <2>3, RoleAfter
    <3>2. casting[p] => shown[p] = b
      BY <1>1, <1>12, <2>3, VideoAfter, Numbers
    <3>3. QED
      BY <1>3, <1>11, <1>12, <2>1, <2>3, <3>1, <3>2 DEF Watched, TakeoverIsUnderWay
  <2>4. QED
    BY <2>2, <2>3
<1>13. ASSUME NEW b \in Ids, NEW q \in Pages, registered = {b}, b \notin sockets,
              faults' \in {0, 1}, Online(q)'
       PROVE  TurnsDark(b, q)'
  <2>1. faults \in {0, 1} /\ Online(q)
    BY <1>3, <1>6, <1>13
  <2>2. TurnsDark(b, q) /\ ~Live(b)
    BY <1>1, <1>13, <2>1 DEF Watched, AllTurnDark, Connected, Live
  <2>3. CASE q # p
    BY <1>1, <2>2, <2>3, OthersKeep, VideoAfter DEF TurnsDark
  <2>4. CASE q = p /\ inbox'[p] = inbox[p]
    <3>1. ~Hears(p, "offer")
      BY <1>1, <2>4, TailDiffers DEF Hears, PageTyped
    <3>2. shown'[p] \in {None, shown[p]}
      BY <1>1, <3>1, VideoAfter
    <3>3. QED
      BY <1>11, <1>13, <2>2, <2>4, <3>1, <3>2, Numbers DEF TurnsDark
  <2>5. ASSUME q = p, NEW k \in Kinds, Hears(p, k) PROVE TurnsDark(b, p)'
    <3>1. /\ inbox[p] \in Seq(Inward) /\ inbox[p] # << >> /\ inbox'[p] = Tail(inbox[p])
          /\ Head(inbox[p]) = Msg(p) /\ Msg(p) \in Message /\ Msg(p).kind = k
      BY <1>1, <2>5 DEF Hears, PageTyped, Msg, Inward
    <3>2. Followed(inbox'[p], Of("offer", b), Kind("broadcasterLeft"))
      BY <2>2, <2>5, <3>1, TailHas DEF TurnsDark
    <3>3. ASSUME shown'[p] = b
          PROVE  Has(inbox'[p], Kind("broadcasterLeft")) \/ Has(outbox'[p], Kind("broadcaster"))
      <4>1. CASE k = "offer" /\ Msg(p).id = b
        <5>1. Head(inbox[p]) \in Of("offer", b)
          BY <3>1, <4>1 DEF Of
        <5>2. Has(Tail(inbox[p]), Kind("broadcasterLeft"))
          <6>1. Followed(inbox[p], Of("offer", b), Kind("broadcasterLeft"))
            BY <2>2, <2>5 DEF TurnsDark
          <6>2. QED
            BY <3>1, <5>1, <6>1, TailHas
        <5>3. QED
          BY <3>1, <5>2
      <4>2. CASE shown[p] = b /\ k # "broadcasterLeft"
        <5>1. Head(inbox[p]) \notin Kind("broadcasterLeft")
          BY <3>1, <4>2 DEF Kind
        <5>2. Has(inbox[p], Kind("broadcasterLeft")) => Has(Tail(inbox[p]), Kind("broadcasterLeft"))
          BY <3>1, <5>1, TailHas
        <5>3. Has(outbox[p], Kind("broadcaster")) => Has(outbox'[p], Kind("broadcaster"))
          BY <1>11, <1>13, <2>5
        <5>4. QED
          BY <2>2, <2>5, <3>1, <4>2, <5>2, <5>3 DEF TurnsDark
      <4>3. CASE shown[p] = b /\ k = "broadcasterLeft" /\ casting[p]
        BY <1>11, <1>13, <2>1, <2>2, <2>5, <4>3 DEF Watched, TakeoverIsUnderWay
      <4>4. inbox' # inbox
        BY <3>1, TailDiffers
      <4>5. QED
        BY <1>1, <1>13, <2>5, <3>1, <3>3, <4>1, <4>2, <4>3, <4>4, VideoAfter, Numbers DEF Hears
    <3>4. QED
      BY <3>2, <3>3 DEF TurnsDark
  <2>6. QED
    BY <1>1, <1>13, <2>3, <2>4, <2>5, StandsAfter
<1>14. TakeoverIsUnderWay'
  BY <1>2, <1>12 DEF TakeoverIsUnderWay
<1>15. AllTurnDark'
  BY <1>2, <1>13 DEF AllTurnDark
<1>16. QED
  BY <1>8, <1>9, <1>10, <1>14, <1>15 DEF Watched

LEMMA ConnectionWatched ==
  ASSUME Inductive, Watched, NEW p \in Pages, Connection(p)
  PROVE  Watched'
<1>1. PageTyped /\ Numbered /\ TakesItBack /\ Connected /\ RoomTyped
  BY DEF Inductive, PagePart
<1>2. /\ link[p] = "down" /\ opened' = opened + 1 /\ opened' \in Ids
      /\ link' = [link EXCEPT ![p] = "open"] /\ conn' = [conn EXCEPT ![p] = opened']
      /\ inbox' = [inbox EXCEPT ![p] = << >>] /\ UNCHANGED <<casting, peers, shown>>
      /\ \A q \in Pages \ {p} : outbox'[q] = outbox[q]
      /\ \A id : Has(outbox'[p], Of("offer", id)) => Has(outbox[p], Of("offer", id))
  BY <1>1, ConnectEffect DEF Connection
<1>3. UNCHANGED <<broadcasterId, registered, faults>> /\ sockets' = sockets \cup {opened'}
  BY DEF Connection, Connect, history
<1>4. opened \in Nat /\ \A id \in Ids : id <= opened => id <= opened' /\ id # opened'
  BY <1>1, <1>2, Numbers, CastPageAssumption DEF PageTyped
<1>5. \A id \in Ids : id <= opened' => id <= opened \/ id = opened'
  BY <1>2, <1>4, Numbers
<1>6. ~Online(p) /\ Online(p)' /\ conn'[p] = opened' /\ inbox'[p] = << >>
      /\ \A q \in Pages \ {p} : /\ Online(q)' = Online(q) /\ conn'[q] = conn[q]
                                /\ inbox'[q] = inbox[q] /\ outbox'[q] = outbox[q]
  BY <1>1, <1>2 DEF PageTyped, Online
<1>7. \A c \in Ids : /\ c = opened' => Live(c)'
                     /\ c <= opened => (Live(c)' <=> Live(c))
  BY <1>4, <1>6 DEF Live
<1>8. registered \subseteq Ids /\ \A r \in registered : r <= opened
  BY <1>1 DEF Connected, RoomTyped
<1>9. OneHasLeft => OneHasLeft'
  BY <1>3, <1>7, <1>8 DEF OneHasLeft
<1>10. conn[p] # None => conn[p] \in Ids /\ conn[p] <= opened /\ ~Live(conn[p])
  BY <1>1, <1>6 DEF PageTyped, Numbered, Live
<1>11. conn[p] \in registered => OneHasLeft'
  BY <1>3, <1>7, <1>8, <1>10, Numbers DEF OneHasLeft
<1>12. OffersFollow'
  <2>1. ASSUME NEW q \in Pages, NEW id \in Ids
        PROVE  (Asks(q, id)' => Asks(q, id)) /\ (Sees(q, id)' => Sees(q, id))
    BY <1>2, <1>6, HasNothing DEF Asks, Sees
  <2>2. ASSUME NEW q \in Pages, NEW id \in Ids, Asks(q, id)'
        PROVE  id <= opened' /\ id # conn'[q] /\ (conn'[q] \in registered \/ OneHasLeft')
    BY <1>4, <1>6, <1>9, <1>11, <2>1, <2>2 DEF Watched, OffersFollow
  <2>3. ASSUME NEW q \in Pages, NEW id \in Ids, Sees(q, id)'
        PROVE  id <= opened' /\ id # conn'[q] /\ conn'[q] # None /\ (id \in registered \/ OneHasLeft')
    BY <1>2, <1>4, <1>6, <1>9, <2>1, <2>3, Numbers DEF Watched, OffersFollow
  <2>4. QED
    BY <1>3, <2>2, <2>3 DEF OffersFollow
<1>13. FaultsAreCounted'
  BY <1>3, <1>5, <1>7 DEF Watched, FaultsAreCounted
<1>14. BroadcasterIsRegistered'
  BY <1>3, <1>4, <1>8 DEF Watched, BroadcasterIsRegistered
(* Who had a connection before and shows the broadcaster lost it by the    *)
(* only fault: it is not the broadcaster that has left.                    *)
<1>15. ASSUME NEW b \in Ids, registered = {b}, shown[p] = b,
              faults = 0 \/ (faults = 1 /\ ~Live(b))
       PROVE  FALSE
  <2>1. conn[p] # None /\ conn[p] # b /\ b <= opened
    BY <1>8, <1>15 DEF Watched, OffersFollow, Sees
  <2>2. QED
    BY <1>10, <1>15, <2>1 DEF Watched, FaultsAreCounted
<1>16. TakeoverIsUnderWay'
  <2>1. ASSUME NEW b \in Ids, NEW q \in Pages, registered = {b},
               faults = 0 \/ (faults = 1 /\ ~Live(b)'), Online(q)', casting[q], shown[q] = b
        PROVE  Has(outbox'[q], Kind("broadcaster"))
    <3>1. b <= opened /\ (Live(b)' <=> Live(b))
      BY <1>7, <1>8, <2>1
    <3>2. q # p
      BY <1>15, <2>1, <3>1
    <3>3. QED
      BY <1>6, <2>1, <3>1, <3>2 DEF Watched, TakeoverIsUnderWay
  <2>2. QED
    BY <1>2, <1>3, <2>1 DEF TakeoverIsUnderWay
<1>17. AllTurnDark'
  <2>1. ASSUME NEW b \in Ids, NEW q \in Pages, registered = {b}, b \notin sockets',
               faults \in {0, 1}, Online(q)'
        PROVE  TurnsDark(b, q)'
    <3>1. b \notin sockets /\ ~Live(b)
      BY <1>1, <1>3, <2>1 DEF Connected, Live
    <3>2. CASE q # p
      BY <1>2, <1>6, <2>1, <3>1, <3>2 DEF Watched, AllTurnDark, TurnsDark
    <3>3. CASE q = p
      BY <1>2, <1>6, <1>15, <2>1, <3>1, <3>3, HasNothing DEF TurnsDark
    <3>4. QED
      BY <3>2, <3>3
  <2>2. QED
    BY <1>3, <2>1 DEF AllTurnDark
<1>18. QED
  BY <1>12, <1>13, <1>14, <1>16, <1>17 DEF Watched

(* Messages that ask for nothing, or for an offer to somebody else from    *)
(* the broadcaster, or are the offer of a page that is online.             *)
Proper(m, c) ==
    /\ m.kind = "watcher" =>
          m.id <= opened /\ m.id # c /\ (c \in registered \/ OneHasLeft)
    /\ m.kind = "offer" =>
          m.id <= opened /\ m.id # c /\ (m.id \in registered \/ OneHasLeft) /\ Live(m.id)

(* The server sends proper messages only, and takes no "broadcaster".      *)
LEMMA SendingWatched ==
  ASSUME Inductive, Watched, NEW S, NEW m \in Inward,
         inbox' = inbox \/ inbox' = Emit(inbox, S, m),
         \A q \in Pages : Online(q) /\ conn[q] \in S => Proper(m, conn[q]),
         UNCHANGED <<conn, opened, link, casting, peers, shown, faults, registered>>,
         \A q \in Pages, id \in Ids :
            /\ Has(outbox'[q], Of("offer", id)) => Has(outbox[q], Of("offer", id))
            /\ Has(outbox[q], Kind("broadcaster")) => Has(outbox'[q], Kind("broadcaster"))
  PROVE  /\ OffersFollow' /\ FaultsAreCounted' /\ TakeoverIsUnderWay'
         /\ \A b \in Ids, q \in Pages : b \notin sockets /\ TurnsDark(b, q) => TurnsDark(b, q)'
<1>1. PageTyped /\ Numbered /\ Connected
  BY DEF Inductive, PagePart
<1>2. ASSUME NEW q \in Pages
      PROVE  \/ inbox'[q] = inbox[q]
             \/ inbox'[q] = Append(inbox[q], m) /\ Online(q) /\ conn[q] \in S
  <2>1. inbox \in [Pages -> Seq(Inward)]
    BY <1>1 DEF PageTyped
  <2>2. ASSUME inbox' = Emit(inbox, S, m)
        PROVE  inbox'[q] = IF Online(q) /\ conn[q] \in S \cap sockets
                           THEN Append(inbox[q], m) ELSE inbox[q]
    BY <2>1, <2>2, EmitEffect
  <2>3. QED
    BY <2>2
<1>3. ASSUME NEW q \in Pages, NEW A
      PROVE  /\ Has(inbox[q], A) => Has(inbox'[q], A)
             /\ Has(inbox'[q], A) => Has(inbox[q], A) \/ (m \in A /\ Proper(m, conn[q]) /\ Online(q))
             /\ m \notin A \/ inbox'[q] = inbox[q] =>
                   \A B : Followed(inbox[q], A, B) => Followed(inbox'[q], A, B)
  <2>1. inbox[q] \in Seq(Inward)
    BY <1>1 DEF PageTyped
  <2>2. CASE inbox'[q] = inbox[q]
    BY <2>2
  <2>3. CASE inbox'[q] = Append(inbox[q], m) /\ Online(q) /\ conn[q] \in S
    <3>1. Proper(m, conn[q])
      BY <2>3
    <3>2. \A B : Has(Append(inbox[q], m), B) <=> Has(inbox[q], B) \/ m \in B
      BY <2>1, AppendHas
    <3>3. \A B : Followed(inbox[q], A, B) /\ m \notin A => Followed(Append(inbox[q], m), A, B)
      BY <2>1, AppendHas
    <3>4. Append(inbox[q], m) # inbox[q]
      <4>1. Len(inbox[q]) \in Nat /\ Len(Append(inbox[q], m)) = Len(inbox[q]) + 1
        BY <2>1
      <4>2. QED
        BY <4>1
    <3>5. QED
      BY <2>3, <3>1, <3>2, <3>3, <3>4
  <2>4. QED
    BY <1>2, <2>2, <2>3
<1>4. (\A c : Live(c)' <=> Live(c)) /\ (OneHasLeft' <=> OneHasLeft) /\ \A q \in Pages : Online(q)' = Online(q)
  BY DEF Live, OneHasLeft, Online
<1>5. ASSUME NEW q \in Pages, NEW id \in Ids, Asks(q, id)'
      PROVE  id <= opened /\ id # conn[q] /\ (conn[q] \in registered \/ OneHasLeft)
  <2>1. Asks(q, id) \/ (m \in Of("watcher", id) /\ Proper(m, conn[q]))
    BY <1>3, <1>5 DEF Asks
  <2>2. QED
    BY <2>1 DEF Of, Proper, Watched, OffersFollow
<1>6. ASSUME NEW q \in Pages, NEW id \in Ids, Sees(q, id)'
      PROVE  id <= opened /\ id # conn[q] /\ conn[q] # None /\ (id \in registered \/ OneHasLeft)
  <2>1. Sees(q, id) \/ (m \in Of("offer", id) /\ Proper(m, conn[q]) /\ Online(q))
    BY <1>3, <1>6 DEF Sees
  <2>2. QED
    BY <1>1, <2>1 DEF Of, Proper, Watched, OffersFollow, Numbered
<1>7. OffersFollow'
  BY <1>4, <1>5, <1>6 DEF OffersFollow
<1>8. FaultsAreCounted'
  BY <1>4 DEF Watched, FaultsAreCounted
<1>9. TakeoverIsUnderWay'
  BY <1>4 DEF Watched, TakeoverIsUnderWay
<1>10. ASSUME NEW b \in Ids, NEW q \in Pages, b \notin sockets, TurnsDark(b, q)
       PROVE  TurnsDark(b, q)'
  <2>1. m \notin Of("offer", b) \/ inbox'[q] = inbox[q]
    <3>1. ~Live(b)
      BY <1>1, <1>10 DEF Connected, Live
    <3>2. QED
      BY <1>2, <3>1 DEF Of, Proper
  <2>2. Followed(inbox'[q], Of("offer", b), Kind("broadcasterLeft"))
    BY <1>3, <1>10, <2>1 DEF TurnsDark
  <2>3. QED
    BY <1>3, <1>10, <2>2 DEF TurnsDark
<1>11. QED
  BY <1>7, <1>8, <1>9, <1>10

(* The server takes the next message of a page and leaves the video alone. *)
LEMMA TakingWatched ==
  ASSUME Inductive, NEW p \in Pages, NEW k \in Kinds, On(p, k)
  PROVE  /\ UNCHANGED <<conn, opened, link, casting, peers, shown, faults, sockets>>
         /\ Online(p) /\ conn[p] \in Ids /\ conn[p] \in sockets /\ conn[p] <= opened
         /\ Event(p) \in Outward /\ Event(p).kind = k
         /\ Has(outbox[p], Of(k, Event(p).id))
         /\ \A q \in Pages : \A A : Has(outbox'[q], A) => Has(outbox[q], A)
         /\ \A q \in Pages : \A A : Event(p) \notin A \/ q # p =>
               (Has(outbox[q], A) => Has(outbox'[q], A))
<1>1. /\ UNCHANGED <<conn, opened, link, casting, peers, shown, faults, sockets>>
      /\ Online(p) /\ outbox[p] # << >> /\ Head(outbox[p]).kind = k
      /\ outbox' = [outbox EXCEPT ![p] = Tail(outbox[p])]
  BY DEF On, linkVars, castVars, peerVars
<1>2. outbox[p] \in Seq(Outward) /\ Head(outbox[p]) \in Outward
  BY <1>1 DEF Inductive, PagePart, PageTyped
<1>3. outbox'[p] = Tail(outbox[p]) /\ \A q \in Pages \ {p} : outbox'[q] = outbox[q]
  BY <1>1 DEF Inductive, PagePart, PageTyped
<1>4. \A A : /\ Has(Tail(outbox[p]), A) => Has(outbox[p], A)
             /\ Has(outbox[p], A) => Head(outbox[p]) \in A \/ Has(Tail(outbox[p]), A)
             /\ Head(outbox[p]) \in A => Has(outbox[p], A)
  BY <1>1, <1>2, TailHas
<1>5. Head(outbox[p]) \in Of(k, Head(outbox[p]).id)
  BY <1>1, <1>2 DEF Of, Outward
<1>6. conn[p] \in Ids /\ conn[p] \in sockets /\ conn[p] <= opened
  BY <1>1 DEF Inductive, Connected, RoomTyped, PagePart, Numbered
<1>7. QED
  BY <1>1, <1>2, <1>3, <1>4, <1>5, <1>6 DEF Event

LEMMA EmittedOffers ==
  ASSUME NEW box \in [Pages -> Seq(Inward)], NEW S, NEW m \in Inward,
         NEW new, new = Emit(box, S, m), m.kind \notin {"watcher", "offer"}
  PROVE  /\ new \in [Pages -> Seq(Inward)]
         /\ \A q \in Pages, id \in Ids : \A k \in {"watcher", "offer"} :
               Has(new[q], Of(k, id)) => Has(box[q], Of(k, id))
<1>1. new \in [Pages -> Seq(Inward)]
  BY EmitEffect
<1>2. \A q \in Pages : new[q] \in {box[q], Append(box[q], m)}
  BY DEF Emit
<1>3. \A id \in Ids : \A k \in {"watcher", "offer"} : m \notin Of(k, id)
  BY DEF Of
<1>4. \A q \in Pages : \A A : Has(Append(box[q], m), A) => Has(box[q], A) \/ m \in A
  BY AppendHas
<1>5. QED
  BY <1>1, <1>2, <1>3, <1>4

LEMMA BroadcasterWatched ==
  ASSUME Inductive, Watched, NEW p \in Pages, Broadcaster(p)
  PROVE  Watched'
<1> DEFINE stop == Plain("forceStop")
           news == Plain("broadcaster")
           former == {broadcasterId} \ {Me(p)}
           all == Ids \ {Me(p)}
<1>1. /\ On(p, "broadcaster") /\ broadcasterId' = conn[p]
      /\ registered' = registered \cup {conn[p]}
      /\ inbox' = Emit(Emit(inbox, former, stop), all, news)
  BY DEF Broadcaster, Me
<1>2. /\ UNCHANGED <<conn, opened, link, casting, peers, shown, faults, sockets>>
      /\ conn[p] \in Ids /\ conn[p] \in sockets
      /\ \A q \in Pages : \A A : Has(outbox'[q], A) => Has(outbox[q], A)
      /\ \A q \in Pages : \A A : q # p => (Has(outbox[q], A) => Has(outbox'[q], A))
  BY <1>1, TakingWatched DEF Kinds
<1>3. /\ stop \in Inward /\ news \in Inward
      /\ stop.kind \notin {"watcher", "offer"} /\ news.kind \notin {"watcher", "offer"}
  BY MessagesAre DEF Kinds, Inward, Named
<1>4. inbox \in [Pages -> Seq(Inward)]
  BY DEF Inductive, PagePart, PageTyped
<1> HIDE DEF stop, news, former, all
<1>5. ASSUME NEW q \in Pages, NEW id \in Ids, NEW k \in {"watcher", "offer"}, Has(inbox'[q], Of(k, id))
      PROVE  Has(inbox[q], Of(k, id))
  <2>1. PICK told : told = Emit(inbox, former, stop)
    OBVIOUS
  <2>2. told \in [Pages -> Seq(Inward)] /\ (Has(told[q], Of(k, id)) => Has(inbox[q], Of(k, id)))
    BY <1>3, <1>4, <2>1, EmittedOffers
  <2>3. inbox' = Emit(told, all, news)
    BY <1>1, <2>1
  <2>4. Has(inbox'[q], Of(k, id)) => Has(told[q], Of(k, id))
    BY <1>3, <2>2, <2>3, EmittedOffers
  <2>5. QED
    BY <1>5, <2>2, <2>4
<1>6. \A q \in Pages, id \in Ids : (Asks(q, id)' => Asks(q, id)) /\ (Sees(q, id)' => Sees(q, id))
  BY <1>2, <1>5 DEF Asks, Sees
<1>7. (\A c : Live(c)' <=> Live(c)) /\ (OneHasLeft => OneHasLeft') /\ \A q \in Pages : Online(q)' = Online(q)
  BY <1>1, <1>2 DEF Live, OneHasLeft, Online
<1>8. OffersFollow'
  BY <1>1, <1>2, <1>6, <1>7 DEF Watched, OffersFollow
<1>9. FaultsAreCounted'
  BY <1>2, <1>7 DEF Watched, FaultsAreCounted
<1>10. ASSUME NEW b \in Ids, registered' = {b}
       PROVE  b = conn[p] /\ b = broadcasterId' /\ b \in sockets /\ (registered = {b} \/ registered = {})
  BY <1>1, <1>2, <1>10
<1>11. BroadcasterIsRegistered'
  BY <1>1, <1>10 DEF BroadcasterIsRegistered
<1>12. ASSUME NEW b \in Ids, NEW q \in Pages, registered' = {b},
              faults = 0 \/ (faults = 1 /\ ~Live(b)), Online(q), casting[q], shown[q] = b
       PROVE  Has(outbox'[q], Kind("broadcaster"))
  <2>1. registered = {b} /\ q # p
    BY <1>10, <1>12 DEF Watched, OffersFollow, Sees, OneHasLeft
  <2>2. QED
    BY <1>2, <1>12, <2>1 DEF Watched, TakeoverIsUnderWay
<1>13. TakeoverIsUnderWay'
  BY <1>2, <1>7, <1>12 DEF TakeoverIsUnderWay
<1>14. AllTurnDark'
  BY <1>2, <1>10 DEF AllTurnDark
<1>15. QED
  BY <1>8, <1>9, <1>11, <1>13, <1>14 DEF Watched

LEMMA OtherEventWatched ==
  ASSUME Inductive, Watched, NEW p \in Pages, NEW k \in Kinds \ {"broadcaster"}, On(p, k),
         NEW S, NEW m \in Inward,
         inbox' = inbox \/ inbox' = Emit(inbox, S, m),
         \A q \in Pages : Online(q) /\ conn[q] \in S => Proper(m, conn[q]),
         UNCHANGED <<broadcasterId, registered>>
  PROVE  Watched'
<1>1. /\ UNCHANGED <<conn, opened, link, casting, peers, shown, faults, sockets>>
      /\ Event(p) \notin Kind("broadcaster")
      /\ \A q \in Pages : \A A : Has(outbox'[q], A) => Has(outbox[q], A)
      /\ \A q \in Pages : \A A : Event(p) \notin A => (Has(outbox[q], A) => Has(outbox'[q], A))
  BY TakingWatched DEF Kind
<1>2. /\ OffersFollow' /\ FaultsAreCounted' /\ TakeoverIsUnderWay'
      /\ \A b \in Ids, q \in Pages : b \notin sockets /\ TurnsDark(b, q) => TurnsDark(b, q)'
  BY <1>1, SendingWatched
<1>3. BroadcasterIsRegistered'
  BY <1>1 DEF Watched, BroadcasterIsRegistered
<1>4. AllTurnDark'
  BY <1>1, <1>2 DEF Watched, AllTurnDark, Online
<1>5. QED
  BY <1>2, <1>3, <1>4 DEF Watched

LEMMA WatcherWatched ==
  ASSUME Inductive, Watched, NEW p \in Pages, Watcher(p)
  PROVE  Watched'
<1> DEFINE m == About("watcher", conn[p])
<1>1. /\ On(p, "watcher") /\ UNCHANGED <<broadcasterId, registered>>
      /\ \/ inbox' = inbox
         \/ broadcasterId # conn[p] /\ inbox' = Emit(inbox, {broadcasterId}, m)
  BY DEF Watcher, Me
<1>2. conn[p] \in Ids /\ conn[p] <= opened
  BY <1>1, TakingWatched DEF Kinds
<1>3. m \in Inward /\ m.kind = "watcher" /\ m.id = conn[p]
  BY <1>2, MessagesAre DEF Kinds, Inward, Named
<1>4. \A q \in Pages : Online(q) => conn[q] # None
  BY DEF Inductive, PagePart, Numbered
<1> HIDE DEF m
<1>5. CASE inbox' = inbox
  <2>1. PICK S : S = {}
    OBVIOUS
  <2>2. \A q \in Pages : Online(q) /\ conn[q] \in S => Proper(m, conn[q])
    BY <2>1
  <2>3. QED
    BY <1>1, <1>3, <1>5, <2>2, OtherEventWatched DEF Kinds
<1>6. CASE broadcasterId # conn[p] /\ inbox' = Emit(inbox, {broadcasterId}, m)
  <2>1. \A q \in Pages : Online(q) /\ conn[q] \in {broadcasterId} => Proper(m, conn[q])
    BY <1>2, <1>3, <1>4, <1>6 DEF Proper, Watched, BroadcasterIsRegistered
  <2>2. QED
    BY <1>1, <1>3, <1>6, <2>1, OtherEventWatched DEF Kinds
<1>7. QED
  BY <1>1, <1>5, <1>6

LEMMA RelayWatched ==
  ASSUME Inductive, Watched, NEW p \in Pages, Relay(p)
  PROVE  Watched'
<1> DEFINE m == [Event(p) EXCEPT !.id = conn[p]]
           S == {Event(p).id}
<1>1. PICK k \in {"offer", "answer", "candidate"} : On(p, k)
  BY DEF Relay
<1>2. inbox' = Emit(inbox, S, m) /\ UNCHANGED <<broadcasterId, registered>>
  BY DEF Relay, history, Me
<1>3. k \in Kinds \ {"broadcaster"}
  BY DEF Kinds
<1>4. /\ Online(p) /\ conn[p] \in Ids /\ conn[p] <= opened
      /\ Event(p) \in Outward /\ Event(p).kind = k /\ Has(outbox[p], Of(k, Event(p).id))
  BY <1>1, <1>3, TakingWatched
<1>5. m \in Inward /\ m.kind = k /\ m.id = conn[p]
  BY <1>4, RelayedMessage
<1>6. ASSUME NEW q \in Pages, Online(q), conn[q] \in S PROVE Proper(m, conn[q])
  <2>1. ASSUME k = "offer"
        PROVE  conn[p] # conn[q] /\ (conn[p] \in registered \/ OneHasLeft) /\ Live(conn[p])
    <3>1. Event(p).id = conn[q] /\ conn[q] \in Ids
      BY <1>6 DEF Inductive, Connected, RoomTyped
    <3>2. Asks(p, conn[q])
      BY <1>4, <2>1, <3>1 DEF Asks
    <3>3. QED
      BY <1>4, <3>1, <3>2 DEF Watched, OffersFollow, Live
  <2>2. QED
    BY <1>4, <1>5, <2>1 DEF Proper
<1> HIDE DEF m, S
<1>7. QED
  BY <1>1, <1>2, <1>3, <1>5, <1>6, OtherEventWatched

LEMMA DisconnectWatched ==
  ASSUME Inductive, Watched, NEW c \in Ids, Disconnect(c)
  PROVE  Watched'
<1> DEFINE left == Plain("broadcasterLeft")
           gone == About("disconnectPeer", c)
<1>1. /\ sockets' = sockets \ {c} /\ broadcasterId' \in {broadcasterId, None}
      /\ UNCHANGED <<conn, opened, link, outbox, casting, peers, shown, faults, registered>>
      /\ \/ broadcasterId = c /\ broadcasterId' = None /\ inbox' = Emit(inbox, Ids, left)
         \/ broadcasterId # c /\ broadcasterId' = broadcasterId
            /\ inbox' = Emit(inbox, {broadcasterId}, gone)
  BY DEF Disconnect, linkVars, castVars, peerVars, history
<1>2. /\ left \in Inward /\ gone \in Inward /\ left \in Kind("broadcasterLeft")
      /\ left.kind = "broadcasterLeft" /\ gone.kind = "disconnectPeer"
  BY MessagesAre DEF Kinds, Inward, Named, Kind
<1>3. \A n : Proper(left, n) /\ Proper(gone, n)
  BY <1>2 DEF Proper
<1>4. inbox \in [Pages -> Seq(Inward)]
  BY DEF Inductive, PagePart, PageTyped
<1> HIDE DEF left, gone
<1>5. /\ OffersFollow' /\ FaultsAreCounted' /\ TakeoverIsUnderWay'
      /\ \A b \in Ids, q \in Pages : b \notin sockets /\ TurnsDark(b, q) => TurnsDark(b, q)'
  BY <1>1, <1>2, <1>3, SendingWatched
<1>6. BroadcasterIsRegistered'
  BY <1>1 DEF Watched, BroadcasterIsRegistered
<1>7. ASSUME NEW b \in Ids, NEW q \in Pages, registered = {b}, b \notin sockets', faults \in {0, 1}, Online(q)
      PROVE  TurnsDark(b, q)'
  <2>1. CASE b \notin sockets
    BY <1>5, <1>7, <2>1 DEF Watched, AllTurnDark
  <2>2. CASE b \in sockets
    <3>1. inbox' = Emit(inbox, Ids, left)
      BY <1>1, <1>7, <2>2 DEF Watched, BroadcasterIsRegistered
    <3>2. conn[q] \in Ids \cap sockets
      BY <1>7 DEF Inductive, Connected, RoomTyped
    <3>3. inbox'[q] = Append(inbox[q], left)
      BY <1>7, <3>1, <3>2 DEF Emit
    <3>4. left \notin Of("offer", b)
      BY <1>2 DEF Of
    <3>5. /\ Has(Append(inbox[q], left), Kind("broadcasterLeft"))
          /\ Followed(Append(inbox[q], left), Of("offer", b), Kind("broadcasterLeft"))
      BY <1>2, <1>4, <3>4, AppendHas
    <3>6. QED
      BY <3>3, <3>5 DEF TurnsDark
  <2>3. QED
    BY <2>1, <2>2
<1>8. AllTurnDark'
  BY <1>1, <1>7 DEF AllTurnDark, Online
<1>9. QED
  BY <1>5, <1>6, <1>8 DEF Watched

LEMMA NextWatched == Inductive /\ Watched /\ [Next]_vars => Watched'
<1> SUFFICES ASSUME Inductive, Watched, [Next]_vars
             PROVE  Watched'
  OBVIOUS
<1>1. ASSUME NEW p \in Pages,
             \/ Transmit(p) \/ Called(p) \/ AsBroadcaster(p) \/ AsWatcher(p)
             \/ InEitherRole(p) \/ Fails(p) \/ Away(p)
      PROVE  PageStep(p)
  BY <1>1 DEF Transmit, Called, AsBroadcaster, AsWatcher, InEitherRole, Fails, Away, PageStep, OnMessage
<1>2. CASE UNCHANGED vars
  <2>1. /\ UNCHANGED <<conn, opened, link, inbox, outbox, casting, peers, shown, faults,
                       broadcasterId, sockets, registered>>
    BY <1>2 DEF vars, pageVars, linkVars, castVars, peerVars, roomVars, history
  <2>2. OffersFollow' /\ FaultsAreCounted' /\ BroadcasterIsRegistered'
    BY <2>1 DEF Watched, OffersFollow, FaultsAreCounted, BroadcasterIsRegistered, Asks, Sees,
                OneHasLeft, Live, Online
  <2>3. TakeoverIsUnderWay' /\ AllTurnDark'
    BY <2>1 DEF Watched, TakeoverIsUnderWay, AllTurnDark, TurnsDark, Live, Online
  <2>4. QED
    BY <2>2, <2>3 DEF Watched
<1>3. CASE Next
  <2>1. ASSUME NEW p \in Pages, Connection(p) \/ Broadcaster(p) \/ Watcher(p) \/ Relay(p)
        PROVE  Watched'
    BY <2>1, ConnectionWatched, BroadcasterWatched, WatcherWatched, RelayWatched
  <2>2. ASSUME NEW c \in Ids, Disconnect(c) PROVE Watched'
    BY <2>2, DisconnectWatched
  <2>3. QED
    BY <1>1, <1>3, <2>1, <2>2, PageWatched DEF Next
<1>4. QED
  BY <1>2, <1>3

----------------------------------------------------------------------------
(* Candidates *)

(* What names a connection or a peer connection that is not made yet.      *)
Future == {m \in Message : m.id > opened \/ m.n > made}

MadeBefore ==
    \A p \in Pages :
        /\ ~Has(inbox[p], Future) /\ ~Has(outbox[p], Beyond(made))
        /\ \A id \in DOMAIN peers[p] : /\ id <= opened /\ peers[p][id].n <= made
                                       /\ peers[p][id].asked <= made /\ peers[p][id].remote <= made

(* A description is followed by its candidate on its way to the server     *)
(* and, once the server has relayed both, on its way to the partner.       *)
SentTogether ==
    \A p \in Pages, id \in Ids, n \in Serials \cap Trickling :
        Followed(outbox[p], Description(id, n), Candidate(id, n))

ToServer(p, q, n) == Has(outbox[q], Candidate(conn[p], n))
UnderWay(p, q, n) == ToServer(p, q, n) \/ Has(inbox[p], Candidate(conn[q], n))

RelayedTogether ==
    \A p, q \in Pages, n \in Serials \cap Trickling : Online(p) /\ Online(q) =>
        ToServer(p, q, n) \/ Followed(inbox[p], Description(conn[q], n), Candidate(conn[q], n))

(* The candidate of a peer connection whose description a page has applied *)
(* or is applying is there, or under way.                                  *)
Reaches(p, q, n) ==
    LET pc == peers[p][conn[q]]
    IN  /\ pc.remote = n => n \in pc.added \/ UnderWay(p, q, n)
        /\ pc.asked = n => n \in pc.added \cup pc.pending \/ UnderWay(p, q, n)

CandidatesFollow ==
    \A p, q \in Pages, n \in Serials \cap Trickling :
        /\ Online(p) /\ Online(q) /\ conn[q] \in DOMAIN peers[p]
        /\ conn[p] \in DOMAIN peers[q] /\ peers[q][conn[p]].n = n
        => Reaches(p, q, n)

Trickled == MadeBefore /\ SentTogether /\ RelayedTogether /\ CandidatesFollow

LEMMA InitTrickled == Init => Trickled
<1> SUFFICES ASSUME Init PROVE Trickled
  OBVIOUS
<1>1. \A p \in Pages : inbox[p] = << >> /\ outbox[p] = << >> /\ DOMAIN peers[p] = {}
  BY DEF Init, PageInit
<1>2. QED
  BY <1>1, HasNothing DEF Trickled, MadeBefore, SentTogether, RelayedTogether, CandidatesFollow

LEMMA PageTrickled ==
  ASSUME Inductive, Trickled, NEW p \in Pages, PageStep(p)
  PROVE  Trickled'
<1>1. PageTyped /\ Numbered /\ Effect(p) /\ MadeBefore /\ UNCHANGED <<conn, opened>>
  BY PageStepEffect DEF Inductive, PagePart, Trickled, Effect
<1>2. made \in Nat /\ opened \in Nat /\ (made' = made \/ made' = made + 1)
  BY <1>1, ConnectionsAfter, CastPageAssumption DEF PageTyped
<1>3. \A q \in Pages : (Online(q)' => Online(q))
  BY <1>1, OthersKeep, StandsAfter DEF Online
<1>4. \A q \in Pages : \A id \in DOMAIN peers[q] : peers[q][id] \in Peer /\ id \in Ids
  BY <1>1, PeerMapsAre DEF PageTyped
<1>5. \A q \in Pages : inbox[q] \in Seq(Inward) /\ \A A : Has(inbox'[q], A) => Has(inbox[q], A)
  BY <1>1, InboxAfter DEF PageTyped
<1>6. \A q \in Pages :
        /\ Online(q)' => \A A : Has(outbox[q], A) => Has(outbox'[q], A)
        /\ \A id \in Ids, n \in Serials \cap Trickling :
              Followed(outbox[q], Description(id, n), Candidate(id, n)) =>
                 Followed(outbox'[q], Description(id, n), Candidate(id, n))
        /\ ~Has(outbox[q], Beyond(made)) => ~Has(outbox'[q], Beyond(made))
  BY <1>1, OthersKeep, SentAfter DEF MadeBefore
<1>7. ASSUME NEW k \in Kinds, Hears(p, k)
      PROVE  /\ inbox[p] # << >> /\ inbox'[p] = Tail(inbox[p]) /\ Msg(p) = Head(inbox[p])
             /\ Msg(p) \in Message /\ Msg(p).kind = k /\ Msg(p).id <= opened /\ Msg(p).n <= made
  <2>1. /\ inbox[p] # << >> /\ inbox'[p] = Tail(inbox[p]) /\ Msg(p) = Head(inbox[p])
        /\ Msg(p) \in Message /\ Msg(p).kind = k
    BY <1>1, <1>7 DEF Hears, PageTyped, Msg, Inward
  <2>2. Msg(p) \notin Future
    BY <1>1, <1>5, <2>1, TailHas DEF MadeBefore
  <2>3. Msg(p).id \in Nat /\ Msg(p).n \in Nat
    <3>1. Msg(p).id \in Ids \cup {None} /\ Msg(p).n \in 0..MaxPeers
      BY <2>1, MessageFields
    <3>2. QED
      <4>1. Ids \cup {None} \subseteq Nat /\ 0..MaxPeers \subseteq Nat
        BY Numbers, CastPageAssumption DEF None
      <4>2. QED
        BY <3>1, <4>1
  <2>4. QED
    BY <1>2, <2>1, <2>2, <2>3 DEF Future
<1>8. \A q \in Pages \ {p} : peers'[q] = peers[q] /\ inbox'[q] = inbox[q] /\ outbox'[q] = outbox[q]
  BY <1>1, OthersKeep
<1>9. \A id \in DOMAIN peers'[p] : Evolves(p, id)
  BY <1>1, ConnectionsAfter
(* What a peer connection was given existed before the step.               *)
<1>10. ASSUME NEW id \in DOMAIN peers'[p]
       PROVE  /\ id <= opened /\ peers'[p][id].asked <= made /\ peers'[p][id].remote <= made
              /\ \/ id \in DOMAIN peers[p] /\ peers'[p][id].n = peers[p][id].n
                 \/ peers'[p][id].n = made + 1 /\ made' = made + 1
  <2>1. \A k \in {"candidate", "answer", "watcher", "offer"} :
           Hears(p, k) => Msg(p).id <= opened /\ Msg(p).n <= made
    BY <1>7 DEF Kinds
  <2>2. id \in DOMAIN peers[p] => /\ id <= opened /\ peers[p][id].asked <= made
                                  /\ peers[p][id].remote <= made
    BY <1>1 DEF MadeBefore
  <2>3. 0 <= made
    BY <1>2
  <2>4. Evolves(p, id)
    BY <1>9
  <2>5. QED
    BY <2>1, <2>2, <2>3, <2>4 DEF Evolves, Same, HearsCandidate, Applies, IsAnswered, IsNew
<1>11. MadeBefore'
  <2>1. Future' \subseteq Future /\ Beyond(made') \subseteq Beyond(made)
    <3>1. \A m \in Message : m.n \in Nat
      BY MessageFields, CastPageAssumption
    <3>2. QED
      BY <1>1, <1>2, <3>1 DEF Future, Beyond
  <2>2. \A q \in Pages : ~Has(inbox'[q], Future') /\ ~Has(outbox'[q], Beyond(made'))
    BY <1>1, <1>5, <1>6, <2>1 DEF MadeBefore, Has
  <2>3. \A q \in Pages \ {p} : \A id \in DOMAIN peers'[q] :
           /\ id <= opened /\ peers'[q][id].n <= made'
           /\ peers'[q][id].asked <= made' /\ peers'[q][id].remote <= made'
    <3>1. \A k \in Serials : k <= made => k <= made'
      BY <1>2, CastPageAssumption DEF Serials
    <3>2. \A k \in 0..MaxPeers : k <= made => k <= made'
      BY <1>2, CastPageAssumption
    <3>3. QED
      BY <1>1, <1>4, <1>8, <3>1, <3>2 DEF MadeBefore, Peer
  <2>4. ASSUME NEW id \in DOMAIN peers'[p]
        PROVE  /\ id <= opened /\ peers'[p][id].n <= made'
               /\ peers'[p][id].asked <= made' /\ peers'[p][id].remote <= made'
    <3>1. peers'[p][id] \in Peer
      BY <1>1, PeerMapsAre DEF Effect, PageTyped
    <3>2. peers'[p][id].n \in Nat /\ peers'[p][id].asked \in Nat /\ peers'[p][id].remote \in Nat
      BY <3>1, CastPageAssumption DEF Peer, Serials
    <3>3. peers'[p][id].n <= made'
      BY <1>1, <1>2, <1>10, <3>2 DEF MadeBefore
    <3>4. QED
      BY <1>2, <1>10, <3>2, <3>3
  <2>5. QED
    BY <1>1, <2>2, <2>3, <2>4 DEF MadeBefore
<1>12. SentTogether'
  BY <1>6 DEF Trickled, SentTogether
<1>13. ASSUME NEW a \in Pages, NEW A
       PROVE  /\ \A B : Online(a)' /\ Followed(inbox[a], A, B) => Followed(inbox'[a], A, B)
              /\ Online(a)' /\ Has(inbox[a], A) =>
                    Has(inbox'[a], A) \/ (a = p /\ \E k \in Kinds : Hears(p, k) /\ Msg(p) \in A)
  <2>1. CASE inbox'[a] = inbox[a]
    BY <2>1
  <2>2. ASSUME a = p, NEW k \in Kinds, Hears(p, k)
        PROVE  /\ \A B : Followed(inbox[a], A, B) => Followed(inbox'[a], A, B)
               /\ Has(inbox[a], A) => Has(inbox'[a], A) \/ Msg(p) \in A
    BY <1>5, <1>7, <2>2, TailHas
  <2>3. QED
    BY <1>1, <1>8, <2>1, <2>2, StandsAfter
<1>14. RelayedTogether'
  <2>1. ASSUME NEW a \in Pages, NEW b \in Pages, NEW n \in Serials \cap Trickling, Online(a)', Online(b)'
        PROVE  \/ Has(outbox'[b], Candidate(conn[a], n))
               \/ Followed(inbox'[a], Description(conn[b], n), Candidate(conn[b], n))
    BY <1>3, <1>6, <1>13, <2>1 DEF Trickled, RelayedTogether, ToServer
  <2>2. QED
    BY <1>1, <2>1 DEF RelayedTogether, ToServer
<1>15. ASSUME NEW a \in Pages, NEW b \in Pages, NEW n \in Serials \cap Trickling, Online(a)', Online(b)',
              conn[b] \in DOMAIN peers'[a], conn[a] \in DOMAIN peers'[b], peers'[b][conn[a]].n = n
       PROVE  Reaches(a, b, n)'
  <2> DEFINE new == peers'[a][conn[b]]
             old == peers[a][conn[b]]
  <2>1. CASE n = made + 1
    <3>1. new.asked <= made /\ new.remote <= made
      BY <1>1, <1>8, <1>10, <1>15 DEF MadeBefore
    <3>2. new.asked # n /\ new.remote # n
      BY <1>2, <2>1, <3>1
    <3>3. QED
      BY <1>1, <3>2 DEF Reaches
  <2>2. CASE conn[a] \in DOMAIN peers[b] /\ peers[b][conn[a]].n = n
    <3>1. n # 0
      BY Numbers DEF Serials
    <3>2. conn[b] \in DOMAIN peers[a] => Reaches(a, b, n)
      BY <1>3, <1>15, <2>2 DEF Trickled, CandidatesFollow
    <3>3. ToServer(a, b, n) => ToServer(a, b, n)'
      BY <1>1, <1>6, <1>15 DEF ToServer
    <3>4. UnderWay(a, b, n) =>
            UnderWay(a, b, n)' \/ (a = p /\ Hears(p, "candidate") /\ Msg(p).id = conn[b] /\ Msg(p).n = n)
      <4>1. ASSUME Has(inbox[a], Candidate(conn[b], n)), ~Has(inbox'[a], Candidate(conn[b], n))
            PROVE  a = p /\ Hears(p, "candidate") /\ Msg(p).id = conn[b] /\ Msg(p).n = n
        <5>1. PICK k \in Kinds : a = p /\ Hears(p, k) /\ Msg(p) \in Candidate(conn[b], n)
          BY <1>13, <1>15, <4>1
        <5>2. QED
          BY <1>7, <5>1 DEF Candidate
      <4>2. QED
        BY <1>1, <3>3, <4>1 DEF UnderWay, ToServer
    <3>5. ASSUME a = p, NEW k \in {"offer", "answer"}, Hears(p, k), Msg(p).id = conn[b], Msg(p).n = n
          PROVE  UnderWay(a, b, n)'
      <4>1. Msg(p) \in Description(conn[b], n) /\ Msg(p) = Head(inbox[p])
            /\ inbox[p] # << >> /\ inbox'[p] = Tail(inbox[p])
        BY <1>7, <3>5 DEF Description, Kinds
      <4>2. CASE ToServer(a, b, n)
        BY <3>3, <4>2 DEF UnderWay
      <4>3. CASE Followed(inbox[p], Description(conn[b], n), Candidate(conn[b], n))
        <5>1. Has(Tail(inbox[p]), Candidate(conn[b], n))
          BY <1>5, <4>1, <4>3, TailHas
        <5>2. QED
          BY <1>1, <3>5, <4>1, <5>1 DEF UnderWay
      <4>4. QED
        BY <1>3, <1>15, <3>5, <4>2, <4>3 DEF Trickled, RelayedTogether
    <3>6. ASSUME a = p, Same(p, conn[b])
           PROVE  UnderWay(a, b, n) => UnderWay(a, b, n)'
      <4>1. ~(Hears(p, "candidate") /\ Msg(p).id = conn[b])
        <5>1. ASSUME Hears(p, "candidate") PROVE ~UNCHANGED inbox
          BY <1>5, <1>7, <5>1, TailDiffers DEF Kinds
        <5>2. ASSUME Hears(p, "candidate"), NEW k \in Kinds, Hears(p, k) PROVE k = "candidate"
          BY <5>2 DEF Hears
        <5>3. QED
          BY <1>15, <3>6, <5>1, <5>2 DEF Same
      <4>2. QED
        BY <3>4, <4>1
    <3>7. CASE a # p
      BY <1>1, <1>8, <1>15, <3>2, <3>4, <3>7 DEF Reaches
    <3>8. ASSUME a = p, new.remote = n
          PROVE  n \in new.added \/ UnderWay(a, b, n)'
      <4>1. Evolves(p, conn[b])
        BY <1>9, <1>15, <3>8
      <4>2. CASE Same(p, conn[b])
        BY <3>2, <3>8, <3>6, <4>2 DEF Same, Reaches
      <4>3. CASE HearsCandidate(p, conn[b])
        BY <3>1, <3>2, <3>4, <3>8, <4>3 DEF HearsCandidate, Reaches
      <4>4. CASE Applies(p, conn[b])
        BY <1>5, <1>7, <3>2, <3>4, <3>8, <4>4, TailDiffers DEF Applies, Reaches, Kinds
      <4>5. CASE IsAnswered(p, conn[b])
        BY <1>7, <3>2, <3>4, <3>8, <4>5 DEF IsAnswered, Reaches, Kinds
      <4>6. CASE IsNew(p, conn[b])
        BY <3>1, <3>8, <4>6 DEF IsNew
      <4>7. QED
        BY <4>1, <4>2, <4>3, <4>4, <4>5, <4>6 DEF Evolves
    <3>9. ASSUME a = p, new.asked = n
          PROVE  n \in new.added \cup new.pending \/ UnderWay(a, b, n)'
      <4>1. Evolves(p, conn[b])
        BY <1>9, <1>15, <3>9
      <4>2. CASE Same(p, conn[b])
        BY <3>2, <3>9, <3>6, <4>2 DEF Same, Reaches
      <4>3. CASE HearsCandidate(p, conn[b])
        BY <3>2, <3>4, <3>9, <4>3 DEF HearsCandidate, Reaches
      <4>4. CASE Applies(p, conn[b])
        BY <3>1, <3>9, <4>4 DEF Applies
      <4>5. CASE IsAnswered(p, conn[b])
        BY <3>5, <3>9, <4>5 DEF IsAnswered
      <4>6. CASE IsNew(p, conn[b])
        BY <3>1, <3>5, <3>9, <4>6 DEF IsNew
      <4>7. QED
        BY <4>1, <4>2, <4>3, <4>4, <4>5, <4>6 DEF Evolves
    <3>10. QED
      BY <1>1, <3>7, <3>8, <3>9 DEF Reaches
  <2>3. QED
    BY <1>8, <1>10, <1>15, <2>1, <2>2
<1>16. CandidatesFollow'
  BY <1>1, <1>15 DEF CandidatesFollow
<1>17. QED
  BY <1>11, <1>12, <1>14, <1>16 DEF Trickled

LEMMA ConnectionTrickled ==
  ASSUME Inductive, Trickled, NEW p \in Pages, Connection(p)
  PROVE  Trickled'
<1>1. PageTyped /\ Numbered /\ TakesItBack /\ MadeBefore
  BY DEF Inductive, PagePart, Trickled
<1>2. /\ link[p] = "down" /\ opened' = opened + 1 /\ opened' \in Ids
      /\ link' = [link EXCEPT ![p] = "open"] /\ conn' = [conn EXCEPT ![p] = opened']
      /\ inbox' = [inbox EXCEPT ![p] = << >>] /\ UNCHANGED peers
      /\ \A q \in Pages \ {p} : outbox'[q] = outbox[q]
  BY <1>1, ConnectEffect DEF Connection
<1>3. /\ UNCHANGED made
      /\ outbox'[p] = outbox[p] \o (IF casting[p] THEN << >> ELSE <<Plain("watcher")>>)
  BY <1>1 DEF Connection, Connect, peerVars, PageTyped
<1>4. made \in Nat /\ opened \in Nat /\ opened' \notin {id \in Ids : id <= opened}
  BY <1>1, <1>2, CastPageAssumption DEF PageTyped
<1>5. /\ conn'[p] = opened' /\ inbox'[p] = << >>
      /\ \A q \in Pages \ {p} : Online(q)' = Online(q) /\ conn'[q] = conn[q] /\ inbox'[q] = inbox[q]
  BY <1>1, <1>2 DEF PageTyped, Online
<1>6. /\ ~Has(outbox'[p], Beyond(made))
      /\ \A id \in Ids, n \in Serials \cap Trickling :
            Followed(outbox'[p], Description(id, n), Candidate(id, n))
  <2> DEFINE w == Plain("watcher")
  <2>1. outbox[p] \in Seq(Outward) /\ <<w>> \in Seq(Outward) /\ << >> \in Seq(Outward)
    BY <1>1, PlainSent DEF PageTyped
  <2>2. w \notin Beyond(made) /\ \A id, n : w \notin Description(id, n)
    <3>1. w.kind = "watcher" /\ w.n = 0
      BY MessagesAre DEF Kinds, Plain
    <3>2. QED
      BY <1>4, <3>1 DEF Beyond, Description
  <2> HIDE DEF w
  <2>3. PICK ms \in {<<w>>, << >>} : outbox'[p] = outbox[p] \o ms
    BY <1>3 DEF w
  <2>4. ~Has(ms, Beyond(made)) /\ \A id, n : Followed(ms, Description(id, n), Candidate(id, n))
    BY <2>2, HasOne, HasNothing
  <2>5. ms \in Seq(Outward)
    BY <2>1
  <2>6. \A A, B : /\ Has(outbox[p] \o ms, A) <=> Has(outbox[p], A) \/ Has(ms, A)
                  /\ Followed(outbox[p], A, B) /\ Followed(ms, A, B) => Followed(outbox[p] \o ms, A, B)
    BY <2>1, <2>5, ConcatHas
  <2>7. QED
    BY <1>1, <2>3, <2>4, <2>6 DEF MadeBefore, Trickled, SentTogether
<1>7. SentTogether'
  BY <1>2, <1>6 DEF Trickled, SentTogether
<1>8. \A q \in Pages : \A A : Has(inbox'[q], A) => Has(inbox[q], A)
  BY <1>5, HasNothing
<1>9. MadeBefore'
  <2>1. Future' \subseteq Future
    <3>1. \A m \in Message : m.id \in Ids \cup {None}
      BY MessageFields
    <3>2. Ids \cup {None} \subseteq Nat
      BY Numbers DEF None
    <3>3. \A m \in Message : m.id > opened' => m.id > opened
      BY <1>2, <1>4, <3>1, <3>2
    <3>4. QED
      BY <1>3, <3>3 DEF Future
  <2>2. \A q \in Pages : ~Has(inbox'[q], Future')
    BY <1>1, <1>8, <2>1 DEF MadeBefore, Has
  <2>3. \A id \in Ids : id <= opened => id <= opened'
    BY <1>2, <1>4, Numbers
  <2>4. \A q \in Pages : \A id \in DOMAIN peers[q] : id \in Ids
    BY <1>1, PeerMapsAre DEF PageTyped
  <2>5. QED
    BY <1>1, <1>2, <1>3, <1>6, <2>2, <2>3, <2>4 DEF MadeBefore
<1>10. RelayedTogether'
  <2>1. ASSUME NEW a \in Pages, NEW b \in Pages, NEW n \in Serials \cap Trickling, Online(a)', Online(b)'
        PROVE  \/ ToServer(a, b, n)'
               \/ Followed(inbox'[a], Description(conn'[b], n), Candidate(conn'[b], n))
    <3>1. CASE a = p
      BY <1>5, <3>1, HasNothing
    <3>2. CASE a # p /\ b = p
      <4>1. Description(opened', n) \subseteq Future
        BY <1>2, <1>4 DEF Description, Future
      <4>2. ~Has(inbox[a], Description(opened', n))
        BY <1>1, <4>1 DEF MadeBefore, Has
      <4>3. QED
        BY <1>5, <3>2, <4>2, FollowedByNone
    <3>3. CASE a # p /\ b # p
      BY <1>2, <1>5, <2>1, <3>3 DEF Trickled, RelayedTogether, ToServer
    <3>4. QED
      BY <3>1, <3>2, <3>3
  <2>2. QED
    BY <2>1 DEF RelayedTogether
<1>11. \A q \in Pages : opened' \notin DOMAIN peers[q]
  BY <1>1, <1>2, <1>4 DEF MadeBefore
<1>12. CandidatesFollow'
  <2>1. ASSUME NEW a \in Pages, NEW b \in Pages, NEW n \in Serials \cap Trickling, Online(a)', Online(b)',
               conn'[b] \in DOMAIN peers[a], conn'[a] \in DOMAIN peers[b], peers[b][conn'[a]].n = n
        PROVE  Reaches(a, b, n)'
    <3>1. a # p /\ b # p
      BY <1>5, <1>11, <2>1
    <3>2. Reaches(a, b, n)
      BY <1>5, <2>1, <3>1 DEF Trickled, CandidatesFollow
    <3>3. QED
      BY <1>2, <1>5, <3>1, <3>2 DEF Reaches, UnderWay, ToServer
  <2>2. QED
    BY <1>2, <2>1 DEF CandidatesFollow
<1>13. QED
  BY <1>7, <1>9, <1>10, <1>12 DEF Trickled

(* A queue to a page that has grown by messages without candidates.        *)
Grows(old, new) ==
    /\ Has(new, Future) => Has(old, Future)
    /\ \A id, n :
          /\ Has(old, Candidate(id, n)) => Has(new, Candidate(id, n))
          /\ Followed(old, Description(id, n), Candidate(id, n)) =>
                Followed(new, Description(id, n), Candidate(id, n))

LEMMA EmittedGrows ==
  ASSUME NEW box \in [Pages -> Seq(Inward)], NEW S, NEW m \in Inward, NEW new, new = Emit(box, S, m),
         m.kind \notin {"offer", "answer", "candidate"}, m \notin Future
  PROVE  new \in [Pages -> Seq(Inward)] /\ \A q \in Pages : Grows(box[q], new[q])
<1>1. new \in [Pages -> Seq(Inward)]
  BY EmitEffect
<1>2. ASSUME NEW q \in Pages PROVE Grows(box[q], new[q])
  <2>1. box[q] \in Seq(Inward) /\ new[q] \in {box[q], Append(box[q], m)}
    BY DEF Emit
  <2>2. \A id, n : m \notin Description(id, n)
    BY DEF Description
  <2>3. \A A, B : /\ Has(Append(box[q], m), A) <=> Has(box[q], A) \/ m \in A
                  /\ Followed(box[q], A, B) /\ m \notin A => Followed(Append(box[q], m), A, B)
    BY <2>1, AppendHas
  <2>4. CASE new[q] = box[q]
    BY <2>4 DEF Grows
  <2>5. CASE new[q] = Append(box[q], m)
    <3>1. Has(new[q], Future) => Has(box[q], Future)
      BY <2>3, <2>5
    <3>2. ASSUME NEW id, NEW n
          PROVE  /\ Has(box[q], Candidate(id, n)) => Has(new[q], Candidate(id, n))
                 /\ Followed(box[q], Description(id, n), Candidate(id, n)) =>
                       Followed(new[q], Description(id, n), Candidate(id, n))
      BY <2>2, <2>3, <2>5
    <3>3. QED
      BY <3>1, <3>2 DEF Grows
  <2>6. QED
    BY <2>1, <2>4, <2>5
<1>3. QED
  BY <1>1, <1>2

(* A step of the server that relays nothing.                               *)
LEMMA ServerTrickled ==
  ASSUME Trickled, UNCHANGED <<conn, opened, link, peers, made>>,
         \A q \in Pages : Grows(inbox[q], inbox'[q]),
         \A q \in Pages :
            \/ outbox'[q] = outbox[q]
            \/ /\ outbox[q] \in Seq(Outward) /\ outbox[q] # << >> /\ outbox'[q] = Tail(outbox[q])
               /\ Head(outbox[q]).kind # "candidate"
  PROVE  Trickled'
<1>1. ASSUME NEW q \in Pages
      PROVE  /\ \A A : Has(outbox'[q], A) => Has(outbox[q], A)
             /\ \A id, n : Has(outbox[q], Candidate(id, n)) => Has(outbox'[q], Candidate(id, n))
             /\ \A A, B : Followed(outbox[q], A, B) => Followed(outbox'[q], A, B)
  <2>1. CASE outbox'[q] = outbox[q]
    BY <2>1
  <2>2. CASE /\ outbox[q] \in Seq(Outward) /\ outbox[q] # << >> /\ outbox'[q] = Tail(outbox[q])
             /\ Head(outbox[q]).kind # "candidate"
    <3>1. \A id, n : Head(outbox[q]) \notin Candidate(id, n)
      BY <2>2 DEF Candidate
    <3>2. \A A, B : /\ Has(Tail(outbox[q]), A) => Has(outbox[q], A)
                    /\ Has(outbox[q], A) => Head(outbox[q]) \in A \/ Has(Tail(outbox[q]), A)
                    /\ Followed(outbox[q], A, B) => Followed(Tail(outbox[q]), A, B)
      BY <2>2, TailHas
    <3>3. QED
      BY <2>2, <3>1, <3>2
  <2>3. QED
    BY <2>1, <2>2
<1>2. UNCHANGED Future /\ \A q \in Pages : Online(q)' = Online(q)
  BY DEF Future, Online
<1>3. MadeBefore'
  BY <1>1, <1>2 DEF Trickled, MadeBefore, Grows
<1>4. SentTogether'
  BY <1>1 DEF Trickled, SentTogether
<1>5. ASSUME NEW a \in Pages, NEW b \in Pages, NEW n
      PROVE  /\ ToServer(a, b, n) => ToServer(a, b, n)'
             /\ UnderWay(a, b, n) => UnderWay(a, b, n)'
  BY <1>1 DEF ToServer, UnderWay, Grows
<1>6. RelayedTogether'
  BY <1>2, <1>5 DEF Trickled, RelayedTogether, Grows
<1>7. CandidatesFollow'
  BY <1>2, <1>5 DEF Trickled, CandidatesFollow, Reaches
<1>8. QED
  BY <1>3, <1>4, <1>6, <1>7 DEF Trickled

LEMMA PlainMessages ==
  ASSUME Inductive
  PROVE  /\ \A k \in Kinds \ {"watcher", "offer", "answer", "candidate"} :
               Plain(k) \in Inward /\ Plain(k).kind = k /\ Plain(k) \notin Future
         /\ \A k \in Kinds \ {"offer", "answer", "candidate"}, c \in Ids :
               /\ About(k, c) \in Inward /\ About(k, c).kind = k
               /\ c <= opened => About(k, c) \notin Future
<1>1. opened \in Nat /\ made \in Nat
  BY CastPageAssumption DEF Inductive, PagePart, PageTyped
<1>2. ASSUME NEW k \in Kinds \ {"watcher", "offer", "answer", "candidate"}
      PROVE  Plain(k) \in Inward /\ Plain(k).kind = k /\ Plain(k) \notin Future
  <2>1. Plain(k).id = 0 /\ Plain(k).n = 0
    BY DEF Plain, None
  <2>2. QED
    BY <1>1, <2>1, MessagesAre DEF Inward, Named, Future
<1>3. ASSUME NEW k \in Kinds \ {"offer", "answer", "candidate"}, NEW c \in Ids
      PROVE  /\ About(k, c) \in Inward /\ About(k, c).kind = k
             /\ c <= opened => About(k, c) \notin Future
  <2>1. About(k, c).id = c /\ About(k, c).n = 0 /\ c \in Nat
    BY Numbers DEF About
  <2>2. QED
    BY <1>1, <2>1, MessagesAre DEF Inward, Named, Future
<1>4. QED
  BY <1>2, <1>3

(* The server takes a message and leaves the peer connections alone.       *)
LEMMA TakingTrickled ==
  ASSUME Inductive, NEW p \in Pages, NEW k \in Kinds, On(p, k)
  PROVE  /\ UNCHANGED <<conn, opened, link, peers, made>>
         /\ Online(p) /\ conn[p] \in Ids /\ conn[p] \in sockets /\ conn[p] <= opened
         /\ outbox[p] \in Seq(Outward) /\ outbox[p] # << >> /\ outbox'[p] = Tail(outbox[p])
         /\ Event(p) = Head(outbox[p]) /\ Event(p) \in Outward /\ Event(p).kind = k
         /\ \A q \in Pages \ {p} : outbox'[q] = outbox[q]
<1>1. /\ UNCHANGED <<conn, opened, link, peers, made>>
      /\ Online(p) /\ outbox[p] # << >> /\ Head(outbox[p]).kind = k
      /\ outbox' = [outbox EXCEPT ![p] = Tail(outbox[p])]
  BY DEF On, linkVars, peerVars
<1>2. outbox[p] \in Seq(Outward) /\ Head(outbox[p]) \in Outward
  BY <1>1 DEF Inductive, PagePart, PageTyped
<1>3. outbox'[p] = Tail(outbox[p]) /\ \A q \in Pages \ {p} : outbox'[q] = outbox[q]
  BY <1>1 DEF Inductive, PagePart, PageTyped
<1>4. conn[p] \in Ids /\ conn[p] \in sockets /\ conn[p] <= opened
  BY <1>1 DEF Inductive, Connected, RoomTyped, PagePart, Numbered
<1>5. QED
  BY <1>1, <1>2, <1>3, <1>4 DEF Event

LEMMA BroadcasterTrickled ==
  ASSUME Inductive, Trickled, NEW p \in Pages, Broadcaster(p)
  PROVE  Trickled'
<1> DEFINE stop == Plain("forceStop")
           news == Plain("broadcaster")
           former == {broadcasterId} \ {Me(p)}
           all == Ids \ {Me(p)}
<1>1. On(p, "broadcaster") /\ inbox' = Emit(Emit(inbox, former, stop), all, news)
  BY DEF Broadcaster
<1>2. /\ stop \in Inward /\ news \in Inward /\ stop \notin Future /\ news \notin Future
      /\ stop.kind = "forceStop" /\ news.kind = "broadcaster"
  BY PlainMessages DEF Kinds
<1>3. inbox \in [Pages -> Seq(Inward)]
  BY DEF Inductive, PagePart, PageTyped
<1> HIDE DEF stop, news, former, all
<1>4. PICK told : told = Emit(inbox, former, stop)
  OBVIOUS
<1>5. told \in [Pages -> Seq(Inward)] /\ \A q \in Pages : Grows(inbox[q], told[q])
  BY <1>2, <1>3, <1>4, EmittedGrows
<1>6. inbox' = Emit(told, all, news)
  BY <1>1, <1>4
<1>7. \A q \in Pages : Grows(told[q], inbox'[q])
  BY <1>2, <1>5, <1>6, EmittedGrows
<1>8. \A q \in Pages : Grows(inbox[q], inbox'[q])
  BY <1>5, <1>7 DEF Grows
<1>9. QED
  BY <1>1, <1>8, TakingTrickled, ServerTrickled DEF Kinds

LEMMA WatcherTrickled ==
  ASSUME Inductive, Trickled, NEW p \in Pages, Watcher(p)
  PROVE  Trickled'
<1> DEFINE m == About("watcher", conn[p])
<1>1. On(p, "watcher") /\ (inbox' = inbox \/ inbox' = Emit(inbox, {broadcasterId}, m))
  BY DEF Watcher, Me
<1>2. conn[p] \in Ids /\ conn[p] <= opened
  BY <1>1, TakingTrickled DEF Kinds
<1>3. m \in Inward /\ m.kind = "watcher" /\ m \notin Future
  BY <1>2, PlainMessages DEF Kinds
<1>4. inbox \in [Pages -> Seq(Inward)]
  BY DEF Inductive, PagePart, PageTyped
<1> HIDE DEF m
<1>5. \A q \in Pages : Grows(inbox[q], inbox'[q])
  <2>1. CASE inbox' = inbox
    BY <2>1 DEF Grows
  <2>2. CASE inbox' = Emit(inbox, {broadcasterId}, m)
    BY <1>3, <1>4, <2>2, EmittedGrows
  <2>3. QED
    BY <1>1, <2>1, <2>2
<1>6. QED
  BY <1>1, <1>5, TakingTrickled, ServerTrickled DEF Kinds

LEMMA DisconnectTrickled ==
  ASSUME Inductive, Trickled, NEW c \in Ids, Disconnect(c)
  PROVE  Trickled'
<1> DEFINE left == Plain("broadcasterLeft")
           gone == About("disconnectPeer", c)
<1>1. /\ UNCHANGED <<conn, opened, link, outbox, peers, made>> /\ c \in sockets
      /\ inbox' = Emit(inbox, Ids, left) \/ inbox' = Emit(inbox, {broadcasterId}, gone)
  BY DEF Disconnect, linkVars, peerVars
<1>2. c <= opened
  BY <1>1 DEF Inductive, Connected
<1>3. /\ left \in Inward /\ left.kind = "broadcasterLeft" /\ left \notin Future
      /\ gone \in Inward /\ gone.kind = "disconnectPeer" /\ gone \notin Future
  BY <1>2, PlainMessages DEF Kinds
<1>4. inbox \in [Pages -> Seq(Inward)]
  BY DEF Inductive, PagePart, PageTyped
<1> HIDE DEF left, gone
<1>5. \A q \in Pages : Grows(inbox[q], inbox'[q])
  <2>1. CASE inbox' = Emit(inbox, Ids, left)
    BY <1>3, <1>4, <2>1, EmittedGrows
  <2>2. CASE inbox' = Emit(inbox, {broadcasterId}, gone)
    BY <1>3, <1>4, <2>2, EmittedGrows
  <2>3. QED
    BY <1>1, <2>1, <2>2
<1>6. QED
  BY <1>1, <1>5, ServerTrickled

(* A description is relayed while its candidate is next to come, and the   *)
(* candidate goes where its description went.                              *)
LEMMA RelayTrickled ==
  ASSUME Inductive, Trickled, NEW p \in Pages, Relay(p)
  PROVE  Trickled'
<1> DEFINE e == Event(p)
           m == [Event(p) EXCEPT !.id = conn[p]]
<1>1. PICK k \in {"offer", "answer", "candidate"} : On(p, k)
  BY DEF Relay
<1>2. inbox' = Emit(inbox, {e.id}, m)
  BY DEF Relay, Me
<1>3. /\ UNCHANGED <<conn, opened, link, peers, made>>
      /\ Online(p) /\ conn[p] \in Ids /\ conn[p] \in sockets /\ conn[p] <= opened
      /\ outbox[p] \in Seq(Outward) /\ outbox[p] # << >> /\ outbox'[p] = Tail(outbox[p])
      /\ e = Head(outbox[p]) /\ e \in Outward /\ e.kind = k
      /\ \A q \in Pages \ {p} : outbox'[q] = outbox[q]
  BY <1>1, TakingTrickled DEF Kinds
<1>4. m \in Inward /\ m.kind = k /\ m.id = conn[p] /\ m.n = e.n
  BY <1>3, RelayedMessage
<1>5. PageTyped /\ Numbered /\ Connected /\ MadeBefore
  BY DEF Inductive, PagePart, Trickled
<1> HIDE DEF e, m
<1>6. \A q \in Pages : inbox'[q] = IF Online(q) /\ conn[q] \in {e.id} \cap sockets
                                   THEN Append(inbox[q], m) ELSE inbox[q]
  BY <1>2 DEF Emit
<1>7. \A q \in Pages : Online(q) /\ conn[q] = e.id => inbox'[q] = Append(inbox[q], m)
  BY <1>5, <1>6 DEF Connected
<1>8. ASSUME NEW q \in Pages
      PROVE  \A A, B : /\ Has(Append(inbox[q], m), A) <=> Has(inbox[q], A) \/ m \in A
                       /\ (Followed(inbox[q], A, B) \/ m \in B) /\ m \notin A =>
                             Followed(Append(inbox[q], m), A, B)
  <2>1. inbox[q] \in Seq(Inward)
    BY <1>5 DEF PageTyped
  <2>2. QED
    BY <1>4, <2>1, AppendHas
<1>9. \A q \in Pages : Online(q)' = Online(q)
  BY <1>3 DEF Online
<1>10. \A A, B : /\ Has(Tail(outbox[p]), A) => Has(outbox[p], A)
                 /\ Has(outbox[p], A) => e \in A \/ Has(Tail(outbox[p]), A)
                 /\ e \in A => Has(outbox[p], A)
                 /\ Followed(outbox[p], A, B) => Followed(Tail(outbox[p]), A, B)
                 /\ Followed(outbox[p], A, B) /\ e \in A => Has(Tail(outbox[p]), B)
  BY <1>3, TailHas
<1>11. e \in Message /\ m \in Message
  BY <1>3, <1>4 DEF Outward, Inward
<1>12. MadeBefore'
  <2>1. m \notin Future
    <3>1. e \notin Beyond(made)
      BY <1>5, <1>10 DEF MadeBefore
    <3>2. conn[p] \in Nat /\ opened \in Nat
      BY <1>3, <1>5, Numbers, CastPageAssumption DEF PageTyped
    <3>3. QED
      BY <1>3, <1>4, <1>11, <3>1, <3>2 DEF Beyond, Future
  <2>2. \A q \in Pages : ~Has(inbox'[q], Future)
    BY <1>5, <1>6, <1>8, <2>1 DEF MadeBefore
  <2>3. \A q \in Pages : ~Has(outbox'[q], Beyond(made))
    BY <1>3, <1>5, <1>10 DEF MadeBefore
  <2>4. UNCHANGED Future
    BY <1>3 DEF Future
  <2>5. QED
    BY <1>3, <1>5, <2>2, <2>3, <2>4 DEF MadeBefore
<1>13. SentTogether'
  BY <1>3, <1>10 DEF Trickled, SentTogether
<1>14. ASSUME NEW a \in Pages, NEW b \in Pages, NEW n, Online(a), Online(b), ToServer(a, b, n)
       PROVE  \/ ToServer(a, b, n)'
              \/ inbox'[a] = Append(inbox[a], m) /\ m \in Candidate(conn[b], n)
  <2>1. CASE b = p /\ e \in Candidate(conn[a], n)
    <3>1. e.kind = "candidate" /\ e.id = conn[a] /\ e.n = n
      BY <2>1 DEF Candidate
    <3>2. m \in Candidate(conn[b], n)
      BY <1>3, <1>4, <1>11, <2>1, <3>1 DEF Candidate
    <3>3. QED
      BY <1>7, <1>14, <3>1, <3>2
  <2>2. CASE b = p /\ e \notin Candidate(conn[a], n)
    BY <1>3, <1>10, <1>14, <2>2 DEF ToServer
  <2>3. CASE b # p
    BY <1>3, <1>14, <2>3 DEF ToServer
  <2>4. QED
    BY <2>1, <2>2, <2>3
<1>15. ASSUME NEW a \in Pages, NEW b \in Pages, NEW n \in Serials \cap Trickling, Online(a), Online(b)
       PROVE  \/ ToServer(a, b, n)'
              \/ Followed(inbox'[a], Description(conn[b], n), Candidate(conn[b], n))
  <2>1. CASE ToServer(a, b, n)
    <3>1. m \in Candidate(conn[b], n) => m \notin Description(conn[b], n)
      BY DEF Candidate, Description
    <3>2. ASSUME m \in Candidate(conn[b], n)
          PROVE  Followed(Append(inbox[a], m), Description(conn[b], n), Candidate(conn[b], n))
      BY <1>8, <3>1, <3>2
    <3>3. QED
      BY <1>14, <1>15, <2>1, <3>2
  <2>2. CASE Followed(inbox[a], Description(conn[b], n), Candidate(conn[b], n))
    <3>1. CASE inbox'[a] = inbox[a]
      BY <2>2, <3>1
    <3>2. CASE inbox'[a] # inbox[a] /\ m \notin Description(conn[b], n)
      BY <1>6, <1>8, <2>2, <3>2
    <3>3. CASE inbox'[a] # inbox[a] /\ m \in Description(conn[b], n)
      <4>1. conn[a] = e.id /\ conn[p] = conn[b]
        BY <1>4, <1>6, <3>3 DEF Description
      <4>2. b = p
        BY <1>3, <1>5, <4>1, Numbers DEF Numbered
      <4>3. e \in Description(conn[a], n)
        BY <1>3, <1>4, <1>11, <3>3, <4>1 DEF Description
      <4>4. conn[a] \in Ids
        BY <1>5, <1>15 DEF Inductive, Connected, RoomTyped
      <4>5. Has(Tail(outbox[p]), Candidate(conn[a], n))
        BY <1>10, <4>3, <4>4 DEF Trickled, SentTogether
      <4>6. QED
        BY <1>3, <4>2, <4>5 DEF ToServer
    <3>4. QED
      BY <3>1, <3>2, <3>3
  <2>3. QED
    BY <1>15, <2>1, <2>2 DEF Trickled, RelayedTogether
<1>16. RelayedTogether'
  BY <1>3, <1>9, <1>15 DEF RelayedTogether
<1>17. ASSUME NEW a \in Pages, NEW b \in Pages, NEW n, Online(a), Online(b), UnderWay(a, b, n)
       PROVE  UnderWay(a, b, n)'
  <2>1. Has(inbox[a], Candidate(conn[b], n)) => Has(inbox'[a], Candidate(conn[b], n))
    BY <1>6, <1>8
  <2>2. ToServer(a, b, n) => ToServer(a, b, n)' \/ Has(inbox'[a], Candidate(conn[b], n))
    BY <1>8, <1>14, <1>17
  <2>3. QED
    BY <1>3, <1>17, <2>1, <2>2 DEF UnderWay
<1>18. CandidatesFollow'
  BY <1>3, <1>9, <1>17 DEF Trickled, CandidatesFollow, Reaches
<1>19. QED
  BY <1>12, <1>13, <1>16, <1>18 DEF Trickled

LEMMA NextTrickled == Inductive /\ Trickled /\ [Next]_vars => Trickled'
<1> SUFFICES ASSUME Inductive, Trickled, [Next]_vars
             PROVE  Trickled'
  OBVIOUS
<1>1. ASSUME NEW p \in Pages,
             \/ Transmit(p) \/ Called(p) \/ AsBroadcaster(p) \/ AsWatcher(p)
             \/ InEitherRole(p) \/ Fails(p) \/ Away(p)
      PROVE  PageStep(p)
  BY <1>1 DEF Transmit, Called, AsBroadcaster, AsWatcher, InEitherRole, Fails, Away, PageStep, OnMessage
<1>2. CASE UNCHANGED vars
  <2>1. UNCHANGED <<conn, opened, link, inbox, outbox, peers, made>>
    BY <1>2 DEF vars, pageVars, linkVars, peerVars
  <2>2. QED
    BY <2>1, ServerTrickled DEF Grows
<1>3. CASE Next
  <2>1. ASSUME NEW p \in Pages, Connection(p) \/ Broadcaster(p) \/ Watcher(p) \/ Relay(p)
        PROVE  Trickled'
    BY <2>1, ConnectionTrickled, BroadcasterTrickled, WatcherTrickled, RelayTrickled
  <2>2. ASSUME NEW c \in Ids, Disconnect(c) PROVE Trickled'
    BY <2>2, DisconnectTrickled
  <2>3. QED
    BY <1>1, <1>3, <2>1, <2>2, PageTrickled DEF Next
<1>4. QED
  BY <1>2, <1>3

----------------------------------------------------------------------------
(* Being served.  While nothing is lost a page that watches is about to    *)
(* ask, has asked twice, or is at a stage of one exchange with the         *)
(* broadcaster: its request, the offer, the answer, the link.              *)

(* No element of B comes after one of A.                                   *)
Never(q, A, B) ==
    \A i \in DOMAIN q : \A j \in DOMAIN q : i < j /\ q[i] \in A => q[j] \notin B

(* What is said of messages of I in a queue still holds of it.             *)
Neutral(old, new, I) ==
    /\ \A A : A \subseteq I => (Has(new, A) <=> Has(old, A))
    /\ \A A, B : A \subseteq I /\ B \subseteq I /\ Never(old, A, B) => Never(new, A, B)

LEMMA NeverNothing == \A m, A, B : Never(<<m>>, A, B) /\ Never(<< >>, A, B)
BY DEF Never

LEMMA TailNever ==
  ASSUME NEW T, NEW q \in Seq(T), q # << >>, NEW A, NEW B, Never(q, A, B)
  PROVE  Never(Tail(q), A, B) /\ (Head(q) \in A => ~Has(Tail(q), B))
<1> DEFINE r == Tail(q)
<1>1. /\ Head(q) = q[1] /\ DOMAIN q \subseteq Nat \ {0} /\ DOMAIN r \subseteq Nat \ {0}
      /\ 1 \in DOMAIN q
      /\ \A i \in DOMAIN r : i + 1 \in DOMAIN q /\ r[i] = q[i + 1]
  BY TailIndices
<1> HIDE DEF r
<1>2. ASSUME NEW i \in DOMAIN r, NEW j \in DOMAIN r, i < j, r[i] \in A
      PROVE  r[j] \notin B
  <2>1. i + 1 \in DOMAIN q /\ j + 1 \in DOMAIN q /\ q[i + 1] \in A /\ r[j] = q[j + 1] /\ i + 1 < j + 1
    BY <1>1, <1>2
  <2>2. QED
    BY <2>1 DEF Never
<1>3. ASSUME Head(q) \in A, NEW j \in DOMAIN r PROVE r[j] \notin B
  <2>1. 1 \in DOMAIN q /\ j + 1 \in DOMAIN q /\ q[1] \in A /\ r[j] = q[j + 1] /\ 1 < j + 1
    BY <1>1, <1>3
  <2>2. QED
    BY <2>1 DEF Never
<1>4. QED
  BY <1>2, <1>3 DEF Never, Has, r

LEMMA ConcatNever ==
  ASSUME NEW T, NEW q \in Seq(T), NEW r \in Seq(T), NEW A, NEW B,
         Never(q, A, B), Never(r, A, B), ~Has(q, A) \/ ~Has(r, B)
  PROVE  Never(q \o r, A, B)
<1> DEFINE c == q \o r
<1>1. /\ Len(q) \in Nat /\ DOMAIN q = 1..Len(q) /\ DOMAIN r \subseteq Nat \ {0}
      /\ DOMAIN c \subseteq Nat \ {0}
      /\ \A i \in DOMAIN q : i \in DOMAIN c /\ c[i] = q[i]
      /\ \A i \in DOMAIN c :
            i \in DOMAIN q \/ (i - Len(q) \in DOMAIN r /\ c[i] = r[i - Len(q)] /\ i > Len(q))
  BY ConcatIndices
<1> HIDE DEF c
<1>2. ASSUME NEW i \in DOMAIN c, NEW j \in DOMAIN c, i < j, c[i] \in A
      PROVE  c[j] \notin B
  <2>1. CASE i \in DOMAIN q /\ j \in DOMAIN q
    BY <1>1, <1>2, <2>1 DEF Never
  <2>2. CASE i \in DOMAIN q /\ j \notin DOMAIN q
    BY <1>1, <1>2, <2>2 DEF Has
  <2>3. CASE i \notin DOMAIN q
    <3>1. j \notin DOMAIN q
      BY <1>1, <1>2, <2>3
    <3>2. /\ i - Len(q) \in DOMAIN r /\ j - Len(q) \in DOMAIN r /\ i - Len(q) < j - Len(q)
          /\ r[i - Len(q)] \in A /\ c[j] = r[j - Len(q)]
      BY <1>1, <1>2, <2>3, <3>1
    <3>3. QED
      BY <3>2 DEF Never
  <2>4. QED
    BY <2>1, <2>2, <2>3
<1>3. QED
  BY <1>2 DEF Never, c

LEMMA AppendNever ==
  ASSUME NEW T, NEW q \in Seq(T), NEW m \in T
  PROVE  \A A, B : Never(q, A, B) /\ (~Has(q, A) \/ m \notin B) => Never(Append(q, m), A, B)
<1> DEFINE r == <<m>>
<1>1. r \in Seq(T) /\ Append(q, m) = q \o r
  OBVIOUS
<1>2. \A A, B : Never(r, A, B) /\ (Has(r, B) <=> m \in B)
  BY HasOne, NeverNothing
<1> HIDE DEF r
<1>3. QED
  BY <1>1, <1>2, ConcatNever

LEMMA TailNeutral ==
  ASSUME NEW T, NEW q \in Seq(T), q # << >>, NEW I, Head(q) \notin I
  PROVE  Neutral(q, Tail(q), I)
<1>1. \A A : A \subseteq I => (Has(Tail(q), A) <=> Has(q, A))
  BY TailHas
<1>2. \A A, B : Never(q, A, B) => Never(Tail(q), A, B)
  BY TailNever
<1>3. QED
  BY <1>1, <1>2 DEF Neutral

LEMMA ConcatNeutral ==
  ASSUME NEW T, NEW q \in Seq(T), NEW r \in Seq(T), NEW I, ~Has(r, I)
  PROVE  Neutral(q, q \o r, I)
<1>1. \A A : A \subseteq I => ~Has(r, A)
  BY DEF Has
<1>2. \A A : A \subseteq I => (Has(q \o r, A) <=> Has(q, A))
  BY <1>1, ConcatHas
<1>3. ASSUME NEW A, NEW B, A \subseteq I, B \subseteq I, Never(q, A, B)
      PROVE  Never(q \o r, A, B)
  <2>1. ~Has(r, B) /\ Never(r, A, B)
    BY <1>1, <1>3 DEF Has, Never
  <2>2. QED
    BY <1>3, <2>1, ConcatNever
<1>4. QED
  BY <1>2, <1>3 DEF Neutral

LEMMA AppendNeutral ==
  ASSUME NEW T, NEW q \in Seq(T), NEW m \in T, NEW I, m \notin I
  PROVE  Neutral(q, Append(q, m), I)
<1>1. <<m>> \in Seq(T) /\ Append(q, m) = q \o <<m>> /\ ~Has(<<m>>, I)
  BY HasOne
<1>2. QED
  BY <1>1, ConcatNeutral

LEMMA NeutralParts ==
  ASSUME NEW old, NEW new, NEW I, Neutral(old, new, I), NEW J, J \subseteq I
  PROVE  Neutral(old, new, J)
BY DEF Neutral

LEMMA SameNeutral == \A q, I : Neutral(q, q, I)
BY DEF Neutral

Offers(id) == Of("offer", id)
Answers(id) == Of("answer", id)
Requests(id) == Of("watcher", id)

(* What a step in which nothing fails does to the peer connection for a    *)
(* partner: nothing, a stage of the exchange of descriptions, or the page  *)
(* starts over with everybody.                                             *)
Unmoved(p, id) ==
    /\ id \in DOMAIN peers'[p] <=> id \in DOMAIN peers[p]
    /\ id \in DOMAIN peers[p] =>
          /\ peers'[p][id].n = peers[p][id].n /\ peers'[p][id].state = peers[p][id].state
          /\ peers'[p][id].asked = peers[p][id].asked /\ peers'[p][id].remote = peers[p][id].remote

Rests(p, id) ==
    /\ Unmoved(p, id) /\ Neutral(outbox[p], outbox'[p], Offers(id) \cup Answers(id))
    /\ \/ UNCHANGED inbox
       \/ \E k \in Kinds :
             /\ Hears(p, k)
             /\ Msg(p).id = id =>
                   /\ k = "watcher" => ~casting[p]
                   /\ k = "offer" => casting[p]
                   /\ k = "answer" => ~(id \in DOMAIN peers[p] /\ peers[p][id].state = "offered")

Moves(p, id, from, to) ==
    /\ id \in DOMAIN peers[p] /\ id \in DOMAIN peers'[p] /\ peers'[p][id].n = peers[p][id].n
    /\ peers[p][id].state = from /\ peers'[p][id].state = to

IsAskedFor(p, id) ==
    /\ Hears(p, "watcher") /\ Msg(p).id = id /\ casting[p] /\ UNCHANGED outbox
    /\ id \in DOMAIN peers'[p] /\ peers'[p][id].state = "offering"

IsOffered(p, id) ==
    /\ Hears(p, "offer") /\ Msg(p).id = id /\ ~casting[p] /\ UNCHANGED outbox
    /\ id \in DOMAIN peers'[p] /\ peers'[p][id].state = "answering" /\ peers'[p][id].asked = Msg(p).n

SendsOffer(p, id) ==
    /\ Moves(p, id, "offering", "offered") /\ UNCHANGED inbox
    /\ outbox'[p] = outbox[p] \o (<<Offer(id, peers[p][id].n)>> \o Candidates(id, peers[p][id].n))

SendsAnswer(p, id) ==
    /\ Moves(p, id, "answering", "stable") /\ UNCHANGED inbox
    /\ peers'[p][id].remote = peers[p][id].asked
    /\ outbox'[p] = outbox[p] \o (<<Answer(id, peers[p][id].n, peers[p][id].asked)>>
                                     \o Candidates(id, peers[p][id].n))

TakesAnswer(p, id) ==
    /\ Hears(p, "answer") /\ Msg(p).id = id /\ UNCHANGED outbox
    /\ Moves(p, id, "offered", "applying") /\ peers'[p][id].asked = Msg(p).n

AppliesAnswer(p, id) ==
    /\ UNCHANGED <<inbox, outbox>>
    /\ Moves(p, id, "applying", "stable") /\ peers'[p][id].remote = peers[p][id].asked

Breaks(p, id) == id \in DOMAIN peers[p] /\ Broken(p, id)

Restarts(p) ==
    \/ casting'[p] /\ Has(outbox'[p], Kind("broadcaster"))
    \/ ~casting'[p] /\ (starting'[p] > 0 \/ Has(outbox'[p], Kind("watcher")))

Turn(p, id) ==
    \/ Rests(p, id) \/ IsAskedFor(p, id) \/ IsOffered(p, id) \/ SendsOffer(p, id)
    \/ SendsAnswer(p, id) \/ TakesAnswer(p, id) \/ AppliesAnswer(p, id) \/ Breaks(p, id)
    \/ Restarts(p) \/ Hears(p, "disconnectPeer")

(* A description and the candidate that may follow it.                     *)
LEMMA SentToPartner ==
  ASSUME NEW m \in Outward, m.kind \in {"offer", "answer"}, m.id \in Ids, m.n \in Serials
  PROVE  /\ <<m>> \o Candidates(m.id, m.n) \in Seq(Outward)
         /\ \A A : Has(<<m>> \o Candidates(m.id, m.n), A) /\ A \cap Kind("candidate") = {} => m \in A
         /\ \A A : m \in A => Has(<<m>> \o Candidates(m.id, m.n), A)
         /\ \A A, B : B \cap Kind("candidate") = {} => Never(<<m>> \o Candidates(m.id, m.n), A, B)
<1> DEFINE c == [kind |-> "candidate", id |-> m.id, n |-> m.n, re |-> 0]
           cs == Candidates(m.id, m.n)
<1>1. c \in Message /\ c.kind = "candidate"
  BY Numbers DEF Message, Kinds
<1>2. c \in Outward /\ c \in Kind("candidate") /\ c.id = m.id /\ c.n = m.n
  BY <1>1 DEF Outward, Named, Kind
<1>3. cs \in {<<c>>, << >>}
  BY DEF Candidates
<1> HIDE DEF c, cs
<1>4. <<m>> \in Seq(Outward) /\ cs \in Seq(Outward)
  <2>1. (\A x \in Outward : <<x>> \in Seq(Outward)) /\ << >> \in Seq(Outward)
    OBVIOUS
  <2>2. QED
    BY <1>2, <1>3, <2>1
<1>5. \A A : Has(cs, A) => c \in A
  <2>1. CASE cs = <<c>>
    BY <2>1, HasOne
  <2>2. CASE cs = << >>
    BY <2>2, HasNothing
  <2>3. QED
    BY <1>3, <2>1, <2>2
<1>6. \A A, B : Never(cs, A, B) /\ Never(<<m>>, A, B)
  BY <1>3, NeverNothing
<1>7. \A A : Has(<<m>>, A) <=> m \in A
  BY HasOne
<1>8. \A A : Has(<<m>> \o cs, A) <=> m \in A \/ Has(cs, A)
  BY <1>4, <1>7, ConcatHas
<1>9. ASSUME NEW A, NEW B, B \cap Kind("candidate") = {}
      PROVE  Never(<<m>> \o cs, A, B)
  <2>1. ~Has(cs, B)
    BY <1>2, <1>5, <1>9
  <2>2. QED
    BY <1>4, <1>6, <2>1, ConcatNever
<1>10. <<m>> \o cs \in Seq(Outward)
  BY <1>4
<1>11. QED
  BY <1>2, <1>5, <1>8, <1>9, <1>10 DEF cs

(* An entry that stays as it is while a step is about another partner.     *)
LEMMA ElsewhereUnmoved ==
  ASSUME PageTyped, NEW p \in Pages, NEW id, NEW f, peers' = [peers EXCEPT ![p] = f],
         id \in DOMAIN f <=> id \in DOMAIN peers[p], id \in DOMAIN f => f[id] = peers[p][id]
  PROVE  Unmoved(p, id)
BY DEF Unmoved, PageTyped

LEMMA KeepingUnmoved ==
  ASSUME PageTyped, NEW p \in Pages, NEW id,
         \/ UNCHANGED peers
         \/ \E x \in Ids : \E s, n : x # id /\ CreatePeerConnection(p, x, s, n)
         \/ \E x \in DOMAIN peers[p] : \E n : x # id /\ SetRemoteDescription(p, x, n)
         \/ \E x \in DOMAIN peers[p] : \E n : QueueOrAddCandidate(p, x, n)
         \/ \E x \in Ids : x # id /\ ClosePeer(p, x)
         \/ \E x \in DOMAIN peers[p] : \E pc : x # id /\ peers' = [peers EXCEPT ![p] = [@ EXCEPT ![x] = pc]]
  PROVE  Unmoved(p, id)
<1>1. peers[p] \in PeerMaps /\ \A x \in DOMAIN peers[p] : peers[p][x] \in Peer
  BY PeerMapsAre DEF PageTyped
<1>2. ASSUME UNCHANGED peers PROVE Unmoved(p, id)
  BY <1>2 DEF Unmoved
<1>3. ASSUME NEW x \in Ids, NEW s, NEW n, x # id, CreatePeerConnection(p, x, s, n)
      PROVE  Unmoved(p, id)
  <2> DEFINE new == [n |-> made + 1, state |-> s, asked |-> n, remote |-> 0, pending |-> {}, added |-> {}]
  <2>1. peers' = [peers EXCEPT ![p] = Put(peers[p], x, new)]
    BY <1>3 DEF CreatePeerConnection
  <2> HIDE DEF new
  <2>2. QED
    BY <1>3, <2>1, ElsewhereUnmoved DEF Put
<1>4. ASSUME NEW x \in DOMAIN peers[p], NEW pc, x # id, peers' = [peers EXCEPT ![p] = [@ EXCEPT ![x] = pc]]
      PROVE  Unmoved(p, id)
  BY <1>1, <1>4, ElsewhereUnmoved
<1>5. ASSUME NEW x \in DOMAIN peers[p], NEW n, x # id, SetRemoteDescription(p, x, n)
      PROVE  Unmoved(p, id)
  BY <1>4, <1>5 DEF SetRemoteDescription
<1>6. ASSUME NEW x \in DOMAIN peers[p], NEW n, QueueOrAddCandidate(p, x, n)
      PROVE  Unmoved(p, id)
  <2> DEFINE pc == peers[p][x]
             waits == [pc EXCEPT !.pending = pc.pending \cup {n}]
             has == [pc EXCEPT !.added = pc.added \cup {n}]
  <2>1. pc \in Peer
    BY <1>1
  <2>2. \A new \in {waits, has} : /\ new.n = pc.n /\ new.state = pc.state
                                  /\ new.asked = pc.asked /\ new.remote = pc.remote
    BY <2>1 DEF Peer
  <2>3. \/ peers' = [peers EXCEPT ![p] = [peers[p] EXCEPT ![x] = waits]]
        \/ peers' = [peers EXCEPT ![p] = [peers[p] EXCEPT ![x] = has]]
    <3>1. CASE pc.remote = 0
      BY <1>6, <3>1 DEF QueueOrAddCandidate, PageTyped
    <3>2. CASE pc.remote # 0
      BY <1>6, <3>2 DEF QueueOrAddCandidate, PageTyped
    <3>3. QED
      BY <3>1, <3>2
  <2> HIDE DEF waits, has
  <2>4. PICK new \in {waits, has} : peers' = [peers EXCEPT ![p] = [peers[p] EXCEPT ![x] = new]]
    BY <2>3
  <2>5. peers'[p] = [peers[p] EXCEPT ![x] = new]
    BY <2>4 DEF PageTyped
  <2>6. DOMAIN peers'[p] = DOMAIN peers[p] /\ peers'[p][x] = new
        /\ \A y \in DOMAIN peers[p] \ {x} : peers'[p][y] = peers[p][y]
    <3>1. \E S \in SUBSET Ids : peers[p] \in [S -> Peer]
      BY <1>1 DEF PeerMaps
    <3>2. QED
      BY <2>5, <3>1
  <2>7. QED
    BY <2>2, <2>6 DEF Unmoved
<1>7. ASSUME NEW x \in Ids, x # id, ClosePeer(p, x) PROVE Unmoved(p, id)
  BY <1>1, <1>7, ElsewhereUnmoved DEF ClosePeer, Restrict
<1>8. QED
  BY <1>2, <1>3, <1>4, <1>5, <1>6, <1>7

(* A description sent to another partner.                                  *)
LEMMA SentElsewhere ==
  ASSUME NEW m \in Outward, m.kind \in {"offer", "answer"}, m.id \in Ids, m.n \in Serials,
         NEW id, id # m.id, NEW q \in Seq(Outward)
  PROVE  Neutral(q, q \o (<<m>> \o Candidates(m.id, m.n)), Offers(id) \cup Answers(id))
<1> DEFINE ms == <<m>> \o Candidates(m.id, m.n)
           I == Offers(id) \cup Answers(id)
<1>1. I \cap Kind("candidate") = {} /\ m \notin I
  BY DEF Offers, Answers, Of, Kind
<1>2. ms \in Seq(Outward) /\ ~Has(ms, I)
  BY <1>1, SentToPartner
<1> HIDE DEF ms, I
<1>3. Neutral(q, q \o ms, I)
  BY <1>2, ConcatNeutral
<1>4. QED
  BY <1>3 DEF ms, I

(* A page that is online sends what it sends.                              *)
LEMMA PlainIsSent ==
  ASSUME PageTyped, NEW p \in Pages, Online(p), NEW k \in {"broadcaster", "watcher"}, Send(p, <<Plain(k)>>)
  PROVE  Has(outbox'[p], Kind(k))
<1> DEFINE ms == <<Plain(k)>>
<1>1. ms \in Seq(Outward) /\ Has(ms, Kind(k))
  BY PlainSent, PlainKinds DEF Kinds
<1> HIDE DEF ms
<1>2. outbox[p] \in Seq(Outward) /\ outbox'[p] = outbox[p] \o ms
  <2>1. Send(p, ms)
    BY DEF ms
  <2>2. QED
    BY <1>1, <2>1, SendEffect DEF PageTyped
<1>3. Has(outbox[p] \o ms, Kind(k))
  BY <1>1, <1>2, ConcatHas
<1>4. QED
  BY <1>2, <1>3

(* A message a page handles, seen from one partner.                        *)
LEMMA MessageTurn ==
  ASSUME PageTyped, NEW p \in Pages, OnMessage(p), NEW id \in Ids
  PROVE  Turn(p, id)
<1> USE DEF linkVars, castVars, peerVars, Ignore
<1> DEFINE I == Offers(id) \cup Answers(id)
<1>1. Neutral(outbox[p], outbox[p], I)
  BY SameNeutral
<1> HIDE DEF I
<1>2. ASSUME NEW k \in Kinds, Receive(p, k), UNCHANGED outbox, Unmoved(p, id),
             Msg(p).id = id =>
                /\ k = "watcher" => ~casting[p]
                /\ k = "offer" => casting[p]
                /\ k = "answer" => ~(id \in DOMAIN peers[p] /\ peers[p][id].state = "offered")
      PROVE  Turn(p, id)
  <2>1. Hears(p, k)
    BY <1>2, ReceiveEffect
  <2>2. Rests(p, id)
    BY <1>1, <1>2, <2>1 DEF Rests, I
  <2>3. QED
    BY <2>2 DEF Turn
<1>3. UNCHANGED peers => Unmoved(p, id)
  BY KeepingUnmoved
<1>4. ASSUME ~casting'[p], Send(p, <<Plain("watcher")>>), Online(p)
      PROVE  Turn(p, id)
  <2>1. Has(outbox'[p], Kind("watcher"))
    BY <1>4, PlainIsSent
  <2>2. QED
    BY <1>4, <2>1 DEF Turn, Restarts
<1>5. CASE OnBroadcaster(p)
  <2>1. CASE casting[p] /\ Ignore
    BY <1>2, <1>3, <1>5, <2>1 DEF OnBroadcaster, Kinds
  <2>2. CASE ~casting[p] /\ Send(p, <<Plain("watcher")>>) /\ UNCHANGED casting
    <3>1. Online(p) /\ ~casting'[p]
      BY <1>5, <2>2 DEF OnBroadcaster, Receive
    <3>2. QED
      BY <1>4, <2>2, <3>1
  <2>3. QED
    BY <1>5, <2>1, <2>2 DEF OnBroadcaster
<1>6. CASE OnForceStop(p)
  <2>1. CASE ~casting[p] /\ Ignore
    BY <1>2, <1>3, <1>6, <2>1 DEF OnForceStop, Kinds
  <2>2. CASE Stop(p)
    <3>1. ~casting'[p] /\ Send(p, <<Plain("watcher")>>) /\ Online(p)
      BY <1>6, <2>2 DEF OnForceStop, Receive, Stop, PageTyped
    <3>2. QED
      BY <1>4, <3>1
  <2>3. QED
    BY <1>6, <2>1, <2>2 DEF OnForceStop
<1>7. ASSUME NEW k \in {"watcher", "offer"}, Receive(p, k), NEW s \in PeerState, NEW n \in 0..MaxPeers,
             CreatePeerConnection(p, Msg(p).id, s, n), UNCHANGED outbox
      PROVE  IF Msg(p).id = id
             THEN id \in DOMAIN peers'[p] /\ peers'[p][id].state = s /\ peers'[p][id].asked = n
             ELSE Turn(p, id)
  <2> DEFINE new == [n |-> made + 1, state |-> s, asked |-> n, remote |-> 0, pending |-> {}, added |-> {}]
  <2>1. peers'[p] = Put(peers[p], Msg(p).id, new)
    BY <1>7 DEF CreatePeerConnection, PageTyped
  <2>2. Msg(p).id \in Ids
    <3>1. Hears(p, k) /\ Named(Msg(p)) /\ (k = "watcher" => Msg(p).id \in Ids)
      BY <1>7, ReceiveEffect DEF Kinds
    <3>2. QED
      BY <1>7, <3>1 DEF Hears, Named
  <2>3. new.state = s /\ new.asked = n
    OBVIOUS
  <2> HIDE DEF new
  <2>4. CASE Msg(p).id = id
    BY <2>1, <2>3, <2>4 DEF Put
  <2>5. CASE Msg(p).id # id
    <3>1. Unmoved(p, id)
      BY <1>7, <2>2, <2>5, KeepingUnmoved
    <3>2. QED
      BY <1>2, <1>7, <2>5, <3>1 DEF Kinds
  <2>6. QED
    BY <2>4, <2>5
<1>8. CASE OnWatcher(p)
  <2>1. CASE ~casting[p] /\ Ignore
    BY <1>2, <1>3, <1>8, <2>1 DEF OnWatcher, Kinds
  <2>2. CASE casting[p] /\ CreatePeerConnection(p, Msg(p).id, "offering", 0) /\ UNCHANGED outbox
    <3>1. Hears(p, "watcher")
      BY <1>8, ReceiveEffect DEF OnWatcher, Kinds
    <3>2. Msg(p).id = id => id \in DOMAIN peers'[p] /\ peers'[p][id].state = "offering"
      BY <1>7, <1>8, <2>2, Numbers DEF OnWatcher, PeerState
    <3>3. Msg(p).id # id => Turn(p, id)
      BY <1>7, <1>8, <2>2, Numbers DEF OnWatcher, PeerState
    <3>4. QED
      BY <2>2, <3>1, <3>2, <3>3 DEF Turn, IsAskedFor
  <2>3. QED
    BY <1>8, <2>1, <2>2 DEF OnWatcher
<1>9. CASE OnOffer(p)
  <2>1. CASE casting[p] /\ Ignore
    BY <1>2, <1>3, <1>9, <2>1 DEF OnOffer, Kinds
  <2>2. CASE ~casting[p] /\ CreatePeerConnection(p, Msg(p).id, "answering", Msg(p).n) /\ UNCHANGED outbox
    <3>1. Hears(p, "offer") /\ Msg(p).n \in 0..MaxPeers
      BY <1>9, ReceiveEffect, MessageFields DEF OnOffer, Kinds
    <3>2. Msg(p).id = id => /\ id \in DOMAIN peers'[p] /\ peers'[p][id].state = "answering"
                            /\ peers'[p][id].asked = Msg(p).n
      BY <1>7, <1>9, <2>2, <3>1 DEF OnOffer, PeerState
    <3>3. Msg(p).id # id => Turn(p, id)
      BY <1>7, <1>9, <2>2, <3>1 DEF OnOffer, PeerState
    <3>4. QED
      BY <2>2, <3>1, <3>2, <3>3 DEF Turn, IsOffered
  <2>3. QED
    BY <1>9, <2>1, <2>2 DEF OnOffer
<1>10. CASE OnAnswer(p)
  <2>1. Receive(p, "answer") /\ UNCHANGED outbox
    BY <1>10 DEF OnAnswer
  <2>2. CASE ~(Msg(p).id \in DOMAIN peers[p] /\ peers[p][Msg(p).id].state = "offered")
    <3>1. UNCHANGED peers
      BY <1>10, <2>2 DEF OnAnswer
    <3>2. QED
      BY <1>2, <1>3, <2>1, <2>2, <3>1 DEF Kinds
  <2>3. CASE Msg(p).id \in DOMAIN peers[p] /\ peers[p][Msg(p).id].state = "offered"
    <3> DEFINE x == Msg(p).id
               pc == peers[p][x]
               new == [pc EXCEPT !.state = "applying", !.asked = Msg(p).n]
    <3>1. peers' = [peers EXCEPT ![p] = [@ EXCEPT ![x] = new]]
      BY <1>10, <2>3 DEF OnAnswer, PageTyped
    <3>2. CASE x # id
      <4>1. Unmoved(p, id)
        BY <2>3, <3>1, <3>2, KeepingUnmoved
      <4>2. QED
        BY <1>2, <2>1, <3>2, <4>1 DEF Kinds
    <3>3. CASE x = id
      <4>1. pc \in Peer
        BY <2>3, PeerMapsAre DEF PageTyped
      <4>2. new.n = pc.n /\ new.state = "applying" /\ new.asked = Msg(p).n
        BY <4>1 DEF Peer
      <4> HIDE DEF new
      <4>3. DOMAIN peers'[p] = DOMAIN peers[p] /\ peers'[p][x] = new
        <5>1. peers'[p] = [peers[p] EXCEPT ![x] = new]
          BY <3>1 DEF PageTyped
        <5>2. \E S \in SUBSET Ids : peers[p] \in [S -> Peer]
          BY DEF PageTyped, PeerMaps
        <5>3. QED
          BY <2>3, <5>1, <5>2
      <4>4. Hears(p, "answer")
        BY <2>1, ReceiveEffect DEF Kinds
      <4>5. TakesAnswer(p, id)
        BY <2>1, <2>3, <3>3, <4>2, <4>3, <4>4 DEF TakesAnswer, Moves
      <4>6. QED
        BY <4>5 DEF Turn
    <3>4. QED
      BY <3>2, <3>3
  <2>4. QED
    BY <2>2, <2>3
<1>11. CASE OnCandidate(p)
  <2>1. Unmoved(p, id)
    BY <1>11, KeepingUnmoved DEF OnCandidate
  <2>2. QED
    BY <1>2, <1>11, <2>1 DEF OnCandidate, Kinds
<1>12. CASE OnDisconnectPeer(p)
  BY <1>12, ReceiveEffect DEF OnDisconnectPeer, Turn, Kinds
<1>13. CASE OnBroadcasterLeft(p)
  <2>1. CASE casting[p] /\ Ignore
    BY <1>2, <1>3, <1>13, <2>1 DEF OnBroadcasterLeft, Kinds
  <2>2. CASE ~casting[p] /\ Send(p, <<Plain("watcher")>>) /\ UNCHANGED casting
    <3>1. Online(p) /\ ~casting'[p]
      BY <1>13, <2>2 DEF OnBroadcasterLeft, Receive
    <3>2. QED
      BY <1>4, <2>2, <3>1
  <2>3. QED
    BY <1>13, <2>1, <2>2 DEF OnBroadcasterLeft
<1>14. QED
  BY <1>5, <1>6, <1>8, <1>9, <1>10, <1>11, <1>12, <1>13 DEF OnMessage

(* A step of a page in which nothing fails, seen from one partner.         *)
LEMMA TurnAfter ==
  ASSUME PageTyped, NEW p \in Pages, PageStep(p), Online(p), faults' = faults, NEW id \in Ids
  PROVE  Turn(p, id)
<1> USE DEF linkVars, castVars, peerVars
<1> DEFINE I == Offers(id) \cup Answers(id)
<1>1. Neutral(outbox[p], outbox[p], I) /\ outbox[p] \in Seq(Outward) /\ faults \in Nat
  BY SameNeutral, CastPageAssumption DEF PageTyped
<1>2. ~Fault
  BY <1>1 DEF Fault
<1> HIDE DEF I
<1>3. ASSUME NEW m \in Outward, Send(p, <<m>> \o Candidates(m.id, m.n)),
             m.kind \in {"offer", "answer"}, m.id \in Ids, m.n \in Serials
      PROVE  outbox'[p] = outbox[p] \o (<<m>> \o Candidates(m.id, m.n))
  <2>1. <<m>> \o Candidates(m.id, m.n) \in Seq(Outward)
    BY <1>3, SentToPartner
  <2>2. QED
    BY <1>3, <2>1, SendEffect
<1>4. ASSUME NEW x \in Ids, x \in DOMAIN peers[p], SetRemoteDescription(p, x, peers[p][x].asked)
      PROVE  IF x = id
             THEN /\ id \in DOMAIN peers'[p] /\ peers'[p][id].n = peers[p][id].n
                  /\ peers'[p][id].state = "stable" /\ peers'[p][id].remote = peers[p][id].asked
             ELSE Unmoved(p, id)
  <2> DEFINE pc == peers[p][x]
             new == [pc EXCEPT !.state = "stable", !.remote = pc.asked, !.asked = 0, !.pending = {},
                               !.added = pc.added \cup pc.pending]
  <2>1. CASE x # id
    BY <1>4, <2>1, KeepingUnmoved
  <2>2. CASE x = id
    <3>1. pc \in Peer
      BY <1>4, PeerMapsAre DEF PageTyped
    <3>2. new.n = pc.n /\ new.state = "stable" /\ new.remote = pc.asked
      BY <3>1 DEF Peer
    <3>3. peers'[p] = [peers[p] EXCEPT ![x] = new]
      BY <1>4 DEF SetRemoteDescription, PageTyped
    <3> HIDE DEF new
    <3>4. \E S \in SUBSET Ids : peers[p] \in [S -> Peer]
      BY DEF PageTyped, PeerMaps
    <3>5. DOMAIN peers'[p] = DOMAIN peers[p] /\ peers'[p][x] = new
      BY <1>4, <3>3, <3>4
    <3>6. QED
      BY <1>4, <2>2, <3>2, <3>5
  <2>3. QED
    BY <2>1, <2>2
<1>5. CASE StartBroadcast(p)
  <2>1. starting'[p] = starting[p] + 1 /\ starting[p] \in Nat /\ ~casting[p] /\ UNCHANGED casting
    BY <1>5 DEF StartBroadcast, PageTyped
  <2>2. starting'[p] > 0
    BY <2>1
  <2>3. QED
    BY <2>1, <2>2 DEF Turn, Restarts
<1>6. CASE PlayStarted(p)
  <2>1. casting'[p] /\ Send(p, <<Plain("broadcaster")>>)
    BY <1>6 DEF PlayStarted, PageTyped
  <2>2. Has(outbox'[p], Kind("broadcaster"))
    BY <2>1, PlainIsSent
  <2>3. QED
    BY <2>1, <2>2 DEF Turn, Restarts
<1>7. CASE StopBroadcast(p)
  <2>1. ~casting'[p] /\ Send(p, <<Plain("watcher")>>)
    BY <1>7 DEF StopBroadcast, Stop, PageTyped
  <2>2. Has(outbox'[p], Kind("watcher"))
    BY <2>1, PlainIsSent
  <2>3. QED
    BY <2>1, <2>2 DEF Turn, Restarts
<1>8. ~(PlayFails(p) \/ ConnectionDrops(p) \/ Leave(p) \/ \E x \in Ids : OfferFails(p, x) \/ AnswerFails(p, x))
  BY <1>2 DEF PlayFails, ConnectionDrops, Leave, OfferFails, AnswerFails
<1>9. ASSUME NEW x \in Ids, SendOffer(p, x) PROVE Turn(p, id)
  <2> DEFINE pc == peers[p][x]
             m == Offer(x, pc.n)
             new == [pc EXCEPT !.state = "offered"]
  <2>1. x \in DOMAIN peers[p] /\ pc.state = "offering" /\ UNCHANGED inbox
        /\ peers' = [peers EXCEPT ![p] = [@ EXCEPT ![x] = new]]
        /\ Send(p, <<m>> \o Candidates(x, pc.n))
    BY <1>9 DEF SendOffer, PageTyped
  <2>2. pc \in Peer /\ pc.n \in Serials
    BY <2>1, PeerMapsAre DEF PageTyped, Peer
  <2>3. m \in Outward /\ m.kind = "offer" /\ m.id = x /\ m.n = pc.n
    BY <2>2, OutwardMessages, MessagesAre
  <2>4. outbox'[p] = outbox[p] \o (<<m>> \o Candidates(x, pc.n))
    BY <1>3, <2>1, <2>2, <2>3
  <2>5. CASE x # id
    <3>1. Neutral(outbox[p], outbox'[p], I)
      BY <1>1, <2>2, <2>3, <2>4, <2>5, SentElsewhere DEF I
    <3>2. Unmoved(p, id)
      BY <2>1, <2>5, KeepingUnmoved
    <3>3. QED
      BY <2>1, <3>1, <3>2 DEF Turn, Rests, I
  <2>6. CASE x = id
    <3>1. new.n = pc.n /\ new.state = "offered"
      BY <2>2 DEF Peer
    <3>2. peers'[p] = [peers[p] EXCEPT ![x] = new]
      BY <2>1 DEF PageTyped
    <3> HIDE DEF new
    <3>3. \E S \in SUBSET Ids : peers[p] \in [S -> Peer]
      BY DEF PageTyped, PeerMaps
    <3>4. DOMAIN peers'[p] = DOMAIN peers[p] /\ peers'[p][x] = new
      BY <2>1, <3>2, <3>3
    <3>5. SendsOffer(p, id)
      BY <2>1, <2>4, <2>6, <3>1, <3>4 DEF SendsOffer, Moves
    <3>6. QED
      BY <3>5 DEF Turn
  <2>7. QED
    BY <2>5, <2>6
<1>10. ASSUME NEW x \in Ids, SendAnswer(p, x) PROVE Turn(p, id)
  <2> DEFINE pc == peers[p][x]
             m == Answer(x, pc.n, pc.asked)
  <2>1. x \in DOMAIN peers[p] /\ pc.state = "answering" /\ UNCHANGED inbox
        /\ SetRemoteDescription(p, x, pc.asked) /\ Send(p, <<m>> \o Candidates(x, pc.n))
    BY <1>10 DEF SendAnswer
  <2>2. pc.n \in Serials /\ pc.asked \in 0..MaxPeers
    BY <2>1, PeerMapsAre DEF PageTyped, Peer
  <2>3. m \in Outward /\ m.kind = "answer" /\ m.id = x /\ m.n = pc.n
    BY <2>2, OutwardMessages, MessagesAre
  <2>4. outbox'[p] = outbox[p] \o (<<m>> \o Candidates(x, pc.n))
    BY <1>3, <2>1, <2>2, <2>3
  <2>5. CASE x # id
    <3>1. Neutral(outbox[p], outbox'[p], I)
      BY <1>1, <2>2, <2>3, <2>4, <2>5, SentElsewhere DEF I
    <3>2. QED
      BY <1>4, <2>1, <2>5, <3>1 DEF Turn, Rests, I
  <2>6. CASE x = id
    <3>1. SendsAnswer(p, id)
      BY <1>4, <2>1, <2>4, <2>6 DEF SendsAnswer, Moves
    <3>2. QED
      BY <3>1 DEF Turn
  <2>7. QED
    BY <2>5, <2>6
<1>11. ASSUME NEW x \in Ids, ApplyAnswer(p, x) PROVE Turn(p, id)
  <2>1. x \in DOMAIN peers[p] /\ peers[p][x].state = "applying" /\ UNCHANGED <<inbox, outbox>>
        /\ SetRemoteDescription(p, x, peers[p][x].asked)
    BY <1>11 DEF ApplyAnswer
  <2>2. CASE x # id
    BY <1>1, <1>4, <2>1, <2>2 DEF Turn, Rests, I
  <2>3. CASE x = id
    <3>1. AppliesAnswer(p, id)
      BY <1>4, <2>1, <2>3 DEF AppliesAnswer, Moves
    <3>2. QED
      BY <3>1 DEF Turn
  <2>4. QED
    BY <2>2, <2>3
<1>12. ASSUME NEW x \in Ids, ConnectionFails(p, x) PROVE Turn(p, id)
  <2>1. CASE x # id
    <3>1. Unmoved(p, id)
      BY <1>12, <2>1, KeepingUnmoved DEF ConnectionFails
    <3>2. QED
      BY <1>1, <1>12, <3>1 DEF Turn, Rests, I, ConnectionFails
  <2>2. CASE x = id
    BY <1>12, <2>2 DEF ConnectionFails, Turn, Breaks
  <2>3. QED
    BY <2>1, <2>2
<1>13. QED
  BY <1>5, <1>6, <1>7, <1>8, <1>9, <1>10, <1>11, <1>12, MessageTurn DEF PageStep

OtherOffers(id, n) == {m \in Offers(id) : m.n # n}
OtherAnswers(id, n) == {m \in Answers(id) : m.n # n}

(* How far p, which broadcasts, and q, which watches, have come.           *)
NoOffer(p, q) == ~Has(outbox[p], Offers(conn[q])) /\ ~Has(inbox[q], Offers(conn[p]))
NoAnswer(p, q) == ~Has(outbox[q], Answers(conn[p])) /\ ~Has(inbox[p], Answers(conn[q]))

Requested(p, q) ==
    /\ Has(inbox[p], Requests(conn[q]))
    /\ Never(inbox[p], Requests(conn[q]), Requests(conn[q]) \cup Answers(conn[q]))
    /\ ~Has(outbox[q], Answers(conn[p])) /\ NoOffer(p, q)
    /\ conn[q] \notin DOMAIN peers[p] /\ conn[p] \notin DOMAIN peers[q]

Caller(p, q, state) ==
    /\ conn[q] \in DOMAIN peers[p] /\ peers[p][conn[q]].state = state
    /\ ~Has(inbox[p], Requests(conn[q]))

(* The peer connection of q, which has the description of that of p.       *)
Callee(p, q, state) ==
    /\ conn[p] \in DOMAIN peers[q] /\ peers[q][conn[p]].state = state /\ NoOffer(p, q)
    /\ (IF state = "stable" THEN peers[q][conn[p]].remote ELSE peers[q][conn[p]].asked) =
          peers[p][conn[q]].n

BeforeOffer(p, q) ==
    Caller(p, q, "offering") /\ NoOffer(p, q) /\ NoAnswer(p, q) /\ conn[p] \notin DOMAIN peers[q]

OfferUnderWay(p, q) ==
    /\ Caller(p, q, "offered") /\ NoAnswer(p, q) /\ conn[p] \notin DOMAIN peers[q]
    /\ ~(Has(outbox[p], Offers(conn[q])) <=> Has(inbox[q], Offers(conn[p])))
    /\ Never(outbox[p], Offers(conn[q]), Offers(conn[q]))
    /\ Never(inbox[q], Offers(conn[p]), Offers(conn[p]))
    /\ ~Has(outbox[p], OtherOffers(conn[q], peers[p][conn[q]].n))
    /\ ~Has(inbox[q], OtherOffers(conn[p], peers[p][conn[q]].n))

BeforeAnswer(p, q) == Caller(p, q, "offered") /\ NoAnswer(p, q) /\ Callee(p, q, "answering")

AnswerUnderWay(p, q) ==
    /\ Caller(p, q, "offered") /\ Callee(p, q, "stable")
    /\ Has(outbox[q], Answers(conn[p])) \/ Has(inbox[p], Answers(conn[q]))
    /\ ~Has(outbox[q], OtherAnswers(conn[p], peers[q][conn[p]].n))
    /\ ~Has(inbox[p], OtherAnswers(conn[q], peers[q][conn[p]].n))

BeforeLink(p, q) ==
    /\ Caller(p, q, "applying") /\ Callee(p, q, "stable")
    /\ peers[p][conn[q]].asked = peers[q][conn[p]].n

Joined(p, q) ==
    /\ Caller(p, q, "stable") /\ Callee(p, q, "stable")
    /\ peers[p][conn[q]].remote = peers[q][conn[p]].n

InHand(p, q) ==
    \/ Requested(p, q) \/ BeforeOffer(p, q) \/ OfferUnderWay(p, q) \/ BeforeAnswer(p, q)
    \/ AnswerUnderWay(p, q) \/ BeforeLink(p, q) \/ Joined(p, q)

LEMMA PartsOf ==
  \A id, n : OtherOffers(id, n) \subseteq Offers(id) /\ OtherAnswers(id, n) \subseteq Answers(id)
BY DEF OtherOffers, OtherAnswers

(* A message taken from the inbox.                                         *)
LEMMA Heard ==
  ASSUME PageTyped, NEW p \in Pages, NEW k, Hears(p, k)
  PROVE  /\ Msg(p) \in Message /\ Msg(p).kind = k
         /\ \A q \in Pages \ {p} : inbox'[q] = inbox[q]
         /\ \A A : Has(inbox'[p], A) => Has(inbox[p], A)
         /\ \A A : Msg(p) \in A => Has(inbox[p], A)
         /\ \A A : Has(inbox[p], A) => Msg(p) \in A \/ Has(inbox'[p], A)
         /\ \A A, B : Never(inbox[p], A, B) =>
               Never(inbox'[p], A, B) /\ (Msg(p) \in A => ~Has(inbox'[p], B))
<1> DEFINE q == inbox[p]
<1>1. q \in Seq(Inward) /\ q # << >> /\ inbox'[p] = Tail(q) /\ Msg(p) = Head(q)
      /\ Msg(p) \in Inward /\ Msg(p).kind = k /\ \A r \in Pages \ {p} : inbox'[r] = inbox[r]
  BY DEF Hears, PageTyped, Msg
<1> HIDE DEF q
<1>2. \A A : /\ Has(Tail(q), A) => Has(q, A)
             /\ Head(q) \in A => Has(q, A)
             /\ Has(q, A) => Head(q) \in A \/ Has(Tail(q), A)
  BY <1>1, TailHas
<1>3. \A A, B : Never(q, A, B) => Never(Tail(q), A, B) /\ (Head(q) \in A => ~Has(Tail(q), B))
  BY <1>1, TailNever
<1>4. QED
  BY <1>1, <1>2, <1>3 DEF q, Inward

(* What is said of the offers and answers in a queue still holds of it.    *)
LEMMA NeutralQueue ==
  ASSUME NEW old, NEW new, NEW id, Neutral(old, new, Offers(id) \cup Answers(id))
  PROVE  /\ Has(new, Offers(id)) <=> Has(old, Offers(id))
         /\ Has(new, Answers(id)) <=> Has(old, Answers(id))
         /\ \A n : Has(new, OtherOffers(id, n)) <=> Has(old, OtherOffers(id, n))
         /\ \A n : Has(new, OtherAnswers(id, n)) <=> Has(old, OtherAnswers(id, n))
         /\ Never(old, Offers(id), Offers(id)) => Never(new, Offers(id), Offers(id))
<1> DEFINE I == Offers(id) \cup Answers(id)
<1>1. Offers(id) \subseteq I /\ Answers(id) \subseteq I
      /\ \A n : OtherOffers(id, n) \subseteq I /\ OtherAnswers(id, n) \subseteq I
  BY PartsOf
<1> HIDE DEF I
<1>2. Neutral(old, new, I)
  BY DEF I
<1>3. QED
  BY <1>1, <1>2 DEF Neutral

(* The page takes at most a message that concerns its partner no more.     *)
LEMMA RestsEffect ==
  ASSUME PageTyped, NEW p \in Pages, NEW id, Rests(p, id)
  PROVE  /\ Unmoved(p, id)
         /\ \A A : Has(inbox'[p], A) => Has(inbox[p], A)
         /\ \A A, B : Never(inbox[p], A, B) => Never(inbox'[p], A, B)
         /\ casting[p] /\ Has(inbox[p], Requests(id)) => Has(inbox'[p], Requests(id))
         /\ ~casting[p] /\ Has(inbox[p], Offers(id)) => Has(inbox'[p], Offers(id))
         /\ id \in DOMAIN peers[p] /\ peers[p][id].state = "offered" /\ Has(inbox[p], Answers(id)) =>
               Has(inbox'[p], Answers(id))
<1>1. Unmoved(p, id)
  BY DEF Rests
<1>2. CASE UNCHANGED inbox
  BY <1>1, <1>2
<1>3. ASSUME NEW k \in Kinds, Hears(p, k),
             Msg(p).id = id =>
                /\ k = "watcher" => ~casting[p]
                /\ k = "offer" => casting[p]
                /\ k = "answer" => ~(id \in DOMAIN peers[p] /\ peers[p][id].state = "offered")
      PROVE  /\ \A A : Has(inbox'[p], A) => Has(inbox[p], A)
             /\ \A A, B : Never(inbox[p], A, B) => Never(inbox'[p], A, B)
             /\ casting[p] /\ Has(inbox[p], Requests(id)) => Has(inbox'[p], Requests(id))
             /\ ~casting[p] /\ Has(inbox[p], Offers(id)) => Has(inbox'[p], Offers(id))
             /\ id \in DOMAIN peers[p] /\ peers[p][id].state = "offered" /\ Has(inbox[p], Answers(id)) =>
                   Has(inbox'[p], Answers(id))
  <2>1. /\ casting[p] => Msg(p) \notin Requests(id)
        /\ ~casting[p] => Msg(p) \notin Offers(id)
        /\ id \in DOMAIN peers[p] /\ peers[p][id].state = "offered" => Msg(p) \notin Answers(id)
    BY <1>3, Heard DEF Requests, Offers, Answers, Of
  <2>2. /\ \A A : Has(inbox'[p], A) => Has(inbox[p], A)
        /\ \A A : Has(inbox[p], A) => Msg(p) \in A \/ Has(inbox'[p], A)
        /\ \A A, B : Never(inbox[p], A, B) => Never(inbox'[p], A, B)
    BY <1>3, Heard
  <2>3. QED
    BY <2>1, <2>2
<1>4. QED
  BY <1>1, <1>2, <1>3 DEF Rests

(* A step of the page that broadcasts, seen from a page that watches.      *)
LEMMA CasterTurn ==
  ASSUME PageTyped, NEW p \in Pages, NEW q \in Pages, p # q, conn[p] \in Ids, conn[q] \in Ids,
         UNCHANGED conn, peers'[q] = peers[q], inbox'[q] = inbox[q], outbox'[q] = outbox[q],
         casting[p], Turn(p, conn[q]), ~Restarts(p), ~Hears(p, "disconnectPeer"), InHand(p, q)
  PROVE  InHand(p, q)'
<1> DEFINE P == conn[p]
           Q == conn[q]
<1>1. conn'[p] = P /\ conn'[q] = Q
  OBVIOUS
<1>2. ~Breaks(p, Q)
  <2>1. ASSUME Q \in DOMAIN peers[p], peers[p][Q].state = "stable", Broken(p, Q) PROVE FALSE
    <3>1. Joined(p, q)
      BY <2>1 DEF InHand, Requested, BeforeOffer, OfferUnderWay, BeforeAnswer, AnswerUnderWay,
         BeforeLink, Caller
    <3>2. /\ P \in DOMAIN peers[q] /\ peers[p][Q].remote = peers[q][P].n
          /\ peers[q][P].remote = peers[p][Q].n
      BY <3>1 DEF Joined, Callee
    <3>3. QED
      BY <2>1, <3>2 DEF Broken
  <2>2. QED
    BY <2>1 DEF Breaks, Broken
<1>3. CASE Rests(p, Q)
  <2>1. /\ Unmoved(p, Q) /\ \A A : Has(inbox'[p], A) => Has(inbox[p], A)
        /\ \A A, B : Never(inbox[p], A, B) => Never(inbox'[p], A, B)
        /\ Has(inbox[p], Requests(Q)) => Has(inbox'[p], Requests(Q))
        /\ Q \in DOMAIN peers[p] /\ peers[p][Q].state = "offered" /\ Has(inbox[p], Answers(Q)) =>
               Has(inbox'[p], Answers(Q))
    BY <1>3, RestsEffect
  <2>2. /\ Has(outbox'[p], Offers(Q)) <=> Has(outbox[p], Offers(Q))
        /\ \A n : Has(outbox'[p], OtherOffers(Q, n)) <=> Has(outbox[p], OtherOffers(Q, n))
        /\ Never(outbox[p], Offers(Q), Offers(Q)) => Never(outbox'[p], Offers(Q), Offers(Q))
    BY <1>3, NeutralQueue DEF Rests
  <2>3. (NoOffer(p, q) => NoOffer(p, q)') /\ (NoAnswer(p, q) => NoAnswer(p, q)')
    BY <1>1, <2>1, <2>2 DEF NoOffer, NoAnswer
  <2>4. /\ \A s : Caller(p, q, s) => Caller(p, q, s)'
        /\ \A s : Caller(p, q, s) /\ Callee(p, q, s) => Callee(p, q, s)'
        /\ \A s, t : Caller(p, q, s) /\ Callee(p, q, t) => Callee(p, q, t)'
    BY <1>1, <2>1, <2>3 DEF Caller, Callee, Unmoved
  <2>5. /\ Q \in DOMAIN peers'[p] <=> Q \in DOMAIN peers[p]
        /\ Q \in DOMAIN peers[p] =>
              /\ peers'[p][Q].n = peers[p][Q].n /\ peers'[p][Q].asked = peers[p][Q].asked
              /\ peers'[p][Q].remote = peers[p][Q].remote
    BY <2>1 DEF Unmoved
  <2>6. Requested(p, q) => Requested(p, q)'
    BY <1>1, <2>1, <2>3, <2>5 DEF Requested
  <2>7. BeforeOffer(p, q) => BeforeOffer(p, q)'
    BY <1>1, <2>3, <2>4 DEF BeforeOffer
  <2>8. OfferUnderWay(p, q) => OfferUnderWay(p, q)'
    <3>1. Caller(p, q, "offered") => Q \in DOMAIN peers[p]
      BY DEF Caller
    <3>2. QED
      BY <1>1, <2>2, <2>3, <2>4, <2>5, <3>1 DEF OfferUnderWay
  <2>9. BeforeAnswer(p, q) => BeforeAnswer(p, q)'
    BY <2>3, <2>4 DEF BeforeAnswer
  <2>10. AnswerUnderWay(p, q) => AnswerUnderWay(p, q)'
    <3>1. Caller(p, q, "offered") => Q \in DOMAIN peers[p] /\ peers[p][Q].state = "offered"
      BY DEF Caller
    <3>2. QED
      BY <1>1, <2>1, <2>4, <3>1 DEF AnswerUnderWay
  <2>11. BeforeLink(p, q) => BeforeLink(p, q)'
    BY <1>1, <2>4, <2>5 DEF BeforeLink, Caller
  <2>12. Joined(p, q) => Joined(p, q)'
    BY <1>1, <2>4, <2>5 DEF Joined, Caller
  <2>13. QED
    BY <2>6, <2>7, <2>8, <2>9, <2>10, <2>11, <2>12 DEF InHand
<1>4. CASE IsAskedFor(p, Q)
  <2>1. /\ Msg(p) \in Requests(Q) /\ \A A : Has(inbox'[p], A) => Has(inbox[p], A)
        /\ \A A : Msg(p) \in A => Has(inbox[p], A)
        /\ \A A, B : Never(inbox[p], A, B) /\ Msg(p) \in A => ~Has(inbox'[p], B)
    BY <1>4, Heard DEF IsAskedFor, Requests, Of
  <2>2. Requested(p, q)
    BY <2>1 DEF InHand, BeforeOffer, OfferUnderWay, BeforeAnswer, AnswerUnderWay, BeforeLink, Joined, Caller
  <2>3. ~Has(inbox'[p], Requests(Q) \cup Answers(Q))
    BY <2>1, <2>2 DEF Requested
  <2>4. ~Has(inbox'[p], Requests(Q)) /\ ~Has(inbox'[p], Answers(Q))
    BY <2>3 DEF Has
  <2>5. BeforeOffer(p, q)'
    BY <1>1, <1>4, <2>2, <2>4 DEF IsAskedFor, Requested, BeforeOffer, Caller, NoOffer, NoAnswer
  <2>6. QED
    BY <2>5 DEF InHand
<1>5. CASE SendsOffer(p, Q)
  <2> DEFINE n == peers[p][Q].n
             m == Offer(Q, n)
             ms == <<m>> \o Candidates(Q, n)
  <2>1. BeforeOffer(p, q)
    BY <1>5 DEF SendsOffer, Moves, InHand, Requested, OfferUnderWay, BeforeAnswer, AnswerUnderWay,
       BeforeLink, Joined, Caller
  <2>2. n \in Serials
    BY <1>5, PeerMapsAre DEF SendsOffer, Moves, PageTyped, Peer
  <2>3. m \in Outward /\ m.kind = "offer" /\ m.id = Q /\ m.n = n /\ m \in Offers(Q)
    BY <2>2, OutwardMessages, MessagesAre DEF Offers, Of
  <2>4. /\ ms \in Seq(Outward) /\ Has(ms, Offers(Q)) /\ Never(ms, Offers(Q), Offers(Q))
        /\ ~Has(ms, OtherOffers(Q, n))
    <3>1. /\ \A A : A \cap Kind("candidate") = {} /\ m \notin A => ~Has(ms, A)
          /\ \A A : m \in A => Has(ms, A)
          /\ \A A, B : B \cap Kind("candidate") = {} => Never(ms, A, B)
          /\ ms \in Seq(Outward)
      BY <2>2, <2>3, SentToPartner
    <3>2. Offers(Q) \cap Kind("candidate") = {} /\ OtherOffers(Q, n) \cap Kind("candidate") = {}
          /\ m \notin OtherOffers(Q, n)
      BY <2>3 DEF OtherOffers, Offers, Of, Kind
    <3> HIDE DEF ms, m, n
    <3>3. QED
      BY <2>3, <3>1, <3>2
  <2>5. outbox'[p] = outbox[p] \o ms /\ UNCHANGED inbox /\ peers'[p][Q].n = n
        /\ Q \in DOMAIN peers'[p] /\ peers'[p][Q].state = "offered"
    BY <1>5 DEF SendsOffer, Moves
  <2> HIDE DEF ms, m
  <2>6. ~Has(outbox[p], Offers(Q)) /\ ~Has(outbox[p], OtherOffers(Q, n)) /\ outbox[p] \in Seq(Outward)
    <3>1. ~Has(outbox[p], Offers(Q))
      BY <2>1 DEF BeforeOffer, NoOffer
    <3>2. QED
      BY <3>1, PartsOf DEF Has, PageTyped
  <2>7. Has(outbox[p] \o ms, Offers(Q)) /\ ~Has(outbox[p] \o ms, OtherOffers(Q, n))
    BY <2>4, <2>6, ConcatHas
  <2>8. Never(outbox[p], Offers(Q), Offers(Q))
    BY <2>6 DEF Has, Never
  <2>9. Never(outbox[p] \o ms, Offers(Q), Offers(Q))
    BY <2>4, <2>6, <2>8, ConcatNever
  <2>10. ~Has(inbox[q], Offers(P)) /\ ~Has(inbox[q], OtherOffers(P, n)) /\ Never(inbox[q], Offers(P), Offers(P))
    <3>1. ~Has(inbox[q], Offers(P))
      BY <2>1 DEF BeforeOffer, NoOffer
    <3>2. QED
      BY <3>1, PartsOf DEF Has, Never
  <2> HIDE DEF n
  <2>11. OfferUnderWay(p, q)'
    BY <1>1, <2>1, <2>5, <2>7, <2>9, <2>10 DEF BeforeOffer, OfferUnderWay, Caller, NoAnswer
  <2>12. QED
    BY <2>11 DEF InHand
<1>6. CASE TakesAnswer(p, Q)
  <2>1. /\ Msg(p) \in Answers(Q) /\ \A A : Has(inbox'[p], A) => Has(inbox[p], A)
        /\ \A A : Msg(p) \in A => Has(inbox[p], A)
    BY <1>6, Heard DEF TakesAnswer, Answers, Of
  <2>2. Q \in DOMAIN peers[p] /\ peers[p][Q].state = "offered" /\ Has(inbox[p], Answers(Q))
    BY <1>6, <2>1 DEF TakesAnswer, Moves
  <2>3. AnswerUnderWay(p, q)
    BY <2>2 DEF InHand, Requested, BeforeOffer, OfferUnderWay, BeforeAnswer, BeforeLink, Joined,
       Caller, NoAnswer
  <2>4. Msg(p).n = peers[q][P].n
    BY <2>1, <2>3 DEF AnswerUnderWay, OtherAnswers
  <2>5. BeforeLink(p, q)'
    BY <1>1, <1>6, <2>1, <2>3, <2>4 DEF TakesAnswer, Moves, AnswerUnderWay, BeforeLink, Caller, Callee, NoOffer
  <2>6. QED
    BY <2>5 DEF InHand
<1>7. CASE AppliesAnswer(p, Q)
  <2>1. BeforeLink(p, q)
    BY <1>7 DEF AppliesAnswer, Moves, InHand, Requested, BeforeOffer, OfferUnderWay, BeforeAnswer,
       AnswerUnderWay, Joined, Caller
  <2>2. Joined(p, q)'
    BY <1>1, <1>7, <2>1 DEF AppliesAnswer, Moves, BeforeLink, Joined, Caller, Callee, NoOffer
  <2>3. QED
    BY <2>2 DEF InHand
<1>8. ~IsOffered(p, Q)
  BY DEF IsOffered
<1>9. ~SendsAnswer(p, Q)
  BY DEF SendsAnswer, Moves, InHand, Requested, BeforeOffer, OfferUnderWay, BeforeAnswer,
     AnswerUnderWay, BeforeLink, Joined, Caller
<1>10. QED
  BY <1>2, <1>3, <1>4, <1>5, <1>6, <1>7, <1>8, <1>9 DEF Turn

(* A step of a page that watches, seen from the page that broadcasts.      *)
LEMMA ViewerTurn ==
  ASSUME PageTyped, NEW p \in Pages, NEW q \in Pages, p # q, conn[p] \in Ids, conn[q] \in Ids,
         UNCHANGED conn, peers'[p] = peers[p], inbox'[p] = inbox[p], outbox'[p] = outbox[p],
         ~casting[q], Turn(q, conn[p]), ~Restarts(q), ~Hears(q, "disconnectPeer"), InHand(p, q)
  PROVE  InHand(p, q)'
<1> DEFINE P == conn[p]
           Q == conn[q]
<1>1. conn'[p] = P /\ conn'[q] = Q /\ (\A s : Caller(p, q, s)' <=> Caller(p, q, s))
  BY DEF Caller
<1>2. ~Breaks(q, P)
  <2>1. ASSUME P \in DOMAIN peers[q], peers[q][P].state = "stable", Broken(q, P) PROVE FALSE
    <3>1. AnswerUnderWay(p, q) \/ BeforeLink(p, q) \/ Joined(p, q)
      BY <2>1 DEF InHand, Requested, BeforeOffer, OfferUnderWay, BeforeAnswer, Callee
    <3>2. /\ Q \in DOMAIN peers[p] /\ peers[q][P].remote = peers[p][Q].n
          /\ peers[p][Q].state = "stable" => peers[p][Q].remote = peers[q][P].n
      BY <3>1 DEF AnswerUnderWay, BeforeLink, Joined, Callee, Caller
    <3>3. QED
      BY <2>1, <3>2 DEF Broken
  <2>2. QED
    BY <2>1 DEF Breaks, Broken
<1>3. CASE Rests(q, P)
  <2>1. /\ Unmoved(q, P) /\ \A A : Has(inbox'[q], A) => Has(inbox[q], A)
        /\ \A A, B : Never(inbox[q], A, B) => Never(inbox'[q], A, B)
        /\ Has(inbox[q], Offers(P)) => Has(inbox'[q], Offers(P))
    BY <1>3, RestsEffect
  <2>2. /\ Has(outbox'[q], Answers(P)) <=> Has(outbox[q], Answers(P))
        /\ \A n : Has(outbox'[q], OtherAnswers(P, n)) <=> Has(outbox[q], OtherAnswers(P, n))
    BY <1>3, NeutralQueue DEF Rests
  <2>3. (NoOffer(p, q) => NoOffer(p, q)') /\ (NoAnswer(p, q) => NoAnswer(p, q)')
    BY <1>1, <2>1, <2>2 DEF NoOffer, NoAnswer
  <2>4. /\ \A s : Callee(p, q, s) => Callee(p, q, s)'
        /\ P \in DOMAIN peers'[q] <=> P \in DOMAIN peers[q]
        /\ P \in DOMAIN peers[q] => peers'[q][P].n = peers[q][P].n
    BY <1>1, <2>1, <2>3 DEF Callee, Unmoved
  <2>5. \A s : Callee(p, q, s) => P \in DOMAIN peers[q]
    BY DEF Callee
  <2>6. Requested(p, q) => Requested(p, q)'
    BY <1>1, <2>2, <2>3, <2>4 DEF Requested
  <2>7. BeforeOffer(p, q) => BeforeOffer(p, q)'
    BY <1>1, <2>3, <2>4 DEF BeforeOffer
  <2>8. OfferUnderWay(p, q) => OfferUnderWay(p, q)'
    BY <1>1, <2>1, <2>3, <2>4 DEF OfferUnderWay
  <2>9. BeforeAnswer(p, q) => BeforeAnswer(p, q)'
    BY <1>1, <2>3, <2>4 DEF BeforeAnswer
  <2>10. AnswerUnderWay(p, q) => AnswerUnderWay(p, q)'
    BY <1>1, <2>2, <2>4, <2>5 DEF AnswerUnderWay
  <2>11. BeforeLink(p, q) => BeforeLink(p, q)'
    BY <1>1, <2>4, <2>5 DEF BeforeLink
  <2>12. Joined(p, q) => Joined(p, q)'
    BY <1>1, <2>4, <2>5 DEF Joined
  <2>13. QED
    BY <2>6, <2>7, <2>8, <2>9, <2>10, <2>11, <2>12 DEF InHand
<1>4. CASE IsOffered(q, P)
  <2>1. /\ Msg(q) \in Offers(P) /\ Msg(q) \in Message /\ \A A : Has(inbox'[q], A) => Has(inbox[q], A)
        /\ \A A : Msg(q) \in A => Has(inbox[q], A)
        /\ \A A, B : Never(inbox[q], A, B) /\ Msg(q) \in A => ~Has(inbox'[q], B)
    BY <1>4, Heard DEF IsOffered, Offers, Of
  <2>2. OfferUnderWay(p, q)
    BY <2>1 DEF InHand, Requested, BeforeOffer, BeforeAnswer, AnswerUnderWay, BeforeLink, Joined,
       Callee, NoOffer
  <2>3. Msg(q).n = peers[p][Q].n
    BY <2>1, <2>2 DEF OfferUnderWay, OtherOffers
  <2>4. NoOffer(p, q)'
    BY <1>1, <2>1, <2>2 DEF OfferUnderWay, NoOffer
  <2>5. NoAnswer(p, q)'
    BY <1>1, <1>4, <2>2 DEF OfferUnderWay, NoAnswer, IsOffered
  <2>6. Callee(p, q, "answering")'
    BY <1>1, <1>4, <2>3, <2>4 DEF IsOffered, Callee
  <2>7. BeforeAnswer(p, q)'
    BY <1>1, <2>2, <2>5, <2>6 DEF OfferUnderWay, BeforeAnswer
  <2>8. QED
    BY <2>7 DEF InHand
<1>5. CASE SendsAnswer(q, P)
  <2> DEFINE n == peers[q][P].n
             m == Answer(P, n, peers[q][P].asked)
             ms == <<m>> \o Candidates(P, n)
  <2>1. BeforeAnswer(p, q)
    BY <1>5 DEF SendsAnswer, Moves, InHand, Requested, BeforeOffer, OfferUnderWay, AnswerUnderWay,
       BeforeLink, Joined, Callee
  <2>2. n \in Serials /\ peers[q][P].asked \in 0..MaxPeers
    BY <1>5, PeerMapsAre DEF SendsAnswer, Moves, PageTyped, Peer
  <2>3. m \in Outward /\ m.kind = "answer" /\ m.id = P /\ m.n = n /\ m \in Answers(P)
    BY <2>2, OutwardMessages, MessagesAre DEF Answers, Of
  <2>4. ms \in Seq(Outward) /\ Has(ms, Answers(P)) /\ ~Has(ms, OtherAnswers(P, n))
    <3>1. /\ \A A : A \cap Kind("candidate") = {} /\ m \notin A => ~Has(ms, A)
          /\ \A A : m \in A => Has(ms, A)
          /\ ms \in Seq(Outward)
      BY <2>2, <2>3, SentToPartner
    <3>2. OtherAnswers(P, n) \cap Kind("candidate") = {} /\ m \notin OtherAnswers(P, n)
      BY <2>3 DEF OtherAnswers, Answers, Of, Kind
    <3> HIDE DEF ms, m, n
    <3>3. QED
      BY <2>3, <3>1, <3>2
  <2>5. outbox'[q] = outbox[q] \o ms /\ UNCHANGED inbox /\ peers'[q][P].n = n
        /\ P \in DOMAIN peers'[q] /\ peers'[q][P].state = "stable"
        /\ peers'[q][P].remote = peers[q][P].asked
    BY <1>5 DEF SendsAnswer, Moves
  <2> HIDE DEF ms, m
  <2>6. /\ ~Has(outbox[q], OtherAnswers(P, n)) /\ ~Has(inbox[p], OtherAnswers(Q, n))
        /\ outbox[q] \in Seq(Outward)
    <3>1. ~Has(outbox[q], Answers(P)) /\ ~Has(inbox[p], Answers(Q))
      BY <2>1 DEF BeforeAnswer, NoAnswer
    <3>2. QED
      BY <3>1, PartsOf DEF Has, PageTyped
  <2>7. Has(outbox[q] \o ms, Answers(P)) /\ ~Has(outbox[q] \o ms, OtherAnswers(P, n))
    <3>1. \A A : Has(outbox[q] \o ms, A) <=> Has(outbox[q], A) \/ Has(ms, A)
      BY <2>4, <2>6, ConcatHas
    <3>2. QED
      BY <2>4, <2>6, <3>1
  <2> HIDE DEF n
  <2>8. Callee(p, q, "stable")'
    BY <1>1, <2>1, <2>5 DEF BeforeAnswer, Callee, NoOffer
  <2>9. AnswerUnderWay(p, q)'
    BY <1>1, <2>1, <2>5, <2>6, <2>7, <2>8 DEF BeforeAnswer, AnswerUnderWay
  <2>10. QED
    BY <2>9 DEF InHand
<1>6. ~IsAskedFor(q, P)
  BY DEF IsAskedFor
<1>7. ~SendsOffer(q, P) /\ ~TakesAnswer(q, P) /\ ~AppliesAnswer(q, P)
  BY DEF SendsOffer, TakesAnswer, AppliesAnswer, Moves, InHand, Requested, BeforeOffer, OfferUnderWay,
     BeforeAnswer, AnswerUnderWay, BeforeLink, Joined, Callee
<1>8. QED
  BY <1>2, <1>3, <1>4, <1>5, <1>6, <1>7 DEF Turn

(* The server takes and sends what does not concern the two.               *)
LEMMA NeutralServing ==
  ASSUME NEW p \in Pages, NEW q \in Pages, conn'[p] = conn[p], conn'[q] = conn[q],
         peers'[p] = peers[p], peers'[q] = peers[q],
         Neutral(outbox[p], outbox'[p], Offers(conn[q])), Neutral(inbox[q], inbox'[q], Offers(conn[p])),
         Neutral(outbox[q], outbox'[q], Answers(conn[p])),
         Neutral(inbox[p], inbox'[p], Requests(conn[q]) \cup Answers(conn[q])),
         InHand(p, q)
  PROVE  InHand(p, q)'
<1> DEFINE P == conn[p]
           Q == conn[q]
<1>1. /\ Has(outbox'[p], Offers(Q)) <=> Has(outbox[p], Offers(Q))
      /\ \A n : Has(outbox'[p], OtherOffers(Q, n)) <=> Has(outbox[p], OtherOffers(Q, n))
      /\ Never(outbox[p], Offers(Q), Offers(Q)) => Never(outbox'[p], Offers(Q), Offers(Q))
  BY PartsOf DEF Neutral
<1>2. /\ Has(inbox'[q], Offers(P)) <=> Has(inbox[q], Offers(P))
      /\ \A n : Has(inbox'[q], OtherOffers(P, n)) <=> Has(inbox[q], OtherOffers(P, n))
      /\ Never(inbox[q], Offers(P), Offers(P)) => Never(inbox'[q], Offers(P), Offers(P))
  BY PartsOf DEF Neutral
<1>3. /\ Has(outbox'[q], Answers(P)) <=> Has(outbox[q], Answers(P))
      /\ \A n : Has(outbox'[q], OtherAnswers(P, n)) <=> Has(outbox[q], OtherAnswers(P, n))
  BY PartsOf DEF Neutral
<1>4. /\ Has(inbox'[p], Answers(Q)) <=> Has(inbox[p], Answers(Q))
      /\ Has(inbox'[p], Requests(Q)) <=> Has(inbox[p], Requests(Q))
      /\ \A n : Has(inbox'[p], OtherAnswers(Q, n)) <=> Has(inbox[p], OtherAnswers(Q, n))
      /\ Never(inbox[p], Requests(Q), Requests(Q) \cup Answers(Q)) =>
            Never(inbox'[p], Requests(Q), Requests(Q) \cup Answers(Q))
  <2>1. /\ Answers(Q) \subseteq Requests(Q) \cup Answers(Q) /\ Requests(Q) \subseteq Requests(Q) \cup Answers(Q)
        /\ \A n : OtherAnswers(Q, n) \subseteq Requests(Q) \cup Answers(Q)
    BY PartsOf
  <2>2. QED
    BY <2>1 DEF Neutral
<1>5. (NoOffer(p, q) => NoOffer(p, q)') /\ (NoAnswer(p, q) => NoAnswer(p, q)')
  BY <1>1, <1>2, <1>3, <1>4 DEF NoOffer, NoAnswer
<1>6. /\ \A s : Caller(p, q, s) => Caller(p, q, s)'
      /\ \A s : Callee(p, q, s) => Callee(p, q, s)'
  BY <1>4, <1>5 DEF Caller, Callee
<1>7. Requested(p, q) => Requested(p, q)'
  BY <1>3, <1>4, <1>5 DEF Requested
<1>8. BeforeOffer(p, q) => BeforeOffer(p, q)'
  BY <1>5, <1>6 DEF BeforeOffer
<1>9. OfferUnderWay(p, q) => OfferUnderWay(p, q)'
  BY <1>1, <1>2, <1>5, <1>6 DEF OfferUnderWay
<1>10. BeforeAnswer(p, q) => BeforeAnswer(p, q)'
  BY <1>5, <1>6 DEF BeforeAnswer
<1>11. AnswerUnderWay(p, q) => AnswerUnderWay(p, q)'
  BY <1>3, <1>4, <1>6 DEF AnswerUnderWay
<1>12. (BeforeLink(p, q) => BeforeLink(p, q)') /\ (Joined(p, q) => Joined(p, q)')
  BY <1>6 DEF BeforeLink, Joined
<1>13. QED
  BY <1>7, <1>8, <1>9, <1>10, <1>11, <1>12 DEF InHand

(* While nothing is lost the server has no connection that no page is      *)
(* online on, and reports none.                                            *)
Calm ==
    faults = 0 =>
        /\ \A c \in sockets : \E p \in Pages : Online(p) /\ conn[p] = c
        /\ \A p \in Pages : \A k \in {"broadcasterLeft", "disconnectPeer"} : ~Has(inbox[p], Kind(k))

(* q, which watches, is about to ask p, or one of them to change its role. *)
Pending(p, q) ==
    \/ starting[q] > 0
    \/ Has(outbox[q], Kind("watcher")) \/ Has(outbox[q], Kind("broadcaster"))
    \/ Has(inbox[q], Kind("broadcaster")) \/ Has(outbox[p], Kind("broadcaster"))

Watches(p, q) ==
    /\ Online(p) /\ Online(q) /\ casting[p] /\ broadcasterId = conn[p] /\ ~casting[q]

Served ==
    /\ Calm
    /\ faults = 0 => \A p, q \in Pages :
          Watches(p, q) => Pending(p, q) \/ conn[q] \in twice \/ InHand(p, q)

LEMMA InitServed == Init => Served
BY DEF Init, PageInit, Online, Served, Calm, Watches, Kind, Has

(* What makes a page ask again stays, or it has asked.                     *)
LEMMA PendingAfter ==
  ASSUME PageTyped, NEW p \in Pages, PageStep(p), Effect(p), faults' = faults
  PROVE  /\ \A q \in Pages \ {p} : starting'[q] = starting[q]
         /\ starting[p] > 0 /\ ~casting'[p] => starting'[p] > 0
         /\ Online(p)' /\ Has(inbox[p], Kind("broadcaster")) /\ ~casting[p] =>
               Has(inbox'[p], Kind("broadcaster")) \/ Has(outbox'[p], Kind("watcher"))
<1>1. faults \in Nat /\ starting \in [Pages -> Nat] /\ inbox[p] \in Seq(Inward)
  BY CastPageAssumption DEF PageTyped
<1>2. ~Fault
  BY <1>1 DEF Fault
<1>3. \/ UNCHANGED starting
      \/ starting' = [starting EXCEPT ![p] = starting[p] + 1]
      \/ starting' = [starting EXCEPT ![p] = starting[p] - 1] /\ casting'[p]
  <2>1. OnMessage(p) => UNCHANGED starting
    BY DEF OnMessage, OnBroadcaster, OnForceStop, OnWatcher, OnOffer, OnAnswer, OnCandidate,
       OnDisconnectPeer, OnBroadcasterLeft, Ignore, castVars
  <2>2. PlayStarted(p) => casting'[p] /\ starting' = [starting EXCEPT ![p] = starting[p] - 1]
    BY DEF PlayStarted, PageTyped
  <2>3. ~PlayFails(p) /\ ~ConnectionDrops(p) /\ ~Leave(p)
    BY <1>2 DEF PlayFails, ConnectionDrops, Leave
  <2>4. StartBroadcast(p) => starting' = [starting EXCEPT ![p] = starting[p] + 1]
    BY DEF StartBroadcast
  <2>5. StopBroadcast(p) => UNCHANGED starting
    BY DEF StopBroadcast
  <2>6. ASSUME NEW id \in Ids,
               \/ SendOffer(p, id) \/ SendAnswer(p, id) \/ ApplyAnswer(p, id)
               \/ OfferFails(p, id) \/ AnswerFails(p, id) \/ ConnectionFails(p, id)
        PROVE  UNCHANGED starting
    BY <2>6 DEF SendOffer, SendAnswer, ApplyAnswer, OfferFails, AnswerFails, ConnectionFails, castVars
  <2>7. QED
    BY <2>1, <2>2, <2>3, <2>4, <2>5, <2>6 DEF PageStep
<1>4. ASSUME Online(p)', Has(inbox[p], Kind("broadcaster")), ~casting[p]
      PROVE  Has(inbox'[p], Kind("broadcaster")) \/ Has(outbox'[p], Kind("watcher"))
  <2>1. CASE inbox'[p] = inbox[p]
    BY <1>4, <2>1
  <2>2. ASSUME NEW k \in Kinds, Hears(p, k), k # "broadcaster"
        PROVE  Has(inbox'[p], Kind("broadcaster"))
    BY <1>4, <2>2, Heard DEF Kind
  <2>3. CASE Hears(p, "broadcaster")
    <3>1. inbox' # inbox
      <4>1. inbox[p] # << >> /\ inbox'[p] = Tail(inbox[p])
        BY <2>3 DEF Hears, PageTyped
      <4>2. QED
        BY <1>1, <4>1, TailDiffers
    <3>2. OnMessage(p)
      BY <1>2, <3>1 DEF PageStep, StartBroadcast, PlayStarted, PlayFails, StopBroadcast, ConnectionDrops,
         Leave, SendOffer, SendAnswer, ApplyAnswer, OfferFails, AnswerFails, ConnectionFails
    <3>3. OnBroadcaster(p)
      BY <2>3, <3>2 DEF OnMessage, OnForceStop, OnWatcher, OnOffer, OnAnswer, OnCandidate,
         OnDisconnectPeer, OnBroadcasterLeft, Receive, Hears, Msg
    <3>4. Send(p, <<Plain("watcher")>>)
      BY <1>4, <3>3 DEF OnBroadcaster
    <3>5. QED
      BY <2>3, <3>4, PlainIsSent DEF Hears
  <2>4. QED
    BY <1>4, <2>1, <2>2, <2>3, StandsAfter
<1>5. (\A q \in Pages \ {p} : starting'[q] = starting[q]) /\ (starting[p] > 0 /\ ~casting'[p] => starting'[p] > 0)
  BY <1>1, <1>3
<1>6. QED
  BY <1>4, <1>5

(* A step of a page takes the exchange a stage further, or leaves it.      *)
LEMMA PageServed ==
  ASSUME Inductive, Served, NEW r \in Pages, PageStep(r), UNCHANGED roomVars
  PROVE  Served'
<1>1. PageTyped /\ Numbered /\ Effect(r) /\ PageTyped'
  BY PageStepEffect DEF Inductive, PagePart, Effect
<1>2. UNCHANGED <<conn, broadcasterId, sockets, twice>>
  BY <1>1 DEF roomVars, history, Effect
<1>3. SUFFICES ASSUME faults' = 0 PROVE Served'
  BY DEF Served, Calm
<1>4. faults = 0 /\ UNCHANGED faults
  <2>1. faults \in Nat /\ (faults' = faults \/ faults' = faults + 1)
    BY <1>1, VideoAfter, CastPageAssumption DEF PageTyped
  <2>2. QED
    BY <1>3, <2>1
<1>5. \A p \in Pages \ {r} : /\ link'[p] = link[p] /\ inbox'[p] = inbox[p] /\ outbox'[p] = outbox[p]
                             /\ casting'[p] = casting[p] /\ peers'[p] = peers[p]
  BY <1>1, OthersKeep
<1>6. \A p \in Pages : Online(p) => Online(p)'
  <2>1. Online(r) => Online(r)'
    <3>1. Online(r) /\ ~Online(r)' => faults' = faults + 1
      BY <1>1, VideoAfter
    <3>2. QED
      BY <1>3, <1>4, <3>1
  <2>2. QED
    BY <1>5, <2>1 DEF Online
<1>7. Calm'
  <2>1. \A p \in Pages : \A A : Has(inbox'[p], A) => Has(inbox[p], A)
    BY <1>1, InboxAfter
  <2>2. QED
    BY <1>2, <1>4, <1>6, <2>1 DEF Served, Calm
<1>8. ASSUME NEW p \in Pages, NEW q \in Pages, Watches(p, q)', ~Pending(p, q)', ~(conn'[q] \in twice')
      PROVE  InHand(p, q)'
  <2>1. p # q /\ casting'[p] /\ ~casting'[q] /\ Online(p)' /\ Online(q)'
    BY <1>8 DEF Watches
  <2>2. Online(p) /\ Online(q)
    <3>1. Online(r)' => Online(r)
      BY <1>1, StandsAfter
    <3>2. QED
      BY <1>5, <2>1, <3>1 DEF Online
  <2>3. Watches(p, q)
    <3>1. casting[p]
      BY <1>1, <1>5, <1>8, <2>1, RoleAfter DEF Pending
    <3>2. ~casting[q]
      BY <1>1, <1>5, <1>8, <2>1, RoleAfter DEF Pending
    <3>3. QED
      BY <1>2, <1>8, <2>2, <3>1, <3>2 DEF Watches
  <2>4. conn[p] \in Ids /\ conn[q] \in Ids
    BY <1>1, <2>2 DEF PageTyped, Numbered
  <2>5. ~Pending(p, q)
    <3>1. Online(r)' => \A k : Has(outbox[r], Kind(k)) => Has(outbox'[r], Kind(k))
      BY <1>1, RoleAfter
    <3>2. ~Has(outbox[q], Kind("watcher")) /\ ~Has(outbox[q], Kind("broadcaster"))
          /\ ~Has(outbox[p], Kind("broadcaster"))
      BY <1>5, <1>8, <2>1, <3>1 DEF Pending
    <3>3. CASE r = q
      <4>1. /\ starting[q] > 0 => starting'[q] > 0
            /\ Has(inbox[q], Kind("broadcaster")) =>
                  Has(inbox'[q], Kind("broadcaster")) \/ Has(outbox'[q], Kind("watcher"))
        BY <1>1, <1>4, <2>1, <2>3, <3>3, PendingAfter DEF Watches
      <4>2. QED
        BY <1>8, <3>2, <4>1 DEF Pending
    <3>4. CASE r # q
      <4>1. starting'[q] = starting[q]
        BY <1>1, <1>4, <3>4, PendingAfter
      <4>2. QED
        BY <1>5, <1>8, <3>2, <3>4, <4>1 DEF Pending
    <3>5. QED
      BY <3>3, <3>4
  <2>6. InHand(p, q)
    BY <1>2, <1>4, <1>8, <2>3, <2>5 DEF Served
  <2>7. \A id : ~Hears(r, "disconnectPeer")
    <3>1. Hears(r, "disconnectPeer") => Has(inbox[r], Kind("disconnectPeer"))
      BY <1>1, Heard DEF Kind
    <3>2. QED
      BY <1>4, <3>1 DEF Served, Calm
  <2>8. CASE r = p
    <3>1. ~Restarts(p)
      BY <1>8, <2>1 DEF Restarts, Pending
    <3>2. Turn(p, conn[q])
      BY <1>1, <1>4, <2>2, <2>4, <2>8, TurnAfter
    <3>3. QED
      BY <1>1, <1>2, <1>5, <2>1, <2>3, <2>4, <2>6, <2>7, <2>8, <3>1, <3>2, CasterTurn DEF Watches
  <2>9. CASE r = q
    <3>1. ~Restarts(q)
      BY <1>8, <2>1 DEF Restarts, Pending
    <3>2. Turn(q, conn[p])
      BY <1>1, <1>4, <2>2, <2>4, <2>9, TurnAfter
    <3>3. QED
      BY <1>1, <1>2, <1>5, <2>1, <2>3, <2>4, <2>6, <2>7, <2>9, <3>1, <3>2, ViewerTurn DEF Watches
  <2>10. CASE r # p /\ r # q
    BY <1>2, <1>5, <2>6, <2>10, SameNeutral, NeutralServing
  <2>11. QED
    BY <2>8, <2>9, <2>10
<1>9. QED
  BY <1>7, <1>8 DEF Served

(* A new connection is nobody's partner; its page asks to watch.           *)
LEMMA ConnectionServed ==
  ASSUME Inductive, Served, NEW r \in Pages, Connection(r)
  PROVE  Served'
<1>1. /\ link[r] = "down" /\ opened' = opened + 1 /\ opened' \in Ids
      /\ link' = [link EXCEPT ![r] = "open"] /\ conn' = [conn EXCEPT ![r] = opened']
      /\ inbox' = [inbox EXCEPT ![r] = << >>] /\ UNCHANGED <<casting, peers>>
      /\ \A q \in Pages \ {r} : outbox'[q] = outbox[q]
      /\ ~casting[r] => Has(outbox'[r], Kind("watcher"))
  BY ConnectEffect DEF Inductive, PagePart, Connection
<1>2. UNCHANGED <<broadcasterId, twice, starting, faults>> /\ sockets' = sockets \cup {opened'}
  BY DEF Connection, Connect, history, castVars
<1>3. PageTyped /\ RolesAreConnected /\ (\A c \in sockets : c <= opened) /\ opened \in Nat
  BY CastPageAssumption DEF Inductive, PagePart, PageTyped, Connected
<1>4. \A p \in Pages \ {r} : /\ conn'[p] = conn[p] /\ link'[p] = link[p] /\ inbox'[p] = inbox[p]
                             /\ Online(p)' = Online(p)
  BY <1>1, <1>3 DEF PageTyped, Online
<1>5. conn'[r] = opened' /\ Online(r)' /\ inbox'[r] = << >> /\ ~Online(r)
  BY <1>1, <1>3 DEF PageTyped, Online
<1>6. Calm'
  <2>1. ASSUME faults = 0, NEW c \in sockets' PROVE \E p \in Pages : Online(p)' /\ conn'[p] = c
    BY <1>2, <1>4, <1>5, <2>1 DEF Served, Calm
  <2>2. ASSUME faults = 0, NEW p \in Pages, NEW k \in {"broadcasterLeft", "disconnectPeer"}
        PROVE  ~Has(inbox'[p], Kind(k))
    BY <1>4, <1>5, <2>2, HasNothing DEF Served, Calm
  <2>3. QED
    BY <1>2, <2>1, <2>2 DEF Calm
<1>7. ASSUME faults = 0, NEW p \in Pages, NEW q \in Pages, Watches(p, q)', ~Pending(p, q)', ~(conn[q] \in twice)
      PROVE  InHand(p, q)'
  <2>1. r # p
    <3>1. broadcasterId # opened'
      <4>1. broadcasterId \in sockets \/ broadcasterId = None
        BY <1>3 DEF RolesAreConnected
      <4>2. QED
        BY <1>1, <1>3, <4>1, Numbers
    <3>2. QED
      BY <1>2, <1>5, <1>7, <3>1 DEF Watches
  <2>2. r # q
    BY <1>1, <1>7 DEF Watches, Pending
  <2>3. Watches(p, q) /\ ~Pending(p, q)
    BY <1>1, <1>2, <1>4, <1>7, <2>1, <2>2 DEF Watches, Pending
  <2>4. InHand(p, q)
    BY <1>7, <2>3 DEF Served
  <2>5. QED
    BY <1>1, <1>4, <2>1, <2>2, <2>4, SameNeutral, NeutralServing
<1>8. ASSUME faults = 0, NEW p \in Pages, NEW q \in Pages, Watches(p, q)', ~Pending(p, q)'
      PROVE  conn'[q] \in twice' \/ InHand(p, q)'
  <2>1. r # q
    BY <1>1, <1>8 DEF Watches, Pending
  <2>2. QED
    BY <1>2, <1>4, <1>7, <1>8, <2>1
<1>9. QED
  BY <1>2, <1>6, <1>8 DEF Served

(* An event is taken and at most a message sent, to the pages in S.        *)
LEMMA EventEffect ==
  ASSUME Inductive, NEW r \in Pages, NEW k \in Kinds, On(r, k), NEW S, NEW m \in Inward,
         inbox' = inbox \/ inbox' = Emit(inbox, S, m)
  PROVE  /\ UNCHANGED <<conn, link, casting, starting, peers, faults, sockets>>
         /\ Online(r) /\ Event(r) \in Outward /\ Event(r).kind = k
         /\ \A x \in Pages : \A I : x # r \/ Event(r) \notin I => Neutral(outbox[x], outbox'[x], I)
         /\ \A x \in Pages : \A A : x # r \/ Event(r) \notin A =>
               (Has(outbox[x], A) => Has(outbox'[x], A))
         /\ \A A : Has(outbox'[r], A) => Has(outbox[r], A)
         /\ \A A, B : Never(outbox[r], A, B) =>
               Never(outbox'[r], A, B) /\ (Event(r) \in A => ~Has(outbox'[r], B))
         /\ \A A : Event(r) \in A => Has(outbox[r], A)
         /\ \A x \in Pages : \A I : conn[x] \notin S \/ m \notin I => Neutral(inbox[x], inbox'[x], I)
         /\ \A x \in Pages : inbox'[x] = inbox[x] \/ inbox'[x] = Append(inbox[x], m)
         /\ \A x \in Pages : \A A : Has(inbox[x], A) => Has(inbox'[x], A)
<1>1. PageTyped
  BY DEF Inductive, PagePart
<1>2. /\ UNCHANGED <<conn, link, casting, starting, peers, faults, sockets>>
      /\ Online(r) /\ outbox[r] # << >> /\ Event(r) = Head(outbox[r]) /\ Head(outbox[r]).kind = k
      /\ outbox' = [outbox EXCEPT ![r] = Tail(outbox[r])]
  BY DEF On, Event, linkVars, castVars, peerVars
<1>3. outbox[r] \in Seq(Outward) /\ outbox'[r] = Tail(outbox[r]) /\ \A x \in Pages \ {r} : outbox'[x] = outbox[x]
  BY <1>1, <1>2 DEF PageTyped
<1>4. Event(r) \in Outward
  BY <1>2, <1>3, TailIndices
<1>5. \A x \in Pages : \A I : x # r \/ Event(r) \notin I => Neutral(outbox[x], outbox'[x], I)
  BY <1>2, <1>3, TailNeutral, SameNeutral
<1>6. /\ \A A : Has(outbox'[r], A) => Has(outbox[r], A)
      /\ \A A : Event(r) \in A => Has(outbox[r], A)
      /\ \A A : Event(r) \notin A => (Has(outbox[r], A) => Has(outbox'[r], A))
      /\ \A A, B : Never(outbox[r], A, B) =>
            Never(outbox'[r], A, B) /\ (Event(r) \in A => ~Has(outbox'[r], B))
  <2> DEFINE q == outbox[r]
  <2>1. q \in Seq(Outward) /\ q # << >> /\ Event(r) = Head(q) /\ outbox'[r] = Tail(q)
    BY <1>2, <1>3
  <2> HIDE DEF q
  <2>2. \A A : /\ Has(Tail(q), A) => Has(q, A)
               /\ Head(q) \in A => Has(q, A)
               /\ Has(q, A) => Head(q) \in A \/ Has(Tail(q), A)
    BY <2>1, TailHas
  <2>3. \A A, B : Never(q, A, B) => Never(Tail(q), A, B) /\ (Head(q) \in A => ~Has(Tail(q), B))
    BY <2>1, TailNever
  <2>4. QED
    BY <2>1, <2>2, <2>3 DEF q
<1>8. \A x \in Pages : inbox[x] \in Seq(Inward)
  BY <1>1 DEF PageTyped
<1>9. \A x \in Pages : /\ inbox'[x] = inbox[x] \/ inbox'[x] = Append(inbox[x], m)
                       /\ conn[x] \notin S => inbox'[x] = inbox[x]
                       /\ \A A : Has(inbox[x], A) => Has(inbox'[x], A)
  <2>1. CASE inbox' = inbox
    BY <2>1
  <2>2. CASE inbox' = Emit(inbox, S, m)
    <3>1. inbox \in [Pages -> Seq(Inward)]
      BY <1>1 DEF PageTyped
    <3>2. \A x \in Pages : inbox'[x] =
             IF Online(x) /\ conn[x] \in S \cap sockets THEN Append(inbox[x], m) ELSE inbox[x]
      BY <2>2, <3>1, EmitEffect
    <3>3. \A x \in Pages : \A A : Has(inbox[x], A) => Has(inbox'[x], A)
      BY <2>2, <3>1, EmittedToInboxes
    <3>4. QED
      BY <3>2, <3>3
  <2>3. QED
    BY <2>1, <2>2
<1>10. \A x \in Pages : \A I : conn[x] \notin S \/ m \notin I => Neutral(inbox[x], inbox'[x], I)
  BY <1>8, <1>9, AppendNeutral, SameNeutral
<1>11. \A x \in Pages : \A A : x # r \/ Event(r) \notin A =>
          (Has(outbox[x], A) => Has(outbox'[x], A))
  BY <1>3, <1>6
<1>12. QED
  BY <1>2, <1>4, <1>5, <1>6, <1>9, <1>10, <1>11

(* The events of the others, and those that are not about p or q.          *)
LEMMA EventServed ==
  ASSUME Inductive, Served, NEW r \in Pages, NEW k \in Kinds \ {"broadcaster"}, On(r, k),
         NEW S, NEW m \in Inward, inbox' = inbox \/ inbox' = Emit(inbox, S, m),
         m.kind \notin {"broadcasterLeft", "disconnectPeer"},
         UNCHANGED broadcasterId, twice \subseteq twice'
  PROVE  /\ Calm'
         /\ \A p, q \in Pages :
               Watches(p, q)' =>
                  /\ Watches(p, q) /\ conn[p] \in Ids /\ conn[q] \in Ids /\ p # q /\ conn[p] # conn[q]
                  /\ r # q \/ k # "watcher" => (Pending(p, q) => Pending(p, q)')
                  /\ faults' = 0 => Pending(p, q) \/ conn[q] \in twice' \/ InHand(p, q)
<1> k \in Kinds
  OBVIOUS
<1>1. /\ UNCHANGED <<conn, link, casting, starting, peers, faults, sockets>>
      /\ Event(r).kind = k
      /\ \A x \in Pages : \A A : x # r \/ Event(r) \notin A => (Has(outbox[x], A) => Has(outbox'[x], A))
      /\ \A x \in Pages : \A I : m \notin I => Neutral(inbox[x], inbox'[x], I)
      /\ \A x \in Pages : \A A : Has(inbox[x], A) => Has(inbox'[x], A)
  <2>1. UNCHANGED <<conn, link, casting, starting, peers, faults, sockets>> /\ Event(r).kind = k
    BY EventEffect
  <2>2. \A x \in Pages : \A A : x # r \/ Event(r) \notin A => (Has(outbox[x], A) => Has(outbox'[x], A))
    BY EventEffect
  <2>3. \A x \in Pages : \A I : conn[x] \notin S \/ m \notin I => Neutral(inbox[x], inbox'[x], I)
    BY EventEffect
  <2>4. \A x \in Pages : \A A : Has(inbox[x], A) => Has(inbox'[x], A)
    BY EventEffect
  <2>5. QED
    BY <2>1, <2>2, <2>3, <2>4
<1>2. Calm'
  <2>1. \A p \in Pages : \A l \in {"broadcasterLeft", "disconnectPeer"} :
           Has(inbox'[p], Kind(l)) => Has(inbox[p], Kind(l))
    <3>1. \A l \in {"broadcasterLeft", "disconnectPeer"} : m \notin Kind(l)
      BY DEF Kind
    <3>2. QED
      BY <1>1, <3>1 DEF Neutral
  <2>2. QED
    BY <1>1, <2>1 DEF Served, Calm, Online
<1>3. ASSUME NEW p \in Pages, NEW q \in Pages, Watches(p, q)'
      PROVE  /\ Watches(p, q) /\ conn[p] \in Ids /\ conn[q] \in Ids /\ p # q /\ conn[p] # conn[q]
             /\ r # q \/ k # "watcher" => (Pending(p, q) => Pending(p, q)')
             /\ faults' = 0 => Pending(p, q) \/ conn[q] \in twice' \/ InHand(p, q)
  <2>1. Watches(p, q) /\ p # q
    BY <1>1, <1>3 DEF Watches, Online
  <2>2. conn[p] \in Ids /\ conn[q] \in Ids /\ conn[p] # conn[q]
    BY <2>1 DEF Watches, Inductive, PagePart, PageTyped, Numbered
  <2>3. r # q \/ k # "watcher" => (Pending(p, q) => Pending(p, q)')
    <3>1. Event(r) \notin Kind("broadcaster") /\ (k # "watcher" => Event(r) \notin Kind("watcher"))
      BY <1>1 DEF Kind
    <3>2. QED
      BY <1>1, <3>1 DEF Pending
  <2>4. faults' = 0 => Pending(p, q) \/ conn[q] \in twice' \/ InHand(p, q)
    BY <1>1, <2>1 DEF Served
  <2>5. QED
    BY <2>1, <2>2, <2>3, <2>4
<1>4. QED
  BY <1>2, <1>3

(* Every other page is told of the new broadcaster, and is about to ask.   *)
LEMMA BroadcasterServed ==
  ASSUME Inductive, Served, NEW r \in Pages, Broadcaster(r)
  PROVE  Served'
<1> DEFINE stop == Plain("forceStop")
           news == Plain("broadcaster")
           former == {broadcasterId} \ {Me(r)}
           all == Ids \ {Me(r)}
           box == Emit(inbox, former, stop)
<1>1. /\ On(r, "broadcaster") /\ broadcasterId' = conn[r] /\ UNCHANGED twice
      /\ inbox' = Emit(box, all, news)
  BY DEF Broadcaster, Me
<1>2. stop \in Inward /\ news \in Inward /\ stop.kind = "forceStop" /\ news \in Kind("broadcaster")
      /\ news.kind = "broadcaster"
  BY MessagesAre DEF Kinds, Inward, Named, Kind
<1> HIDE DEF stop, news
<1>3. /\ inbox \in [Pages -> Seq(Inward)] /\ Online(r) /\ UNCHANGED <<conn, link, casting, starting, faults, sockets>>
  BY <1>1 DEF Inductive, PagePart, PageTyped, On, linkVars, castVars
<1>4. box = Emit(inbox, former, stop)
  OBVIOUS
<1> HIDE DEF box, former, all
<1>5. /\ box \in [Pages -> Seq(Inward)]
       /\ \A x \in Pages : box[x] =
             IF Online(x) /\ conn[x] \in former \cap sockets THEN Append(inbox[x], stop) ELSE inbox[x]
  BY <1>2, <1>3, <1>4, EmitEffect
<1>6. \A x \in Pages : \A A : Has(box[x], A) => Has(inbox[x], A) \/ stop \in A
  BY <1>2, <1>3, <1>5, AppendHas
<1>7. /\ \A x \in Pages : inbox'[x] = IF Online(x) /\ conn[x] \in all \cap sockets
                                     THEN Append(box[x], news) ELSE box[x]
  BY <1>1, <1>2, <1>5, EmitEffect
<1>8. Calm'
  <2>1. ASSUME NEW x \in Pages, NEW l \in {"broadcasterLeft", "disconnectPeer"}, Has(inbox'[x], Kind(l))
        PROVE  Has(inbox[x], Kind(l))
    <3>1. news \notin Kind(l) /\ stop \notin Kind(l)
      BY <1>2 DEF Kind
    <3>2. Has(box[x], Kind(l))
      BY <1>2, <1>5, <1>7, <2>1, <3>1, AppendHas
    <3>3. QED
      BY <1>6, <3>1, <3>2
  <2>2. QED
    BY <1>3, <2>1 DEF Served, Calm, Online
<1>9. ASSUME NEW p \in Pages, NEW q \in Pages, Watches(p, q)'
      PROVE  Pending(p, q)'
  <2>1. Online(p) /\ Online(q) /\ p # q /\ conn[p] = conn[r]
    BY <1>1, <1>3, <1>9 DEF Watches, Online
  <2>2. conn[q] \in Ids /\ conn[q] # conn[r] /\ conn[q] \in sockets
    BY <2>1 DEF Inductive, PagePart, PageTyped, Numbered, Connected
  <2>3. inbox'[q] = Append(box[q], news)
    BY <1>7, <2>1, <2>2 DEF Me, all
  <2>4. Has(inbox'[q], Kind("broadcaster"))
    BY <1>2, <1>5, <2>3, AppendHas
  <2>5. QED
    BY <2>4 DEF Pending
<1>10. QED
  BY <1>8, <1>9 DEF Served

(* A request reaches the broadcaster when nothing is left of an earlier    *)
(* one, or else the page counts as one that asked twice.                   *)
LEMMA WatcherServed ==
  ASSUME Inductive, Served, NEW r \in Pages, Watcher(r)
  PROVE  Served'
<1> DEFINE m == About("watcher", conn[r])
           S == {broadcasterId}
<1>1. /\ On(r, "watcher") /\ UNCHANGED broadcasterId /\ twice \subseteq twice'
      /\ inbox' = inbox \/ inbox' = Emit(inbox, S, m)
      /\ broadcasterId # conn[r] =>
            /\ inbox' = Emit(inbox, S, m)
            /\ BeingServed(r) => conn[r] \in twice'
  BY DEF Watcher, Me
<1>2. Online(r) /\ conn[r] \in Ids
  BY <1>1 DEF On, Inductive, PagePart, PageTyped, Numbered
<1>3. m \in Inward /\ m.kind = "watcher" /\ m.id = conn[r]
  BY <1>2, MessagesAre DEF Kinds, Inward, Named
<1> HIDE DEF m, S
<1>4. "watcher" \in Kinds /\ "watcher" \in Kinds \ {"broadcaster"}
  BY DEF Kinds
<1>5. /\ Calm'
      /\ \A p, q \in Pages :
            Watches(p, q)' =>
               /\ Watches(p, q) /\ conn[p] \in Ids /\ conn[q] \in Ids /\ p # q /\ conn[p] # conn[q]
               /\ r # q => (Pending(p, q) => Pending(p, q)')
               /\ faults' = 0 => Pending(p, q) \/ conn[q] \in twice' \/ InHand(p, q)
  BY <1>1, <1>3, <1>4, EventServed
<1>6. /\ UNCHANGED <<conn, link, casting, starting, peers, faults, sockets>>
      /\ Event(r).kind = "watcher"
      /\ \A x \in Pages : \A I : x # r \/ Event(r) \notin I => Neutral(outbox[x], outbox'[x], I)
      /\ \A A : Has(outbox'[r], A) => Has(outbox[r], A)
      /\ \A x \in Pages : \A I : conn[x] \notin S \/ m \notin I => Neutral(inbox[x], inbox'[x], I)
  <2> DEFINE k == "watcher"
  <2>1. k \in Kinds /\ On(r, k) /\ m \in Inward /\ (inbox' = inbox \/ inbox' = Emit(inbox, S, m))
    BY <1>1, <1>3, <1>4
  <2> HIDE DEF k
  <2>2. UNCHANGED <<conn, link, casting, starting, peers, faults, sockets>> /\ Event(r).kind = k
    BY <2>1, EventEffect
  <2>3. /\ \A x \in Pages : \A I : x # r \/ Event(r) \notin I => Neutral(outbox[x], outbox'[x], I)
        /\ \A A : Has(outbox'[r], A) => Has(outbox[r], A)
    BY <2>1, EventEffect
  <2>4. \A x \in Pages : \A I : conn[x] \notin S \/ m \notin I => Neutral(inbox[x], inbox'[x], I)
    BY <2>1, EventEffect
  <2>5. QED
    BY <2>2, <2>3, <2>4 DEF k
<1>7. ASSUME NEW p \in Pages, NEW q \in Pages, Watches(p, q)', faults' = 0, ~Pending(p, q)', conn[q] \notin twice'
      PROVE  InHand(p, q)'
  <2> DEFINE P == conn[p]
             Q == conn[q]
  <2>1. /\ Watches(p, q) /\ P \in Ids /\ Q \in Ids /\ p # q /\ P # Q /\ S = {P}
        /\ conn'[p] = P /\ conn'[q] = Q
    BY <1>5, <1>6, <1>7 DEF Watches, S
  <2>2. inbox[p] \in Seq(Inward) /\ inbox \in [Pages -> Seq(Inward)]
    BY DEF Inductive, PagePart, PageTyped
  <2>3. CASE r # q
    <3>1. InHand(p, q)
      BY <1>5, <1>7, <2>3
    <3>2. m \notin Requests(Q) \cup Answers(Q)
      <4>1. conn[r] # Q
        BY <1>2, <2>3 DEF Inductive, PagePart, Numbered, None, Ids
      <4>2. QED
        BY <1>3, <4>1 DEF Requests, Answers, Of
    <3>3. Event(r) \notin Offers(Q) /\ Event(r) \notin Answers(P)
      BY <1>6 DEF Offers, Answers, Of
    <3>4. /\ Neutral(outbox[p], outbox'[p], Offers(Q)) /\ Neutral(outbox[q], outbox'[q], Answers(P))
          /\ Neutral(inbox[p], inbox'[p], Requests(Q) \cup Answers(Q))
      BY <1>6, <3>2, <3>3
    <3>5. Neutral(inbox[q], inbox'[q], Offers(P))
      BY <1>6, <2>1
    <3>6. QED
      BY <1>6, <2>1, <3>1, <3>4, <3>5, NeutralServing
  <2>4. CASE r = q
    <3>1. broadcasterId # conn[r] /\ broadcasterId = P
      BY <2>1, <2>4 DEF Watches
    <3>2. inbox' = Emit(inbox, S, m) /\ ~BeingServed(q)
      BY <1>1, <1>7, <2>4, <3>1
    <3>3. /\ Q \notin DOMAIN peers[p] /\ P \notin DOMAIN peers[q]
          /\ \A x \in Range(inbox[p]) : ~(x.kind = "watcher" /\ x.id = Q)
          /\ \A x \in Range(outbox[p]) : ~(x.kind = "offer" /\ x.id = Q)
          /\ \A x \in Range(inbox[q]) : ~(x.kind = "offer" /\ x.id = P)
          /\ \A x \in Range(outbox[q]) : ~(x.kind = "answer" /\ x.id = P)
      BY <3>1, <3>2 DEF BeingServed, Me
    <3>4. /\ ~Has(inbox[p], Requests(Q)) /\ ~Has(outbox[p], Offers(Q)) /\ ~Has(inbox[q], Offers(P))
          /\ ~Has(outbox[q], Answers(P))
      BY <3>3 DEF Range, Has, Requests, Offers, Answers, Of
    <3>5. Online(p) /\ conn[p] \in S \cap sockets
      BY <2>1 DEF Watches, Inductive, Connected
    <3>6. inbox'[p] = Append(inbox[p], m)
      <4>1. inbox' = Emit(inbox, S, m) /\ m \in Inward /\ inbox \in [Pages -> Seq(Inward)]
        BY <1>3, <2>2, <3>2
      <4>2. \A x \in Pages : inbox'[x] =
               IF Online(x) /\ conn[x] \in S \cap sockets THEN Append(inbox[x], m) ELSE inbox[x]
        BY <4>1 DEF Emit
      <4>3. QED
        BY <3>5, <4>2
    <3>7. m \in Requests(Q) /\ m \notin Offers(P)
      BY <1>3, <2>4 DEF Requests, Offers, Of, Inward
    <3>8. Has(inbox'[p], Requests(Q))
      BY <1>3, <2>2, <3>6, <3>7, AppendHas
    <3>9. Never(inbox'[p], Requests(Q), Requests(Q) \cup Answers(Q))
      <4>1. Never(inbox[p], Requests(Q), Requests(Q) \cup Answers(Q))
        BY <3>4 DEF Never, Has
      <4>2. QED
        BY <1>3, <2>2, <3>4, <3>6, <4>1, AppendNever
    <3>10. ~Has(outbox'[q], Answers(P)) /\ ~Has(outbox'[p], Offers(Q)) /\ ~Has(inbox'[q], Offers(P))
      <4>1. Event(r) \notin Offers(Q)
        BY <1>6 DEF Offers, Of
      <4>2. Neutral(outbox[p], outbox'[p], Offers(Q)) /\ Neutral(inbox[q], inbox'[q], Offers(P))
        BY <1>6, <2>1, <3>7, <4>1
      <4>3. QED
        BY <1>6, <2>4, <3>4, <4>2 DEF Neutral
    <3>11. Requested(p, q)'
      BY <1>6, <2>1, <3>3, <3>8, <3>9, <3>10 DEF Requested, NoOffer
    <3>12. QED
      BY <3>11 DEF InHand
  <2>5. QED
    BY <2>3, <2>4
<1>8. QED
  BY <1>5, <1>6, <1>7 DEF Served

(* An offer on its way from p is relayed to q.                             *)
LEMMA OfferRelayed ==
  ASSUME NEW p \in Pages, NEW q \in Pages, p # q,
         UNCHANGED <<conn, peers>>, NEW T, outbox[p] \in Seq(T), outbox[p] # << >>, outbox'[p] = Tail(outbox[p]),
         outbox'[q] = outbox[q], inbox'[p] = inbox[p],
         Head(outbox[p]) \in Offers(conn[q]), InHand(p, q),
         inbox[q] \in Seq(Inward), NEW m \in Inward, inbox'[q] = Append(inbox[q], m),
         m \in Offers(conn[p]), m.n = Head(outbox[p]).n
  PROVE  InHand(p, q)'
<1> DEFINE P == conn[p]
           Q == conn[q]
           n == peers[p][Q].n
<1>1. /\ Has(outbox[p], Offers(Q)) /\ (Never(outbox[p], Offers(Q), Offers(Q)) => ~Has(Tail(outbox[p]), Offers(Q)))
      /\ \A A : Head(outbox[p]) \in A => Has(outbox[p], A)
  BY TailHas, TailNever
<1>2. OfferUnderWay(p, q)
  BY <1>1 DEF InHand, Requested, BeforeOffer, BeforeAnswer, AnswerUnderWay, BeforeLink, Joined, Callee, NoOffer
<1>3. m \notin OtherOffers(P, n)
  BY <1>1, <1>2 DEF OfferUnderWay, OtherOffers
<1>4. ~Has(outbox'[p], Offers(Q)) /\ ~Has(outbox'[p], OtherOffers(Q, n))
      /\ Never(outbox'[p], Offers(Q), Offers(Q))
  <2>1. ~Has(outbox'[p], Offers(Q))
    BY <1>1, <1>2 DEF OfferUnderWay
  <2>2. QED
    BY <2>1, PartsOf DEF Has, Never
<1>5. /\ Has(inbox'[q], Offers(P)) /\ ~Has(inbox'[q], OtherOffers(P, n))
      /\ Never(inbox'[q], Offers(P), Offers(P))
  <2>1. ~Has(inbox[q], Offers(P)) /\ ~Has(inbox[q], OtherOffers(P, n)) /\ Never(inbox[q], Offers(P), Offers(P))
    BY <1>1, <1>2 DEF OfferUnderWay
  <2>2. Has(inbox'[q], Offers(P)) /\ ~Has(inbox'[q], OtherOffers(P, n))
    BY <1>3, <2>1, AppendHas
  <2>3. Never(inbox'[q], Offers(P), Offers(P))
    BY <2>1, AppendNever
  <2>4. QED
    BY <2>2, <2>3
<1> HIDE DEF n
<1>6. peers'[p] = peers[p] /\ peers'[q] = peers[q] /\ conn'[p] = P /\ conn'[q] = Q /\ peers'[p][Q].n = n
  BY DEF n
<1>7. OfferUnderWay(p, q)'
  BY <1>2, <1>4, <1>5, <1>6 DEF OfferUnderWay, Caller, NoAnswer
<1>8. QED
  BY <1>7 DEF InHand

(* An answer on its way from q is relayed to p.                            *)
LEMMA AnswerRelayed ==
  ASSUME NEW p \in Pages, NEW q \in Pages, p # q,
         UNCHANGED <<conn, peers>>, NEW T, outbox[q] \in Seq(T), outbox[q] # << >>, outbox'[q] = Tail(outbox[q]),
         outbox'[p] = outbox[p], inbox'[q] = inbox[q],
         Head(outbox[q]) \in Answers(conn[p]), InHand(p, q),
         inbox[p] \in Seq(Inward), NEW m \in Inward, inbox'[p] = Append(inbox[p], m),
         m \in Answers(conn[q]), m.n = Head(outbox[q]).n
  PROVE  InHand(p, q)'
<1> DEFINE P == conn[p]
           Q == conn[q]
           n == peers[q][P].n
<1>1. /\ \A A : Has(Tail(outbox[q]), A) => Has(outbox[q], A)
      /\ \A A : Head(outbox[q]) \in A => Has(outbox[q], A)
  BY TailHas
<1>2. m \notin Requests(Q)
  BY DEF Answers, Requests, Of
<1>3. \A A : Has(inbox'[p], A) <=> Has(inbox[p], A) \/ m \in A
  BY AppendHas
<1>4. Has(outbox[q], Answers(P))
  BY <1>1
<1>5. /\ peers'[p] = peers[p] /\ peers'[q] = peers[q] /\ conn'[p] = P /\ conn'[q] = Q
      /\ NoOffer(p, q) => NoOffer(p, q)'
  BY DEF NoOffer
<1>6. /\ \A s : Caller(p, q, s) => Caller(p, q, s)'
      /\ \A s : Callee(p, q, s) => Callee(p, q, s)'
  BY <1>2, <1>3, <1>5 DEF Caller, Callee
<1>7. AnswerUnderWay(p, q) \/ BeforeLink(p, q) \/ Joined(p, q)
  BY <1>4 DEF InHand, Requested, BeforeOffer, OfferUnderWay, BeforeAnswer, NoAnswer
<1>8. ASSUME AnswerUnderWay(p, q) PROVE AnswerUnderWay(p, q)'
  <2>1. m \notin OtherAnswers(Q, n) /\ ~Has(inbox[p], OtherAnswers(Q, n)) /\ ~Has(outbox[q], OtherAnswers(P, n))
    BY <1>1, <1>8 DEF AnswerUnderWay, OtherAnswers
  <2>2. Has(inbox'[p], Answers(Q)) /\ ~Has(inbox'[p], OtherAnswers(Q, n)) /\ ~Has(outbox'[q], OtherAnswers(P, n))
    BY <1>1, <1>3, <2>1
  <2>3. QED
    BY <1>5, <1>6, <1>8, <2>2 DEF AnswerUnderWay
<1>9. (BeforeLink(p, q) => BeforeLink(p, q)') /\ (Joined(p, q) => Joined(p, q)')
  BY <1>5, <1>6 DEF BeforeLink, Joined
<1>10. QED
  BY <1>7, <1>8, <1>9 DEF InHand

(* An offer or an answer moves on to the partner it is for.                *)
LEMMA RelayServed ==
  ASSUME Inductive, Served, NEW r \in Pages, Relay(r)
  PROVE  Served'
<1>1. PICK k \in {"offer", "answer", "candidate"} : On(r, k)
  BY DEF Relay
<1> DEFINE e == Event(r)
           m == [e EXCEPT !.id = conn[r]]
           S == {e.id}
<1>2. inbox' = Emit(inbox, S, m) /\ UNCHANGED <<broadcasterId, twice>>
  BY DEF Relay, Me, history
<1>3. k \in Kinds /\ k \in Kinds \ {"broadcaster"} /\ k # "watcher"
  BY DEF Kinds
<1>4. /\ UNCHANGED <<conn, opened, link, peers, made>>
      /\ Online(r) /\ conn[r] \in Ids /\ conn[r] \in sockets
      /\ outbox[r] \in Seq(Outward) /\ outbox[r] # << >> /\ outbox'[r] = Tail(outbox[r])
      /\ e = Head(outbox[r]) /\ e \in Outward /\ e.kind = k
      /\ \A q \in Pages \ {r} : outbox'[q] = outbox[q]
  BY <1>1, <1>3, TakingTrickled
<1>5. m \in Inward /\ m.kind = k /\ m.id = conn[r] /\ m.n = e.n
  BY <1>4, RelayedMessage
<1> HIDE DEF m, e, S
<1>6. /\ Calm'
      /\ \A p, q \in Pages :
            Watches(p, q)' =>
               /\ Watches(p, q) /\ conn[p] \in Ids /\ conn[q] \in Ids /\ p # q /\ conn[p] # conn[q]
               /\ Pending(p, q) => Pending(p, q)'
               /\ faults' = 0 => Pending(p, q) \/ conn[q] \in twice' \/ InHand(p, q)
  BY <1>1, <1>2, <1>3, <1>5, EventServed
<1>7. /\ \A x \in Pages : \A I : x # r \/ Event(r) \notin I => Neutral(outbox[x], outbox'[x], I)
      /\ \A x \in Pages : \A I : conn[x] \notin S \/ m \notin I => Neutral(inbox[x], inbox'[x], I)
  BY <1>1, <1>2, <1>3, <1>5, EventEffect
<1>8. ASSUME NEW p \in Pages, NEW q \in Pages, Watches(p, q)', faults' = 0, ~Pending(p, q)', conn[q] \notin twice'
      PROVE  InHand(p, q)'
  <2> DEFINE P == conn[p]
             Q == conn[q]
  <2>1. /\ Watches(p, q) /\ P \in Ids /\ Q \in Ids /\ p # q /\ P # Q /\ InHand(p, q)
        /\ conn'[p] = P /\ conn'[q] = Q /\ peers'[p] = peers[p] /\ peers'[q] = peers[q]
    BY <1>4, <1>6, <1>8
  <2>2. /\ inbox \in [Pages -> Seq(Inward)]
        /\ \A x \in Pages : conn[x] = conn[r] => x = r
    BY <1>4 DEF Inductive, PagePart, PageTyped, Numbered, None, Ids
  <2>3. \A x \in Pages : inbox'[x] = IF Online(x) /\ conn[x] \in S \cap sockets
                                     THEN Append(inbox[x], m) ELSE inbox[x]
    BY <1>2, <2>2 DEF Emit
  <2>4. Online(p) /\ Online(q) /\ P \in sockets /\ Q \in sockets
    BY <2>1 DEF Watches, Inductive, Connected
  <2>5. CASE r = p /\ e \in Offers(Q)
    <3>1. e.id = Q /\ m \in Offers(P) /\ S = {Q}
      BY <1>4, <1>5, <2>5 DEF Offers, Of, Inward, S
    <3>2. inbox'[q] = Append(inbox[q], m) /\ inbox'[p] = inbox[p]
      BY <2>1, <2>3, <2>4, <3>1
    <3>3. QED
      BY <1>4, <1>5, <2>1, <2>2, <2>5, <3>1, <3>2, OfferRelayed
  <2>6. CASE r = q /\ e \in Answers(P)
    <3>1. e.id = P /\ m \in Answers(Q) /\ S = {P}
      BY <1>4, <1>5, <2>6 DEF Answers, Of, Inward, S
    <3>2. inbox'[p] = Append(inbox[p], m) /\ inbox'[q] = inbox[q]
      BY <2>1, <2>3, <2>4, <3>1
    <3>3. QED
      BY <1>4, <1>5, <2>1, <2>2, <2>6, <3>1, <3>2, AnswerRelayed
  <2>7. CASE ~(r = p /\ e \in Offers(Q)) /\ ~(r = q /\ e \in Answers(P))
    <3>1. Neutral(outbox[p], outbox'[p], Offers(Q)) /\ Neutral(outbox[q], outbox'[q], Answers(P))
      BY <1>7, <2>7 DEF e
    <3>2. Neutral(inbox[q], inbox'[q], Offers(P))
      <4>1. Q \notin S \/ m \notin Offers(P)
        BY <1>4, <1>5, <2>2, <2>7 DEF Offers, Of, Outward, S
      <4>2. QED
        BY <1>7, <4>1
    <3>3. Neutral(inbox[p], inbox'[p], Requests(Q) \cup Answers(Q))
      <4>1. P \notin S \/ m \notin Requests(Q) \cup Answers(Q)
        BY <1>3, <1>4, <1>5, <2>2, <2>7 DEF Requests, Answers, Of, Outward, S
      <4>2. QED
        BY <1>7, <4>1
    <3>4. QED
      BY <2>1, <3>1, <3>2, <3>3, NeutralServing
  <2>8. QED
    BY <2>5, <2>6, <2>7
<1>9. QED
  BY <1>4, <1>6, <1>8 DEF Served

(* While nothing is lost no connection ends.                               *)
LEMMA DisconnectServed ==
  ASSUME Inductive, Served, NEW c \in Ids, Disconnect(c)
  PROVE  Served'
<1>1. faults # 0 /\ faults' = faults
  BY DEF Disconnect, Served, Calm
<1>2. QED
  BY <1>1 DEF Served, Calm

LEMMA NextServed == Inductive /\ Served /\ [Next]_vars => Served'
<1> SUFFICES ASSUME Inductive, Served, [Next]_vars
             PROVE  Served'
  OBVIOUS
<1>1. ASSUME NEW p \in Pages, UNCHANGED roomVars,
             \/ Transmit(p) \/ Called(p) \/ AsBroadcaster(p) \/ AsWatcher(p)
             \/ InEitherRole(p) \/ Fails(p) \/ Away(p)
      PROVE  Served'
  <2>1. PageStep(p)
    BY <1>1 DEF Transmit, Called, AsBroadcaster, AsWatcher, InEitherRole, Fails, Away, PageStep, OnMessage
  <2>2. QED
    BY <1>1, <2>1, PageServed
<1>2. CASE UNCHANGED vars
  BY <1>2 DEF vars, roomVars, history, pageVars, linkVars, castVars, peerVars, Served, Calm, Watches,
     Pending, Online, InHand, Requested, BeforeOffer, OfferUnderWay, BeforeAnswer, AnswerUnderWay,
     BeforeLink, Joined, Caller, Callee, NoOffer, NoAnswer
<1>3. QED
  BY <1>1, <1>2, ConnectionServed, BroadcasterServed, WatcherServed, RelayServed, DisconnectServed DEF Next

----------------------------------------------------------------------------
THEOREM InductiveInvariant == Spec => []Inductive
BY InitInductive, NextInductive, PTL DEF Spec

(* The page, the messages under way and the roles of the server keep their *)
(* types; a peer connection is only kept for a partner that has an id.     *)
THEOREM TypeCorrect == Spec => []TypeOK
<1>1. Inductive => TypeOK
  BY PageTypedIsOK DEF Inductive, PagePart, RoomTyped, TypeOK
<1>2. QED
  BY <1>1, InductiveInvariant, PTL

(* The server names as broadcaster and counts as watchers only connections *)
(* it has, and each in one role, however pages come, go and change roles.  *)
THEOREM RolesStayConnected == Spec => []RolesAreConnected
<1>1. Inductive => RolesAreConnected
  BY DEF Inductive, Connected
<1>2. QED
  BY <1>1, InductiveInvariant, PTL

(* Two pages never go on broadcasting, with any number of awaits, events   *)
(* and takeovers in between: a page that broadcasts on a connection the    *)
(* server has had for its broadcaster is the broadcaster, or an event is   *)
(* under way that will settle it.                                          *)
THEOREM OneBroadcasterGoesOn == Spec => []CasterIsRegistered
<1>1. Inductive => CasterIsRegistered
  <2> SUFFICES ASSUME Inductive, Quiet, NEW p \in Pages, Online(p), casting[p], Me(p) \in registered
               PROVE  broadcasterId = Me(p)
    BY DEF CasterIsRegistered
  <2>1. inbox[p] = << >> /\ outbox[p] = << >>
    BY DEF Quiet, PageQuiet
  <2>2. QED
    BY <2>1, HasNothing DEF Inductive, Stopped, Me
<1>2. QED
  BY <1>1, InductiveInvariant, PTL

(* When the only broadcaster there has been is gone and nothing is under   *)
(* way, no page shows it: broadcasterLeft comes after every offer of this  *)
(* broadcaster, also to a page that did not show it yet, and a page that   *)
(* ignores it, for it broadcasts itself by then, is about to take over.    *)
(* At most one fault is allowed, for a page that had no connection when    *)
(* the broadcaster left is not told.                                       *)
THEOREM WhatLeftIsNotShown == Spec => []LeftIsNotShown
<1>1. Inductive /\ Watched => LeftIsNotShown
  <2> SUFFICES ASSUME Inductive, Watched, Quiet, faults <= 1, Cardinality(registered) = 1,
                      NEW p \in Pages, Online(p), shown[p] # None, shown[p] \notin sockets
               PROVE  FALSE
    BY DEF LeftIsNotShown
  <2>1. shown[p] \in Ids /\ faults \in {0, 1}
    BY CastPageAssumption DEF Inductive, PagePart, PageTyped
  <2>2. PICK b : registered = {b}
    <3>1. IsFiniteSet(Ids)
      BY FS_Interval, CastPageAssumption DEF Ids
    <3>2. IsFiniteSet(registered)
      BY <3>1, FS_Subset DEF Inductive, RoomTyped
    <3>3. QED
      BY <3>2, FS_Singleton
  <2>3. b \in Ids /\ b <= opened
    BY <2>2 DEF Inductive, RoomTyped, Connected
  <2>4. ~Live(shown[p])
    BY DEF Inductive, Connected, Live
  <2>5. shown[p] = b
    <3>1. shown[p] <= opened /\ (shown[p] = b \/ ~Live(b))
      BY <2>1, <2>2 DEF Watched, OffersFollow, Sees, OneHasLeft
    <3>2. QED
      BY <2>1, <2>3, <2>4, <3>1 DEF Watched, FaultsAreCounted
  <2>6. Has(inbox[p], Kind("broadcasterLeft")) \/ Has(outbox[p], Kind("broadcaster"))
    BY <2>1, <2>2, <2>3, <2>5 DEF Watched, AllTurnDark, TurnsDark
  <2>7. inbox[p] = << >> /\ outbox[p] = << >>
    BY DEF Quiet, PageQuiet
  <2>8. QED
    BY <2>6, <2>7, HasNothing
<1>2. Spec => []Watched
  BY InitWatched, NextWatched, InductiveInvariant, PTL DEF Spec
<1>3. QED
  BY <1>1, <1>2, InductiveInvariant, PTL

(* Of two pages that have each other's description each has the other's    *)
(* candidate, however awaits, takeovers and reconnections cross it: a      *)
(* candidate is queued that comes before its description is applied, and   *)
(* a peer connection that is replaced takes its queue with it, but not the *)
(* candidates of the description it is replaced for.                       *)
THEOREM CandidatesArrive == Spec => []CandidatesReach
<1>1. Inductive /\ Trickled => CandidatesReach
  <2> SUFFICES ASSUME Inductive, Trickled, Quiet, NEW p \in Pages, NEW q \in Pages,
                      Linked(p, q), peers[q][Me(p)].n \in Trickling
               PROVE  peers[q][Me(p)].n \in peers[p][Me(q)].added
    BY DEF CandidatesReach
  <2> DEFINE n == peers[q][conn[p]].n
  <2>1. /\ Online(p) /\ Online(q) /\ conn[q] \in DOMAIN peers[p] /\ conn[p] \in DOMAIN peers[q]
        /\ peers[p][conn[q]].remote = n
    BY DEF Linked, Me
  <2>2. n \in Serials
    BY <2>1, PeerMapsAre, PeersAre DEF Inductive, PagePart, PageTyped
  <2>3. Reaches(p, q, n)
    BY <2>1, <2>2 DEF Me, Trickled, CandidatesFollow
  <2>4. inbox[p] = << >> /\ outbox[q] = << >>
    BY <2>1 DEF Quiet, PageQuiet
  <2>5. QED
    BY <2>1, <2>3, <2>4, HasNothing DEF Me, Reaches, UnderWay, ToServer
<1>2. Spec => []Trickled
  BY InitTrickled, NextTrickled, InductiveInvariant, PTL DEF Spec
<1>3. QED
  BY <1>1, <1>2, InductiveInvariant, PTL

(* When all is quiet and nothing was lost, every page that does not        *)
(* broadcast has a peer connection with the broadcaster in which each has  *)
(* the other's description, unless it asked to watch while something was   *)
(* left of an earlier request: however often pages start, stop and take    *)
(* over, and whichever handler an await is crossed by.                     *)
THEOREM EveryoneIsServed == Spec => []ServedUnlessAskedTwice
<1>1. Inductive /\ Served => ServedUnlessAskedTwice
  <2> SUFFICES ASSUME Inductive, Served, Quiet, faults = 0, NEW p \in Pages, NEW q \in Pages,
                      Online(p), Online(q), casting[p], broadcasterId = Me(p), ~casting[q], Me(q) \notin twice
               PROVE  Linked(p, q)
    BY DEF ServedUnlessAskedTwice
  <2>1. /\ starting[q] = 0
        /\ inbox[p] = << >> /\ outbox[p] = << >> /\ inbox[q] = << >> /\ outbox[q] = << >>
        /\ \A x \in Pages : \A id \in DOMAIN peers[x] : peers[x][id].state \in {"offered", "stable"}
    BY DEF Quiet, PageQuiet
  <2>2. \A A : /\ ~Has(inbox[p], A) /\ ~Has(outbox[p], A)
               /\ ~Has(inbox[q], A) /\ ~Has(outbox[q], A)
    BY <2>1, HasNothing
  <2>3. ~Pending(p, q)
    BY <2>1, <2>2 DEF Pending
  <2>4. InHand(p, q)
    BY <2>3 DEF Served, Watches, Me
  <2>5. Joined(p, q)
    BY <2>1, <2>2, <2>4 DEF InHand, Requested, BeforeOffer, OfferUnderWay, BeforeAnswer, AnswerUnderWay,
       BeforeLink, Caller, Callee
  <2>6. QED
    BY <2>5 DEF Joined, Caller, Callee, Linked, Me
<1>2. Spec => []Served
  BY InductiveInvariant, InitServed, NextServed, PTL DEF Spec
<1>3. QED
  BY <1>1, <1>2, InductiveInvariant, PTL
=============================================================================
