---------------------------- MODULE FileHubProofs ----------------------------
(***************************************************************************)
(* Theorems about FileHub, for any pages and any bounds.                   *)
(***************************************************************************)
EXTENDS FileHub, CastPageProofs

Places == {"none", "reading", "ended", "removed", "closed"}

Mail == [to : Ids, msg : Inward]

HubTyped ==
    /\ \A p \in Pages : Len(inbox[p]) <= Capacity
    /\ broadcaster \in Ids \cup {None}
    /\ watchers \in SUBSET Ids
    /\ served \in [Ids -> Places]
    /\ job \in [Ids -> SUBSET Mail]
    /\ registered \in SUBSET Ids /\ refused \in SUBSET Ids
    /\ lost \in SUBSET Ids /\ panicked \in SUBSET Ids

(* RegisteredAreServed with what it rests on: a page is online on a        *)
(* connection whose goroutine reads, and numbers are used in order.        *)
Serving ==
    /\ \A p \in Pages : Online(p) => served[conn[p]] = "reading"
    /\ \A c \in Ids : c > opened => served[c] = "none"
    /\ \A c \in registered : c <= opened
    /\ RegisteredAreServed

(* Only a goroutine that leaves tells of its leaving, and at most one      *)
(* former broadcaster is to be stopped.                                    *)
Leaving(s) == s.msg.kind \in {"disconnectPeer", "broadcasterLeft"}

Jobs ==
    \A c \in Ids :
        /\ served[c] \in {"none", "ended"} => job[c] = {}
        /\ \A s \in job[c] : Leaving(s) <=> served[c] \in {"removed", "closed"}
        /\ \A s, t \in job[c] : s.msg.kind = "forceStop" /\ t.msg.kind = "forceStop" => s.to = t.to

(* A page that broadcasts on a connection of a former broadcaster is about *)
(* to take over again or to be stopped, unless it lost the message.        *)
StopIsDue(p) ==
    \E c \in Ids : \E s \in job[c] : s.to = conn[p] /\ s.msg.kind = "forceStop"

Stopped ==
    \A p \in Pages : Online(p) /\ casting[p] /\ conn[p] \in registered =>
        \/ broadcaster = conn[p]
        \/ Has(outbox[p], Kind("broadcaster"))
        \/ Has(inbox[p], Kind("forceStop"))
        \/ StopIsDue(p)
        \/ conn[p] \in lost

(* A page that does not broadcast is known to the hub or has asked.        *)
Known ==
    \A p \in Pages : Online(p) /\ ~casting[p] =>
        conn[p] \in watchers \cup refused \/ Has(outbox[p], Kind("watcher"))

(* A peer connection and what leads to one take a broadcaster, and offers  *)
(* go to somebody else than the one who makes them.                        *)
Another(id) == \E r \in registered : r # id

Requested(c, s) ==
    /\ s.msg.kind = "watcher" => s.to \in registered /\ s.to # c /\ s.msg.id = c
    /\ s.msg.kind = "offer" => Another(s.to)

Requests ==
    /\ broadcaster # None => broadcaster \in registered
    /\ \A c \in Ids : \A s \in job[c] : Requested(c, s)
    /\ \A p \in Pages :
          /\ \A id : Has(inbox[p], Of("watcher", id)) => conn[p] \in registered /\ id # conn[p]
          /\ Has(inbox[p], Kind("offer")) => Another(conn[p])
          /\ \A id : Has(outbox[p], Of("offer", id)) => Another(id)
          /\ \A id \in DOMAIN peers[p] : /\ registered # {}
                                         /\ peers[p][id].state = "offering" => Another(id)

(* The only broadcaster is told of each watcher that leaves, after the     *)
(* last request of this watcher.                                           *)
Sole(p) == Online(p) /\ registered = {conn[p]}

MayStay(p, id) ==
    \/ served[id] = "reading"
    \/ \E s \in job[id] : s.to = conn[p] /\ s.msg \in Of("disconnectPeer", id)

Settled(p, id) ==
    /\ id \in DOMAIN peers[p] => Has(inbox[p], Of("disconnectPeer", id))
    /\ Followed(inbox[p], Of("watcher", id), Of("disconnectPeer", id))

Told ==
    lost = {} /\ panicked = {} =>
        \A p \in Pages : Sole(p) => /\ broadcaster = conn[p]
                                    /\ \A id \in Ids : MayStay(p, id) \/ Settled(p, id)

Inductive ==
    PagePart /\ HubTyped /\ Serving /\ Jobs /\ Stopped /\ Known /\ Requests /\ Told

----------------------------------------------------------------------------
LEMMA InitInductive == Init => Inductive
<1> SUFFICES ASSUME Init PROVE Inductive
  OBVIOUS
<1>1. PagePart
  BY PageInitPart DEF Init
<1>2. \A p \in Pages : ~Online(p) /\ inbox[p] = << >> /\ outbox[p] = << >> /\ DOMAIN peers[p] = {}
  BY PeerMapsAre DEF Init, PageInit, Online
<1>3. HubTyped
  BY <1>2, FileHubAssumption DEF Init, HubTyped, Places
<1>4. Serving /\ Jobs
  BY <1>2, Numbers DEF Init, Serving, Jobs, RegisteredAreServed
<1>5. Stopped /\ Known /\ Told
  BY <1>2 DEF Stopped, Known, Told, Sole
<1>6. Requests
  BY <1>2, HasNothing DEF Init, Requests
<1>7. QED
  BY <1>1, <1>3, <1>4, <1>5, <1>6 DEF Inductive

LEMMA OwnerIs ==
  ASSUME PagePart, NEW c \in Ids, Current(c)
  PROVE  /\ Owner(c) \in Pages /\ Online(Owner(c)) /\ conn[Owner(c)] = c
         /\ \A q \in Pages : conn[q] = c => q = Owner(c)
<1>1. PICK p \in Pages : conn[p] = c /\ Online(p)
  BY DEF Current
<1>2. c # None
  BY Numbers
<1>3. \A q \in Pages : conn[q] = c => q = p
  BY <1>1, <1>2 DEF PagePart, Numbered
<1>4. Owner(c) \in Pages /\ conn[Owner(c)] = c
  BY <1>1 DEF Owner
<1>5. QED
  BY <1>1, <1>3, <1>4

LEMMA OnlinePages ==
  ASSUME Inductive, NEW p \in Pages, Online(p)
  PROVE  /\ conn[p] \in Ids /\ Current(conn[p]) /\ Owner(conn[p]) = p /\ conn[p] <= opened
         /\ served[conn[p]] = "reading" /\ ~Ended(conn[p])
<1>1. conn[p] \in Ids /\ conn[p] <= opened
  BY DEF Inductive, PagePart, PageTyped, Numbered
<1>2. Current(conn[p]) /\ served[conn[p]] = "reading"
  BY DEF Current, Inductive, Serving
<1>3. QED
  BY <1>1, <1>2, OwnerIs DEF Inductive, Ended

LEMMA TellIs ==
  ASSUME NEW S \in SUBSET Ids, NEW m \in Inward
  PROVE  /\ Tell(S, m) \in SUBSET Mail
         /\ \A s \in Tell(S, m) : s.to \in S /\ s.msg = m
         /\ \A c \in S : [to |-> c, msg |-> m] \in Tell(S, m)
BY DEF Tell, Mail

----------------------------------------------------------------------------
(* What pages do *)

(* A watcher that has left is answered no more once the page was told.     *)
LEMMA PageSettles ==
  ASSUME Inductive, NEW p \in Pages, Effect(p), UNCHANGED hubVars, Sole(p)', NEW id \in Ids,
         Settled(p, id)
  PROVE  Settled(p, id)'
<1> DEFINE gone == Of("disconnectPeer", id)
           asks == Of("watcher", id)
<1>1. /\ PageTyped /\ UNCHANGED <<conn, registered>> /\ Online(p)' /\ inbox[p] \in Seq(Inward)
      /\ registered = {conn[p]}
  BY DEF Inductive, PagePart, PageTyped, Effect, Sole, hubVars, history
<1>2. UNCHANGED link
  BY <1>1 DEF Effect, Talks
<1>3. /\ id \in DOMAIN peers[p] => Has(inbox[p], gone)
      /\ Followed(inbox[p], asks, gone)
  BY DEF Settled
<1>4. CASE inbox'[p] = inbox[p]
  <2>1. ASSUME NEW k, Hears(p, k) PROVE FALSE
    <3>1. inbox[p] # << >> /\ inbox'[p] = Tail(inbox[p])
      BY <1>1, <2>1 DEF Hears, PageTyped
    <3>2. Len(Tail(inbox[p])) # Len(inbox[p])
      BY <1>1, <3>1
    <3>3. QED
      BY <1>4, <3>1, <3>2
  <2>2. Keeps(p)
    BY <2>1 DEF Effect, Peering
  <2>3. QED
    BY <1>3, <1>4, <2>2 DEF Keeps, Settled
<1>5. ASSUME NEW k \in Kinds, Hears(p, k) PROVE Settled(p, id)'
  <2>1. /\ inbox[p] # << >> /\ Msg(p) = Head(inbox[p]) /\ Msg(p).kind = k /\ Msg(p) \in Message
        /\ inbox'[p] = Tail(inbox[p])
    BY <1>1, <1>5 DEF Hears, PageTyped, Msg, Inward
  <2>2. /\ Followed(inbox'[p], asks, gone)
        /\ Has(inbox[p], gone) => Msg(p) \in gone \/ Has(inbox'[p], gone)
        /\ Msg(p) \in asks => Has(inbox'[p], gone)
        /\ Msg(p) \in Kind("offer") => Has(inbox[p], Kind("offer"))
    <3>1. PICK A, B : A = asks /\ B = gone
      OBVIOUS
    <3>2. Followed(inbox[p], A, B) /\ inbox[p] \in Seq(Inward) /\ inbox[p] # << >>
      BY <1>1, <1>3, <2>1, <3>1
    <3>3. Followed(Tail(inbox[p]), A, B) /\ (Head(inbox[p]) \in A => Has(Tail(inbox[p]), B))
      BY <3>2, TailHas
    <3>4. Followed(inbox'[p], asks, gone) /\ (Msg(p) \in asks => Has(inbox'[p], gone))
      BY <2>1, <3>1, <3>3
    <3>5. Has(inbox[p], gone) => Msg(p) \in gone \/ Has(inbox'[p], gone)
      <4>1. Has(inbox[p], B) => Head(inbox[p]) \in B \/ Has(Tail(inbox[p]), B)
        BY <3>2, TailHas
      <4>2. QED
        BY <2>1, <3>1, <4>1
    <3>6. Msg(p) \in Kind("offer") => Has(inbox[p], Kind("offer"))
      BY <1>1, <2>1, TailHas
    <3>7. QED
      BY <3>4, <3>5, <3>6
  <2>3. ASSUME id \in DOMAIN peers'[p] PROVE Has(inbox'[p], gone)
    <3>1. Msg(p) \notin gone
      <4>1. inbox' # inbox
        <5>1. Len(Tail(inbox[p])) # Len(inbox[p])
          BY <1>1, <2>1
        <5>2. QED
          BY <2>1, <5>1
      <4>2. QED
        BY <1>2, <2>3, <4>1 DEF Effect, Peering, Of
    <3>2. CASE id \in DOMAIN peers[p]
      BY <1>3, <2>2, <3>1, <3>2
    <3>3. CASE id \notin DOMAIN peers[p]
      <4>1. Msg(p).id = id /\ (Msg(p).kind = "watcher" \/ Msg(p).kind = "offer")
        BY <2>3, <3>3 DEF Effect, Peering, Keeps, Makes, Hears
      <4>2. CASE Msg(p).kind = "watcher"
        BY <2>1, <2>2, <4>1, <4>2 DEF Of
      <4>3. CASE Msg(p).kind = "offer"
        <5>1. Another(conn[p])
          BY <2>1, <2>2, <4>3 DEF Kind, Inductive, Requests
        <5>2. QED
          BY <1>1, <5>1 DEF Another
      <4>4. QED
        BY <4>1, <4>2, <4>3
    <3>4. QED
      BY <3>2, <3>3
  <2>4. QED
    BY <2>2, <2>3 DEF Settled
<1>6. QED
  BY <1>1, <1>4, <1>5, StandsAfter

LEMMA PageRequests ==
  ASSUME Inductive, NEW p \in Pages, Effect(p), UNCHANGED hubVars
  PROVE  Requests'
<1>1. PageTyped /\ UNCHANGED <<conn, broadcaster, job, registered>>
  BY DEF Inductive, PagePart, Effect, hubVars, history
<1>2. \A q \in Pages : \A A : Has(inbox'[q], A) => Has(inbox[q], A)
  BY <1>1, InboxAfter
<1>3. \A q \in Pages \ {p} : outbox'[q] = outbox[q] /\ peers'[q] = peers[q]
  BY <1>1, OthersKeep
<1>4. \A id : Has(outbox'[p], Of("offer", id)) => Another(id)
  BY <1>1, OffersAfter DEF Inductive, Requests
<1>5. ASSUME NEW id \in DOMAIN peers'[p]
      PROVE  registered # {} /\ (peers'[p][id].state = "offering" => Another(id))
  <2>1. CASE Keeps(p)
    BY <1>5, <2>1 DEF Keeps, Inductive, Requests
  <2>2. ASSUME NEW k \in {"watcher", "offer"}, NEW state \in PeerState,
               Hears(p, k), Makes(p, Msg(p).id, state),
               k = "offer" => state = "answering"
        PROVE  registered # {} /\ (peers'[p][id].state = "offering" => Another(id))
    <3>1. inbox[p] \in Seq(Inward) /\ inbox[p] # << >> /\ Msg(p) = Head(inbox[p])
          /\ Msg(p) \in Message /\ Msg(p).kind = k
      BY <1>1, <2>2 DEF Hears, PageTyped, Msg, Inward
    <3>2. Has(inbox[p], Kind(k)) /\ Has(inbox[p], Of(k, Msg(p).id))
      BY <3>1, TailHas DEF Kind, Of
    <3>3. CASE k = "watcher"
      <4>1. conn[p] \in registered /\ Msg(p).id # conn[p]
        BY <3>2, <3>3 DEF Inductive, Requests
      <4>2. CASE id = Msg(p).id
        BY <4>1, <4>2 DEF Another
      <4>3. CASE id # Msg(p).id
        BY <1>5, <2>2, <4>3 DEF Makes, Inductive, Requests
      <4>4. QED
        BY <4>2, <4>3
    <3>4. CASE k = "offer"
      <4>1. registered # {}
        BY <3>2, <3>4 DEF Inductive, Requests, Another
      <4>2. CASE id = Msg(p).id
        BY <2>2, <3>4, <4>1, <4>2 DEF Makes
      <4>3. CASE id # Msg(p).id
        BY <1>5, <2>2, <4>3 DEF Makes, Inductive, Requests
      <4>4. QED
        BY <4>2, <4>3
    <3>5. QED
      BY <3>3, <3>4
  <2>3. "offering" \in PeerState /\ "answering" \in PeerState
    BY DEF PeerState
  <2>4. QED
    BY <2>1, <2>2, <2>3 DEF Effect, Peering
<1>6. (broadcaster # None => broadcaster \in registered)' /\ (\A c \in Ids : \A s \in job[c] : Requested(c, s))'
  BY <1>1 DEF Inductive, Requests, Requested, Another
<1>7. ASSUME NEW q \in Pages
      PROVE  /\ \A id : Has(inbox'[q], Of("watcher", id)) => conn[q] \in registered /\ id # conn[q]
             /\ Has(inbox'[q], Kind("offer")) => Another(conn[q])
             /\ \A id : Has(outbox'[q], Of("offer", id)) => Another(id)
             /\ \A id \in DOMAIN peers'[q] : /\ registered # {}
                                             /\ peers'[q][id].state = "offering" => Another(id)
  <2>1. CASE q = p
    BY <1>2, <1>4, <1>5, <2>1 DEF Inductive, Requests
  <2>2. CASE q # p
    BY <1>2, <1>3, <2>2 DEF Inductive, Requests
  <2>3. QED
    BY <2>1, <2>2
<1>8. QED
  BY <1>1, <1>6, <1>7 DEF Requests, Another

LEMMA PageInductive ==
  ASSUME Inductive, NEW p \in Pages, PageStep(p), UNCHANGED hubVars
  PROVE  Inductive'
<1>1. PageTyped /\ Effect(p) /\ PagePart
  BY PageStepEffect DEF Inductive, PagePart
<1>2. UNCHANGED <<conn, opened, broadcaster, watchers, served, job, registered, refused, lost, panicked>>
  BY <1>1 DEF Effect, hubVars, history
<1>3. PagePart'
  BY <1>1, PageKeepsNumbers, PageTakesItBack DEF PagePart, Effect
<1>4. \A q \in Pages : Online(q)' => Online(q)
  BY <1>1, OthersKeep, StandsAfter DEF Online
<1>5. HubTyped'
  <2>1. \A q \in Pages : Len(inbox'[q]) <= Capacity
    <3>1. \A q \in Pages : inbox[q] \in Seq(Inward) /\ inbox'[q] \in Seq(Inward)
      BY <1>1 DEF Effect, PageTyped
    <3>2. \A q \in Pages : Len(inbox'[q]) <= Len(inbox[q]) /\ Len(inbox[q]) <= Capacity
      BY <1>1, InboxAfter DEF Inductive, HubTyped
    <3>3. QED
      BY <3>1, <3>2, FileHubAssumption
  <2>2. QED
    BY <1>2, <2>1 DEF Inductive, HubTyped
<1>6. Serving' /\ Jobs'
  BY <1>2, <1>4 DEF Inductive, Serving, Jobs, RegisteredAreServed, Leaving
<1>7. ASSUME NEW q \in Pages, Online(q)'
      PROVE  /\ casting'[q] => \/ Has(outbox'[q], Kind("broadcaster"))
                               \/ /\ casting[q]
                                  /\ Has(inbox[q], Kind("forceStop")) => Has(inbox'[q], Kind("forceStop"))
             /\ ~casting'[q] => ~casting[q] \/ Has(outbox'[q], Kind("watcher"))
             /\ \A k : Has(outbox[q], Kind(k)) => Has(outbox'[q], Kind(k))
  <2>1. CASE q = p
    BY <1>1, <1>7, <2>1, RoleAfter
  <2>2. CASE q # p
    BY <1>1, <2>2, OthersKeep
  <2>3. QED
    BY <2>1, <2>2
<1>8. Stopped'
  BY <1>2, <1>4, <1>7 DEF Inductive, Stopped, StopIsDue
<1>9. Known'
  BY <1>2, <1>4, <1>7 DEF Inductive, Known
<1>10. Requests'
  BY <1>1, PageRequests
<1>11. ASSUME lost = {}, panicked = {}, NEW q \in Pages, Sole(q)'
       PROVE  broadcaster = conn[q] /\ \A id \in Ids : MayStay(q, id)' \/ Settled(q, id)'
  <2>1. broadcaster = conn[q] /\ \A id \in Ids : MayStay(q, id) \/ Settled(q, id)
    BY <1>2, <1>4, <1>11 DEF Inductive, Told, Sole
  <2>2. \A id \in Ids : MayStay(q, id) => MayStay(q, id)'
    BY <1>2 DEF MayStay
  <2>3. ASSUME NEW id \in Ids, Settled(q, id) PROVE Settled(q, id)'
    <3>1. CASE q = p
      BY <1>1, <1>11, <2>3, <3>1, PageSettles
    <3>2. CASE q # p
      BY <1>1, <2>3, <3>2, OthersKeep DEF Settled
    <3>3. QED
      BY <3>1, <3>2
  <2>4. QED
    BY <2>1, <2>2, <2>3
<1>12. Told'
  BY <1>2, <1>11 DEF Told
<1>13. QED
  BY <1>3, <1>5, <1>6, <1>8, <1>9, <1>10, <1>12 DEF Inductive

----------------------------------------------------------------------------
(* A connection opens *)

LEMMA ServeWSInductive ==
  ASSUME Inductive, NEW p \in Pages, ServeWS(p)
  PROVE  Inductive'
<1>1. PageTyped /\ Numbered /\ TakesItBack
  BY DEF Inductive, PagePart
<1>2. /\ PagePart' /\ opened' = opened + 1 /\ opened' \in Ids
      /\ link' = [link EXCEPT ![p] = "open"] /\ conn' = [conn EXCEPT ![p] = opened']
      /\ inbox' = [inbox EXCEPT ![p] = << >>] /\ UNCHANGED <<casting, peers>>
      /\ \A q \in Pages \ {p} : outbox'[q] = outbox[q]
      /\ ~casting[p] => Has(outbox'[p], Kind("watcher"))
      /\ \A id : Has(outbox'[p], Of("offer", id)) => Has(outbox[p], Of("offer", id))
  BY <1>1, ConnectEffect DEF ServeWS, PagePart
<1>3. /\ served' = [served EXCEPT ![opened'] = "reading"]
      /\ UNCHANGED <<broadcaster, watchers, job, registered, refused, lost, panicked>>
  BY DEF ServeWS, history
<1>4. /\ conn'[p] = opened' /\ inbox'[p] = << >> /\ Online(p)'
      /\ \A q \in Pages \ {p} : /\ conn'[q] = conn[q] /\ inbox'[q] = inbox[q]
                                /\ Online(q)' <=> Online(q)
  BY <1>1, <1>2 DEF PageTyped, Online
<1>5. opened \in Nat /\ Ids \subseteq Nat /\ opened' \notin registered
  <2>1. opened \in Nat /\ Ids \subseteq Nat
    BY <1>1, CastPageAssumption, Numbers DEF PageTyped
  <2>2. \A c \in registered : c \in Nat /\ c <= opened
    BY <2>1 DEF Inductive, HubTyped, Serving
  <2>3. QED
    BY <1>2, <2>1, <2>2
<1>6. served[opened'] = "none" /\ job[opened'] = {}
  BY <1>2, <1>5 DEF Inductive, Serving, Jobs
<1>7. /\ served' \in [Ids -> Places] /\ served'[opened'] = "reading"
      /\ \A c \in Ids \ {opened'} : served'[c] = served[c]
  BY <1>2, <1>3 DEF Inductive, HubTyped, Places
<1>8. HubTyped'
  <2>1. \A q \in Pages : Len(inbox'[q]) <= Capacity
    <3>1. Len(<< >>) <= Capacity
      BY FileHubAssumption
    <3>2. QED
      BY <1>4, <3>1 DEF Inductive, HubTyped
  <2>2. QED
    BY <1>3, <1>7, <2>1 DEF Inductive, HubTyped
<1>9. Serving'
  <2>1. \A q \in Pages : Online(q)' => served'[conn'[q]] = "reading"
    <3>1. ASSUME NEW q \in Pages \ {p}, Online(q) PROVE served'[conn[q]] = "reading"
      <4>1. conn[q] \in Ids /\ conn[q] <= opened /\ served[conn[q]] = "reading"
        BY <3>1, OnlinePages
      <4>2. conn[q] # opened'
        BY <1>2, <1>5, <4>1
      <4>3. QED
        BY <1>7, <4>1, <4>2
    <3>2. QED
      BY <1>4, <1>7, <3>1
  <2>2. \A c \in Ids : c > opened' => served'[c] = "none"
    BY <1>2, <1>5, <1>7 DEF Inductive, Serving
  <2>3. \A c \in registered' : c <= opened'
    <3>1. \A c \in registered : c \in Nat /\ c <= opened
      BY <1>5 DEF Inductive, HubTyped, Serving
    <3>2. QED
      BY <1>2, <1>3, <1>5, <3>1
  <2>4. RegisteredAreServed'
    BY <1>3, <1>7, Numbers DEF Inductive, HubTyped, Serving, RegisteredAreServed
  <2>5. QED
    BY <2>1, <2>2, <2>3, <2>4 DEF Serving
<1>10. Jobs'
  BY <1>3, <1>6, <1>7 DEF Inductive, Jobs, Leaving
<1>11. Stopped'
  <2>1. \A q \in Pages \ {p} : StopIsDue(q) => StopIsDue(q)'
    BY <1>3, <1>4 DEF StopIsDue
  <2>2. \A q \in Pages : conn'[q] \in registered' => q # p
    BY <1>3, <1>4, <1>5
  <2>3. QED
    BY <1>2, <1>3, <1>4, <2>1, <2>2 DEF Inductive, Stopped
<1>12. Known'
  BY <1>2, <1>3, <1>4 DEF Inductive, Known
<1>13. Requests'
  <2>1. (broadcaster # None => broadcaster \in registered)' /\ (\A c \in Ids : \A s \in job[c] : Requested(c, s))'
    BY <1>3 DEF Inductive, Requests, Requested, Another
  <2>2. ASSUME NEW q \in Pages
        PROVE  /\ \A id : Has(inbox'[q], Of("watcher", id)) => conn'[q] \in registered /\ id # conn'[q]
               /\ Has(inbox'[q], Kind("offer")) => Another(conn'[q])
               /\ \A id : Has(outbox'[q], Of("offer", id)) => Another(id)
    <3>1. CASE q = p
      <4>1. \A A : ~Has(inbox'[q], A)
        BY <1>4, <3>1, HasNothing
      <4>2. QED
        BY <1>2, <3>1, <4>1 DEF Inductive, Requests
    <3>2. CASE q # p
      BY <1>2, <1>4, <3>2 DEF Inductive, Requests
    <3>3. QED
      BY <3>1, <3>2
  <2>3. ASSUME NEW q \in Pages, NEW id \in DOMAIN peers'[q]
        PROVE  registered # {} /\ (peers'[q][id].state = "offering" => Another(id))
    BY <1>2, <2>3 DEF Inductive, Requests
  <2>4. QED
    BY <1>3, <2>1, <2>2, <2>3 DEF Requests, Another
<1>14. ASSUME lost = {}, panicked = {}, NEW q \in Pages, Sole(q)'
       PROVE  broadcaster = conn'[q] /\ \A id \in Ids : MayStay(q, id)' \/ Settled(q, id)'
  <2>1. q # p
    BY <1>3, <1>4, <1>5, <1>14 DEF Sole
  <2>2. Sole(q) /\ conn'[q] = conn[q] /\ inbox'[q] = inbox[q] /\ peers'[q] = peers[q]
    BY <1>2, <1>3, <1>4, <1>14, <2>1 DEF Sole
  <2>3. broadcaster = conn[q] /\ \A id \in Ids : MayStay(q, id) \/ Settled(q, id)
    BY <1>14, <2>2 DEF Inductive, Told
  <2>4. \A id \in Ids : (MayStay(q, id) => MayStay(q, id)') /\ (Settled(q, id) => Settled(q, id)')
    BY <1>3, <1>7, <2>2 DEF MayStay, Settled
  <2>5. QED
    BY <2>2, <2>3, <2>4
<1>15. Told'
  BY <1>3, <1>14 DEF Told
<1>16. QED
  BY <1>2, <1>8, <1>9, <1>10, <1>11, <1>12, <1>13, <1>15 DEF Inductive

----------------------------------------------------------------------------
(* What a goroutine does with the message it has read *)

Asked(c) == Head(outbox[Owner(c)])

LEMMA ReadEffect ==
  ASSUME Inductive, NEW c \in Ids, NEW k \in Kinds, Read(c, k)
  PROVE  /\ PagePart' /\ UNCHANGED <<conn, opened, link, inbox, casting, peers, served, lost, panicked>>
         /\ \A q \in Pages : Online(q)' <=> Online(q)
         /\ Owner(c) \in Pages /\ Online(Owner(c)) /\ conn[Owner(c)] = c
         /\ \A q \in Pages : conn[q] = c => q = Owner(c)
         /\ served[c] = "reading" /\ job[c] = {} /\ c <= opened
         /\ Asked(c) \in Outward /\ Asked(c).kind = k /\ outbox[Owner(c)] \in Seq(Outward)
         /\ outbox[Owner(c)] # << >> /\ outbox'[Owner(c)] = Tail(outbox[Owner(c)])
         /\ \A q \in Pages \ {Owner(c)} : outbox'[q] = outbox[q]
<1> DEFINE p == Owner(c)
<1>1. /\ served[c] = "reading" /\ job[c] = {} /\ Current(c)
      /\ outbox[p] # << >> /\ Head(outbox[p]).kind = k
      /\ outbox' = [outbox EXCEPT ![p] = Tail(outbox[p])]
      /\ UNCHANGED <<conn, opened, link, inbox, casting, starting, clicks, peers, made, shown, faults,
                     served, lost, panicked>>
  BY DEF Read, linkVars, castVars, peerVars
<1>2. PagePart /\ p \in Pages /\ Online(p) /\ conn[p] = c /\ \A q \in Pages : conn[q] = c => q = p
  BY <1>1, OwnerIs DEF Inductive
<1> HIDE DEF p
<1>3. outbox[p] \in Seq(Outward) /\ Head(outbox[p]) \in Outward /\ Tail(outbox[p]) \in Seq(Outward)
  BY <1>1, <1>2 DEF PagePart, PageTyped
<1>4. outbox' \in [Pages -> Seq(Outward)] /\ outbox'[p] = Tail(outbox[p])
      /\ \A q \in Pages \ {p} : outbox'[q] = outbox[q]
  BY <1>1, <1>2, <1>3 DEF PagePart, PageTyped
<1>5. /\ \A q \in Pages : (Online(q)' <=> Online(q)) /\ (~Online(q)' => inbox'[q] = << >>)
      /\ link' \in [Pages -> {"down", "open", "left"}] /\ inbox' \in [Pages -> Seq(Inward)]
  BY <1>1, <1>2 DEF PagePart, PageTyped, Numbered, Online
<1>6. PagePart'
  BY <1>1, <1>2, <1>4, <1>5, ServerKeeps
<1>7. c <= opened
  BY <1>2 DEF PagePart, Numbered
<1>8. QED
  BY <1>1, <1>2, <1>3, <1>4, <1>5, <1>6, <1>7 DEF p, Asked

(* What a handled message does not undo.                                   *)
LEMMA ReadKeeps ==
  ASSUME Inductive, NEW c \in Ids, NEW k \in Kinds, Read(c, k),
         NEW new \in SUBSET Mail, job' = [job EXCEPT ![c] = new],
         \A s \in new : ~Leaving(s) /\ Requested(c, s),
         \A s, t \in new : s.msg.kind = "forceStop" /\ t.msg.kind = "forceStop" => s.to = t.to,
         broadcaster' \in {broadcaster, c}, watchers' \in SUBSET Ids, refused' \in SUBSET Ids,
         registered' = registered \cup ({broadcaster'} \ {None}),
         watchers' \subseteq watchers \cup {c}, broadcaster' \notin watchers'
  PROVE  /\ PagePart' /\ HubTyped' /\ Serving' /\ Jobs' /\ Requests'
         /\ \A q \in Pages : StopIsDue(q) => StopIsDue(q)'
         /\ \A q \in Pages, id \in Ids : /\ MayStay(q, id) => MayStay(q, id)'
                                         /\ Settled(q, id) => Settled(q, id)'
<1>1. /\ PagePart' /\ UNCHANGED <<conn, opened, link, inbox, casting, peers, served, lost, panicked>>
      /\ \A q \in Pages : Online(q)' <=> Online(q)
      /\ Owner(c) \in Pages /\ conn[Owner(c)] = c
      /\ served[c] = "reading" /\ job[c] = {} /\ c <= opened /\ c # None
      /\ outbox[Owner(c)] \in Seq(Outward)
      /\ outbox[Owner(c)] # << >> /\ outbox'[Owner(c)] = Tail(outbox[Owner(c)])
      /\ \A q \in Pages \ {Owner(c)} : outbox'[q] = outbox[q]
  BY ReadEffect, Numbers
<1>2. /\ job' \in [Ids -> SUBSET Mail] /\ job'[c] = new
      /\ \A d \in Ids \ {c} : job'[d] = job[d]
  BY DEF Inductive, HubTyped
<1>3. registered \subseteq registered' /\ registered' \subseteq registered \cup {c}
      /\ registered' \in SUBSET Ids /\ broadcaster' \in Ids \cup {None}
  BY DEF Inductive, HubTyped, Requests
<1>4. HubTyped'
  BY <1>1, <1>2, <1>3 DEF Inductive, HubTyped
<1>5. Serving'
  <2>1. RegisteredAreServed'
    BY <1>1 DEF Inductive, Serving, RegisteredAreServed
  <2>2. QED
    BY <1>1, <1>3, <2>1 DEF Inductive, Serving
<1>6. Jobs'
  BY <1>1, <1>2 DEF Inductive, Jobs, Leaving
<1>7. \A id : Another(id) => Another(id)'
  BY <1>3 DEF Another
<1>8. Requests'
  <2>1. broadcaster' # None => broadcaster' \in registered'
    OBVIOUS
  <2>2. ASSUME NEW d \in Ids, NEW s \in job'[d] PROVE Requested(d, s)'
    <3>1. Requested(d, s)
      BY <1>2, <2>2 DEF Inductive, Requests
    <3>2. QED
      BY <1>3, <1>7, <3>1 DEF Requested
  <2>3. ASSUME NEW q \in Pages, NEW A, Has(outbox'[q], A) PROVE Has(outbox[q], A)
    <3>1. Has(Tail(outbox[Owner(c)]), A) => Has(outbox[Owner(c)], A)
      BY <1>1, TailHas
    <3>2. QED
      BY <1>1, <2>3, <3>1
  <2>4. ASSUME NEW q \in Pages
        PROVE  /\ \A id : Has(inbox'[q], Of("watcher", id)) => conn'[q] \in registered' /\ id # conn'[q]
               /\ Has(inbox'[q], Kind("offer")) => Another(conn[q])'
               /\ \A id : Has(outbox'[q], Of("offer", id)) => Another(id)'
    BY <1>1, <1>3, <1>7, <2>3 DEF Inductive, Requests
  <2>5. ASSUME NEW q \in Pages, NEW id \in DOMAIN peers'[q]
        PROVE  registered' # {} /\ (peers'[q][id].state = "offering" => Another(id)')
    <3>1. registered # {} /\ (peers[q][id].state = "offering" => Another(id))
      BY <1>1, <2>5 DEF Inductive, Requests
    <3>2. QED
      BY <1>1, <1>3, <1>7, <3>1
  <2>6. QED
    BY <2>1, <2>2, <2>4, <2>5 DEF Requests
<1>9. \A q \in Pages : StopIsDue(q) => StopIsDue(q)'
  BY <1>1, <1>2 DEF StopIsDue
<1>10. \A q \in Pages, id \in Ids : /\ MayStay(q, id) => MayStay(q, id)'
                                    /\ Settled(q, id) => Settled(q, id)'
  BY <1>1, <1>2 DEF MayStay, Settled
<1>11. QED
  BY <1>1, <1>4, <1>5, <1>6, <1>8, <1>9, <1>10

(* The other messages leave the broadcaster as it is.                      *)
LEMMA OtherMessageInductive ==
  ASSUME Inductive, NEW c \in Ids, NEW k \in Kinds \ {"broadcaster"}, Read(c, k),
         NEW new \in SUBSET Mail, job' = [job EXCEPT ![c] = new],
         \A s \in new : ~Leaving(s) /\ s.msg.kind # "forceStop" /\ Requested(c, s),
         UNCHANGED <<broadcaster, registered>>,
         watchers' \in {watchers, watchers \cup {c}}, broadcaster \notin watchers',
         refused' \in {refused, refused \cup {c}},
         k = "watcher" => c \in watchers' \cup refused'
  PROVE  Inductive'
<1>1. /\ UNCHANGED <<conn, inbox, casting, peers, served, lost, panicked>>
      /\ \A q \in Pages : Online(q)' <=> Online(q)
      /\ Owner(c) \in Pages /\ conn[Owner(c)] = c
      /\ \A q \in Pages : conn[q] = c => q = Owner(c)
      /\ Asked(c).kind = k /\ outbox[Owner(c)] \in Seq(Outward)
      /\ outbox[Owner(c)] # << >> /\ outbox'[Owner(c)] = Tail(outbox[Owner(c)])
      /\ \A q \in Pages \ {Owner(c)} : outbox'[q] = outbox[q]
  BY ReadEffect
<1>2. /\ PagePart' /\ HubTyped' /\ Serving' /\ Jobs' /\ Requests'
      /\ \A q \in Pages : StopIsDue(q) => StopIsDue(q)'
      /\ \A q \in Pages, id \in Ids : /\ MayStay(q, id) => MayStay(q, id)'
                                      /\ Settled(q, id) => Settled(q, id)'
  <2>1. watchers' \in SUBSET Ids /\ refused' \in SUBSET Ids
        /\ registered' = registered \cup ({broadcaster'} \ {None})
    BY DEF Inductive, HubTyped, Requests
  <2>2. QED
    BY <2>1, ReadKeeps
<1>3. ASSUME NEW q \in Pages, NEW l, l # k, Has(outbox[q], Kind(l)) PROVE Has(outbox'[q], Kind(l))
  <2>1. Asked(c) \notin Kind(l)
    BY <1>1, <1>3 DEF Kind
  <2>2. Has(outbox[Owner(c)], Kind(l)) => Has(Tail(outbox[Owner(c)]), Kind(l))
    BY <1>1, <2>1, TailHas DEF Asked
  <2>3. QED
    BY <1>1, <1>3, <2>2
<1>4. Stopped'
  BY <1>1, <1>2, <1>3 DEF Inductive, Stopped
<1>5. Known'
  <2>1. ASSUME NEW q \in Pages, Online(q), ~casting[q]
        PROVE  conn[q] \in watchers' \cup refused' \/ Has(outbox'[q], Kind("watcher"))
    <3>1. conn[q] \in watchers \cup refused \/ Has(outbox[q], Kind("watcher"))
      BY <2>1 DEF Inductive, Known
    <3>2. CASE q = Owner(c)
      BY <1>1, <1>3, <3>1, <3>2
    <3>3. CASE q # Owner(c)
      BY <1>1, <3>1, <3>3
    <3>4. QED
      BY <3>2, <3>3
  <2>2. QED
    BY <1>1, <2>1 DEF Known
<1>6. Told'
  BY <1>1, <1>2 DEF Inductive, Told, Sole
<1>7. QED
  BY <1>2, <1>4, <1>5, <1>6 DEF Inductive

LEMMA SetBroadcasterInductive ==
  ASSUME Inductive, NEW c \in Ids, SetBroadcaster(c)
  PROVE  Inductive'
<1> DEFINE former == {broadcaster} \ {c, None}
           stops == Tell(former, Plain("forceStop"))
           news == Tell(watchers', Plain("broadcaster"))
           new == stops \cup news
<1>1. /\ Read(c, "broadcaster") /\ broadcaster' = c /\ registered' = registered \cup {c}
      /\ UNCHANGED refused /\ watchers' = watchers \ {c}
      /\ job' = [job EXCEPT ![c] = new]
  BY DEF SetBroadcaster
<1>2. former \in SUBSET Ids /\ watchers' \in SUBSET Ids /\ refused' \in SUBSET Ids
  BY <1>1 DEF Inductive, HubTyped
<1>3. /\ Plain("forceStop") \in Inward /\ Plain("forceStop").kind = "forceStop"
      /\ Plain("broadcaster") \in Inward /\ Plain("broadcaster").kind = "broadcaster"
  BY MessagesAre DEF Kinds, Inward, Named
<1>4. /\ new \in SUBSET Mail
      /\ \A s \in new : \/ s.to \in former /\ s.msg.kind = "forceStop"
                        \/ s.msg.kind = "broadcaster"
      /\ broadcaster # c /\ broadcaster # None => [to |-> broadcaster, msg |-> Plain("forceStop")] \in new
  <2>1. /\ stops \in SUBSET Mail /\ \A s \in stops : s.to \in former /\ s.msg = Plain("forceStop")
        /\ \A d \in former : [to |-> d, msg |-> Plain("forceStop")] \in stops
    BY <1>2, <1>3, TellIs
  <2>2. news \in SUBSET Mail /\ \A s \in news : s.msg = Plain("broadcaster")
    BY <1>2, <1>3, TellIs
  <2> HIDE DEF stops, news
  <2>3. QED
    BY <1>3, <2>1, <2>2
<1> HIDE DEF new
<1>5. /\ UNCHANGED <<conn, inbox, casting, peers, served, lost, panicked>>
      /\ \A q \in Pages : Online(q)' <=> Online(q)
      /\ Owner(c) \in Pages /\ conn[Owner(c)] = c
      /\ \A q \in Pages : conn[q] = c => q = Owner(c)
      /\ served[c] = "reading" /\ job[c] = {} /\ c # None
      /\ Asked(c) \in Outward /\ Asked(c).kind = "broadcaster" /\ outbox[Owner(c)] \in Seq(Outward)
      /\ outbox[Owner(c)] # << >> /\ outbox'[Owner(c)] = Tail(outbox[Owner(c)])
      /\ \A q \in Pages \ {Owner(c)} : outbox'[q] = outbox[q]
  BY <1>1, ReadEffect, Numbers DEF Kinds
<1>6. /\ PagePart' /\ HubTyped' /\ Serving' /\ Jobs' /\ Requests'
      /\ \A q \in Pages : StopIsDue(q) => StopIsDue(q)'
      /\ \A q \in Pages, id \in Ids : /\ MayStay(q, id) => MayStay(q, id)'
                                      /\ Settled(q, id) => Settled(q, id)'
  <2>1. /\ \A s \in new : ~Leaving(s) /\ Requested(c, s)
        /\ \A s, t \in new : s.msg.kind = "forceStop" /\ t.msg.kind = "forceStop" => s.to = t.to
    BY <1>4 DEF Leaving, Requested
  <2>2. /\ registered' = registered \cup ({broadcaster'} \ {None})
        /\ watchers' \subseteq watchers \cup {c} /\ broadcaster' \notin watchers'
        /\ broadcaster' \in {broadcaster, c}
    BY <1>1, <1>5
  <2>3. "broadcaster" \in Kinds
    BY DEF Kinds
  <2>4. QED
    BY <1>1, <1>2, <1>4, <2>1, <2>2, <2>3, ReadKeeps
<1>7. ASSUME NEW q \in Pages, Online(q), casting[q], conn[q] \in registered', q # Owner(c)
      PROVE  \/ Has(outbox'[q], Kind("broadcaster")) \/ Has(inbox'[q], Kind("forceStop"))
             \/ StopIsDue(q)' \/ conn[q] \in lost'
  <2>1. conn[q] # c /\ conn[q] \in registered /\ conn[q] # None
    BY <1>1, <1>5, <1>7 DEF Inductive, PagePart, Numbered
  <2>2. CASE broadcaster = conn[q]
    <3>1. job'[c] = new /\ [to |-> conn[q], msg |-> Plain("forceStop")] \in new
      BY <1>1, <1>4, <2>1, <2>2 DEF Inductive, HubTyped
    <3>2. QED
      BY <1>3, <1>5, <3>1 DEF StopIsDue
  <2>3. CASE broadcaster # conn[q]
    BY <1>5, <1>6, <1>7, <2>1, <2>3 DEF Inductive, Stopped
  <2>4. QED
    BY <2>2, <2>3
<1>8. Stopped'
  BY <1>1, <1>5, <1>7 DEF Stopped
<1>9. ASSUME NEW q \in Pages, Online(q), ~casting[q]
      PROVE  conn[q] \in watchers' \cup refused' \/ Has(outbox'[q], Kind("watcher"))
  <2>1. CASE q = Owner(c)
    <3>1. Followed(outbox[q], Kind("broadcaster"), Kind("watcher")) /\ Asked(c) \in Kind("broadcaster")
      BY <1>5, <1>9 DEF Inductive, PagePart, TakesItBack, Outward, Kind
    <3>2. QED
      BY <1>5, <2>1, <3>1, TailHas DEF Asked
  <2>2. CASE q # Owner(c)
    BY <1>1, <1>5, <1>9, <2>2 DEF Inductive, Known
  <2>3. QED
    BY <2>1, <2>2
<1>10. Known'
  BY <1>5, <1>9 DEF Known
<1>11. ASSUME lost = {}, panicked = {}, NEW q \in Pages, Sole(q)'
       PROVE  broadcaster' = conn[q] /\ \A id \in Ids : MayStay(q, id)' \/ Settled(q, id)'
  <2>1. Online(q) /\ conn[q] = c /\ registered' = {conn[q]}
    BY <1>1, <1>5, <1>11 DEF Sole
  <2>2. CASE registered = {}
    <3>1. DOMAIN peers[q] = {} /\ \A id : ~Has(inbox[q], Of("watcher", id))
      BY <2>2 DEF Inductive, Requests
    <3>2. \A id \in Ids : Settled(q, id)
      BY <3>1, FollowedByNone DEF Settled
    <3>3. QED
      BY <1>1, <1>6, <2>1, <3>2
  <2>3. CASE registered # {}
    <3>1. Sole(q)
      BY <1>1, <2>1, <2>3 DEF Sole
    <3>2. QED
      BY <1>1, <1>6, <1>11, <2>1, <3>1 DEF Inductive, Told
  <2>4. QED
    BY <2>2, <2>3
<1>12. Told'
  BY <1>5, <1>11 DEF Told
<1>13. QED
  BY <1>6, <1>8, <1>10, <1>12 DEF Inductive

LEMMA AddWatcherInductive ==
  ASSUME Inductive, NEW c \in Ids, AddWatcher(c)
  PROVE  Inductive'
<1> DEFINE asked == {broadcaster} \ {None}
           m == About("watcher", c)
           new == Tell(asked, m)
<1>1. Read(c, "watcher") /\ UNCHANGED <<broadcaster, registered>> /\ "watcher" \in Kinds \ {"broadcaster"}
  BY DEF AddWatcher, Kinds
<1>2. \/ /\ refused' = refused \cup {c} /\ UNCHANGED <<watchers, job>>
      \/ /\ broadcaster # c /\ UNCHANGED refused /\ watchers' = watchers \cup {c}
         /\ job' = [job EXCEPT ![c] = new]
  BY DEF AddWatcher
<1>3. broadcaster \notin watchers /\ job[c] = {}
  BY <1>1, ReadEffect DEF Inductive, Serving, RegisteredAreServed
<1>4. CASE refused' = refused \cup {c} /\ UNCHANGED <<watchers, job>>
  <2>1. job' = [job EXCEPT ![c] = {}] /\ {} \in SUBSET Mail
    BY <1>3, <1>4 DEF Inductive, HubTyped
  <2>2. QED
    BY <1>1, <1>3, <1>4, <2>1, OtherMessageInductive
<1>5. CASE /\ broadcaster # c /\ UNCHANGED refused /\ watchers' = watchers \cup {c}
           /\ job' = [job EXCEPT ![c] = new]
  <2>1. m \in Inward /\ m.kind = "watcher" /\ m.id = c
    BY MessagesAre DEF Kinds, Inward, Named
  <2>2. asked \in SUBSET Ids
    BY DEF Inductive, HubTyped
  <2> HIDE DEF m
  <2>3. new \in SUBSET Mail /\ \A s \in new : s.to \in asked /\ s.msg = m
    BY <2>1, <2>2, TellIs
  <2> HIDE DEF new
  <2>4. \A s \in new : ~Leaving(s) /\ s.msg.kind # "forceStop" /\ Requested(c, s)
    BY <1>5, <2>1, <2>3 DEF Leaving, Requested, Inductive, Requests
  <2>5. QED
    BY <1>1, <1>3, <1>5, <2>3, <2>4, OtherMessageInductive
<1>6. QED
  BY <1>2, <1>4, <1>5

LEMMA RelayInductive ==
  ASSUME Inductive, NEW c \in Ids, Relay(c)
  PROVE  Inductive'
<1> DEFINE m == [Asked(c) EXCEPT !.id = c]
           partner == {Asked(c).id} \cap (watchers \cup {broadcaster})
           new == Tell(partner, m)
<1>1. PICK k \in {"offer", "answer", "candidate"} :
         /\ Read(c, k) /\ job' = [job EXCEPT ![c] = new]
         /\ UNCHANGED <<broadcaster, watchers, registered, refused>>
  BY DEF Relay, Asked
<1>2. k \in Kinds \ {"broadcaster", "watcher"}
  BY DEF Kinds
<1>3. /\ Owner(c) \in Pages /\ Asked(c) \in Outward /\ Asked(c).kind = k
      /\ outbox[Owner(c)] \in Seq(Outward) /\ outbox[Owner(c)] # << >>
      /\ Asked(c) = Head(outbox[Owner(c)])
  BY <1>1, <1>2, ReadEffect DEF Asked
<1>4. m \in Inward /\ m.kind = k
  BY <1>3, RelayedMessage
<1>5. Asked(c).id \in Ids /\ Asked(c) \in Of(k, Asked(c).id)
  BY <1>3 DEF Outward, Named, Of
<1>6. partner \in SUBSET Ids
  BY <1>5
<1> HIDE DEF m
<1>7. new \in SUBSET Mail /\ \A s \in new : s.to \in partner /\ s.msg = m
  BY <1>4, <1>6, TellIs
<1> HIDE DEF new
<1>8. k = "offer" => Another(Asked(c).id)
  <2>1. Has(outbox[Owner(c)], Of(k, Asked(c).id))
    <3>1. PICK A : A = Of(k, Asked(c).id)
      OBVIOUS
    <3>2. Head(outbox[Owner(c)]) \in A
      BY <1>3, <1>5, <3>1
    <3>3. QED
      BY <1>3, <3>1, <3>2, TailHas
  <2>2. QED
    BY <1>3, <2>1 DEF Inductive, Requests
<1>9. \A s \in new : ~Leaving(s) /\ s.msg.kind # "forceStop" /\ Requested(c, s)
  BY <1>2, <1>4, <1>7, <1>8 DEF Leaving, Requested
<1>10. broadcaster \notin watchers
  BY DEF Inductive, Serving, RegisteredAreServed
<1>11. QED
  BY <1>1, <1>2, <1>7, <1>9, <1>10, OtherMessageInductive

----------------------------------------------------------------------------
(* A goroutine sends what it has to send *)

LEMMA DeliveryEffect ==
  ASSUME Inductive, NEW c \in Ids, NEW s \in job[c], SendJSON(c, s)
  PROVE  /\ PagePart' /\ s.to \in Ids /\ s.msg \in Inward
         /\ UNCHANGED <<conn, opened, link, outbox, casting, peers, broadcaster, watchers, served,
                        registered, refused, panicked>>
         /\ job' = [job EXCEPT ![c] = job[c] \ {s}]
         /\ inbox' \in [Pages -> Seq(Inward)] /\ \A q \in Pages : Len(inbox'[q]) <= Capacity
         /\ lost' \in {lost, lost \cup {s.to}}
         /\ \A q \in Pages : \/ inbox'[q] = inbox[q]
                             \/ inbox'[q] = Append(inbox[q], s.msg) /\ conn[q] = s.to
         /\ \A q \in Pages : Online(q) /\ conn[q] = s.to =>
               inbox'[q] = Append(inbox[q], s.msg) \/ s.to \in lost'
<1> DEFINE p == Owner(s.to)
           more == Append(inbox[p], s.msg)
<1>1. /\ job' = [job EXCEPT ![c] = job[c] \ {s}]
      /\ UNCHANGED <<conn, opened, link, outbox, casting, starting, clicks, peers, made, shown, faults,
                     broadcaster, watchers, served, registered, refused, panicked>>
      /\ IF ~Current(s.to) THEN UNCHANGED <<inbox, lost>>
         ELSE IF Len(inbox[p]) < Capacity
         THEN inbox' = [inbox EXCEPT ![p] = more] /\ UNCHANGED lost
         ELSE lost' = lost \cup {s.to} /\ UNCHANGED inbox
  BY DEF SendJSON, linkVars, castVars, peerVars
<1>2. PagePart /\ s.to \in Ids /\ s.msg \in Inward
  BY DEF Inductive, HubTyped, Mail
<1>3. \A q \in Pages : inbox[q] \in Seq(Inward) /\ Len(inbox[q]) <= Capacity
  BY DEF Inductive, PagePart, PageTyped, HubTyped
<1>4. Current(s.to) => p \in Pages /\ Online(p) /\ conn[p] = s.to /\ \A q \in Pages : conn[q] = s.to => q = p
  BY <1>2, OwnerIs
<1>5. CASE UNCHANGED inbox
  <2>1. \A q \in Pages : (Online(q)' <=> Online(q)) /\ (~Online(q)' => inbox'[q] = << >>)
    BY <1>1, <1>2, <1>5 DEF PagePart, Numbered, Online
  <2>2. PagePart'
    BY <1>1, <1>2, <1>5, <2>1, ServerKeeps DEF PagePart, PageTyped
  <2>3. \A q \in Pages : Online(q) /\ conn[q] = s.to => s.to \in lost'
    <3>1. \A q \in Pages : Online(q) /\ conn[q] = s.to => Current(s.to)
      BY DEF Current
    <3>2. Current(s.to) => inbox' # [inbox EXCEPT ![p] = more]
      <4>1. Current(s.to) => Len(more) # Len(inbox[p])
        BY <1>2, <1>3, <1>4
      <4>2. Current(s.to) => more # inbox[p]
        BY <4>1
      <4>3. QED
        BY <1>2, <1>4, <1>5, <4>2 DEF PagePart, PageTyped
    <3>3. QED
      BY <1>1, <3>1, <3>2
  <2>4. QED
    BY <1>1, <1>2, <1>3, <1>5, <2>2, <2>3 DEF PagePart, PageTyped
<1>6. CASE Current(s.to) /\ Len(inbox[p]) < Capacity /\ inbox' = [inbox EXCEPT ![p] = more] /\ UNCHANGED lost
  <2>1. more \in Seq(Inward) /\ Len(more) = Len(inbox[p]) + 1 /\ Len(inbox[p]) \in Nat
    BY <1>2, <1>3, <1>4, <1>6
  <2>2. Len(more) <= Capacity
    BY <1>6, <2>1, FileHubAssumption
  <2> HIDE DEF more
  <2>3. /\ inbox' \in [Pages -> Seq(Inward)] /\ inbox'[p] = more
        /\ \A q \in Pages \ {p} : inbox'[q] = inbox[q]
    BY <1>2, <1>4, <1>6, <2>1 DEF PagePart, PageTyped
  <2>4. \A q \in Pages : (Online(q)' <=> Online(q)) /\ (~Online(q)' => inbox'[q] = << >>)
    BY <1>1, <1>2, <1>4, <1>6, <2>3 DEF PagePart, Numbered, Online
  <2>5. PagePart'
    BY <1>1, <1>2, <2>3, <2>4, ServerKeeps DEF PagePart, PageTyped
  <2>6. \A q \in Pages : Len(inbox'[q]) <= Capacity
    BY <1>3, <2>2, <2>3
  <2>7. \A q \in Pages : \/ inbox'[q] = inbox[q]
                         \/ inbox'[q] = Append(inbox[q], s.msg) /\ conn[q] = s.to
    BY <1>4, <1>6, <2>3 DEF more
  <2>8. \A q \in Pages : conn[q] = s.to => inbox'[q] = Append(inbox[q], s.msg)
    BY <1>4, <1>6, <2>3 DEF more
  <2>9. QED
    BY <1>1, <1>2, <1>6, <2>3, <2>5, <2>6, <2>7, <2>8
<1>7. QED
  BY <1>1, <1>5, <1>6

LEMMA SendJSONInductive ==
  ASSUME Inductive, NEW c \in Ids, NEW s \in job[c], SendJSON(c, s)
  PROVE  Inductive'
<1>1. /\ PagePart' /\ s.to \in Ids /\ s.msg \in Inward
      /\ UNCHANGED <<conn, opened, link, outbox, casting, peers, broadcaster, watchers, served,
                     registered, refused, panicked>>
      /\ job' = [job EXCEPT ![c] = job[c] \ {s}]
      /\ inbox' \in [Pages -> Seq(Inward)] /\ \A q \in Pages : Len(inbox'[q]) <= Capacity
      /\ lost' \in {lost, lost \cup {s.to}}
      /\ \A q \in Pages : \/ inbox'[q] = inbox[q]
                          \/ inbox'[q] = Append(inbox[q], s.msg) /\ conn[q] = s.to
      /\ \A q \in Pages : Online(q) /\ conn[q] = s.to =>
            inbox'[q] = Append(inbox[q], s.msg) \/ s.to \in lost'
  BY DeliveryEffect
<1>2. \A d \in Ids : job'[d] \subseteq job[d] /\ \A t \in job[d] : t \in job'[d] \/ (d = c /\ t = s)
  BY <1>1 DEF Inductive, HubTyped
<1>3. HubTyped'
  <2>1. job' \in [Ids -> SUBSET Mail]
    BY <1>1 DEF Inductive, HubTyped
  <2>2. QED
    BY <1>1, <2>1 DEF Inductive, HubTyped
<1>4. Serving'
  BY <1>1 DEF Inductive, Serving, RegisteredAreServed, Online
<1>5. Jobs'
  BY <1>1, <1>2 DEF Inductive, Jobs, Leaving
<1>6. ASSUME NEW q \in Pages
      PROVE  /\ \A A : Has(inbox[q], A) => Has(inbox'[q], A)
             /\ \A A : inbox'[q] = Append(inbox[q], s.msg) /\ s.msg \in A => Has(inbox'[q], A)
             /\ \A A : Has(inbox'[q], A) => Has(inbox[q], A) \/ (s.msg \in A /\ conn[q] = s.to)
  <2>1. \A A : Has(Append(inbox[q], s.msg), A) <=> Has(inbox[q], A) \/ s.msg \in A
    BY <1>1, AppendHas DEF Inductive, PagePart, PageTyped
  <2>2. QED
    BY <1>1, <2>1
<1>7. Stopped'
  <2>1. ASSUME NEW q \in Pages, Online(q), StopIsDue(q)
        PROVE  StopIsDue(q)' \/ Has(inbox'[q], Kind("forceStop")) \/ conn[q] \in lost'
    <3>1. PICK d \in Ids : \E t \in job[d] : t.to = conn[q] /\ t.msg.kind = "forceStop"
      BY <2>1 DEF StopIsDue
    <3>2. PICK t \in job[d] : t.to = conn[q] /\ t.msg.kind = "forceStop"
      BY <3>1
    <3>3. CASE t \in job'[d]
      BY <1>1, <3>2, <3>3 DEF StopIsDue
    <3>4. CASE t = s
      <4>1. s.msg \in Kind("forceStop")
        BY <1>1, <3>2, <3>4 DEF Kind, Inward
      <4>2. QED
        BY <1>1, <1>6, <2>1, <3>2, <3>4, <4>1
    <3>5. QED
      BY <1>2, <3>3, <3>4
  <2>2. QED
    BY <1>1, <1>6, <2>1 DEF Inductive, Stopped, Online
<1>8. Known'
  BY <1>1 DEF Inductive, Known, Online
<1>9. Requests'
  <2>1. Requested(c, s)
    BY DEF Inductive, Requests
  <2>2. ASSUME NEW q \in Pages
        PROVE  /\ \A id : Has(inbox'[q], Of("watcher", id)) => conn[q] \in registered /\ id # conn[q]
               /\ Has(inbox'[q], Kind("offer")) => Another(conn[q])
    <3>1. ASSUME NEW id, Has(inbox'[q], Of("watcher", id))
          PROVE  conn[q] \in registered /\ id # conn[q]
      <4>1. CASE Has(inbox[q], Of("watcher", id))
        BY <4>1 DEF Inductive, Requests
      <4>2. CASE s.to = conn[q] /\ s.msg \in Of("watcher", id)
        BY <2>1, <4>2 DEF Requested, Of
      <4>3. QED
        BY <1>6, <3>1, <4>1, <4>2
    <3>2. ASSUME Has(inbox'[q], Kind("offer")) PROVE Another(conn[q])
      <4>1. CASE Has(inbox[q], Kind("offer"))
        BY <4>1 DEF Inductive, Requests
      <4>2. CASE s.to = conn[q] /\ s.msg \in Kind("offer")
        BY <2>1, <4>2 DEF Requested, Kind
      <4>3. QED
        BY <1>6, <3>2, <4>1, <4>2
    <3>3. QED
      BY <3>1, <3>2
  <2>3. (\A d \in Ids : \A t \in job[d] : Requested(d, t))'
    BY <1>1, <1>2 DEF Inductive, Requests, Requested, Another
  <2>4. QED
    BY <1>1, <2>2, <2>3 DEF Inductive, Requests, Another
<1>10. ASSUME lost' = {}, panicked = {}, NEW q \in Pages, Sole(q), NEW id \in Ids
       PROVE  MayStay(q, id)' \/ Settled(q, id)'
  <2> DEFINE gone == Of("disconnectPeer", id)
             asks == Of("watcher", id)
  <2>1. lost = {} /\ (MayStay(q, id) \/ Settled(q, id))
    BY <1>1, <1>10 DEF Inductive, Told
  <2>2. inbox[q] \in Seq(Inward) /\ (conn[q] = s.to => inbox'[q] = Append(inbox[q], s.msg))
    BY <1>1, <1>10 DEF Inductive, PagePart, PageTyped, Sole
  <2>3. \A A, B : (Followed(inbox[q], A, B) \/ s.msg \in B) /\ s.msg \notin A =>
                     Followed(Append(inbox[q], s.msg), A, B)
    BY <1>1, <2>2, AppendHas
  <2>4. CASE s \in job[id] /\ c = id /\ s.to = conn[q] /\ s.msg \in gone
    <3>1. s.msg \notin asks
      BY <2>4 DEF Of
    <3>2. Has(inbox'[q], gone)
      BY <1>6, <2>2, <2>4
    <3>3. Followed(Append(inbox[q], s.msg), asks, gone)
      BY <2>3, <2>4, <3>1
    <3>4. QED
      BY <2>2, <2>4, <3>2, <3>3 DEF Settled
  <2>5. CASE MayStay(q, id) /\ ~(s \in job[id] /\ c = id /\ s.to = conn[q] /\ s.msg \in gone)
    BY <1>1, <1>2, <2>5 DEF MayStay
  <2>6. CASE Settled(q, id) /\ ~MayStay(q, id)
    <3>1. s.msg \notin asks \/ conn[q] # s.to
      <4>1. ASSUME s.msg \in asks PROVE FALSE
        <5>1. id = c /\ s.msg.kind = "watcher"
          BY <4>1 DEF Inductive, Requests, Requested, Of
        <5>2. served[c] = "reading"
          BY <5>1 DEF Inductive, Jobs, Leaving, HubTyped, Places
        <5>3. QED
          BY <2>6, <5>1, <5>2 DEF MayStay
      <4>2. QED
        BY <4>1
    <3>2. Followed(inbox'[q], asks, gone)
      BY <1>1, <2>3, <2>6, <3>1 DEF Settled
    <3>3. id \in DOMAIN peers'[q] => Has(inbox'[q], gone)
      BY <1>1, <1>6, <2>6 DEF Settled
    <3>4. QED
      BY <3>2, <3>3 DEF Settled
  <2>7. QED
    BY <2>1, <2>4, <2>5, <2>6
<1>11. Told'
  BY <1>1, <1>10 DEF Inductive, Told, Sole, Online
<1>12. QED
  BY <1>1, <1>3, <1>4, <1>5, <1>7, <1>8, <1>9, <1>11 DEF Inductive

(* A goroutine whose send panics has stopped its former broadcaster, or    *)
(* found its channel closed: it has no page to stop.                       *)
LEMMA PanicEffect ==
  ASSUME Inductive, NEW c \in Ids, NEW s \in job[c], Panic(c, s)
  PROVE  /\ PagePart' /\ HubTyped'
         /\ UNCHANGED <<conn, opened, casting, peers, broadcaster, watchers, registered, refused, lost>>
         /\ job' = [job EXCEPT ![c] = {}] /\ panicked' # {}
         /\ served' = [served EXCEPT ![c] = IF served[c] = "reading" THEN "ended" ELSE served[c]]
         /\ served[c] \in {"reading", "closed"}
         /\ \A q \in Pages :
               \/ ~Online(q)' /\ inbox'[q] = << >> /\ outbox'[q] = << >>
               \/ /\ Online(q)' <=> Online(q)
                  /\ inbox'[q] = inbox[q] /\ outbox'[q] = outbox[q] /\ (Online(q) => conn[q] # c)
         /\ \A t \in job[c] : t.msg.kind = "forceStop" => served[t.to] = "closed"
<1> DEFINE p == Owner(c)
<1>1. /\ job' = [job EXCEPT ![c] = {}] /\ panicked' = panicked \cup {c}
      /\ served' = [served EXCEPT ![c] = IF served[c] = "reading" THEN "ended" ELSE served[c]]
      /\ served[c] \in {"reading", "closed"} /\ served[s.to] = "closed"
      /\ s.msg.kind # "forceStop" => \A t \in job[c] : t.msg.kind # "forceStop"
      /\ UNCHANGED <<conn, opened, casting, starting, clicks, peers, made, shown, faults,
                     broadcaster, watchers, registered, refused, lost>>
      /\ IF Current(c)
         THEN /\ link' = [link EXCEPT ![p] = "down"] /\ inbox' = [inbox EXCEPT ![p] = << >>]
              /\ outbox' = [outbox EXCEPT ![p] = << >>]
         ELSE UNCHANGED <<link, inbox, outbox>>
  BY DEF Panic, Due, Cut, castVars, peerVars
<1>2. PagePart /\ PageTyped /\ Numbered
  BY DEF Inductive, PagePart
<1>3. Current(c) => p \in Pages /\ \A q \in Pages : conn[q] = c => q = p
  BY <1>2, OwnerIs
<1> HIDE DEF p
<1>4. << >> \in Seq(Inward) /\ << >> \in Seq(Outward)
  OBVIOUS
<1>5. /\ link' \in [Pages -> {"down", "open", "left"}]
      /\ inbox' \in [Pages -> Seq(Inward)] /\ outbox' \in [Pages -> Seq(Outward)]
  <2>1. CASE Current(c)
    <3>1. link' \in [Pages -> {"down", "open", "left"}]
      BY <1>1, <1>2, <1>3, <2>1 DEF PageTyped
    <3>2. inbox' \in [Pages -> Seq(Inward)]
      BY <1>1, <1>2, <1>3, <1>4, <2>1 DEF PageTyped
    <3>3. outbox' \in [Pages -> Seq(Outward)]
      BY <1>1, <1>2, <1>3, <1>4, <2>1 DEF PageTyped
    <3>4. QED
      BY <3>1, <3>2, <3>3
  <2>2. CASE ~Current(c)
    BY <1>1, <1>2, <2>2 DEF PageTyped
  <2>3. QED
    BY <2>1, <2>2
<1>6. \A q \in Pages :
         \/ ~Online(q)' /\ inbox'[q] = << >> /\ outbox'[q] = << >>
         \/ /\ link'[q] = link[q] /\ (Online(q)' <=> Online(q))
            /\ inbox'[q] = inbox[q] /\ outbox'[q] = outbox[q] /\ (Online(q) => conn[q] # c)
  <2>1. CASE Current(c)
    BY <1>1, <1>2, <1>3, <2>1 DEF PageTyped, Online
  <2>2. CASE ~Current(c)
    <3>1. \A q \in Pages : Online(q) => conn[q] # c
      BY <2>2 DEF Current
    <3>2. QED
      BY <1>1, <2>2, <3>1 DEF Online
  <2>3. QED
    BY <2>1, <2>2
<1>7. PagePart'
  <2>1. \A q \in Pages :
           /\ Online(q)' => Online(q)
           /\ ~Online(q)' => inbox'[q] = << >>
           /\ outbox'[q] = << >> \/ (outbox'[q] = outbox[q] /\ link'[q] = link[q])
    BY <1>2, <1>6 DEF Numbered
  <2>2. QED
    BY <1>1, <1>2, <1>5, <2>1, ServerKeeps
<1>8. HubTyped'
  <2>1. \A q \in Pages : Len(inbox'[q]) <= Capacity
    <3>1. Len(<< >>) <= Capacity
      BY FileHubAssumption
    <3>2. QED
      BY <1>6, <3>1 DEF Inductive, HubTyped
  <2>2. served' \in [Ids -> Places] /\ job' \in [Ids -> SUBSET Mail]
    BY <1>1 DEF Inductive, HubTyped, Places
  <2>3. QED
    BY <1>1, <2>1, <2>2 DEF Inductive, HubTyped
<1>9. \A t \in job[c] : t.msg.kind = "forceStop" => served[t.to] = "closed"
  BY <1>1 DEF Inductive, Jobs
<1>10. QED
  BY <1>1, <1>6, <1>7, <1>8, <1>9

LEMMA PanicInductive ==
  ASSUME Inductive, NEW c \in Ids, NEW s \in job[c], Panic(c, s)
  PROVE  Inductive'
<1>1. /\ PagePart' /\ HubTyped'
      /\ UNCHANGED <<conn, opened, casting, peers, broadcaster, watchers, registered, refused, lost>>
      /\ job' = [job EXCEPT ![c] = {}] /\ panicked' # {}
      /\ served' = [served EXCEPT ![c] = IF served[c] = "reading" THEN "ended" ELSE served[c]]
      /\ served[c] \in {"reading", "closed"}
      /\ \A q \in Pages :
            \/ ~Online(q)' /\ inbox'[q] = << >> /\ outbox'[q] = << >>
            \/ /\ Online(q)' <=> Online(q)
               /\ inbox'[q] = inbox[q] /\ outbox'[q] = outbox[q] /\ (Online(q) => conn[q] # c)
      /\ \A t \in job[c] : t.msg.kind = "forceStop" => served[t.to] = "closed"
  BY PanicEffect
<1>2. /\ served'[c] \in {"ended", "closed"} /\ served'[c] = (IF served[c] = "reading" THEN "ended" ELSE served[c])
      /\ \A d \in Ids \ {c} : served'[d] = served[d] /\ job'[d] = job[d]
      /\ job'[c] = {}
  BY <1>1 DEF Inductive, HubTyped
<1>3. Serving'
  <2>1. \A q \in Pages : Online(q)' => served'[conn'[q]] = "reading"
    <3>1. \A q \in Pages : Online(q)' => Online(q) /\ conn[q] # c /\ conn[q] \in Ids /\ served[conn[q]] = "reading"
      BY <1>1, OnlinePages
    <3>2. QED
      BY <1>1, <1>2, <3>1
  <2>2. \A d \in Ids : d > opened' => served'[d] = "none"
    BY <1>1, <1>2 DEF Inductive, Serving
  <2>3. RegisteredAreServed'
    BY <1>1, <1>2 DEF Inductive, HubTyped, Serving, RegisteredAreServed
  <2>4. QED
    BY <1>1, <2>1, <2>2, <2>3 DEF Inductive, Serving
<1>4. Jobs'
  BY <1>2 DEF Inductive, Jobs, Leaving
<1>5. Stopped'
  <2>1. ASSUME NEW q \in Pages, Online(q), StopIsDue(q) PROVE StopIsDue(q)'
    <3>1. PICK d \in Ids : \E t \in job[d] : t.to = conn[q] /\ t.msg.kind = "forceStop"
      BY <2>1 DEF StopIsDue
    <3>2. d # c
      BY <1>1, <2>1, <3>1, OnlinePages
    <3>3. QED
      BY <1>1, <1>2, <3>1, <3>2 DEF StopIsDue
  <2>2. QED
    BY <1>1, <2>1 DEF Inductive, Stopped
<1>6. Known'
  BY <1>1 DEF Inductive, Known
<1>7. Requests'
  <2>1. (\A d \in Ids : \A t \in job[d] : Requested(d, t))'
    BY <1>1, <1>2 DEF Inductive, Requests, Requested, Another
  <2>2. ASSUME NEW q \in Pages, NEW A
        PROVE  (Has(inbox'[q], A) => Has(inbox[q], A)) /\ (Has(outbox'[q], A) => Has(outbox[q], A))
    BY <1>1, HasNothing
  <2>3. ASSUME NEW q \in Pages
        PROVE  /\ \A id : Has(inbox'[q], Of("watcher", id)) => conn[q] \in registered /\ id # conn[q]
               /\ Has(inbox'[q], Kind("offer")) => Another(conn[q])
               /\ \A id : Has(outbox'[q], Of("offer", id)) => Another(id)
    BY <2>2 DEF Inductive, Requests
  <2>4. QED
    BY <1>1, <2>1, <2>3 DEF Inductive, Requests, Another
<1>8. Told'
  BY <1>1 DEF Told
<1>9. QED
  BY <1>1, <1>3, <1>4, <1>5, <1>6, <1>7, <1>8 DEF Inductive

----------------------------------------------------------------------------
(* A connection is taken out of the maps and its channel is closed *)

LEMMA OnDisconnectInductive ==
  ASSUME Inductive, NEW c \in Ids, OnDisconnect(c)
  PROVE  Inductive'
<1> DEFINE left == Plain("broadcasterLeft")
           gone == About("disconnectPeer", c)
           others == {broadcaster} \ {None}
<1>1. /\ served' = [served EXCEPT ![c] = "removed"] /\ watchers' = watchers \ {c}
      /\ UNCHANGED <<conn, opened, link, inbox, outbox, casting, starting, clicks, peers, made, shown, faults,
                     registered, refused, lost, panicked>>
      /\ \/ /\ broadcaster = c /\ broadcaster' = None
            /\ job' = [job EXCEPT ![c] = Tell(watchers', left)]
         \/ /\ broadcaster # c /\ broadcaster' = broadcaster
            /\ job' = [job EXCEPT ![c] = Tell(others, gone)]
  BY DEF OnDisconnect, pageVars, linkVars, castVars, peerVars, history
<1>2. /\ left \in Inward /\ left.kind = "broadcasterLeft"
      /\ gone \in Inward /\ gone.kind = "disconnectPeer" /\ gone \in Of("disconnectPeer", c)
  BY MessagesAre DEF Kinds, Inward, Named, Of
<1> HIDE DEF left, gone
<1>3. watchers' \in SUBSET Ids /\ others \in SUBSET Ids
  BY <1>1 DEF Inductive, HubTyped
<1>4. PICK new \in SUBSET Mail :
         /\ job' = [job EXCEPT ![c] = new]
         /\ \A s \in new : s.msg.kind \in {"broadcasterLeft", "disconnectPeer"}
         /\ broadcaster # c /\ broadcaster # None =>
               \E s \in new : s.to = broadcaster /\ s.msg \in Of("disconnectPeer", c)
  <2>1. CASE broadcaster = c /\ job' = [job EXCEPT ![c] = Tell(watchers', left)]
    <3>1. Tell(watchers', left) \in SUBSET Mail /\ \A s \in Tell(watchers', left) : s.msg = left
      BY <1>2, <1>3, TellIs
    <3>2. QED
      BY <1>2, <2>1, <3>1
  <2>2. CASE broadcaster # c /\ job' = [job EXCEPT ![c] = Tell(others, gone)]
    <3>1. /\ Tell(others, gone) \in SUBSET Mail /\ \A s \in Tell(others, gone) : s.msg = gone
          /\ broadcaster # None => [to |-> broadcaster, msg |-> gone] \in Tell(others, gone)
      BY <1>2, <1>3, TellIs
    <3>2. QED
      BY <1>2, <2>2, <3>1
  <2>3. QED
    BY <1>1, <2>1, <2>2
<1>5. served[c] \in {"reading", "ended"} /\ job[c] = {}
  BY DEF OnDisconnect, Ended, Inductive, Jobs
<1>6. /\ served'[c] = "removed" /\ job'[c] = new
      /\ \A d \in Ids \ {c} : served'[d] = served[d] /\ job'[d] = job[d]
      /\ served' \in [Ids -> Places] /\ job' \in [Ids -> SUBSET Mail]
  BY <1>1, <1>4 DEF Inductive, HubTyped, Places
<1>7. \A q \in Pages : Online(q) => conn[q] # c /\ conn[q] \in Ids /\ conn[q] # None
  BY OnlinePages, Numbers DEF OnDisconnect
<1>8. PagePart'
  BY <1>1 DEF Inductive, PagePart, PageTyped, Numbered, TakesItBack, Online
<1>9. HubTyped'
  BY <1>1, <1>3, <1>6 DEF Inductive, HubTyped
<1>10. Serving'
  <2>1. \A q \in Pages : Online(q)' => served'[conn'[q]] = "reading"
    BY <1>1, <1>6, <1>7 DEF Inductive, Serving, Online
  <2>2. \A d \in Ids : d > opened' => served'[d] = "none"
    BY <1>1, <1>5, <1>6 DEF Inductive, Serving
  <2>3. RegisteredAreServed'
    <3>1. \A d \in watchers \cup ({broadcaster} \ {None}) : d \in Ids /\ served[d] \in {"reading", "ended"}
      BY DEF Inductive, HubTyped, Serving, RegisteredAreServed
    <3>2. broadcaster' \in {broadcaster, None} /\ broadcaster' # c /\ c # None /\ broadcaster \notin watchers
      BY <1>1, Numbers DEF Inductive, Serving, RegisteredAreServed
    <3>3. None \notin watchers'
      BY <1>3, Numbers
    <3>4. QED
      BY <1>1, <1>6, <3>1, <3>2, <3>3 DEF RegisteredAreServed
  <2>4. QED
    BY <1>1, <2>1, <2>2, <2>3 DEF Inductive, Serving
<1>11. Jobs'
  BY <1>4, <1>6 DEF Inductive, Jobs, Leaving
<1>12. \A q \in Pages : StopIsDue(q) => StopIsDue(q)'
  BY <1>1, <1>5, <1>6 DEF StopIsDue
<1>13. Stopped'
  BY <1>1, <1>7, <1>12 DEF Inductive, Stopped, Online
<1>14. Known'
  BY <1>1, <1>7 DEF Inductive, Known, Online
<1>15. Requests'
  <2>1. ASSUME NEW d \in Ids, NEW s \in job'[d] PROVE Requested(d, s)'
    <3>1. Requested(d, s)
      BY <1>4, <1>6, <2>1 DEF Inductive, Requests, Requested
    <3>2. QED
      BY <1>1, <3>1 DEF Requested, Another
  <2>2. QED
    BY <1>1, <2>1 DEF Inductive, Requests, Another
<1>16. ASSUME lost = {}, panicked = {}, NEW q \in Pages, Sole(q)
       PROVE  broadcaster' = conn[q] /\ \A id \in Ids : MayStay(q, id)' \/ Settled(q, id)'
  <2>1. broadcaster = conn[q] /\ \A id \in Ids : MayStay(q, id) \/ Settled(q, id)
    BY <1>16 DEF Inductive, Told
  <2>2. broadcaster' = conn[q] /\ broadcaster # c /\ broadcaster # None
    BY <1>1, <1>7, <1>16, <2>1 DEF Sole
  <2>3. MayStay(q, c)'
    BY <1>1, <1>4, <1>6, <2>1, <2>2 DEF MayStay
  <2>4. \A id \in Ids \ {c} : MayStay(q, id) => MayStay(q, id)'
    BY <1>1, <1>6 DEF MayStay
  <2>5. \A id \in Ids : Settled(q, id) => Settled(q, id)'
    BY <1>1 DEF Settled
  <2>6. QED
    BY <2>1, <2>2, <2>3, <2>4, <2>5
<1>17. Told'
  BY <1>1, <1>16 DEF Told, Sole, Online
<1>18. QED
  BY <1>8, <1>9, <1>10, <1>11, <1>13, <1>14, <1>15, <1>17 DEF Inductive

LEMMA CloseSendInductive ==
  ASSUME Inductive, NEW c \in Ids, CloseSend(c)
  PROVE  Inductive'
<1>1. /\ served[c] = "removed" /\ served' = [served EXCEPT ![c] = "closed"]
      /\ UNCHANGED <<conn, opened, link, inbox, outbox, casting, starting, clicks, peers, made, shown, faults,
                     broadcaster, watchers, job, registered, refused, lost, panicked>>
  BY DEF CloseSend, pageVars, linkVars, castVars, peerVars, history
<1>2. /\ served'[c] = "closed" /\ served' \in [Ids -> Places]
      /\ \A d \in Ids \ {c} : served'[d] = served[d]
  BY <1>1 DEF Inductive, HubTyped, Places
<1>3. PagePart'
  BY <1>1 DEF Inductive, PagePart, PageTyped, Numbered, TakesItBack, Online
<1>4. HubTyped'
  BY <1>1, <1>2 DEF Inductive, HubTyped
<1>5. Serving'
  <2>1. \A q \in Pages : Online(q)' => served'[conn'[q]] = "reading"
    <3>1. \A q \in Pages : Online(q) => conn[q] \in Ids /\ served[conn[q]] = "reading"
      BY OnlinePages
    <3>2. QED
      BY <1>1, <1>2, <3>1 DEF Online
  <2>2. RegisteredAreServed'
    BY <1>1, <1>2 DEF Inductive, HubTyped, Serving, RegisteredAreServed
  <2>3. QED
    BY <1>1, <1>2, <2>1, <2>2 DEF Inductive, Serving
<1>6. Jobs'
  BY <1>1, <1>2 DEF Inductive, Jobs, Leaving
<1>7. Stopped' /\ Known'
  BY <1>1 DEF Inductive, Stopped, StopIsDue, Known, Online
<1>8. Requests'
  BY <1>1 DEF Inductive, Requests, Requested, Another
<1>9. \A q \in Pages, id \in Ids : /\ MayStay(q, id) => MayStay(q, id)'
                                   /\ Settled(q, id) => Settled(q, id)'
  BY <1>1, <1>2 DEF MayStay, Settled
<1>10. Told'
  BY <1>1, <1>9 DEF Inductive, Told, Sole, Online
<1>11. QED
  BY <1>3, <1>4, <1>5, <1>6, <1>7, <1>8, <1>10 DEF Inductive

----------------------------------------------------------------------------
LEMMA NextInductive == Inductive /\ [Next]_vars => Inductive'
<1> SUFFICES ASSUME Inductive, [Next]_vars
             PROVE  Inductive'
  OBVIOUS
<1>1. ASSUME NEW p \in Pages, ServeWS(p)
      PROVE  Inductive'
  BY <1>1, ServeWSInductive
<1>2. ASSUME NEW p \in Pages, Page(p), UNCHANGED hubVars
      PROVE  Inductive'
  <2>1. PageStep(p)
    BY <1>2 DEF Page, Settle, PageStep
  <2>2. QED
    BY <1>2, <2>1, PageInductive
<1>3. ASSUME NEW c \in Ids, Goroutine(c)
      PROVE  Inductive'
  <2>1. CASE Handle(c)
    BY <2>1, SetBroadcasterInductive, AddWatcherInductive, RelayInductive DEF Handle
  <2>2. CASE OnDisconnect(c) \/ CloseSend(c)
    BY <2>2, OnDisconnectInductive, CloseSendInductive
  <2>3. ASSUME NEW s \in job[c], SendJSON(c, s) \/ Panic(c, s) PROVE Inductive'
    BY <2>3, SendJSONInductive, PanicInductive
  <2>4. QED
    BY <1>3, <2>1, <2>2, <2>3 DEF Goroutine
<1>4. CASE UNCHANGED vars
  <2>1. UNCHANGED <<conn, opened, link, inbox, outbox, casting, starting, clicks, peers, made, shown, faults,
                    broadcaster, watchers, served, job, registered, refused, lost, panicked>>
    BY <1>4 DEF vars, pageVars, linkVars, castVars, peerVars, hubVars, history
  <2>2. PagePart' /\ HubTyped'
    BY <2>1 DEF Inductive, PagePart, PageTyped, Numbered, TakesItBack, Online, HubTyped
  <2>3. Serving' /\ Jobs'
    BY <2>1 DEF Inductive, Serving, RegisteredAreServed, Jobs, Leaving, Online
  <2>4. Stopped' /\ Known'
    BY <2>1 DEF Inductive, Stopped, StopIsDue, Known, Online
  <2>5. Requests'
    BY <2>1 DEF Inductive, Requests, Requested, Another
  <2>6. Told'
    BY <2>1 DEF Inductive, Told, Sole, MayStay, Settled, Online
  <2>7. QED
    BY <2>2, <2>3, <2>4, <2>5, <2>6 DEF Inductive
<1>5. QED
  BY <1>1, <1>2, <1>3, <1>4 DEF Next

----------------------------------------------------------------------------
(* What every reachable state keeps: the maps of the hub, the jobs of its  *)
(* goroutines and the queues of the pages fit together, whatever is taken  *)
(* over, lost, panics or comes late.                                       *)
THEOREM InductiveInvariant == Spec => []Inductive
BY InitInductive, NextInductive, PTL DEF Spec

(* The pages, the maps of the hub and what its goroutines have to send     *)
(* keep their types, and no buffer is filled beyond its capacity.          *)
THEOREM TypeCorrect == Spec => []TypeOK
<1>1. Inductive => TypeOK
  <2> SUFFICES ASSUME Inductive PROVE TypeOK
    OBVIOUS
  <2>1. PageTypeOK
    BY PageTypedIsOK DEF Inductive, PagePart
  <2>2. \A c \in Ids : job[c] \in SUBSET Sends
    BY DEF Inductive, HubTyped, Mail, Inward, Sends
  <2>3. QED
    BY <2>1, <2>2 DEF Inductive, HubTyped, TypeOK, Places
<1>2. QED
  BY <1>1, InductiveInvariant, PTL

(* Whoever the hub has registered, as broadcaster or as watcher, has a     *)
(* goroutine that will take it out again, whatever registrations, panics   *)
(* and disconnections interleave; and nobody is in both roles.             *)
THEOREM NoGhosts == Spec => []RegisteredAreServed
<1>1. Inductive => RegisteredAreServed
  BY DEF Inductive, Serving
<1>2. QED
  BY <1>1, InductiveInvariant, PTL

(* Two pages never go on broadcasting: a page that broadcasts on a         *)
(* connection the hub has had for its broadcaster is the broadcaster, or   *)
(* the message that stops it is owed by a goroutine, on its way, or lost.  *)
THEOREM OneBroadcasterGoesOn == Spec => []CasterIsRegistered
<1>1. Inductive => CasterIsRegistered
  <2> SUFFICES ASSUME Inductive, Quiet, lost = {},
                      NEW p \in Pages, Online(p), casting[p], Me(p) \in registered
               PROVE  broadcaster = Me(p)
    BY DEF CasterIsRegistered
  <2>1. inbox[p] = << >> /\ outbox[p] = << >>
    BY DEF Quiet, PageQuiet
  <2>2. ~StopIsDue(p)
    BY DEF Quiet, StopIsDue
  <2>3. QED
    BY <2>1, <2>2, HasNothing DEF Inductive, Stopped, Me
<1>2. QED
  BY <1>1, InductiveInvariant, PTL

(* The hub knows each page that waits for a broadcast, unless it asked     *)
(* while the hub still took it for the broadcaster: a page announces a     *)
(* broadcast before, never after, it asks to watch again.                  *)
THEOREM NobodyWaitsUnknown == Spec => []WaitingAreKnown
<1>1. Inductive => WaitingAreKnown
  <2> SUFFICES ASSUME Inductive, Quiet, NEW p \in Pages, Online(p), ~casting[p]
               PROVE  Me(p) \in watchers \cup refused
    BY DEF WaitingAreKnown
  <2>1. outbox[p] = << >>
    BY DEF Quiet, PageQuiet
  <2>2. QED
    BY <2>1, HasNothing DEF Inductive, Known, Me
<1>2. QED
  BY <1>1, InductiveInvariant, PTL

(* The only broadcaster there has been keeps no peer connection for a      *)
(* watcher that left, however the sends of the goroutines and the steps of *)
(* the pages interleave: nothing that would make one comes after           *)
(* disconnectPeer.                                                         *)
THEOREM NoPeerOfAGhost == Spec => []LeftPeersAreClosed
<1>1. Inductive => LeftPeersAreClosed
  <2> SUFFICES ASSUME Inductive, Quiet, lost = {}, panicked = {},
                      NEW p \in Pages, Online(p), registered = {Me(p)},
                      NEW id \in DOMAIN peers[p]
               PROVE  served[id] = "reading"
    BY DEF LeftPeersAreClosed
  <2>1. id \in Ids
    BY PeerMapsAre DEF Inductive, PagePart, PageTyped
  <2>2. MayStay(p, id) \/ Settled(p, id)
    BY <2>1 DEF Inductive, Told, Sole, Me
  <2>3. inbox[p] = << >> /\ job[id] = {}
    BY <2>1 DEF Quiet, PageQuiet
  <2>4. QED
    BY <2>2, <2>3, HasNothing DEF MayStay, Settled
<1>2. QED
  BY <1>1, InductiveInvariant, PTL
=============================================================================
