----------------------------- MODULE HubProofs -----------------------------
(***************************************************************************)
(* The room list of the home page, for any number of rooms, pages and      *)
(* changes: the types of Hub, and the safety half of EveryChangeArrives.   *)
(* A change that was notified is on its way to every open page until the   *)
(* page has been pushed it: in a list that a caller has still to read or   *)
(* to push, in the page's buffer, or dropped by that buffer.               *)
(***************************************************************************)
EXTENDS Hub, TLAPS

(* The number of a card is at most that of the last change of its room,    *)
(* and equal to it while the room is listed; asking a room for its card    *)
(* never takes a list back behind the copy of Manager.rooms.               *)
CardsAreRecent ==
    /\ \A r \in Rooms : card[r] <= latest[r] /\ latest[r] <= changes
    /\ \A r \in rooms : card[r] = latest[r]
    /\ \A g \in Callers : \A r \in unread[g] : list[g][r] <= card[r]

(* The page is registered as long as its connection is open.               *)
OpenIsRegistered == \A p \in Pages : page[p] = "open" <=> p \in clients

(* No broadcast runs before the change that starts it.                     *)
BroadcastsFollow == \A n \in 1..MaxChanges : n > changes => stage[Broadcast(n)] = "idle"

Typed ==
    /\ TypeOK
    /\ inbox \in [Pages -> Seq(Lists)]

(* The list of g will have a change of r that is at least n.               *)
Carries(g, r, n) == stage[g] = "ready" \/ list[g][r] >= n

(* The caller g is going to push its list to p.                            *)
Delivers(g, p) ==
    \/ g = Snapshot(p) /\ stage[g] \in {"ready", "reading"}
    \/ g[1] = "broadcast" /\ stage[g] \in {"ready", "reading"}
    \/ g[1] = "broadcast" /\ stage[g] = "sending" /\ p \in targets[g]

OnItsWay(p, r, n) ==
    \/ p \in dropped
    \/ seen[p][r] >= n
    \/ \E i \in DOMAIN inbox[p] : inbox[p][i][r] >= n
    \/ \E g \in Callers : Delivers(g, p) /\ Carries(g, r, n)

NoChangeIsLost ==
    \A p \in Pages, r \in Rooms, n \in 1..MaxChanges :
        page[p] = "open" /\ latest[r] = n /\ Notified(n) => OnItsWay(p, r, n)

Inductive == Typed /\ CardsAreRecent /\ OpenIsRegistered /\ BroadcastsFollow /\ NoChangeIsLost

LEMMA CallerNames ==
  /\ \A n \in 1..MaxChanges : Broadcast(n) \in Callers /\ Broadcast(n)[1] = "broadcast"
  /\ \A p \in Pages : /\ Snapshot(p) \in Callers /\ Fetch(p) \in Callers
                      /\ Snapshot(p)[1] = "snapshot" /\ Fetch(p)[1] = "fetch"
  /\ \A m, n : Broadcast(m) = Broadcast(n) => m = n
  /\ \A p, q : Snapshot(p) = Snapshot(q) => p = q
BY DEF Callers, Broadcast, Snapshot, Fetch

LEMMA InitInductive == Init => Inductive
<1> SUFFICES ASSUME Init PROVE Inductive
  OBVIOUS
<1>1. Blank \in Lists /\ \A r \in Rooms : Blank[r] = 0
  BY HubAssumption DEF Blank, Lists, Numbers
<1>2. Typed
  BY <1>1, HubAssumption DEF Init, Typed, TypeOK, Numbers
<1>3. CardsAreRecent /\ OpenIsRegistered
  BY <1>1 DEF Init, CardsAreRecent, OpenIsRegistered
<1>4. BroadcastsFollow
  BY CallerNames DEF Init, BroadcastsFollow
<1>5. NoChangeIsLost
  BY DEF Init, NoChangeIsLost
<1>6. QED
  BY <1>2, <1>3, <1>4, <1>5 DEF Inductive

(* A step that changes no room loses no change when it brings every list   *)
(* that was on its way to a page closer to that page.                      *)
LEMMA NothingLost ==
  ASSUME NoChangeIsLost, UNCHANGED latest,
         \A n \in 1..MaxChanges : Notified(n)' => Notified(n),
         \A p \in Pages : page'[p] = "open" => page[p] = "open",
         \A p \in Pages, r \in Rooms, n \in 1..MaxChanges :
             page[p] = "open" /\ page'[p] = "open" /\ latest[r] = n /\ OnItsWay(p, r, n)
                 => OnItsWay(p, r, n)'
  PROVE  NoChangeIsLost'
BY DEF NoChangeIsLost

----------------------------------------------------------------------------
(* The rooms change. *)

LEMMA ChangedTyped ==
  ASSUME Typed, CardsAreRecent, NEW S, Changed(S)
  PROVE  /\ changes' = changes + 1 /\ changes' \in 1..MaxChanges /\ changes \in Numbers
         /\ latest' \in Lists
         /\ \A r \in Rooms : latest[r] \in Nat /\ latest[r] <= changes
         /\ \A r \in Rooms : latest'[r] = IF r \in S THEN changes + 1 ELSE latest[r]
BY HubAssumption DEF Typed, TypeOK, CardsAreRecent, Changed, Lists, Numbers

LEMMA ChangeIsOnItsWay ==
  ASSUME Inductive, NEW S, Changed(S), NotifyChange \/ UNCHANGED listVars, UNCHANGED pageVars
  PROVE  /\ BroadcastsFollow' /\ NoChangeIsLost' /\ OpenIsRegistered'
         /\ stage' \in [Callers -> {"idle", "ready", "reading", "sending", "done"}]
         /\ UNCHANGED <<unread, list, targets>>
<1> DEFINE b == Broadcast(changes + 1)
<1>1. Typed /\ CardsAreRecent
  BY DEF Inductive
<1>2. /\ changes' = changes + 1 /\ changes' \in 1..MaxChanges /\ changes \in Numbers
      /\ \A r \in Rooms : latest[r] \in Nat /\ latest[r] <= changes
      /\ \A r \in Rooms : latest'[r] = IF r \in S THEN changes + 1 ELSE latest[r]
  BY <1>1, ChangedTyped
<1>3. /\ b \in Callers /\ b[1] = "broadcast" /\ stage[b] = "idle"
      /\ \A n \in 1..MaxChanges : n # changes + 1 => Broadcast(n) # b
  BY <1>2, CallerNames DEF Inductive, BroadcastsFollow, Numbers
<1> HIDE DEF b
<1>4. /\ UNCHANGED <<unread, list, targets>>
      /\ stage' = stage \/ stage' = [stage EXCEPT ![b] = "ready"]
      /\ stage \in [Callers -> {"idle", "ready", "reading", "sending", "done"}]
  BY <1>1, <1>2 DEF NotifyChange, listVars, b, Typed, TypeOK
<1>5. \A g \in Callers \ {b} : stage'[g] = stage[g]
  BY <1>4
<1>6. BroadcastsFollow'
  <2>1. \A n \in 1..MaxChanges : n > changes + 1 => n > changes /\ n # changes + 1
    BY <1>2 DEF Numbers
  <2>2. QED
    BY <1>2, <1>3, <1>5, <2>1, CallerNames DEF Inductive, BroadcastsFollow
<1>7. NoChangeIsLost'
  <2>1. SUFFICES ASSUME NEW p \in Pages, NEW r \in Rooms, NEW n \in 1..MaxChanges,
                        page[p] = "open", latest'[r] = n, Notified(n)'
                 PROVE  OnItsWay(p, r, n)'
    BY DEF NoChangeIsLost, pageVars
  <2>2. CASE r \in S
    <3>1. n = changes + 1
      BY <1>2, <2>1, <2>2
    <3>2. stage'[b] = "ready"
      BY <1>3, <1>4, <2>1, <3>1 DEF Notified, b
    <3>3. QED
      BY <1>3, <3>2 DEF OnItsWay, Delivers, Carries
  <2>3. CASE r \notin S
    <3>1. latest[r] = n /\ n # changes + 1
      BY <1>2, <2>1, <2>3 DEF Numbers
    <3>2. Notified(n)
      BY <1>3, <1>5, <2>1, <3>1, CallerNames DEF Notified
    <3>3. OnItsWay(p, r, n)
      BY <2>1, <3>1, <3>2 DEF Inductive, NoChangeIsLost
    <3>4. ASSUME NEW g \in Callers, Delivers(g, p), Carries(g, r, n)
          PROVE  Delivers(g, p)' /\ Carries(g, r, n)'
      <4>1. g # b
        BY <1>3, <3>4 DEF Delivers
      <4>2. QED
        BY <1>4, <1>5, <3>4, <4>1 DEF Delivers, Carries
    <3>5. QED
      BY <3>3, <3>4 DEF OnItsWay, pageVars
  <2>4. QED
    BY <2>2, <2>3
<1>8. OpenIsRegistered'
  BY DEF Inductive, OpenIsRegistered, pageVars
<1>9. stage' \in [Callers -> {"idle", "ready", "reading", "sending", "done"}]
  BY <1>3, <1>4
<1>10. QED
  BY <1>4, <1>6, <1>7, <1>8, <1>9

LEMMA RoomsInductive ==
  ASSUME Inductive, NEW S \in SUBSET Rooms, Changed(S), NotifyChange \/ UNCHANGED listVars, UNCHANGED pageVars,
         rooms' \in SUBSET Rooms, card' \in Lists,
         \A r \in Rooms : card'[r] = card[r] \/ (r \in S /\ card'[r] = changes + 1),
         \A r \in rooms' : (r \in rooms /\ r \notin S) \/ card'[r] = latest'[r]
  PROVE  Inductive'
<1>1. Typed /\ CardsAreRecent
  BY DEF Inductive
<1>2. /\ changes' = changes + 1 /\ changes' \in 1..MaxChanges /\ changes \in Numbers
      /\ latest' \in Lists
      /\ \A r \in Rooms : latest[r] \in Nat /\ latest[r] <= changes
      /\ \A r \in Rooms : latest'[r] = IF r \in S THEN changes + 1 ELSE latest[r]
  BY <1>1, ChangedTyped
<1>3. /\ BroadcastsFollow' /\ NoChangeIsLost' /\ OpenIsRegistered'
      /\ stage' \in [Callers -> {"idle", "ready", "reading", "sending", "done"}]
      /\ UNCHANGED <<unread, list, targets>>
  BY ChangeIsOnItsWay
<1>4. Typed'
  BY <1>1, <1>2, <1>3 DEF Typed, TypeOK, pageVars, Numbers
<1>5. /\ \A r \in Rooms : card[r] \in Nat /\ card'[r] \in Nat /\ card[r] <= latest[r] /\ latest'[r] \in Nat
      /\ \A g \in Callers : list[g] \in Lists
      /\ \A g \in Callers, r \in Rooms : list[g][r] \in Nat
  BY <1>1, <1>2 DEF Typed, TypeOK, Lists, Numbers, CardsAreRecent
<1>6. \A r \in Rooms : card'[r] <= latest'[r] /\ latest'[r] <= changes' /\ card[r] <= card'[r]
  BY <1>2, <1>5 DEF Numbers
<1>7. \A r \in rooms' : card'[r] = latest'[r]
  <2>1. ASSUME NEW r \in rooms, r \notin S PROVE card'[r] = latest'[r]
    BY <1>1, <1>2, <2>1 DEF CardsAreRecent, Typed, TypeOK
  <2>2. QED
    BY <2>1
<1>8. \A g \in Callers : \A r \in unread'[g] : list'[g][r] <= card'[r]
  <2>1. ASSUME NEW g \in Callers, NEW r \in unread[g] PROVE list[g][r] <= card'[r]
    <3>1. r \in Rooms /\ list[g][r] <= card[r]
      BY <1>1 DEF CardsAreRecent, Typed, TypeOK
    <3>2. QED
      BY <1>5, <1>6, <3>1
  <2>2. QED
    BY <1>3, <2>1
<1>9. CardsAreRecent'
  BY <1>6, <1>7, <1>8 DEF CardsAreRecent
<1>10. QED
  BY <1>3, <1>4, <1>9 DEF Inductive

LEMMA RoomActionsInductive ==
  ASSUME Inductive, NEW r \in Rooms,
         \/ \E replaced \in SUBSET rooms : Create(r, replaced)
         \/ RemoveIfEmpty(r) \/ Update(r) \/ FailedPromotion(r)
  PROVE  Inductive'
<1>1. Typed /\ rooms \in SUBSET Rooms /\ card \in Lists /\ CardsAreRecent
  BY DEF Inductive, Typed, TypeOK
<1>2. ASSUME NEW S \in SUBSET Rooms, Changed(S), r \in S
      PROVE  /\ changes' = changes + 1 /\ latest'[r] = changes'
             /\ [card EXCEPT ![r] = changes'] \in Lists
             /\ \A x \in Rooms \ {r} : [card EXCEPT ![r] = changes'][x] = card[x]
             /\ [card EXCEPT ![r] = changes'][r] = changes + 1
  BY <1>1, <1>2, ChangedTyped DEF Lists, Numbers
<1>3. ASSUME NEW replaced \in SUBSET rooms, Create(r, replaced) PROVE Inductive'
  <2>1. {r} \cup replaced \in SUBSET Rooms /\ r \in {r} \cup replaced
    BY <1>1
  <2>2. Changed({r} \cup replaced) /\ card' = [card EXCEPT ![r] = changes']
        /\ rooms' = (rooms \ replaced) \cup {r}
    BY <1>3 DEF Create
  <2>3. /\ rooms' \in SUBSET Rooms /\ card' \in Lists
        /\ \A x \in Rooms : card'[x] = card[x] \/ (x = r /\ card'[x] = changes + 1)
        /\ card'[r] = latest'[r]
    BY <1>1, <1>2, <2>1, <2>2
  <2>4. \A x \in rooms' : (x \in rooms /\ x \notin {r} \cup replaced) \/ x = r
    BY <2>2
  <2>5. QED
    BY <1>3, <2>1, <2>2, <2>3, <2>4, RoomsInductive DEF Create
<1>4. ASSUME RemoveIfEmpty(r) PROVE Inductive'
  <2>1. \A x \in rooms' : x \in rooms /\ x \notin {r}
    BY <1>4 DEF RemoveIfEmpty
  <2>2. QED
    BY <1>1, <1>4, <2>1, RoomsInductive DEF RemoveIfEmpty
<1>5. ASSUME CardChanges(r), NotifyChange \/ UNCHANGED listVars PROVE Inductive'
  <2>1. Changed({r}) /\ card' = [card EXCEPT ![r] = changes'] /\ rooms' = rooms /\ r \in {r}
    BY <1>5 DEF CardChanges
  <2>2. /\ card' \in Lists /\ card'[r] = latest'[r]
        /\ \A x \in Rooms : card'[x] = card[x] \/ (x = r /\ card'[x] = changes + 1)
    BY <1>1, <1>2, <2>1
  <2>3. QED
    BY <1>1, <1>5, <2>1, <2>2, RoomsInductive DEF CardChanges
<1>6. QED
  BY <1>3, <1>4, <1>5 DEF Update, FailedPromotion

----------------------------------------------------------------------------
(* A caller reads the list. *)

LEMMA ListTypes ==
  ASSUME Typed, CardsAreRecent
  PROVE  /\ \A r \in Rooms : card[r] \in Nat /\ latest[r] \in Nat
         /\ \A g \in Callers : /\ list[g] \in Lists /\ unread[g] \in SUBSET Rooms
                               /\ \A r \in Rooms : list[g][r] \in Nat
         /\ \A p \in Pages : /\ inbox[p] \in Seq(Lists) /\ Len(inbox[p]) <= Capacity
                             /\ seen[p] \in Lists
                             /\ \A r \in Rooms : seen[p][r] \in Nat
         /\ \A l \in Lists, r \in Rooms : l[r] \in Nat
BY DEF Typed, TypeOK, CardsAreRecent, Lists, Numbers

LEMMA CopyRoomsInductive ==
  ASSUME Inductive, NEW g \in Callers, CopyRooms(g)
  PROVE  Inductive'
<1> USE DEF CopyRooms
<1>1. Typed /\ CardsAreRecent /\ stage \in [Callers -> {"idle", "ready", "reading", "sending", "done"}]
  BY DEF Inductive, Typed, TypeOK
<1>2. /\ list'[g] = latest /\ unread'[g] = rooms /\ stage'[g] = "reading"
      /\ \A h \in Callers \ {g} : list'[h] = list[h] /\ unread'[h] = unread[h] /\ stage'[h] = stage[h]
  BY <1>1 DEF Typed, TypeOK
<1>3. Typed'
  BY <1>1 DEF Typed, TypeOK, pageVars
<1>4. CardsAreRecent'
  <2>1. \A r \in rooms : latest[r] <= card[r]
    BY <1>1, ListTypes DEF CardsAreRecent, Typed, TypeOK
  <2>2. \A h \in Callers : \A r \in unread'[h] : list'[h][r] <= card[r]
    BY <1>1, <1>2, <2>1 DEF CardsAreRecent
  <2>3. QED
    BY <1>1, <2>2 DEF CardsAreRecent
<1>5. OpenIsRegistered' /\ BroadcastsFollow'
  <2>1. \A n \in 1..MaxChanges : Broadcast(n) \in Callers
    BY CallerNames
  <2>2. QED
    BY <1>2, <2>1 DEF Inductive, OpenIsRegistered, BroadcastsFollow, pageVars
<1>6. NoChangeIsLost'
  <2>1. \A n \in 1..MaxChanges : Notified(n)' => Notified(n)
    BY <1>2, CallerNames DEF Notified
  <2>2. ASSUME NEW p \in Pages, NEW r \in Rooms, NEW n \in 1..MaxChanges,
               latest[r] = n, OnItsWay(p, r, n)
        PROVE  OnItsWay(p, r, n)'
    <3>1. n >= n
      OBVIOUS
    <3>2. \A h \in Callers : Delivers(h, p) => Delivers(h, p)'
      BY <1>2 DEF Delivers
    <3>3. \A h \in Callers : Carries(h, r, n) => Carries(h, r, n)'
      BY <1>2, <2>2, <3>1 DEF Carries
    <3>4. QED
      BY <2>2, <3>2, <3>3 DEF OnItsWay, pageVars
  <2>3. QED
    BY <2>1, <2>2, NothingLost DEF Inductive, pageVars
<1>7. QED
  BY <1>3, <1>4, <1>5, <1>6 DEF Inductive

(* The card of a room that has changed since Manager.rooms was copied is   *)
(* more recent, never less.                                                *)
LEMMA PublicSnapshotInductive ==
  ASSUME Inductive, NEW g \in Callers, NEW x \in Rooms, PublicSnapshot(g, x)
  PROVE  Inductive'
<1> USE DEF PublicSnapshot
<1>1. Typed /\ CardsAreRecent
  BY DEF Inductive
<1>2. /\ list \in [Callers -> Lists] /\ unread \in [Callers -> SUBSET Rooms]
      /\ card[x] \in Numbers
  BY <1>1 DEF Typed, TypeOK, Lists
<1>3. /\ list' \in [Callers -> Lists]
      /\ list'[g][x] = card[x] /\ \A r \in Rooms \ {x} : list'[g][r] = list[g][r]
      /\ unread' \in [Callers -> SUBSET Rooms] /\ unread'[g] = unread[g] \ {x}
      /\ \A h \in Callers \ {g} : list'[h] = list[h] /\ unread'[h] = unread[h]
  BY <1>2 DEF Lists
<1>4. Typed'
  BY <1>1, <1>3 DEF Typed, TypeOK, pageVars
<1>5. \A h \in Callers : \A r \in unread'[h] : list'[h][r] <= card[r]
  <2>1. ASSUME NEW h \in Callers, NEW r \in unread'[h] PROVE list'[h][r] <= card[r]
    BY <1>1, <1>2, <1>3, <2>1 DEF CardsAreRecent
  <2>2. QED
    BY <2>1
<1>6. CardsAreRecent'
  BY <1>1, <1>5 DEF CardsAreRecent
<1>7. OpenIsRegistered' /\ BroadcastsFollow'
  BY DEF Inductive, OpenIsRegistered, BroadcastsFollow, pageVars
<1>8. \A h \in Callers, r \in Rooms : list[h][r] <= list'[h][r]
  <2>1. list[g][x] <= card[x]
    BY <1>1 DEF CardsAreRecent
  <2>2. QED
    BY <1>1, <1>3, <2>1, ListTypes
<1>9. NoChangeIsLost'
  <2>1. \A n \in 1..MaxChanges : Notified(n)' => Notified(n)
    BY DEF Notified
  <2>2. ASSUME NEW p \in Pages, NEW r \in Rooms, NEW n \in 1..MaxChanges, OnItsWay(p, r, n)
        PROVE  OnItsWay(p, r, n)'
    <3>1. \A h \in Callers : Delivers(h, p) => Delivers(h, p)'
      BY DEF Delivers
    <3>2. ASSUME NEW h \in Callers, list[h][r] >= n PROVE list'[h][r] >= n
      <4>1. list'[h][r] \in Nat /\ list[h][r] \in Nat /\ list[h][r] <= list'[h][r] /\ n \in Nat
        BY <1>3, <1>8, <1>1, ListTypes DEF Lists, Numbers
      <4>2. QED
        BY <3>2, <4>1
    <3>3. \A h \in Callers : Carries(h, r, n) => Carries(h, r, n)'
      BY <3>2 DEF Carries
    <3>4. QED
      BY <2>2, <3>1, <3>3 DEF OnItsWay, pageVars
  <2>3. QED
    BY <2>1, <2>2, NothingLost DEF Inductive, pageVars
<1>10. QED
  BY <1>4, <1>6, <1>7, <1>9 DEF Inductive

LEMMA ListInductive ==
  ASSUME Inductive, NEW g \in Callers, List(g)
  PROVE  Inductive'
BY CopyRoomsInductive, PublicSnapshotInductive DEF List

----------------------------------------------------------------------------
(* The hub and its pages. *)

(* The rooms and the lists stay as they are.                               *)
LEMMA ListsKept ==
  ASSUME Inductive, UNCHANGED <<rooms, card, latest, changes, unread, list>>,
         \A n \in 1..MaxChanges : stage'[Broadcast(n)] = stage[Broadcast(n)] \/ stage[Broadcast(n)] # "idle"
  PROVE  CardsAreRecent' /\ BroadcastsFollow' /\ \A n \in 1..MaxChanges : Notified(n)' => Notified(n)
BY DEF Inductive, CardsAreRecent, BroadcastsFollow, Notified

LEMMA CopyClientsInductive ==
  ASSUME Inductive, NEW g \in Callers, CopyClients(g)
  PROVE  Inductive'
<1> USE DEF CopyClients, Listed
<1>1. Typed /\ stage \in [Callers -> {"idle", "ready", "reading", "sending", "done"}]
      /\ targets \in [Callers -> SUBSET Pages]
  BY DEF Inductive, Typed, TypeOK
<1>2. /\ targets'[g] = clients /\ stage'[g] = "sending"
      /\ \A h \in Callers \ {g} : targets'[h] = targets[h] /\ stage'[h] = stage[h]
  BY <1>1
<1>3. Typed'
  BY <1>1 DEF Typed, TypeOK, pageVars
<1>4. CardsAreRecent' /\ BroadcastsFollow' /\ \A n \in 1..MaxChanges : Notified(n)' => Notified(n)
  BY <1>2, CallerNames, ListsKept
<1>5. OpenIsRegistered'
  BY DEF Inductive, OpenIsRegistered, pageVars
<1>6. ASSUME NEW p \in Pages, NEW r \in Rooms, NEW n \in 1..MaxChanges,
             page[p] = "open", OnItsWay(p, r, n)
      PROVE  OnItsWay(p, r, n)'
  <2>1. p \in clients
    BY <1>6 DEF Inductive, OpenIsRegistered
  <2>2. \A h \in Callers : Delivers(h, p) => Delivers(h, p)'
    BY <1>2, <2>1, CallerNames DEF Delivers
  <2>3. \A h \in Callers : Carries(h, r, n) => Carries(h, r, n)'
    BY <1>2 DEF Carries
  <2>4. QED
    BY <1>6, <2>2, <2>3 DEF OnItsWay, pageVars
<1>7. NoChangeIsLost'
  BY <1>4, <1>6, NothingLost DEF Inductive, pageVars
<1>8. QED
  BY <1>3, <1>4, <1>5, <1>7 DEF Inductive

(* A list is sent to a page: it is the last in the buffer, or the buffer   *)
(* was full, and no list the page has goes away.                           *)
LEMMA SendJSONReaches ==
  ASSUME Typed, CardsAreRecent, NEW p \in Pages, NEW l \in Lists, SendJSON(p, l)
  PROVE  /\ inbox' \in [Pages -> Seq(Lists)] /\ \A q \in Pages : Len(inbox'[q]) <= Capacity
         /\ dropped' \in SUBSET Pages /\ dropped \subseteq dropped'
         /\ \A q \in Pages : \A i \in DOMAIN inbox[q] : i \in DOMAIN inbox'[q] /\ inbox'[q][i] = inbox[q][i]
         /\ page[p] = "open" => p \in dropped' \/ \E i \in DOMAIN inbox'[p] : inbox'[p][i] = l
<1>1. /\ inbox \in [Pages -> Seq(Lists)] /\ Len(inbox[p]) \in Nat /\ Len(inbox[p]) <= Capacity
      /\ \A q \in Pages : Len(inbox[q]) <= Capacity
      /\ Capacity \in Nat /\ dropped \in SUBSET Pages
  BY HubAssumption DEF Typed, TypeOK
<1>2. dropped' \in SUBSET Pages /\ dropped \subseteq dropped'
  BY <1>1 DEF SendJSON
<1>3. CASE page[p] = "open" /\ Len(inbox[p]) < Capacity
  <2> DEFINE q == inbox[p]
             r == Append(q, l)
  <2>1. inbox' = [inbox EXCEPT ![p] = r]
    BY <1>3 DEF SendJSON
  <2>2. /\ r \in Seq(Lists) /\ Len(r) = Len(q) + 1 /\ r[Len(r)] = l /\ Len(r) \in DOMAIN r
        /\ \A i \in DOMAIN q : i \in DOMAIN r /\ r[i] = q[i]
    BY <1>1
  <2> HIDE DEF r
  <2>3. Len(r) <= Capacity
    BY <1>1, <1>3, <2>2
  <2>4. /\ inbox' \in [Pages -> Seq(Lists)] /\ inbox'[p] = r
        /\ \A x \in Pages \ {p} : inbox'[x] = inbox[x]
    BY <1>1, <2>1, <2>2
  <2>5. QED
    BY <1>1, <1>2, <2>2, <2>3, <2>4
<1>4. CASE ~(page[p] = "open" /\ Len(inbox[p]) < Capacity)
  <2>1. inbox' = inbox
    BY <1>4 DEF SendJSON
  <2>2. page[p] = "open" => p \in dropped'
    <3>1. page[p] = "open" => Len(inbox[p]) = Capacity
      BY <1>1, <1>4
    <3>2. QED
      BY <3>1 DEF SendJSON
  <2>3. QED
    BY <1>1, <1>2, <2>1, <2>2
<1>5. QED
  BY <1>3, <1>4

LEMMA PushInductive ==
  ASSUME Inductive, NEW g \in Callers, g[1] = "broadcast", NEW x \in Pages, Push(g, x)
  PROVE  Inductive'
<1> USE DEF Push
<1>1. Typed /\ CardsAreRecent /\ list[g] \in Lists
      /\ stage \in [Callers -> {"idle", "ready", "reading", "sending", "done"}]
      /\ targets \in [Callers -> SUBSET Pages]
  BY DEF Inductive, Typed, TypeOK
<1>2. /\ targets'[g] = targets[g] \ {x} /\ stage'[g] \in {"sending", "done"}
      /\ targets'[g] # {} => stage'[g] = "sending"
      /\ \A h \in Callers \ {g} : targets'[h] = targets[h] /\ stage'[h] = stage[h]
      /\ targets' \in [Callers -> SUBSET Pages]
      /\ stage' \in [Callers -> {"idle", "ready", "reading", "sending", "done"}]
  BY <1>1
<1>3. /\ inbox' \in [Pages -> Seq(Lists)] /\ \A q \in Pages : Len(inbox'[q]) <= Capacity
      /\ dropped' \in SUBSET Pages /\ dropped \subseteq dropped'
      /\ \A q \in Pages : \A i \in DOMAIN inbox[q] : i \in DOMAIN inbox'[q] /\ inbox'[q][i] = inbox[q][i]
      /\ page[x] = "open" => x \in dropped' \/ \E i \in DOMAIN inbox'[x] : inbox'[x][i] = list[g]
  BY <1>1, SendJSONReaches
<1>4. Typed'
  BY <1>1, <1>2, <1>3 DEF Typed, TypeOK
<1>5. CardsAreRecent' /\ BroadcastsFollow' /\ \A n \in 1..MaxChanges : Notified(n)' => Notified(n)
  BY <1>2, CallerNames, ListsKept
<1>6. OpenIsRegistered'
  BY DEF Inductive, OpenIsRegistered
<1>7. ASSUME NEW p \in Pages, NEW r \in Rooms, NEW n \in 1..MaxChanges,
             page[p] = "open", OnItsWay(p, r, n)
      PROVE  OnItsWay(p, r, n)'
  <2>1. CASE p \in dropped \/ seen[p][r] >= n \/ \E i \in DOMAIN inbox[p] : inbox[p][i][r] >= n
    BY <1>3, <2>1 DEF OnItsWay
  <2>2. ASSUME NEW h \in Callers, Delivers(h, p), Carries(h, r, n), h # g \/ p # x
        PROVE  OnItsWay(p, r, n)'
    <3>1. Carries(h, r, n)'
      BY <1>2, <2>2 DEF Carries, Delivers
    <3>2. Delivers(h, p)'
      BY <1>2, <2>2, CallerNames DEF Delivers
    <3>3. QED
      BY <3>1, <3>2 DEF OnItsWay
  <2>3. CASE p = x /\ Carries(g, r, n)
    <3>1. list[g][r] >= n
      BY <2>3 DEF Carries
    <3>2. QED
      BY <1>3, <1>7, <2>3, <3>1 DEF OnItsWay
  <2>4. QED
    BY <1>7, <2>1, <2>2, <2>3 DEF OnItsWay
<1>8. NoChangeIsLost'
  BY <1>5, <1>7, NothingLost DEF Inductive
<1>9. QED
  BY <1>4, <1>5, <1>6, <1>8 DEF Inductive

(* A page that connects is registered before its snapshot is read: every   *)
(* change so far will be in that snapshot.                                 *)
LEMMA ConnectInductive ==
  ASSUME Inductive, NEW x \in Pages, ServeWS(x), page[x] = "away"
  PROVE  Inductive'
<1>0. /\ page' = [page EXCEPT ![x] = "open"] /\ clients' = clients \cup {x}
      /\ stage' = [stage EXCEPT ![Snapshot(x)] = "ready", ![Fetch(x)] = "ready"]
      /\ UNCHANGED <<rooms, card, latest, changes, unread, list, targets, inbox, shown, seen, dropped>>
  BY DEF ServeWS
<1>1. Typed /\ stage \in [Callers -> {"idle", "ready", "reading", "sending", "done"}]
      /\ page \in [Pages -> {"away", "open", "left"}] /\ clients \in SUBSET Pages
  BY DEF Inductive, Typed, TypeOK
<1>2. /\ stage'[Snapshot(x)] = "ready"
      /\ \A h \in Callers \ {Snapshot(x), Fetch(x)} : stage'[h] = stage[h]
      /\ stage' \in [Callers -> {"idle", "ready", "reading", "sending", "done"}]
      /\ page'[x] = "open" /\ \A p \in Pages \ {x} : page'[p] = page[p]
  BY <1>0, <1>1, CallerNames
<1>3. Typed'
  <2>1. page' \in [Pages -> {"away", "open", "left"}] /\ clients' \in SUBSET Pages
    BY <1>0, <1>1
  <2>2. QED
    BY <1>0, <1>1, <1>2, <2>1 DEF Typed, TypeOK
<1>4. \A n \in 1..MaxChanges : stage'[Broadcast(n)] = stage[Broadcast(n)]
  BY <1>2, CallerNames
<1>5. CardsAreRecent' /\ BroadcastsFollow' /\ \A n \in 1..MaxChanges : Notified(n)' => Notified(n)
  BY <1>0, <1>4, ListsKept
<1>6. OpenIsRegistered'
  BY <1>0, <1>1, <1>2 DEF Inductive, OpenIsRegistered
<1>7. NoChangeIsLost'
  <2>1. SUFFICES ASSUME NEW p \in Pages, NEW r \in Rooms, NEW n \in 1..MaxChanges,
                        page'[p] = "open", latest[r] = n, Notified(n)
                 PROVE  OnItsWay(p, r, n)'
    BY <1>0, <1>5 DEF NoChangeIsLost
  <2>2. CASE p = x
    BY <1>0, <1>2, <2>2, CallerNames DEF OnItsWay, Delivers, Carries
  <2>3. CASE p # x
    <3>1. OnItsWay(p, r, n)
      BY <1>0, <1>2, <2>1, <2>3 DEF Inductive, NoChangeIsLost
    <3>2. ASSUME NEW h \in Callers, Delivers(h, p), Carries(h, r, n)
          PROVE  Delivers(h, p)' /\ Carries(h, r, n)'
      <4>1. h # Snapshot(x) /\ h # Fetch(x)
        BY <2>3, <3>2, CallerNames DEF Delivers
      <4>2. QED
        BY <1>0, <1>2, <3>2, <4>1 DEF Delivers, Carries
    <3>3. QED
      BY <1>0, <3>1, <3>2 DEF OnItsWay
  <2>4. QED
    BY <2>2, <2>3
<1>8. QED
  BY <1>3, <1>5, <1>6, <1>7 DEF Inductive

(* The snapshot is sent. *)
LEMMA SnapshotInductive ==
  ASSUME Inductive, NEW x \in Pages, ServeWS(x), page[x] # "away"
  PROVE  Inductive'
<1> USE DEF ServeWS
<1>1. Typed /\ CardsAreRecent /\ list[Snapshot(x)] \in Lists
      /\ stage \in [Callers -> {"idle", "ready", "reading", "sending", "done"}]
  BY CallerNames DEF Inductive, Typed, TypeOK
<1>2. /\ stage[Snapshot(x)] = "reading" /\ stage'[Snapshot(x)] = "done"
      /\ \A h \in Callers \ {Snapshot(x)} : stage'[h] = stage[h]
      /\ stage' \in [Callers -> {"idle", "ready", "reading", "sending", "done"}]
  BY <1>1, CallerNames DEF Listed
<1>3. /\ inbox' \in [Pages -> Seq(Lists)] /\ \A q \in Pages : Len(inbox'[q]) <= Capacity
      /\ dropped' \in SUBSET Pages /\ dropped \subseteq dropped'
      /\ \A q \in Pages : \A i \in DOMAIN inbox[q] : i \in DOMAIN inbox'[q] /\ inbox'[q][i] = inbox[q][i]
      /\ x \in dropped' \/ \E i \in DOMAIN inbox'[x] : inbox'[x][i] = list[Snapshot(x)]
  BY <1>1, SendJSONReaches
<1>4. Typed'
  BY <1>1, <1>2, <1>3 DEF Typed, TypeOK
<1>5. \A n \in 1..MaxChanges : stage'[Broadcast(n)] = stage[Broadcast(n)]
  BY <1>2, CallerNames
<1>6. CardsAreRecent' /\ BroadcastsFollow' /\ \A n \in 1..MaxChanges : Notified(n)' => Notified(n)
  BY <1>5, ListsKept
<1>7. OpenIsRegistered'
  BY DEF Inductive, OpenIsRegistered
<1>8. ASSUME NEW p \in Pages, NEW r \in Rooms, NEW n \in 1..MaxChanges,
             page[p] = "open", OnItsWay(p, r, n)
      PROVE  OnItsWay(p, r, n)'
  <2>1. CASE p \in dropped \/ seen[p][r] >= n \/ \E i \in DOMAIN inbox[p] : inbox[p][i][r] >= n
    BY <1>3, <2>1 DEF OnItsWay
  <2>2. ASSUME NEW h \in Callers, Delivers(h, p), Carries(h, r, n), h # Snapshot(x)
        PROVE  OnItsWay(p, r, n)'
    BY <1>2, <2>2 DEF OnItsWay, Delivers, Carries
  <2>3. CASE Delivers(Snapshot(x), p) /\ Carries(Snapshot(x), r, n)
    <3>1. p = x /\ list[Snapshot(x)][r] >= n
      BY <1>2, <2>3, CallerNames DEF Delivers, Carries
    <3>2. QED
      BY <1>3, <3>1 DEF OnItsWay
  <2>4. QED
    BY <1>8, <2>1, <2>2, <2>3 DEF OnItsWay
<1>9. NoChangeIsLost'
  BY <1>6, <1>8, NothingLost DEF Inductive
<1>10. QED
  BY <1>4, <1>6, <1>7, <1>9 DEF Inductive

LEMMA OnMessageInductive ==
  ASSUME Inductive, NEW x \in Pages, OnMessage(x)
  PROVE  Inductive'
<1> USE DEF OnMessage
<1> DEFINE q == inbox[x]
           r0 == Tail(q)
           n0 == Len(q)
<1>1. Typed /\ CardsAreRecent /\ inbox \in [Pages -> Seq(Lists)] /\ seen \in [Pages -> Lists]
      /\ shown \in [Pages -> Lists] /\ n0 <= Capacity /\ Capacity \in Nat
      /\ \A p \in Pages : Len(inbox[p]) <= Capacity
  BY HubAssumption DEF Inductive, Typed, TypeOK
<1>2. q \in Seq(Lists) /\ q # << >> /\ inbox' = [inbox EXCEPT ![x] = r0]
  BY <1>1
<1>3. /\ n0 \in Nat /\ DOMAIN q = 1..n0 /\ r0 \in Seq(Lists) /\ Len(r0) = n0 - 1 /\ DOMAIN r0 = 1..(n0 - 1)
      /\ \A i \in 1..(n0 - 1) : r0[i] = q[i + 1]
      /\ Head(q) = q[1] /\ Head(q) \in Lists
  BY <1>2
<1> DEFINE most == [r \in Rooms |-> IF Head(q)[r] > seen[x][r] THEN Head(q)[r] ELSE seen[x][r]]
<1>4. /\ most \in Lists
      /\ \A r \in Rooms : most[r] >= Head(q)[r] /\ most[r] >= seen[x][r] /\ most[r] \in Nat
                          /\ Head(q)[r] \in Nat /\ seen[x][r] \in Nat
  <2>1. \A r \in Rooms : Head(q)[r] \in Numbers /\ seen[x][r] \in Numbers
    BY <1>1, <1>3 DEF Lists
  <2>2. QED
    BY <2>1, HubAssumption DEF Lists, Numbers
<1>5. seen' = [seen EXCEPT ![x] = most] /\ shown' = [shown EXCEPT ![x] = Head(q)]
  OBVIOUS
<1> HIDE DEF most, q, r0, n0
<1>6. /\ inbox'[x] = r0 /\ \A p \in Pages \ {x} : inbox'[p] = inbox[p]
      /\ inbox' \in [Pages -> Seq(Lists)]
      /\ seen'[x] = most /\ \A p \in Pages \ {x} : seen'[p] = seen[p]
      /\ seen' \in [Pages -> Lists] /\ shown' \in [Pages -> Lists]
  <2>1. inbox'[x] = r0 /\ (\A p \in Pages \ {x} : inbox'[p] = inbox[p]) /\ inbox' \in [Pages -> Seq(Lists)]
    BY <1>1, <1>2, <1>3
  <2>2. seen'[x] = most /\ (\A p \in Pages \ {x} : seen'[p] = seen[p]) /\ seen' \in [Pages -> Lists]
    BY <1>1, <1>4, <1>5
  <2>3. shown' \in [Pages -> Lists]
    BY <1>1, <1>3, <1>5
  <2>4. QED
    BY <2>1, <2>2, <2>3
<1>7. Len(r0) <= Capacity /\ \A p \in Pages : Len(inbox'[p]) <= Capacity
  BY <1>1, <1>3, <1>6
<1>8. Typed'
  BY <1>1, <1>6, <1>7 DEF Typed, TypeOK, listVars
<1>9. CardsAreRecent' /\ BroadcastsFollow' /\ \A n \in 1..MaxChanges : Notified(n)' => Notified(n)
  BY ListsKept DEF listVars
<1>10. OpenIsRegistered'
  BY DEF Inductive, OpenIsRegistered
<1>11. ASSUME NEW p \in Pages, NEW r \in Rooms, NEW n \in 1..MaxChanges, OnItsWay(p, r, n)
       PROVE  OnItsWay(p, r, n)'
  <2>1. CASE p # x
    BY <1>6, <1>11, <2>1 DEF OnItsWay, Delivers, Carries, listVars
  <2>2. ASSUME p = x, seen[x][r] >= n PROVE OnItsWay(p, r, n)'
    <3>1. seen'[x][r] >= n
      BY <1>4, <1>6, <2>2
    <3>2. QED
      BY <2>2, <3>1 DEF OnItsWay
  <2>3. ASSUME p = x, NEW i \in DOMAIN q, q[i][r] >= n PROVE OnItsWay(p, r, n)'
    <3>1. CASE i = 1
      <4>1. seen'[x][r] >= n
        BY <1>3, <1>4, <1>6, <2>3, <3>1
      <4>2. QED
        BY <2>3, <4>1 DEF OnItsWay
    <3>2. CASE i # 1
      <4>1. i - 1 \in DOMAIN r0 /\ (i - 1) + 1 = i
        BY <1>3, <2>3, <3>2
      <4>2. r0[i - 1] = q[i]
        BY <1>3, <4>1
      <4>3. QED
        BY <1>6, <2>3, <4>1, <4>2 DEF OnItsWay
    <3>3. QED
      BY <3>1, <3>2
  <2>4. CASE p = x /\ (p \in dropped \/ \E g \in Callers : Delivers(g, p) /\ Carries(g, r, n))
    BY <2>4 DEF OnItsWay, Delivers, Carries, listVars
  <2>5. QED
    BY <1>11, <2>1, <2>2, <2>3, <2>4 DEF OnItsWay, q
<1>12. NoChangeIsLost'
  BY <1>9, <1>11, NothingLost DEF Inductive
<1>13. QED
  BY <1>8, <1>9, <1>10, <1>12 DEF Inductive

(* The answer of GET /api/rooms is shown and pushed nowhere.               *)
LEMMA LoadHubOnceInductive ==
  ASSUME Inductive, NEW x \in Pages, LoadHubOnce(x)
  PROVE  Inductive'
<1> USE DEF LoadHubOnce
<1>1. Typed /\ stage \in [Callers -> {"idle", "ready", "reading", "sending", "done"}]
  BY DEF Inductive, Typed, TypeOK
<1>2. \A h \in Callers \ {Fetch(x)} : stage'[h] = stage[h]
  BY <1>1
<1>3. Typed'
  BY <1>1, CallerNames DEF Typed, TypeOK
<1>4. \A n \in 1..MaxChanges : stage'[Broadcast(n)] = stage[Broadcast(n)]
  BY <1>2, CallerNames
<1>5. CardsAreRecent' /\ BroadcastsFollow' /\ \A n \in 1..MaxChanges : Notified(n)' => Notified(n)
  BY <1>4, ListsKept
<1>6. OpenIsRegistered'
  BY DEF Inductive, OpenIsRegistered
<1>7. ASSUME NEW p \in Pages, NEW r \in Rooms, NEW n \in 1..MaxChanges, OnItsWay(p, r, n)
      PROVE  OnItsWay(p, r, n)'
  <2>1. ASSUME NEW h \in Callers, Delivers(h, p), Carries(h, r, n)
        PROVE  Delivers(h, p)' /\ Carries(h, r, n)'
    <3>1. h # Fetch(x)
      BY <2>1, CallerNames DEF Delivers
    <3>2. QED
      BY <1>2, <2>1, <3>1 DEF Delivers, Carries
  <2>2. QED
    BY <1>7, <2>1 DEF OnItsWay
<1>8. NoChangeIsLost'
  BY <1>5, <1>7, NothingLost DEF Inductive
<1>9. QED
  BY <1>3, <1>5, <1>6, <1>8 DEF Inductive

LEMMA LeaveInductive ==
  ASSUME Inductive, NEW x \in Pages, Leave(x)
  PROVE  Inductive'
<1> USE DEF Leave
<1>1. Typed /\ page \in [Pages -> {"away", "open", "left"}] /\ clients \in SUBSET Pages
      /\ inbox \in [Pages -> Seq(Lists)]
  BY DEF Inductive, Typed, TypeOK
<1>2. /\ page'[x] = "left" /\ \A p \in Pages \ {x} : page'[p] = page[p] /\ inbox'[p] = inbox[p]
      /\ inbox'[x] = << >> /\ inbox' \in [Pages -> Seq(Lists)]
  BY <1>1
<1>3. Typed'
  <2>1. \A p \in Pages : Len(inbox'[p]) <= Capacity
    BY <1>1, <1>2, HubAssumption DEF Typed, TypeOK
  <2>2. QED
    BY <1>1, <1>2, <2>1 DEF Typed, TypeOK, listVars
<1>4. CardsAreRecent' /\ BroadcastsFollow' /\ \A n \in 1..MaxChanges : Notified(n)' => Notified(n)
  BY ListsKept DEF listVars
<1>5. OpenIsRegistered'
  BY <1>1, <1>2 DEF Inductive, OpenIsRegistered
<1>6. ASSUME NEW p \in Pages, NEW r \in Rooms, NEW n \in 1..MaxChanges, page'[p] = "open", OnItsWay(p, r, n)
      PROVE  OnItsWay(p, r, n)'
  BY <1>2, <1>6 DEF OnItsWay, Delivers, Carries, listVars
<1>7. NoChangeIsLost'
  BY <1>2, <1>4, <1>6, NothingLost DEF Inductive
<1>8. QED
  BY <1>3, <1>4, <1>5, <1>7 DEF Inductive

LEMMA NextInductive == Inductive /\ [Next]_vars => Inductive'
<1> SUFFICES ASSUME Inductive, [Next]_vars PROVE Inductive'
  OBVIOUS
<1>1. CASE \E r \in Rooms :
              \/ \E replaced \in SUBSET rooms : Create(r, replaced)
              \/ RemoveIfEmpty(r) \/ Update(r) \/ FailedPromotion(r)
  BY <1>1, RoomActionsInductive
<1>2. CASE \E n \in 1..MaxChanges : BroadcastStep(n)
  BY <1>2, CallerNames, ListInductive, CopyClientsInductive, PushInductive DEF BroadcastStep
<1>3. ASSUME NEW p \in Pages,
             \/ ServeWS(p) \/ List(Snapshot(p)) \/ List(Fetch(p))
             \/ OnMessage(p) \/ LoadHubOnce(p) \/ Leave(p)
      PROVE  Inductive'
  BY <1>3, CallerNames, ConnectInductive, SnapshotInductive, ListInductive,
     OnMessageInductive, LoadHubOnceInductive, LeaveInductive
<1>4. CASE UNCHANGED vars
  <2>1. UNCHANGED <<rooms, card, latest, changes, stage, unread, list, targets,
                    clients, page, inbox, shown, seen, dropped>>
    BY <1>4 DEF vars, listVars, pageVars
  <2>2. Typed' /\ CardsAreRecent' /\ OpenIsRegistered' /\ BroadcastsFollow'
    BY <2>1 DEF Inductive, Typed, TypeOK, CardsAreRecent, OpenIsRegistered, BroadcastsFollow
  <2>3. NoChangeIsLost'
    BY <2>1 DEF Inductive, NoChangeIsLost, OnItsWay, Notified, Delivers, Carries
  <2>4. QED
    BY <2>2, <2>3 DEF Inductive
<1>5. QED
  BY <1>1, <1>2, <1>3, <1>4 DEF Next

(* The inductive invariant of the room list. *)
THEOREM InductiveInvariant == Spec => []Inductive
BY InitInductive, NextInductive, PTL DEF Spec

(* The rooms, the lists on their way and the pages keep their types, and   *)
(* the buffer of a Client never holds more than its capacity.              *)
THEOREM TypeCorrect == Spec => []TypeOK
<1>1. Inductive => TypeOK
  BY DEF Inductive, Typed
<1>2. QED
  BY <1>1, InductiveInvariant, PTL

(* The safety half of EveryChangeArrives: while rooms change, pages come   *)
(* and lists are read and pushed (Hub.Broadcast, Hub.ServeWS), the last    *)
(* change of a room that was notified is on its way to every open page, or *)
(* the page's own buffer has overflowed.                                   *)
THEOREM ChangesAreNeverLost == Spec => []NoChangeIsLost
<1>1. Inductive => NoChangeIsLost
  BY DEF Inductive
<1>2. QED
  BY <1>1, InductiveInvariant, PTL

(* What that comes to once everything has been read and pushed: an open    *)
(* page has been pushed the last change of every room, if that change was  *)
(* notified and no list was dropped at the page.                           *)
PushedWhenQuiet ==
    Quiet => \A p \in Pages, r \in Rooms, n \in 1..MaxChanges :
                 page[p] = "open" /\ latest[r] = n /\ Notified(n) =>
                     p \in dropped \/ seen[p][r] >= n

THEOREM QuietPagesWerePushed == Spec => []PushedWhenQuiet
<1>1. Inductive => PushedWhenQuiet
  <2>1. SUFFICES ASSUME Inductive, Quiet, NEW p \in Pages, NEW r \in Rooms, NEW n \in 1..MaxChanges,
                        page[p] = "open", latest[r] = n, Notified(n)
                 PROVE  p \in dropped \/ seen[p][r] >= n
    BY DEF PushedWhenQuiet
  <2>2. OnItsWay(p, r, n)
    BY <2>1 DEF Inductive, NoChangeIsLost
  <2>3. inbox[p] = << >>
    BY <2>1 DEF Quiet
  <2>4. \A g \in Callers : ~Delivers(g, p)
    BY <2>1 DEF Quiet, Delivers
  <2>5. QED
    BY <2>2, <2>3, <2>4 DEF OnItsWay
<1>2. QED
  BY <1>1, InductiveInvariant, PTL
============================================================================
