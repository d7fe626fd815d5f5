-------------------------------- MODULE Hub --------------------------------
(***************************************************************************)
(* The room list on the home page (pkg/signaling/hub.go, ListPublic in     *)
(* pkg/room/manager.go, public/js/app.js).  Every change of the public     *)
(* rooms starts a goroutine that reads the list and then pushes it to the  *)
(* pages; a page also gets a snapshot when it connects and one answer to   *)
(* GET /api/rooms.  ListPublic copies Manager.rooms under Manager.mu and   *)
(* then asks each room for its card under that room's lock, so a list is   *)
(* put together in several steps while rooms change.                       *)
(*                                                                         *)
(* A card (live flag and number of viewers) is the number of the change    *)
(* that made it; a list is a function from rooms to such numbers.  For a   *)
(* room that is not in the list it holds the number of the creation or     *)
(* removal that explains the absence.                                      *)
(***************************************************************************)
EXTENDS Naturals, Sequences, FiniteSets

CONSTANTS
    Rooms,          \* public rooms
    Pages,          \* home pages; each opens one /ws/hub connection
    MaxChanges,     \* changes of the list in a behaviour; bounds the model
    Capacity        \* buffer of a Client, 64 in NewClient

ASSUME HubAssumption == MaxChanges \in Nat /\ Capacity \in Nat \ {0}

VARIABLES
    rooms,      \* Manager.rooms
    card,       \* what PublicSnapshot of a room returns
    latest,     \* the last change of each room
    changes,    \* the number of changes so far
    \* ListPublic, and what its callers do with the list
    stage,      \* of each caller: "idle", "ready", "reading", "sending", "done"
    unread,     \* rooms copied from Manager.rooms and not asked yet
    list,       \* the list so far
    targets,    \* pages a Broadcast has still to push to
    \* Hub and pages
    clients,    \* Hub.clients
    page,       \* "away", "open", "left"
    inbox,      \* lists on their way to a page
    shown,      \* the list renderHub drew last
    seen,       \* the last change of each room a page was ever pushed
    dropped     \* pages whose buffer overflowed

listVars == <<stage, unread, list, targets>>
pageVars == <<clients, page, inbox, shown, seen, dropped>>
vars == <<rooms, card, latest, changes, listVars, pageVars>>

Broadcast(n) == <<"broadcast", n>>
Snapshot(p)  == <<"snapshot", p>>
Fetch(p)     == <<"fetch", p>>
Callers == {"broadcast"} \X (1..MaxChanges) \cup {"snapshot", "fetch"} \X Pages

Numbers == 0..MaxChanges
Lists == [Rooms -> Numbers]

TypeOK ==
    /\ rooms \in SUBSET Rooms
    /\ card \in Lists
    /\ latest \in Lists
    /\ changes \in Numbers
    /\ stage \in [Callers -> {"idle", "ready", "reading", "sending", "done"}]
    /\ unread \in [Callers -> SUBSET Rooms]
    /\ list \in [Callers -> Lists]
    /\ targets \in [Callers -> SUBSET Pages]
    /\ clients \in SUBSET Pages
    /\ page \in [Pages -> {"away", "open", "left"}]
    /\ \A p \in Pages : inbox[p] \in Seq(Lists) /\ Len(inbox[p]) <= Capacity
    /\ shown \in [Pages -> Lists]
    /\ seen \in [Pages -> Lists]
    /\ dropped \in SUBSET Pages

Blank == [r \in Rooms |-> 0]

Init ==
    /\ rooms = {}
    /\ card = Blank
    /\ latest = Blank
    /\ changes = 0
    /\ stage = [g \in Callers |-> "idle"]
    /\ unread = [g \in Callers |-> {}]
    /\ list = [g \in Callers |-> Blank]
    /\ targets = [g \in Callers |-> {}]
    /\ clients = {}
    /\ page = [p \in Pages |-> "away"]
    /\ inbox = [p \in Pages |-> << >>]
    /\ shown = [p \in Pages |-> Blank]
    /\ seen = [p \in Pages |-> Blank]
    /\ dropped = {}

----------------------------------------------------------------------------
(* The rooms *)

(* One more change, of the rooms in S. *)
Changed(S) ==
    /\ changes < MaxChanges
    /\ changes' = changes + 1
    /\ latest' = [r \in Rooms |-> IF r \in S THEN changes' ELSE latest[r]]

(* notifyChange: a new goroutine runs Hub.Broadcast. *)
NotifyChange ==
    /\ stage' = [stage EXCEPT ![Broadcast(changes')] = "ready"]
    /\ UNCHANGED <<unread, list, targets>>

(* Create; it may replace the room the same address had. *)
Create(r, replaced) ==
    /\ latest[r] = 0
    /\ replaced \in SUBSET rooms /\ Cardinality(replaced) <= 1
    /\ Changed({r} \cup replaced)
    /\ rooms' = (rooms \ replaced) \cup {r}
    /\ card' = [card EXCEPT ![r] = changes']
    /\ NotifyChange
    /\ UNCHANGED pageVars

RemoveIfEmpty(r) ==
    /\ r \in rooms
    /\ Changed({r})
    /\ rooms' = rooms \ {r}
    /\ NotifyChange
    /\ UNCHANGED <<card, pageVars>>

(* A guest comes or goes, a stream starts or stops. *)
CardChanges(r) ==
    /\ r \in rooms
    /\ Changed({r})
    /\ card' = [card EXCEPT ![r] = changes']
    /\ UNCHANGED <<rooms, pageVars>>

(* AddSubscriber, RemoveSubscriber, StopStream, RemovePublisher,           *)
(* handlePublisherTrack and a promotion that succeeds notify.              *)
Update(r) == CardChanges(r) /\ NotifyChange

(* A promotion that fails after it took the guest out of subscribers       *)
(* returns without.                                                        *)
FailedPromotion(r) == CardChanges(r) /\ UNCHANGED listVars

----------------------------------------------------------------------------
(* ListPublic *)

CopyRooms(g) ==
    /\ stage[g] = "ready"
    /\ stage' = [stage EXCEPT ![g] = "reading"]
    /\ unread' = [unread EXCEPT ![g] = rooms]
    /\ list' = [list EXCEPT ![g] = latest]
    /\ UNCHANGED <<rooms, card, latest, changes, targets, pageVars>>

PublicSnapshot(g, r) ==
    /\ stage[g] = "reading"
    /\ r \in unread[g]
    /\ list' = [list EXCEPT ![g][r] = card[r]]
    /\ unread' = [unread EXCEPT ![g] = @ \ {r}]
    /\ UNCHANGED <<rooms, card, latest, changes, stage, targets, pageVars>>

Listed(g) == stage[g] = "reading" /\ unread[g] = {}

----------------------------------------------------------------------------
(* The hub and its pages *)

(* Mutant: the buffer has no limit. *)
SendUnbounded(p, l) ==
    /\ inbox' = IF page[p] = "open" THEN [inbox EXCEPT ![p] = Append(@, l)] ELSE inbox
    /\ UNCHANGED dropped

(* Client.SendJSON: a full buffer drops the list, a client that is gone    *)
(* refuses it.                                                             *)
SendJSON(p, l) ==
    /\ inbox' = IF page[p] = "open" /\ Len(inbox[p]) < Capacity
                THEN [inbox EXCEPT ![p] = Append(@, l)] ELSE inbox
    /\ dropped' = IF page[p] = "open" /\ Len(inbox[p]) = Capacity
                  THEN dropped \cup {p} ELSE dropped

CopyClients(g) ==
    /\ g[1] = "broadcast"
    /\ Listed(g)
    /\ stage' = [stage EXCEPT ![g] = "sending"]
    /\ targets' = [targets EXCEPT ![g] = clients]
    /\ UNCHANGED <<rooms, card, latest, changes, unread, list, pageVars>>

Push(g, p) ==
    /\ stage[g] = "sending"
    /\ p \in targets[g]
    /\ SendJSON(p, list[g])
    /\ targets' = [targets EXCEPT ![g] = @ \ {p}]
    /\ stage' = [stage EXCEPT ![g] = IF targets'[g] = {} THEN "done" ELSE @]
    /\ UNCHANGED <<rooms, card, latest, changes, unread, list, clients, page, shown, seen>>

(* Mutant: the page is told the list and registered only after it. *)
ServeWSLate(p) ==
    \/ /\ page[p] = "away"
       /\ page' = [page EXCEPT ![p] = "open"]
       /\ stage' = [stage EXCEPT ![Snapshot(p)] = "ready", ![Fetch(p)] = "ready"]
       /\ UNCHANGED <<rooms, card, latest, changes, unread, list, targets, clients,
                      inbox, shown, seen, dropped>>
    \/ /\ page[p] = "open"
       /\ Listed(Snapshot(p))
       /\ SendJSON(p, list[Snapshot(p)])
       /\ clients' = clients \cup {p}
       /\ stage' = [stage EXCEPT ![Snapshot(p)] = "done"]
       /\ UNCHANGED <<rooms, card, latest, changes, unread, list, targets, page,
                      shown, seen>>

(* The page loads: it fetches /api/rooms and connects to /ws/hub, which    *)
(* registers the client first and then sends it a snapshot.                *)
ServeWS(p) ==
    \/ /\ page[p] = "away"
       /\ page' = [page EXCEPT ![p] = "open"]
       /\ clients' = clients \cup {p}
       /\ stage' = [stage EXCEPT ![Snapshot(p)] = "ready", ![Fetch(p)] = "ready"]
       /\ UNCHANGED <<rooms, card, latest, changes, unread, list, targets,
                      inbox, shown, seen, dropped>>
    \/ /\ page[p] = "open"
       /\ Listed(Snapshot(p))
       /\ SendJSON(p, list[Snapshot(p)])
       /\ stage' = [stage EXCEPT ![Snapshot(p)] = "done"]
       /\ UNCHANGED <<rooms, card, latest, changes, unread, list, targets, clients,
                      page, shown, seen>>

(* The page renders what the WebSocket brings, in order. *)
OnMessage(p) ==
    /\ page[p] = "open"
    /\ inbox[p] # << >>
    /\ shown' = [shown EXCEPT ![p] = Head(inbox[p])]
    /\ seen' = [seen EXCEPT ![p] = [r \in Rooms |->
                   IF Head(inbox[p])[r] > @[r] THEN Head(inbox[p])[r] ELSE @[r]]]
    /\ inbox' = [inbox EXCEPT ![p] = Tail(@)]
    /\ UNCHANGED <<rooms, card, latest, changes, listVars, clients, page, dropped>>

(* loadHubOnce renders the answer of GET /api/rooms whenever it arrives. *)
LoadHubOnce(p) ==
    /\ page[p] = "open"
    /\ Listed(Fetch(p))
    /\ shown' = [shown EXCEPT ![p] = list[Fetch(p)]]
    /\ stage' = [stage EXCEPT ![Fetch(p)] = "done"]
    /\ UNCHANGED <<rooms, card, latest, changes, unread, list, targets, clients,
                   page, inbox, seen, dropped>>

Leave(p) ==
    /\ page[p] = "open"
    /\ page' = [page EXCEPT ![p] = "left"]
    /\ clients' = clients \ {p}
    /\ inbox' = [inbox EXCEPT ![p] = << >>]
    /\ UNCHANGED <<rooms, card, latest, changes, listVars, shown, seen, dropped>>

----------------------------------------------------------------------------
List(g) == CopyRooms(g) \/ \E r \in Rooms : PublicSnapshot(g, r)

BroadcastStep(n) ==
    \/ List(Broadcast(n))
    \/ CopyClients(Broadcast(n))
    \/ \E p \in Pages : Push(Broadcast(n), p)

PageStep(p) ==
    List(Snapshot(p)) \/ (page[p] = "open" /\ ServeWS(p))

Next ==
    \/ \E r \in Rooms :
          \/ \E replaced \in SUBSET rooms : Create(r, replaced)
          \/ RemoveIfEmpty(r) \/ Update(r) \/ FailedPromotion(r)
    \/ \E n \in 1..MaxChanges : BroadcastStep(n)
    \/ \E p \in Pages :
          ServeWS(p) \/ List(Snapshot(p)) \/ List(Fetch(p))
          \/ OnMessage(p) \/ LoadHubOnce(p) \/ Leave(p)

(* Every goroutine of the server runs on, and an open page handles the     *)
(* messages it has received.                                               *)
Fairness ==
    /\ \A n \in 1..MaxChanges : WF_vars(BroadcastStep(n))
    /\ \A p \in Pages : WF_vars(PageStep(p)) /\ WF_vars(OnMessage(p))

Spec == Init /\ [][Next]_vars
FairSpec == Spec /\ Fairness

----------------------------------------------------------------------------
(* No change falls between the snapshot of a connecting page, the clients  *)
(* a broadcast copied and the lists that are read while rooms change: a    *)
(* page that stays is pushed every change that was notified, or a later    *)
(* one of that room, unless its own buffer overflowed.                     *)
Notified(n) == stage[Broadcast(n)] # "idle"

EveryChangeArrives ==
    \A p \in Pages, r \in Rooms, n \in 1..MaxChanges :
        (page[p] = "open" /\ latest[r] = n /\ Notified(n)) ~>
            (seen[p][r] >= n \/ page[p] = "left" \/ p \in dropped)

Quiet ==
    /\ \A g \in Callers : stage[g] = "idle" \/ stage[g] = "done"
                             \/ (stage[g] = "sending" /\ targets[g] = {})
    /\ \A p \in Pages : page[p] = "open" => inbox[p] = << >>

(* hub.go:62, "Broadcast pushes the current public room list to every hub  *)
(* client": when everything has been read and pushed, a page that has been *)
(* pushed the current state of every room shows it.                        *)
ShowsCurrent ==
    Quiet => \A p \in Pages :
                 page[p] = "open" /\ seen[p] = latest => shown[p] = latest
=============================================================================
