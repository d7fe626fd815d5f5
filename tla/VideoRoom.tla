----------------------------- MODULE VideoRoom -----------------------------
(***************************************************************************)
(* The prototype of the file broadcast (teste-video/server.js) with its    *)
(* pages.  Node runs one event handler at a time, so the server handles an *)
(* event in one step; connections come and go in between.                  *)
(***************************************************************************)
EXTENDS CastPage

VARIABLES
    broadcasterId,
    watchers,
    sockets,        \* connections the server has; io emits to these only
    \* not in the code
    registered,     \* connections that were the broadcaster
    twice           \* pages that asked while something was left of an
                    \* earlier request

history == <<registered, twice>>
roomVars == <<broadcasterId, watchers, sockets, history>>
vars == <<pageVars, roomVars>>

TypeOK ==
    /\ PageTypeOK
    /\ broadcasterId \in Ids \cup {None}
    /\ watchers \in SUBSET Ids
    /\ sockets \in SUBSET Ids
    /\ registered \in SUBSET Ids /\ twice \in SUBSET Ids

Init ==
    /\ PageInit
    /\ broadcasterId = None
    /\ watchers = {}
    /\ sockets = {}
    /\ registered = {} /\ twice = {}

----------------------------------------------------------------------------
(* Socket.IO *)

(* box with m appended for the pages behind the connections in S. *)
Emit(box, S, m) ==
    [p \in Pages |-> IF Online(p) /\ conn[p] \in S \cap sockets
                     THEN Append(box[p], m) ELSE box[p]]

(* The server handles the next event of a page. *)
On(p, kind) ==
    /\ Online(p) /\ outbox[p] # << >> /\ Head(outbox[p]).kind = kind
    /\ outbox' = [outbox EXCEPT ![p] = Tail(@)]
    /\ UNCHANGED <<linkVars, castVars, peerVars, faults, sockets>>

Event(p) == Head(outbox[p])

Connection(p) ==
    /\ Connect(p)
    /\ sockets' = sockets \cup {opened'}
    /\ UNCHANGED <<broadcasterId, watchers, history>>

(* Mutant: the former broadcaster is not stopped. *)
BroadcasterKeeping(p) ==
    /\ On(p, "broadcaster")
    /\ broadcasterId' = Me(p)
    /\ watchers' = watchers \ {Me(p)}
    /\ registered' = registered \cup {Me(p)}
    /\ UNCHANGED twice
    /\ inbox' = Emit(inbox, Ids \ {Me(p)}, Plain("broadcaster"))

Broadcaster(p) ==
    /\ On(p, "broadcaster")
    /\ broadcasterId' = Me(p)
    /\ watchers' = watchers \ {Me(p)}
    /\ registered' = registered \cup {Me(p)}
    /\ UNCHANGED twice
    /\ inbox' = Emit(Emit(inbox, {broadcasterId} \ {Me(p)}, Plain("forceStop")),
                     Ids \ {Me(p)}, Plain("broadcaster"))

(* Something is left of what the page and the broadcaster did before: a    *)
(* peer connection at either end, a request, an offer or an answer that is *)
(* under way.  An answer in the broadcaster's inbox does not count: it     *)
(* will be handled before the new request is.                              *)
BeingServed(p) ==
    \E b \in Pages :
        /\ conn[b] = broadcasterId
        /\ \/ Me(p) \in DOMAIN peers[b] \/ Me(b) \in DOMAIN peers[p]
           \/ \E m \in Range(inbox[b]) : m.kind = "watcher" /\ m.id = Me(p)
           \/ \E m \in Range(outbox[b]) : m.kind = "offer" /\ m.id = Me(p)
           \/ \E m \in Range(inbox[p]) : m.kind = "offer" /\ m.id = Me(b)
           \/ \E m \in Range(outbox[p]) : m.kind = "answer" /\ m.id = Me(b)

Watcher(p) ==
    /\ On(p, "watcher")
    /\ \/ broadcasterId = Me(p) /\ UNCHANGED <<inbox, watchers, twice>>
       \/ /\ broadcasterId # Me(p)
          /\ watchers' = watchers \cup {Me(p)}
          /\ inbox' = Emit(inbox, {broadcasterId}, About("watcher", Me(p)))
          /\ twice' = IF BeingServed(p) THEN twice \cup {Me(p)} ELSE twice
    /\ UNCHANGED <<broadcasterId, registered>>

Relay(p) ==
    /\ \E kind \in {"offer", "answer", "candidate"} : On(p, kind)
    /\ inbox' = Emit(inbox, {Event(p).id}, [Event(p) EXCEPT !.id = Me(p)])
    /\ UNCHANGED <<broadcasterId, watchers, history>>

(* Mutant: nobody is told that the broadcaster has left. *)
DisconnectSilently(c) ==
    /\ c \in sockets
    /\ \A p \in Pages : ~(Online(p) /\ conn[p] = c)
    /\ sockets' = sockets \ {c}
    /\ watchers' = watchers \ {c}
    /\ broadcasterId' = IF broadcasterId = c THEN None ELSE broadcasterId
    /\ inbox' = IF broadcasterId = c THEN inbox
                ELSE Emit(inbox, {broadcasterId}, About("disconnectPeer", c))
    /\ UNCHANGED <<linkVars, outbox, castVars, peerVars, faults, history>>

(* Mutant: broadcasterId still names the broadcaster that left. *)
DisconnectForgetting(c) ==
    /\ c \in sockets
    /\ \A p \in Pages : ~(Online(p) /\ conn[p] = c)
    /\ sockets' = sockets \ {c}
    /\ watchers' = watchers \ {c}
    /\ inbox' = Emit(inbox, {broadcasterId}, About("disconnectPeer", c))
    /\ UNCHANGED <<broadcasterId, linkVars, outbox, castVars, peerVars, faults, history>>

Disconnect(c) ==
    /\ c \in sockets
    /\ \A p \in Pages : ~(Online(p) /\ conn[p] = c)
    /\ sockets' = sockets \ {c}
    /\ watchers' = watchers \ {c}
    /\ \/ /\ broadcasterId = c
          /\ broadcasterId' = None
          /\ inbox' = Emit(inbox, Ids, Plain("broadcasterLeft"))
       \/ /\ broadcasterId # c
          /\ inbox' = Emit(inbox, {broadcasterId}, About("disconnectPeer", c))
          /\ UNCHANGED broadcasterId
    /\ UNCHANGED <<linkVars, outbox, castVars, peerVars, faults, history>>

----------------------------------------------------------------------------
(* The pages, teste-video/public/app.js *)

(* startBroadcast, with what follows its await, and stopBroadcast. *)
Transmit(p) ==
    StartBroadcast(p) \/ PlayStarted(p) \/ PlayFails(p) \/ StopBroadcast(p)

Called(p) == OnBroadcaster(p) \/ OnForceStop(p)

AsBroadcaster(p) ==
    \/ OnWatcher(p)
    \/ \E id \in Ids : SendOffer(p, id) \/ OfferFails(p, id)

AsWatcher(p) ==
    \/ OnOffer(p)
    \/ \E id \in Ids : SendAnswer(p, id) \/ AnswerFails(p, id)

InEitherRole(p) ==
    \/ OnAnswer(p) \/ OnCandidate(p) \/ OnDisconnectPeer(p) \/ OnBroadcasterLeft(p)
    \/ \E id \in Ids : ApplyAnswer(p, id)

(* onconnectionstatechange *)
Fails(p) == \E id \in Ids : ConnectionFails(p, id)

Away(p) == ConnectionDrops(p) \/ Leave(p)

----------------------------------------------------------------------------
Next ==
    \/ \E p \in Pages :
          \/ Connection(p) \/ Broadcaster(p) \/ Watcher(p) \/ Relay(p)
          \/ /\ \/ Transmit(p) \/ Called(p) \/ AsBroadcaster(p) \/ AsWatcher(p)
                \/ InEitherRole(p) \/ Fails(p) \/ Away(p)
             /\ UNCHANGED roomVars
    \/ \E c \in Ids : Disconnect(c)

Spec == Init /\ [][Next]_vars

----------------------------------------------------------------------------
(* The server names as broadcaster and counts as watchers only connections *)
(* it has, and each in one role.                                           *)
RolesAreConnected ==
    /\ watchers \cup ({broadcasterId} \ {None}) \subseteq sockets
    /\ broadcasterId \notin watchers

Quiet ==
    /\ \A p \in Pages : PageQuiet(p)
    /\ \A c \in sockets : \E p \in Pages : Online(p) /\ conn[p] = c

(* As in FileHub, with any number of awaits and events in between. *)
CasterIsRegistered ==
    Quiet => \A p \in Pages : Online(p) /\ casting[p] /\ Me(p) \in registered =>
                 broadcasterId = Me(p)

(* app.js:307: when the broadcaster has left and nobody has taken over, no *)
(* page shows it any more, although its offer may still have been under    *)
(* way when it left; provided that its leaving is all that went wrong: a   *)
(* page that had no connection when broadcasterLeft was sent was not told. *)
LeftIsNotShown ==
    Quiet /\ faults <= 1 /\ Cardinality(registered) = 1 =>
        \A p \in Pages : Online(p) /\ shown[p] # None => shown[p] \in sockets

(* Two ends that have each other's description have each other's           *)
(* candidates, those included that came before the description.            *)
CandidatesReach ==
    Quiet =>
        \A p, q \in Pages : Linked(p, q) /\ peers[q][Me(p)].n \in Trickling =>
            peers[q][Me(p)].n \in peers[p][Me(q)].added

(* Once all is quiet every page shows the broadcast (README.md:35), unless *)
(* it asked again while it was being served: of two offers and two answers *)
(* that cross, the pages may each keep the wrong one.                      *)
ServedUnlessAskedTwice ==
    Quiet /\ faults = 0 =>
        \A p, q \in Pages :
            Online(p) /\ Online(q) /\ casting[p] /\ broadcasterId = Me(p) /\ ~casting[q] =>
                Linked(p, q) \/ Me(q) \in twice
=============================================================================
