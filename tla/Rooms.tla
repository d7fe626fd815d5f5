------------------------------- MODULE Rooms -------------------------------
(***************************************************************************)
(* Who is in which room: the room manager (pkg/room/manager.go), the       *)
(* membership of each room (pkg/room/room.go) and the signaling session    *)
(* of each WebSocket connection (pkg/signaling/handler.go).                *)
(*                                                                         *)
(* The code holds Manager.mu or Room.mu for short critical sections and    *)
(* runs everything else unlocked, on one goroutine per connection, per     *)
(* HTTP request and per incoming media track.  A critical section is one   *)
(* action here, so every interleaving of those goroutines is a behaviour.  *)
(* at[p] is the next critical section of the goroutine that serves         *)
(* connection p; a room in closing is one some goroutine has taken out of  *)
(* Manager.rooms and not yet closed.                                       *)
(*                                                                         *)
(* A Room object and its id are the same value: generateRoomID draws 32    *)
(* random bits, and Create refuses an id in use, so each id is used for    *)
(* one room.  Media, peer connections and the messages sent to browsers    *)
(* are left out, but for the one fact membership depends on: whether the   *)
(* room has local tracks.                                                  *)
(***************************************************************************)
CONSTANTS
    RoomIds,    \* room ids generateRoomID may draw
    IPs,        \* creator addresses, as clientIP returns them
    Peers,      \* WebSocket connections, each with the peer id of newPeerID
    NoRoom, NoIP, NoPeer,   \* Go's nil, "" and nil
    PCMayFail   \* whether newPeerConnection may return an error

ASSUME RoomsAssumption ==
    /\ NoRoom \notin RoomIds
    /\ NoIP \notin IPs
    /\ NoPeer \notin Peers
    /\ PCMayFail \in BOOLEAN

VARIABLES
    \* Manager
    rooms,        \* ids of the rooms in Manager.rooms
    byIP,         \* Manager.byIP
    creatorIP,    \* Room.CreatorIP, NoIP while the room does not exist
    closing,      \* rooms removed from Manager.rooms, Room.Close still to run
    \* Room
    closed,       \* rooms whose closed flag is set
    publisher,    \* Room.publisher
    subscribers,  \* the keys of Room.subscribers
    tracks,       \* Room.tracks, a track named by the peer that sent it
    arriving,     \* OnTrack goroutines that have not reached Room.mu yet
    \* Session: the variables of Handler.ServeWS
    joinedRoom, role, at,
    lookup,       \* the room the handler is about to add its peer to
    \* History, not in the code
    visited       \* rooms some connection has been admitted to

managerVars == <<rooms, byIP, creatorIP, closing>>
roomVars    == <<closed, publisher, subscribers, tracks, arriving>>
sessionVars == <<joinedRoom, role, at, lookup>>
vars == <<managerVars, roomVars, sessionVars, visited>>

Roles == {"none", "publisher", "subscriber"}

(* The places where the goroutine of a connection waits for its next       *)
(* critical section: in ReadPump; in AddPublisher or AddSubscriber; in     *)
(* PromotePublisher; in RemovePublisher or RemoveSubscriber and then       *)
(* RemoveIfEmpty, both called by cleanup; and after cleanup.               *)
Places == {"reading", "addPublisher", "addSubscriber", "promote",
           "removePeer", "removeIfEmpty", "gone"}

TypeOK ==
    /\ rooms \in SUBSET RoomIds
    /\ byIP \in [IPs -> RoomIds \cup {NoRoom}]
    /\ creatorIP \in [RoomIds -> IPs \cup {NoIP}]
    /\ closing \in SUBSET RoomIds
    /\ closed \in SUBSET RoomIds
    /\ publisher \in [RoomIds -> Peers \cup {NoPeer}]
    /\ subscribers \in [RoomIds -> SUBSET Peers]
    /\ tracks \in [RoomIds -> SUBSET Peers]
    /\ arriving \in [RoomIds -> SUBSET Peers]
    /\ joinedRoom \in [Peers -> RoomIds \cup {NoRoom}]
    /\ role \in [Peers -> Roles]
    /\ at \in [Peers -> Places]
    /\ lookup \in [Peers -> RoomIds \cup {NoRoom}]
    /\ visited \in SUBSET RoomIds

Init ==
    /\ rooms = {}
    /\ byIP = [ip \in IPs |-> NoRoom]
    /\ creatorIP = [r \in RoomIds |-> NoIP]
    /\ closing = {}
    /\ closed = {}
    /\ publisher = [r \in RoomIds |-> NoPeer]
    /\ subscribers = [r \in RoomIds |-> {}]
    /\ tracks = [r \in RoomIds |-> {}]
    /\ arriving = [r \in RoomIds |-> {}]
    /\ joinedRoom = [p \in Peers |-> NoRoom]
    /\ role = [p \in Peers |-> "none"]
    /\ at = [p \in Peers |-> "reading"]
    /\ lookup = [p \in Peers |-> NoRoom]
    /\ visited = {}

----------------------------------------------------------------------------
(* Manager *)

Exists(r) == creatorIP[r] # NoIP

(* Mutant: a room whose tracks outlived its host does not count as empty. *)
IsEmptyAndSilent(r) == publisher[r] = NoPeer /\ subscribers[r] = {} /\ tracks[r] = {}

IsEmpty(r) == publisher[r] = NoPeer /\ subscribers[r] = {}

(* Mutant: the unlisted rooms are never closed. *)
ReplaceUnclosed(gone, new) ==
    /\ rooms' = (rooms \ gone) \cup new
    /\ UNCHANGED closing

(* Mutant: the rooms to close stay listed. *)
ReplaceListed(gone, new) ==
    /\ rooms' = rooms \cup new
    /\ closing' = closing \cup gone

(* delete(m.rooms, id): whoever deletes a room is the one to close it. *)
Replace(gone, new) ==
    /\ rooms' = (rooms \ gone) \cup new
    /\ closing' = closing \cup gone

(* Mutant: the address keeps an entry with no room in it. *)
BlankIPLocked(gone) ==
    byIP' = [ip \in IPs |-> IF byIP[ip] \in gone THEN NoIP ELSE byIP[ip]]

(* Mutant: the address keeps pointing at the room. *)
KeepIPLocked(gone) == byIP' = byIP

clearIPLocked(gone) ==
    byIP' = [ip \in IPs |-> IF byIP[ip] \in gone THEN NoRoom ELSE byIP[ip]]

Goto(p, place) == at' = [at EXCEPT ![p] = place]

(* POST /api/rooms.  The room the same address created before, if it is    *)
(* still listed, is taken out in the same critical section and closed      *)
(* after it.  clientIP never yields "", so byIP is always updated.         *)
Create(ip, r) ==
    /\ ~Exists(r)
    /\ creatorIP' = [creatorIP EXCEPT ![r] = ip]
    /\ byIP' = [byIP EXCEPT ![ip] = r]
    /\ Replace(rooms \cap {byIP[ip]}, {r})
    /\ UNCHANGED <<roomVars, sessionVars, visited>>

(* Room.Close, called without Manager.mu by whoever unlisted the room. *)
Close(r) ==
    /\ r \in closing
    /\ closing' = closing \ {r}
    /\ closed' = closed \cup {r}
    /\ publisher' = [publisher EXCEPT ![r] = NoPeer]
    /\ subscribers' = [subscribers EXCEPT ![r] = {}]
    /\ tracks' = [tracks EXCEPT ![r] = {}]
    /\ UNCHANGED <<rooms, byIP, creatorIP, arriving, sessionVars, visited>>

(* The last call of cleanup: unlist the room when it has no peers. *)
RemoveIfEmpty(p) ==
    LET r == joinedRoom[p]
        doomed == {x \in rooms : x = r /\ IsEmpty(x)}
    IN  /\ at[p] = "removeIfEmpty"
        /\ Replace(doomed, {})
        /\ clearIPLocked(doomed)
        /\ joinedRoom' = [joinedRoom EXCEPT ![p] = NoRoom]
        /\ Goto(p, "gone")
        /\ UNCHANGED <<creatorIP, roomVars, role, lookup, visited>>

----------------------------------------------------------------------------
(* Joining and promotion *)

(* "join": the room is looked up under Manager.mu and used after it is     *)
(* released.  A join that is refused here changes nothing.                 *)
Join(p, r, call) ==
    /\ at[p] = "reading"
    /\ joinedRoom[p] = NoRoom
    /\ r \in rooms
    /\ call \in {"addPublisher", "addSubscriber"}
    /\ lookup' = [lookup EXCEPT ![p] = r]
    /\ Goto(p, call)
    /\ UNCHANGED <<managerVars, roomVars, joinedRoom, role, visited>>

(* The handler sets joinedRoom and role once the room admitted its peer. *)
Admitted(p, r, as) ==
    /\ joinedRoom' = [joinedRoom EXCEPT ![p] = r]
    /\ role' = [role EXCEPT ![p] = as]
    /\ visited' = visited \cup {r}

Refused == UNCHANGED <<joinedRoom, role, visited>>

(* Mutant: the closed flag is not looked at. *)
AcceptsAlways(r) == r \in RoomIds

Accepts(r) == r \notin closed

(* Mutant: a second publisher replaces the first. *)
SlotShared(r) == Accepts(r)

SlotFree(r) == Accepts(r) /\ publisher[r] = NoPeer

(* Room.AddPublisher, reached by a "join" and by a promotion alike. *)
AddPublisher(p) ==
    LET r == lookup[p]
    IN  /\ at[p] = "addPublisher"
        /\ \/ /\ SlotFree(r)
              /\ publisher' = [publisher EXCEPT ![r] = p]
              /\ Admitted(p, r, "publisher")
           \/ /\ ~SlotFree(r) \/ PCMayFail
              /\ Refused
              /\ UNCHANGED publisher
        /\ lookup' = [lookup EXCEPT ![p] = NoRoom]
        /\ Goto(p, "reading")
        /\ UNCHANGED <<managerVars, closed, subscribers, tracks, arriving>>

AddSubscriber(p) ==
    LET r == lookup[p]
    IN  /\ at[p] = "addSubscriber"
        /\ \/ /\ Accepts(r)
              /\ subscribers' = [subscribers EXCEPT ![r] = @ \cup {p}]
              /\ Admitted(p, r, "subscriber")
           \/ /\ ~Accepts(r) \/ PCMayFail
              /\ Refused
              /\ UNCHANGED subscribers
        /\ lookup' = [lookup EXCEPT ![p] = NoRoom]
        /\ Goto(p, "reading")
        /\ UNCHANGED <<managerVars, closed, publisher, tracks, arriving>>

(* "request_publish" of a guest: IsLive is read and Room.mu released. *)
RequestPublish(p) ==
    /\ at[p] = "reading"
    /\ joinedRoom[p] # NoRoom
    /\ role[p] # "publisher"
    /\ tracks[joinedRoom[p]] = {}
    /\ Goto(p, "promote")
    /\ UNCHANGED <<managerVars, roomVars, joinedRoom, role, lookup, visited>>

(* Mutant: the guest is left in the map. *)
KeepSubscriber(p, r) == subscribers' = subscribers

deleteSubscriber(p, r) == subscribers' = [subscribers EXCEPT ![r] = @ \ {p}]

(* PromotePublisher up to its Unlock.  A guest whose request passes the    *)
(* three checks leaves subscribers here and enters AddPublisher next.      *)
PromotePublisher(p) ==
    LET r == joinedRoom[p]
        free == SlotFree(r) /\ tracks[r] = {}
    IN  /\ at[p] = "promote"
        /\ \/ /\ free
              /\ deleteSubscriber(p, r)
              /\ lookup' = [lookup EXCEPT ![p] = r]
              /\ Goto(p, "addPublisher")
           \/ /\ ~free
              /\ Goto(p, "reading")
              /\ UNCHANGED <<subscribers, lookup>>
        /\ UNCHANGED <<managerVars, closed, publisher, tracks, arriving,
                       joinedRoom, role, visited>>

----------------------------------------------------------------------------
(* Media, as far as IsLive and the promotion depend on it *)

(* Pion starts one goroutine per incoming track of the publisher. *)
TrackArrives(p, r) ==
    /\ publisher[r] = p
    /\ arriving' = [arriving EXCEPT ![r] = @ \cup {p}]
    /\ UNCHANGED <<managerVars, closed, publisher, subscribers, tracks,
                   sessionVars, visited>>

(* That goroutine adds its local track, whatever happened in between. *)
HandlePublisherTrack(p, r) ==
    /\ p \in arriving[r]
    /\ arriving' = [arriving EXCEPT ![r] = @ \ {p}]
    /\ tracks' = [tracks EXCEPT ![r] = @ \cup {p}]
    /\ UNCHANGED <<managerVars, closed, publisher, subscribers, sessionVars,
                   visited>>

(* "stop", or a failed peer connection: the tracks go, the host stays. *)
StopStream(p, r) ==
    /\ publisher[r] = p
    /\ tracks[r] # {}
    /\ tracks' = [tracks EXCEPT ![r] = {}]
    /\ UNCHANGED <<managerVars, closed, publisher, subscribers, arriving,
                   sessionVars, visited>>

----------------------------------------------------------------------------
(* Disconnection *)

(* ReadPump returns, between two messages.  cleanup returns at once when   *)
(* the connection never joined.                                            *)
Disconnect(p) ==
    /\ at[p] = "reading"
    /\ Goto(p, IF joinedRoom[p] = NoRoom THEN "gone" ELSE "removePeer")
    /\ UNCHANGED <<managerVars, roomVars, joinedRoom, role, lookup, visited>>

(* Mutant: the stream is torn down and the slot kept. *)
RemoveStream(p) ==
    /\ role[p] = "publisher"
    /\ tracks' = [r \in RoomIds |-> IF publisher[r] = p THEN {} ELSE tracks[r]]
    /\ UNCHANGED <<publisher, subscribers>>

(* RemovePublisher does nothing when someone else is the publisher. *)
RemovePublisher(p) ==
    LET left == {r \in RoomIds : r = joinedRoom[p] /\ publisher[r] = p}
    IN  /\ role[p] = "publisher"
        /\ publisher' = [r \in RoomIds |-> IF r \in left THEN NoPeer ELSE publisher[r]]
        /\ tracks' = [r \in RoomIds |-> IF r \in left THEN {} ELSE tracks[r]]
        /\ UNCHANGED subscribers

RemoveSubscriber(p) ==
    /\ role[p] = "subscriber"
    /\ deleteSubscriber(p, joinedRoom[p])
    /\ UNCHANGED <<publisher, tracks>>

RemovePeer(p) ==
    /\ at[p] = "removePeer"
    /\ RemovePublisher(p) \/ RemoveSubscriber(p)
    /\ Goto(p, "removeIfEmpty")
    /\ UNCHANGED <<managerVars, closed, arriving, joinedRoom, role, lookup,
                   visited>>

----------------------------------------------------------------------------
(* What a browser or an HTTP client decides to do; never obliged to. *)
User(p) ==
    \/ \E r \in RoomIds, call \in {"addPublisher", "addSubscriber"} : Join(p, r, call)
    \/ RequestPublish(p)
    \/ \E r \in RoomIds : TrackArrives(p, r) \/ StopStream(p, r)
    \/ Disconnect(p)

(* What a goroutine of the server does next; the scheduler sees to it. *)
Session(p) ==
    AddPublisher(p) \/ AddSubscriber(p) \/ PromotePublisher(p)
        \/ RemovePeer(p) \/ RemoveIfEmpty(p)

Next ==
    \/ \E ip \in IPs, r \in RoomIds : Create(ip, r)
    \/ \E r \in RoomIds : Close(r)
    \/ \E p \in Peers : User(p) \/ Session(p)
    \/ \E p \in Peers, r \in RoomIds : HandlePublisherTrack(p, r)

(* Go runs every runnable goroutine, and a goroutine in a critical section *)
(* leaves it, so each goroutine of the server takes its next step.         *)
Fairness ==
    /\ \A r \in RoomIds : WF_vars(Close(r))
    /\ \A p \in Peers : WF_vars(Session(p))

Spec == Init /\ [][Next]_vars
FairSpec == Spec /\ Fairness

----------------------------------------------------------------------------
(* Properties *)

(* "Cada IP so pode ter 1 sala": byIP and rooms, two maps updated together *)
(* by Create, RemoveIfEmpty and clearIPLocked, name the same rooms, so an  *)
(* address never has two listed rooms and never points at a dead one.      *)
OneRoomPerIP ==
    /\ \A ip \in IPs : byIP[ip] # NoRoom =>
           byIP[ip] \in rooms /\ creatorIP[byIP[ip]] = ip
    /\ \A r \in rooms : byIP[creatorIP[r]] = r

(* A room that exists is listed, or about to be closed by the one          *)
(* goroutine that unlisted it, or closed: none is forgotten between        *)
(* delete(m.rooms, id) and Close, and none is closed while listed.         *)
UnlistedIsClosed ==
    \A r \in RoomIds :
        /\ Exists(r) <=> r \in rooms \cup closing \cup closed
        /\ r \in rooms => r \notin closing \cup closed
        /\ r \in closing => r \notin closed

(* A join that looked its room up before the room was closed is refused    *)
(* or swept out by Close: no peer is ever in a closed room.                *)
ClosedIsEmpty == \A r \in closed : IsEmpty(r)

(* A peer in a room belongs to a live connection whose cleanup will take   *)
(* it out: the handler's local joinedRoom and role agree with the room's   *)
(* own maps, whatever was promoted, replaced or closed meanwhile.          *)
MembersHaveSessions ==
    \A r \in RoomIds, p \in Peers :
        /\ publisher[r] = p =>
               /\ joinedRoom[p] = r
               /\ role[p] = "publisher"
               /\ at[p] \in {"reading", "removePeer"}
        /\ p \in subscribers[r] =>
               /\ joinedRoom[p] = r
               /\ role[p] = "subscriber"
               /\ at[p] \in {"reading", "promote", "removePeer"}

(* The converse for hosts: a connection that was told it is the publisher  *)
(* keeps the slot until it disconnects or the room is closed, although     *)
(* AddPublisher is reached by joins and promotions of others at any time.  *)
HostKeepsSlot ==
    \A p \in Peers :
        /\ role[p] = "publisher"
        /\ at[p] \in {"reading", "removePeer"}
        /\ joinedRoom[p] # NoRoom
        /\ joinedRoom[p] \notin closed
        => publisher[joinedRoom[p]] = p

(* Only cleanup reclaims rooms, one RemoveIfEmpty per connection.  It is   *)
(* enough: when the last connection of a room is done, however the leaves  *)
(* interleaved, the room is no longer listed.                              *)
AbandonedIsUnlisted ==
    \A r \in rooms \cap visited : \E p \in Peers : joinedRoom[p] = r

(* ... and it is closed in the end. *)
AbandonedIsClosed ==
    \A r \in RoomIds :
        (r \in visited /\ \A p \in Peers : joinedRoom[p] # r) ~> (r \in closed)

(* A connection that dropped finishes its cleanup and is in no room.       *)
LeavingCompletes ==
    \A p \in Peers :
        (at[p] = "removePeer") ~>
            /\ at[p] = "gone"
            /\ \A r \in RoomIds : publisher[r] # p /\ p \notin subscribers[r]

(* What the goroutine of a connection knows at each place; together with   *)
(* the properties above, the invariant that is inductive.                  *)
SessionsAreConsistent ==
    /\ \A r \in visited : Exists(r)
    /\ \A p \in Peers :
        /\ joinedRoom[p] # NoRoom =>
               joinedRoom[p] \in visited /\ role[p] # "none"
        /\ lookup[p] # NoRoom => Exists(lookup[p])
        /\ at[p] \in {"addPublisher", "addSubscriber"} => lookup[p] # NoRoom
        /\ at[p] = "addSubscriber" => joinedRoom[p] = NoRoom
        /\ at[p] = "addPublisher" /\ joinedRoom[p] # NoRoom =>
               lookup[p] = joinedRoom[p] /\ role[p] = "subscriber"
        /\ at[p] = "promote" => role[p] = "subscriber"
        /\ at[p] \in {"promote", "removePeer", "removeIfEmpty"} =>
               joinedRoom[p] # NoRoom

Inductive ==
    /\ TypeOK
    /\ OneRoomPerIP
    /\ UnlistedIsClosed
    /\ ClosedIsEmpty
    /\ MembersHaveSessions
    /\ HostKeepsSlot
    /\ AbandonedIsUnlisted
    /\ SessionsAreConsistent

----------------------------------------------------------------------------
(* The life of a room as the manager's callers see it. *)
phase == [r \in RoomIds |->
            IF ~Exists(r) THEN "unborn"
            ELSE IF r \in closed THEN "closed"
            ELSE IF r \notin rooms THEN "withdrawn"
            ELSE IF r \in visited THEN "entered"
            ELSE "fresh"]

Lifecycle == INSTANCE RoomLifecycle WITH owner <- creatorIP

(* The manager with its sessions implements RoomLifecycle: rooms are       *)
(* opened, replaced, reclaimed and closed in that order only, a room       *)
(* nobody has entered is reclaimed only by replacement, and every          *)
(* withdrawn room is closed.                                               *)
ImplementsLifecycle == Lifecycle!FairSpec

----------------------------------------------------------------------------
(* What the comments say, and the interleavings refute. *)

(* room.go:116, "IsLive reports whether the publisher currently has media  *)
(* tracks": a live room has a publisher.                                   *)
LiveHasPublisher == \A r \in RoomIds : tracks[r] # {} => publisher[r] # NoPeer

(* room.go:427, "Remocao de guest so via WebSocket disconnect": a guest    *)
(* whose connection is open is in its room until the room is closed,       *)
(* except while its own promotion runs.                                    *)
GuestStaysInRoom ==
    \A p \in Peers :
        /\ role[p] = "subscriber"
        /\ at[p] = "reading"
        /\ joinedRoom[p] \notin closed
        => p \in subscribers[joinedRoom[p]]
=============================================================================
