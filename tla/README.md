# A verification development of go-live

go-live is a small live-streaming server: a Go process that keeps rooms in
memory, signals over WebSockets and forwards media with Pion (an SFU), and a few
static pages that talk to it.  Beside it stand a file broadcast, in which pages
stream to each other and the server only relays, and its Node prototype.  These
modules model the control of all of them: who is in which room, which peer
connections exist and how they are negotiated, what a WebSocket client delivers,
what the home page is told and what the pages do with it.  TLC checks them on
small instances; TLAPS proves, for instances of any size, the types of every
module and the main safety of rooms, of their peer connections, of clients, of
the room list, of the room's pages (roles, requests, captures) and of the two
relays with their pages.

## 1. Inventory

| Component | State it keeps | Operations | Talks to |
|---|---|---|---|
| Room manager, `pkg/room/manager.go` | `rooms`, `byIP`, `onChange` under `Manager.mu` | `Create`, `Get`, `ListPublic`, `RemoveIfEmpty`, `Delete` (no caller) | rooms, hub callback |
| Room membership, `pkg/room/room.go` | `publisher`, `subscribers`, `tracks`, `closed` under `Room.mu` | `AddPublisher`, `AddSubscriber`, `PromotePublisher`, `StopStream`, `RemovePublisher`, `RemoveSubscriber`, `Close` | Pion, `Sender` of each peer, manager's `notifyChange` |
| Peer connections, `pkg/room/room.go` | `Peer.PC`, `resetting`, `renegTimer`, tracks attached | reset loops, `OnTrack`, state callbacks, `HandleOffer`, `HandleAnswer`, `HandleCandidate`, `negotiateSubscriber` | Pion, browsers |
| Signaling session, `pkg/signaling/handler.go` | locals `joinedRoom`, `role`, `peerID` of `ServeWS` | one case per message, `cleanup` | manager, room, client |
| WebSocket client, `pkg/signaling/client.go` | `closed`, channel `send` of 64 | `SendJSON`, `Close`, `ReadPump`, `WritePump` | socket |
| Hub, `pkg/signaling/hub.go`, and home page, `public/js/app.js` | `clients`; what the page shows | `ServeWS`, `sendSnapshot`, `Broadcast`; `renderHub`, `loadHubOnce` | manager, clients |
| File hub, `pkg/signaling/filehub.go`, and its page, `public/js/file-beta.js` | `broadcaster`, `watchers`, a channel of 32 per client; the page's peer connections | register, relay, disconnect | sockets, browsers |
| Room page, `public/js/webrtc.js` | `pc`, `localStream`, `pendingCandidates`, `currentRole` | offer/answer/candidate handlers, share, stop | session over WebSocket |
| Server, `main.go` | none after start | routes, `clientIP` | all of the above |
| Prototype of the file broadcast, `teste-video/` | `broadcasterId`, `watchers`; its page is that of the file broadcast | register, relay, disconnect | Socket.IO, browsers |
| Static pages, theme, `teste`, `teste-screen`, build files | none that matters | | |

What is hard: every connection, HTTP request, incoming track, Pion callback,
timer and change notification has a goroutine of its own, and every handler of a
page gives way to others at each `await`.  `Room.mu` and
`Manager.mu` are held only for short sections; peer connections are closed and
replaced, messages sent and rooms closed after they are released, from copies
taken under them.  There is no persistence, so nothing is recovered: a crash ends
every room.  Nothing is retried except by the user, and buffers drop when full.

What makes each component correct:

- manager: `rooms` and `byIP` agree, one room per address; every room taken out
  of `rooms` is closed once; a room that everyone has left is reclaimed;
- room and session: the room's maps and the handler's locals agree, at most one
  publisher, nobody in a closed room;
- peer connections: whatever loops overlap, members keep a usable connection, a
  closed room keeps none, every guest gets every track once;
- client: no use of the closed channel, both pumps end, order and no gaps;
- hub: a page that stays learns of every change and shows the latest list;
- file hub, prototype and their pages: one broadcaster, everyone else a watcher,
  each pair of peers ends with one negotiated connection, and what has left is
  neither registered nor shown;
- room page: page, handler and room agree on the role; every request to publish
  is answered; what is captured is released; a host that says it is live is
  heard and its guests are offered its tracks.

`PROJECT.json` lists the hazards behind these, each at its line.

## 2. Modules

| Module | Models | Checked or proved by |
|---|---|---|
| `Rooms` | manager, membership, sessions | `Rooms_*.cfg`, `RoomsProofs` |
| `RoomLifecycle` | abstract: what the life of a room looks like to its callers | refined by `Rooms` |
| `Media` | peer connections and tracks of one room | `Media_*.cfg`, `MediaProofs` |
| `RoomPage` | the pages of one room and their signaling | `RoomPage.cfg`, `RoomPageProofs` |
| `Client` | one WebSocket client and its pumps | `Client.cfg`, `ClientProofs` |
| `Mailbox` | abstract: what `SendJSON` promises | refined by `Client` |
| `Hub` | change notification, `ListPublic`, `Broadcast`, the home page | `Hub_*.cfg`, `HubProofs` |
| `CastPage` | the page of the file broadcast | through the next two; their common lemmas are in `CastPageProofs` |
| `FileHub` | `CastPage` with the Go hub | `FileHub.cfg`, `FileHubProofs` |
| `VideoRoom` | `CastPage` with the prototype's Node server | `VideoRoom.cfg`, `VideoRoomProofs` |
| `RoomsProofs`, `MediaProofs`, `RoomPageProofs`, `ClientProofs`, `HubProofs`, `CastPageProofs`, `FileHubProofs`, `VideoRoomProofs` | theorems and lemmas | TLAPS |
| `MCRooms`, `MCMedia`, `MCRoomPage`, `MCClient`, `MCHub`, `MCFileHub`, `MCVideoRoom` | small instances, symmetry | TLC |

Some definitions carry the comment "Mutant": a plausible bug in the definition
that follows it.  They are in no specification; each shows that a property of a
passing run would catch that bug.

### Rooms

A critical section of `Manager.mu` or `Room.mu` is one action; between two of
them anything may happen.  `at[p]` says where the goroutine of connection `p` is:
reading messages, about to run `AddPublisher`, `AddSubscriber` or
`PromotePublisher`, or in `cleanup` before `RemovePublisher`/`RemoveSubscriber`
or before `RemoveIfEmpty`.  `lookup[p]` is the room a handler got from
`Manager.Get` and is about to use.  `closing` holds the rooms somebody has
deleted from `Manager.rooms` and will close next (`replaced.Close()` in `Create`,
`r.Close()` in `RemoveIfEmpty`).  `PromotePublisher` is two actions, its own
critical section and that of `AddPublisher`, because the code releases `r.mu`
between them.  `RemoveIfEmpty` nests `Room.mu` in `Manager.mu` and is one action.
`visited` is history: rooms some connection was admitted to.

A track is named by the connection that sent it; `arriving` holds `OnTrack`
goroutines that have not reached `r.mu`.  `PCMayFail` lets `newPeerConnection`
return an error on admission.  Room ids are drawn once each: `generateRoomID`
takes 32 random bits and `Create` refuses an id in use.  Passwords, malformed
messages and unknown rooms only refuse a join, which then changes nothing.

### Media

The peers, tracks and peer connections of one room.  A loop that the code runs
after `Unlock` (over a copy of `r.subscribers` or `r.tracks`, in the order Go
iterates the map) is a sequence of instructions `todo[g]` of its goroutine: close
`peer.PC`, close it with `resetting` set, make and assign a new one, attach a
track.  Each instruction is one step and reads `peer.PC` when it runs, as the
code does.  Pion's state callback takes two steps, the unlocked test of
`resetting` and `peer.PC` and the call of `StopStream`.  What Pion itself does
(closing, failing, reporting Closed) is external, taken from how `room.go` uses
it.  Offers, answers and candidates are in `RoomPage`, and an error of
`newPeerConnection` during a reset is not modelled.

### RoomPage

`webrtc.js` on every page of one room, and the server's half of the conversation:
the cases of `ServeWS`, `HandleOffer`, `HandleAnswer`, `HandleCandidate`,
`negotiateSubscriber` and the loops that tell guests a stream ended.  A handler of
the page is one action up to its first `await`; what follows is another
(`HandleOffer`/`Answer`, `HandleAnswer`/`ApplyAnswer`, `StartShare`/`Captured`/
`Offered`).  An operation on a peer connection that is closed under it never
settles (`ShareHangs`) or is refused (`ShareFails`).  Both ends number their peer
connections, and a description or candidate carries the number of its own:
`Linked(p)` says the two ends have each other's description, `Gone(p)` that the
server's end is connected to one the page has closed, which Pion finds out some
time.  `todo[g]` is what a goroutine still has to send or to replace, one step
each, in the order Go iterates the map.  `due` holds the negotiations of a guest
to come, by the 300 ms timer (of which there is one) and by the goroutine
`AddSubscriber` starts.

What is made one step here because another module takes it apart: join and
promotion (`Rooms`), closing and making a peer connection (`Media`), "ended" and the
reset that follows it.  `Room.Close`, replacement by a new room of the same address
and closed rooms are in `Rooms` only, and the socket loses nothing while it is
open (`Client` has the full buffer).  A page's message is taken as soon as its
handler is free: page and server meet only in their messages, and those to the page
wait as long as they like, so no order of events is lost.  The messages `joined` and
`stopped` change only labels and are left out.

Six variables are history.  They name the ways in which the code is known to end
in a bad state, so that the properties can say that there is no other:

| History | A page is in it when |
|---|---|
| `disturbed` | its end at the server was connected and took the description of a new connection of the page; or took the late answer to an offer of the end before it; or could not be offered again because an answer was still out; or was reset in a room that was live again; or was replaced by the failure callback |
| `early` | the server sent it a candidate before the offer it belongs to |
| `outdated` | it was called or dismissed as a guest after its promotion |
| `unsent` | it sent something while it had no connection |
| `crossed` | it applied the answer to an earlier offer |
| `overlapped` | two of its shares overlapped, one hangs, or one began while the stream of an earlier one still ran; until it starts one alone with nothing captured |

### Client

`SendJSON` and the first half of `Close` hold `c.mu`; the rest does not.
Receiving from a closed Go channel first empties its buffer.  `panicked` records a
send on, or a close of, the closed channel.  The dead socket, the pong deadline and
the frame limit are reads and writes that fail.

### Hub

Each change of the public rooms has a number; a card is the number of the change
that made it, and a list a function from rooms to such numbers, so that older and
newer lists can be told apart.  `ListPublic` copies `Manager.rooms` in one step
and asks each room for its card in a step each; `Broadcast` then copies the
clients and sends to one at a time.  The goroutine that a change starts is
`Broadcast(n)`.  `FailedPromotion` is the one change of a card that starts none.
Sorting and passwords are left out: all rooms are public.  A page that reconnects
is a new page.

### CastPage, FileHub and VideoRoom

`CastPage` is `file-beta.js`: `casting` is `isBroadcaster`, `peers[p]` the map
`peerConnections` with its `pendingCandidates`, `shown[p]` the partner behind
`remoteVideo`, and a peer connection goes through "offering", "offered",
"applying", "stable" or "answering", "stable" as the awaits of its handlers settle.
A page is named by its connection, as in the code, and has a new name when it
connects again.  `teste-video/public/app.js` is the same program over Socket.IO; the
one difference in behaviour is a constant, `BuffersOffline`: Socket.IO keeps what is
sent without a connection, the WebSocket page drops it.  The map names the lines of
`file-beta.js` for the definitions of `CastPage`, and those of `app.js` for the
groups of handlers in `VideoRoom`.

`FileHub` has one goroutine per connection.  The section of `h.mu` in
`setBroadcaster`, `addWatcher`, `relay` and `onDisconnect` is one action, which
leaves in `job[c]` what is to be sent to whom; each send is a step, after the
unlock, in any order but that `forceStop` is the first.  `close(c.send)` is a step of
its own (`CloseSend`), and a send to a closed channel is `Panic`: it ends the
goroutine, whose deferred calls close its connection and run `onDisconnect`.  The
channel and the socket behind it are the one bounded `inbox` of the page.  In
`VideoRoom` an event is one step, for Node runs one handler at a time; events are
delivered in order and to the connections the server still has.

History: `registered` (connections that ever were the broadcaster), `refused`
(broadcasters that asked to watch and were turned away), `lost` (pages that lost a
message to a full channel), `panicked`, and `twice` in `VideoRoom` (pages that asked
again while anything was left of an earlier request: a peer connection at either end,
the request, the offer or the answer).

## 3. Runs

| Run | Bounds | Shows |
|---|---|---|
| `Rooms_safety` | 3 rooms, 2 addresses, 3 connections, failing admissions, symmetry | type invariant, maps agree, unlisted rooms have one closer, closed rooms are empty, sessions and maps agree, hosts keep their slot, abandoned rooms are unlisted |
| `Rooms_lifecycle` | 2 rooms, 2 addresses, 2 connections, fairness | `Rooms` implements `RoomLifecycle`; abandoned rooms get closed; cleanup completes |
| `Rooms_LiveHasPublisher` | 1 room, 2 connections | violated: a late track makes a room live without a host |
| `Rooms_GuestStaysInRoom` | same | violated: a lost promotion drops the guest from its room |
| `Media_safety` | 1 host, 1 guest that may be promoted, 1 track, 2 host and 3 guest connections, `Close` at any time | no track attached twice, members keep a usable connection, a dead host connection is replaced, the connection a peer was admitted with is closed with the room |
| `Media_LiveReachesAll` | 2 hosts, 1 guest | violated: the previous host's cleanup discards the next host's track |
| `Client` | buffer of 2, 5 messages, fairness | no panic, both pumps end, implements `Mailbox` |
| `Hub_delivery` | 2 rooms, 2 changes, 1 page, buffer of 1, fairness | a page that stays is told of every notified change |
| `Hub_ShowsCurrent` | 1 room, 2 changes, 1 page | violated: an older list is drawn last |
| `RoomPage` | a page opened as host and one opened as guest, 2 clicks on share by either, 1 kind of track, 2 peer connections per page at each end, the host's connection may be lost, candidates of the guest | requests are answered, roles agree, candidates arrive, captures are released, a live host is heard, guests are offered the tracks |
| `FileHub` | 2 pages, 2 connections, 2 clicks on start, 2 peer connections, 2 faults, a channel of 2, fairness | the hub registers only who it will clean up; one broadcaster; nobody waits unknown; no peer connection to who has left; cleanup completes |
| `VideoRoom` | 2 pages, 3 connections, 2 clicks, 3 peer connections, 1 fault, symmetry | roles belong to connections; one broadcaster; nobody shows what has left; candidates arrive; everyone is served unless asked twice |

Why the bounds are enough to be interesting: three connections allow a host, a
guest being promoted and a third that takes the slot or leaves last; three rooms
of two addresses allow a replacement whose old room still closes while a room of
the other address lives.  Two host connections give one reset, three guest connections
two overlapping ones.  A hub with two changes has two concurrent broadcasts beside
the snapshot and the fetch, and a buffer of one overflows.  A buffer of two and
five messages fill, drain and overflow the client.

In `RoomPage` two clicks on share give a share after a stop, two overlapping shares, a
promotion while another shares and a host that is lost while its guest asks; two
peer connections at each end give one replacement.  The properties also hold,
in longer runs with the same cfg but for the named constants, with three and with
four peer connections (8 million states), with either page losing its connection,
and with two kinds of tracks, three peer connections and neither losses nor
candidates.  In `FileHub` a channel of two fills with one message waiting for
another, two faults allow a loss during a cleanup, and two connections suffice for
every pair of goroutines that send to each other, or for a page that returns; a
page that returns to another is `VideoRoom`'s third connection.  `VideoRoom` also holds with
four peer connections (2.5 million states), and with six to eight, with two
connections, for `ServedUnlessAskedTwice`; `CasterIsRegistered` of both, and
`WaitingAreKnown` of `FileHub`, hold with three pages.

Of the ways into `disturbed`, the first four keep a guest from the tracks and the first
and the last a host from being heard: TLC finds a case of each with three peer
connections, either page losing its connection, and no case of the others.

Two properties say less than one might expect, because more does not hold.
`LeftIsNotShown` allows one fault: with two, a watcher that has no connection while
the broadcaster leaves is not told, and goes on showing its stream.
`LeftPeersAreClosed` speaks of the only broadcaster there has been: with three pages,
one registers while the goroutine of a watcher, interrupted between the lock and the
send, has still to announce that watcher to it; the watcher leaves, which only
another page, the broadcaster by then, is told; the old announcement then makes a
peer connection nobody closes.

A property that starts with `Quiet` speaks of the states in which nothing is on its
way and nobody but the users is about to act: it says where a conversation ends,
whatever the order in which its messages came.  Deadlock checking is off
because every instance stops when its bounded rooms, connections or messages are
used up.

## 4. Fairness

Go runs every runnable goroutine and every critical section ends, so each
goroutine of the server takes its next step: `WF` on `Session(p)` and `Close(r)`
in `Rooms`, on `BroadcastStep(n)` and `PageStep(p)` in `Hub`, on `WritePump` and
`CloseConn` in `Client`, where every write ends, well or at its 10 s deadline,
and a read of a dead socket fails, and on `Goroutine(c)` in `FileHub`, where
`net/http` runs the deferred calls of a goroutine that panicked and `sendJSON`
never waits.  An open page handles the messages it has
(`OnMessage`).  Users, networks and Pion are under no obligation: nobody has to
join, share, stop or leave, and no connection has to fail.

## 5. Proofs

No proof assumes more than the named assumptions on the constants: the nil
values are not members of the sets (`RoomsAssumption`), bounds and capacities are
numbers (`ClientAssumption`, `HubAssumption`, `CastPageAssumption`,
`FileHubAssumption`), hosts and guests are among the connections or pages
(`MediaAssumption`, `RoomPageAssumption`).  The pages of a room are finitely many,
for a loop over its guests ends.  Apart from that the sets of rooms, addresses,
connections, tracks and pages are arbitrary.

`RoomsProofs`:

- `TypeCorrect`, `ManagerMapsAgree`, `UnlistedRoomsAreClosed`, `ClosedRoomsAreEmpty`,
  `MembersHaveTheirSessions`, `HostsKeepTheirSlots`, `NoRoomLeaks`: each safety
  invariant of `Rooms_safety`;
- `RefinesLifecycle`: `Spec => Lifecycle!Spec`, every step of `Rooms` maps to a
  step of `RoomLifecycle` or to a stutter.

All rest on `InductiveInvariant`.  The invariants of the run are not inductive
alone: that a closed room stays empty, for instance, needs to know that a peer
enters a room only from a lookup of a room that exists, and that a promoted guest
names the room it left.  `SessionsAreConsistent` adds what each goroutine knows at
each of its places: `lookup` is set in `AddPublisher` and `AddSubscriber`, a
promotion is always of a subscriber into its own room, `cleanup` runs only after a
join, and every joined room is in `visited`.  There is one lemma per action
(`CreateInductive`, `CloseInductive`, ...); inside, the cases are whether the
action succeeds.  The refinement has one lemma per action that changes the
abstract phase; the others leave the four variables behind it alone (`SameView`).

`ClientProofs`: `TypeCorrect` (only what was handed to `SendJSON` is in the buffer, in
the hands of `WritePump` or at the browser), `NeverPanics` and `RefinesMailbox`, the safety half of
`ImplementsMailbox`: `Spec => Box!Spec`.  The inductive invariant ties the flag
`closed` of the client, which `SendJSON` reads under the lock, to the state of the
channel.  The refinement maps what was accepted and not yet written to the queue
of the mailbox (`inFlight`): a message in the hands of `WritePump` goes before those in
the buffer, so that neither `Receive` nor the closing of the channel is a visible step.

`MediaProofs`: `MediaTyped`, `MembersAlwaysNegotiate`, `HostAlwaysRecovers`,
`TracksAreAttachedOnce` and `AdmittedAreAlwaysClosed`, each safety invariant of
`Media_safety`.  What is hard is that a loop started under the lock runs after it,
beside loops started since, so every invariant has to speak of what the
loops have still to do.  The proof is in four parts:

- `Grounded`: members are in session, a peer connection is made before anything
  refers to it, and each goroutine runs only the kind of loop it starts (`Fits`):
  only `OnTrack` and the welcome of a new guest add tracks, only one who leaves is
  closed for good;
- `Negotiable`: what a loop closes it renews later, unless the peer has left or the
  room is closed, so that whichever loop comes last leaves a usable connection; and
  while `resetting` keeps the callbacks of a host quiet, a loop will renew it;
- `Once`: of two goroutines that might add one track to one guest only one does,
  that of the guest or that of the track: a track not yet in `tracks` is in no list of
  a welcome, and one that is in it has had its `OnTrack`;
- `Held`: a first connection that is open is that of a member, where `Close` will find
  it, or some loop is about to close it; and no loop makes a peer another connection
  before it closes the first.

`HubProofs`: `TypeCorrect`, and `ChangesAreNeverLost`, the safety half of
`EveryChangeArrives`: the last notified change of each room is, for every open page,
in a list that a caller has still to read or to push to it, in the page's
buffer, already pushed, or the buffer has dropped a list (`NoChangeIsLost`).
`QuietPagesWerePushed` draws the conclusion for a hub at rest.  The invariant needs
that a card is never older than the copy of `Manager.rooms` that led to it, and that
a page is in `clients` before its snapshot is read: a change misses the copy of
`clients` only if the snapshot, taken afterwards, has it.

`RoomPageProofs`: `TypeCorrect`, `RequestsAreAnswered`, `RolesAlwaysAgree`,
`CapturesAreReleased`, `CandidatesArrive`, `GuestsAreServed` and `LivePagesAreHeard`.
All but the first speak of a quiet conversation; the invariants say how it gets there.
For the roles and captures (`Conversation`):

- `SessionsAreMembers`: the role in the handler is that under which the room has the
  page; `JoinsComeFirst`: a page asks to join once, before anything else, so that
  a refusal is the answer to that;
- `RolesFollow`: page and room agree, or the message that will tell the page of its
  promotion is on its way; `TellsNegotiate`: no other goroutine answers a request, so
  that answers keep the order of their requests;
- `RequestsAreUnderWay`: a page that waits has its request or an answer under way;
- `SharesAreAlone`: a page outside `overlapped` has at most one share going on, and
  has captured at most what that share will hand over, or stop.

For the candidates (`AllNumbered` and `AllTrickle`):

- `Numbered`: no message names a peer connection that was not made yet, whichever
  goroutine still has to send it, and one that names the current one of the server
  was sent by it;
- `PageTrickles`, `ServerTrickles`: the candidate of the description an end has applied
  was added, is queued, or is under way behind it, through every replacement of the
  peer connection it was meant for.

For the guests (`AllWelcome`):

- `GuestRests`: a page with the role of a guest shares nothing and has sent no offer, and
  of a guest at most one offer is about to be told;
- `UpToDate`: the server's peer connection of a guest has the tracks of the room, or a
  reset of it is still to come in the loop of some goroutine;
- `GuestServed`: a server end that has made no offer (`Unoffered`) is connected already,
  or has no tracks, or is to be negotiated; the offer of one that has (`UnderOffer`) is in
  exactly one place: to be told (`OfferTold`), on its way (`OfferSent`), being
  applied (`OfferTaken`), or answered (`OfferAnswered`), with no "ended" or newer
  offer behind it that would close what it makes;
- `Fits`: what a guest was or will be offered is what the peer connection has now, or
  another negotiation is due, so that the offer under way may be an old one.

For the hosts (`AllHeard`), of a page outside the exceptions of `HostIsHeard`:

- `Hosting`: a page that says it is live has a stream and no share under way;
  `Admitted`: no "ended" or offer to a guest reaches a host, and the handler of a
  connected page has joined, or the join or its refusal is under way;
- `Unheard`: of a share that has not made its offer the server has heard nothing, so that
  its first offer is the only one of its peer connection;
- `Answered`: that offer is still to be taken, is answered, the answer is being
  applied, or the two are connected (`Asking`, `Accepting`, `Connected`); and what
  makes the server forget the page, its join, its stop or an earlier offer, comes
  before it (`Followed`), `resetPublisherPC` of the handler included.

The proof attempt for the hosts corrected the model: the history `overlapped` had to
last until a share is started alone with nothing captured.

Each action has a lemma that says what it does to one page's messages and peer
connections (`OpenDoes` to `CleanupDoes`), and `Elsewhere` says that the step of one page
leaves the others' alone, so that an invariant of a page is looked at once per action.

`CastPageProofs` serves the next two.  `PagePart` holds of the page with either
server: types (`PageTyped`), connections are new when they open (`Numbered`), and a
page that broadcasts no more has a "watcher" behind its "broadcaster" in the queue
(`TakesItBack`, with `Followed(q, A, B)`: after each message of A there is one of B).
`Effect(p)` is what any step of a page may do to its queues, its role and its peer
connections; each action has it, so that the servers' proofs look at the page once.

`FileHubProofs`: `TypeCorrect`, `NoGhosts`, `OneBroadcasterGoesOn`,
`NobodyWaitsUnknown` and `NoPeerOfAGhost`, each safety invariant of `FileHub`.  Of the
invariant, `HubTyped` and `Serving` (a registered connection has a goroutine that
has still to take it out) give the first two, and for the others:

- `Jobs`, `Stopped`: a page that broadcasts on a connection of a former broadcaster is
  about to be sent `forceStop`, or to register again, or lost the message.  That
  `forceStop` is sent first matters: a send that panics then loses none that is owed
  to a page that is still there;
- `Known`: a page that does not broadcast is a watcher, has asked to be one, or was
  turned away as the broadcaster it had been;
- `Requests`, `Told`: offers and peer connections need a broadcaster that is another
  connection, and the only broadcaster hears `disconnectPeer` of a watcher after the
  last request of that watcher.

`VideoRoomProofs`: `TypeCorrect`, `RolesStayConnected`, `OneBroadcasterGoesOn`,
`WhatLeftIsNotShown`, `CandidatesArrive` and `EveryoneIsServed`, in four invariants, each
resting on those before.  `Inductive` gives the first three: a page that is online is on a
connection the server has (`Connected`), and one that broadcasts as a former
broadcaster has its `forceStop` or its own "broadcaster" under way (`Stopped`): Node
runs a handler to its end, so this needs no jobs.  `Watched` adds

- `OffersFollow`: an offer goes to another page, and as long as no broadcaster has lost
  its connection only from one that has registered under its own;
- `FaultsAreCounted`: with at most one fault at most one connection is lost;
- `BroadcasterIsRegistered`, `TakeoverIsUnderWay`: a page that broadcasts and still
  shows the broadcaster has its "broadcaster" under way, so that it may ignore
  `broadcasterLeft`;
- `AllTurnDark`: behind every offer of the broadcaster that left comes its
  `broadcasterLeft`, and a page that shows it has that message to come.

`Trickled` follows a candidate from the page that made it to the one that adds it:

- `MadeBefore`: no message names a connection or a peer connection not made yet;
- `SentTogether`, `RelayedTogether`: a description is followed by its candidate on the
  way to the server, and on the way from there to the partner;
- `CandidatesFollow`: of the description a page has applied or is applying, the
  candidate is added, queued in the peer connection, or still under way.

`ConnectionsAfter` of `CastPageProofs` says for it what any step of a page makes of its
peer connections (`Evolves`), `SentAfter` what it sends.

`Served` says where a page stands that does not broadcast.  While nothing is lost
every connection of the server has its page (`Calm`); and for the broadcaster and each
page that watches, either the page is about to ask or to change its role (`Pending`: a
start, a "watcher" or a "broadcaster" is under way), or it is in `twice`, or there is
one exchange between the two, in one of the stages `Requested`,
`BeforeOffer`, `OfferUnderWay`, `BeforeAnswer`, `AnswerUnderWay`, `BeforeLink` and
`Joined`.  Each stage says where the one message is, that nothing else of the exchange
is in any queue (`Never(q, A, B)`: no B after an A), and how far the two peer
connections are.  Two lemmas keep this within bounds: `Turn` collects what a step of a
page may be to one partner, and a step that is `Neutral` to the two leaves their stage
(`NeutralServing`).  When all is quiet only `Joined` is left.

The attempt to prove it corrected the model.  `twice` used to look only at the
broadcaster, at its peer connections and the requests it has still to take, and TLC
refutes that form with six peer connections and no fault: a new request crosses an
offer that is left of an earlier one.  That page did ask twice; the history now says so.

So every safety invariant and action property of the passing runs is proved.
Out of reach of the prover, together with `ENABLED`, is all liveness:
`AbandonedIsClosed`, `LeavingCompletes`, `PumpsEndTogether`, `EveryChangeArrives` (that
what is on its way arrives), `CleanupCompletes` and the fair halves of both
refinements.

## 6. What the violated properties say

Four runs check what a comment or the specification document says and find it
violated; `PROJECT.json` has the line and the quotation for each.  They share two
causes: state read under a lock and acted upon after its release (late tracks,
promotion, reset loops), and notifications that carry no order (room lists).

The same causes show elsewhere, and the properties of the passing runs except
these cases by name instead of hiding them: a reset in progress when `Room.Close`
runs makes a connection that nobody closes (`AdmittedAreClosed` speaks of the
connections peers were admitted with); a room is reclaimed while its only guest is
being promoted; a promotion that fails half way changes the number of viewers and
notifies nobody (`EveryChangeArrives` speaks of notified changes); a second
`publish_ok`, after a share that reset its connection, starts a share whose
capture replaces the one the page can stop (`overlapped`); and the histories
of `RoomPage`, `FileHub` and `VideoRoom` above.

## 7. Plan

Done: the manager, rooms and sessions, peer connections, client, hub, the pages, the
file hub and the prototype; the proofs of all their safety properties.  Next, in this
order:

1. An abstract relay, a broadcaster and a set of watchers that connections enter
   and leave in one step, which `FileHub` and `VideoRoom` both implement.
2. `Locks`: acquisition of `Manager.mu`, `Room.mu`, `negotiateMu`, `renegMu` and
   `c.mu` as separate steps with Go's writer preference; freedom from deadlock.
3. Composition of `RoomPage` with `Client` through `Mailbox`: what a dropped offer or
   "ended" leads to.

Not modelled, and why:

- SDP and RTP contents, RTP forwarding, PLI timing, bitrate and codecs: media quality,
  no control;
- an error of `newPeerConnection` inside a reset: its codecs, interceptors and settings,
  `WEBRTC_NAT_1TO1_IP` included, are the same at every call, so what makes it fail in a
  reset has made the admission fail before, which `PCMayFail` in `Rooms` has;
- `Manager.Delete`, which nothing calls; sorting of the room list; passwords beyond
  refusing a join;
- the forms of the home page: they post or navigate once and keep nothing;
- static pages and theme, `teste` and `teste-screen` (they forward every message to
  everybody and keep no state), and the build files.
