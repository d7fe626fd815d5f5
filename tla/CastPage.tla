------------------------------ MODULE CastPage ------------------------------
(***************************************************************************)
(* The page that broadcasts a video file or watches one                    *)
(* (public/js/file-beta.js; teste-video/public/app.js is the same program  *)
(* over Socket.IO).  Each page has a peer connection per partner and talks *)
(* to its partners through a server, which FileHub and VideoRoom model.    *)
(*                                                                         *)
(* Every message handler runs to its first await, and what follows an      *)
(* await is an action of its own, so other messages come in between.  An   *)
(* operation on a peer connection that was closed meanwhile never settles: *)
(* the rest of its handler does not run.  Peer connections are numbered in *)
(* the order they are made; a description or candidate carries the number  *)
(* of the peer connection it is of.                                        *)
(***************************************************************************)
EXTENDS Naturals, Sequences, FiniteSets, Functions, TLC

CONSTANTS
    Pages,
    BuffersOffline,     \* whether what a page sends without a connection is
                        \* kept for the next one: Socket.IO does, a WebSocket
                        \* that is not OPEN is not written to
    Trickling,          \* the peer connections that find candidates to send
    MaxConns,           \* connections opened; bounds the model
    MaxClicks,          \* clicks on start; bounds the model
    MaxPeers,           \* peer connections made; bounds the model
    MaxFaults           \* connections lost, pages closed, promises rejected;
                        \* bounds the model

ASSUME CastPageAssumption ==
    /\ BuffersOffline \in BOOLEAN /\ Trickling \subseteq Nat
    /\ MaxConns \in Nat \ {0} /\ MaxClicks \in Nat /\ MaxPeers \in Nat /\ MaxFaults \in Nat

VARIABLES
    conn,       \* the connection the page opened last; they are numbered
    opened,     \* connections opened so far
    link,       \* that connection: "down", "open", or "left" with the page
    inbox,      \* messages on their way to the page
    outbox,     \* messages on their way to the server
    casting,    \* isBroadcaster; stream is set with it
    starting,   \* startBroadcasts that await localVideo.play()
    shown,      \* the partner whose stream remoteVideo shows
    peers,      \* peerConnections with their pendingCandidates
    clicks,
    made,       \* peer connections made so far
    faults

linkVars == <<conn, opened, link>>
castVars == <<casting, starting, clicks>>
peerVars == <<peers, made, shown>>
pageVars == <<linkVars, inbox, outbox, castVars, peerVars, faults>>

(* The server names a page by its connection. *)
Ids == 1..MaxConns
None == 0
Me(p) == conn[p]

Serials == 1..MaxPeers
Kinds == {"broadcaster", "forceStop", "watcher", "offer", "answer", "candidate",
          "disconnectPeer", "broadcasterLeft"}

(* id is the partner (from, to or id of the code), n the peer connection   *)
(* of the sender, and re the one an answer answers.                        *)
Message == [kind : Kinds, id : Ids \cup {None}, n : 0..MaxPeers, re : 0..MaxPeers]

Plain(k)          == [kind |-> k, id |-> None, n |-> 0, re |-> 0]
About(k, id)      == [kind |-> k, id |-> id, n |-> 0, re |-> 0]
Candidates(id, n) ==
    IF n \in Trickling THEN <<[kind |-> "candidate", id |-> id, n |-> n, re |-> 0]>> ELSE << >>
Offer(id, n)      == [kind |-> "offer", id |-> id, n |-> n, re |-> 0]
Answer(id, n, re) == [kind |-> "answer", id |-> id, n |-> n, re |-> re]

(* remote is the peer connection whose description was applied, 0 before;  *)
(* asked the one whose description is being applied.                       *)
PeerState == {"offering", "offered", "applying", "answering", "stable"}
Peer == [n : Serials, state : PeerState, asked : 0..MaxPeers, remote : 0..MaxPeers,
         pending : SUBSET Serials, added : SUBSET Serials]

PageTypeOK ==
    /\ conn \in [Pages -> Ids \cup {None}]
    /\ opened \in 0..MaxConns
    /\ link \in [Pages -> {"down", "open", "left"}]
    /\ \A p \in Pages : inbox[p] \in Seq(Message) /\ outbox[p] \in Seq(Message)
    /\ casting \in [Pages -> BOOLEAN]
    /\ starting \in [Pages -> 0..MaxClicks]
    /\ shown \in [Pages -> Ids \cup {None}]
    /\ \A p \in Pages : /\ DOMAIN peers[p] \in SUBSET Ids
                        /\ \A id \in DOMAIN peers[p] : peers[p][id] \in Peer
    /\ clicks \in 0..MaxClicks
    /\ made \in 0..MaxPeers
    /\ faults \in 0..MaxFaults

PageInit ==
    /\ conn = [p \in Pages |-> None]
    /\ opened = 0
    /\ link = [p \in Pages |-> "down"]
    /\ inbox = [p \in Pages |-> << >>]
    /\ outbox = [p \in Pages |-> << >>]
    /\ casting = [p \in Pages |-> FALSE]
    /\ starting = [p \in Pages |-> 0]
    /\ shown = [p \in Pages |-> None]
    /\ peers = [p \in Pages |-> << >>]
    /\ clicks = 0
    /\ made = 0
    /\ faults = 0

----------------------------------------------------------------------------
(* Sending, and keeping peer connections *)

Fault == faults < MaxFaults /\ faults' = faults + 1

Online(p) == link[p] = "open"

Send(p, ms) ==
    outbox' = IF Online(p) \/ BuffersOffline
              THEN [outbox EXCEPT ![p] = @ \o ms] ELSE outbox

(* The map with an entry set. *)
Put(map, id, value) == [x \in DOMAIN map \cup {id} |-> IF x = id THEN value ELSE map[x]]

(* createPeerConnection closes the one it replaces, and its queue with it. *)
CreatePeerConnection(p, id, state, n) ==
    LET new == [n |-> made + 1, state |-> state, asked |-> n, remote |-> 0,
                pending |-> {}, added |-> {}]
    IN  /\ made < MaxPeers
        /\ made' = made + 1
        /\ peers' = [peers EXCEPT ![p] = Put(@, id, new)]

(* Mutant: the entry of the peer connection stays behind. *)
ClosePeerHalf(p, id) ==
    peers' = [peers EXCEPT ![p] = Put(@, id, << >>)]

ClosePeer(p, id) ==
    peers' = [peers EXCEPT ![p] = Restrict(@, DOMAIN @ \ {id})]

CloseAllPeers(p) == peers' = [peers EXCEPT ![p] = << >>]

ClearRemoteVideo(p) == shown' = [shown EXCEPT ![p] = None]

(* setRemoteDescription has succeeded and flushCandidates has run. *)
SetRemoteDescription(p, id, n) ==
    LET pc == peers[p][id]
    IN  peers' = [peers EXCEPT ![p][id] =
                     [pc EXCEPT !.state = "stable", !.remote = n, !.asked = 0,
                                !.pending = {}, !.added = pc.added \cup pc.pending]]

(* Mutant: a candidate that comes too early is dropped. *)
AddOnly(p, id, n) ==
    IF peers[p][id].remote = 0 THEN UNCHANGED peers
    ELSE peers' = [peers EXCEPT ![p][id].added = @ \cup {n}]

QueueOrAddCandidate(p, id, n) ==
    IF peers[p][id].remote = 0
    THEN peers' = [peers EXCEPT ![p][id].pending = @ \cup {n}]
    ELSE peers' = [peers EXCEPT ![p][id].added = @ \cup {n}]

----------------------------------------------------------------------------
(* The user *)

(* localVideo.src is set; the button is enabled until play() has settled. *)
StartBroadcast(p) ==
    /\ ~casting[p] /\ link[p] # "left"
    /\ clicks < MaxClicks
    /\ clicks' = clicks + 1
    /\ starting' = [starting EXCEPT ![p] = @ + 1]
    /\ ClearRemoteVideo(p)
    /\ CloseAllPeers(p)
    /\ UNCHANGED <<linkVars, inbox, outbox, casting, made, faults>>

PlayStarted(p) ==
    /\ starting[p] > 0
    /\ starting' = [starting EXCEPT ![p] = @ - 1]
    /\ casting' = [casting EXCEPT ![p] = TRUE]
    /\ Send(p, <<Plain("broadcaster")>>)
    /\ UNCHANGED <<linkVars, inbox, clicks, peerVars, faults>>

(* isBroadcaster is FALSE already: calls of play() that are pending        *)
(* together succeed together, unless stopBroadcast paused the video.       *)
PlayFails(p) ==
    /\ Fault
    /\ starting[p] > 0 /\ ~casting[p]
    /\ starting' = [starting EXCEPT ![p] = @ - 1]
    /\ UNCHANGED <<linkVars, inbox, outbox, casting, clicks, peerVars>>

(* Mutant: who stops does not become a watcher again. *)
StopSilently(p) ==
    /\ CloseAllPeers(p)
    /\ casting' = [casting EXCEPT ![p] = FALSE]
    /\ UNCHANGED outbox

Stop(p) ==
    /\ CloseAllPeers(p)
    /\ casting' = [casting EXCEPT ![p] = FALSE]
    /\ Send(p, <<Plain("watcher")>>)

StopBroadcast(p) ==
    /\ casting[p] /\ link[p] # "left"
    /\ Stop(p)
    /\ UNCHANGED <<linkVars, inbox, starting, clicks, made, shown, faults>>

----------------------------------------------------------------------------
(* The connection *)

(* connect: the first time, and again after the connection was lost.       *)
Connect(p) ==
    /\ link[p] = "down" /\ opened < MaxConns
    /\ link' = [link EXCEPT ![p] = "open"]
    /\ opened' = opened + 1
    /\ conn' = [conn EXCEPT ![p] = opened']
    /\ inbox' = [inbox EXCEPT ![p] = << >>]
    /\ outbox' = [outbox EXCEPT ![p] =
                     @ \o (IF casting[p] THEN << >> ELSE <<Plain("watcher")>>)]
    /\ UNCHANGED <<castVars, peerVars, faults>>

(* What was under way is lost with the connection. *)
Cut(p, state) ==
    /\ link' = [link EXCEPT ![p] = state]
    /\ inbox' = [inbox EXCEPT ![p] = << >>]
    /\ outbox' = [outbox EXCEPT ![p] = << >>]

ConnectionDrops(p) ==
    /\ Fault
    /\ Online(p)
    /\ Cut(p, "down")
    /\ UNCHANGED <<conn, opened, castVars, peerVars>>

Leave(p) ==
    /\ Fault
    /\ Online(p)
    /\ Cut(p, "left")
    /\ casting' = [casting EXCEPT ![p] = FALSE]
    /\ starting' = [starting EXCEPT ![p] = 0]
    /\ CloseAllPeers(p)
    /\ ClearRemoteVideo(p)
    /\ UNCHANGED <<conn, opened, clicks, made>>

----------------------------------------------------------------------------
(* Messages *)

Receive(p, kind) ==
    /\ Online(p) /\ inbox[p] # << >> /\ Head(inbox[p]).kind = kind
    /\ inbox' = [inbox EXCEPT ![p] = Tail(@)]
    /\ UNCHANGED <<linkVars, faults>>

Msg(p) == Head(inbox[p])

Ignore == UNCHANGED <<outbox, castVars, peerVars>>

(* Mutant: the page clears the video and waits to be called. *)
OnBroadcasterUnasked(p) ==
    /\ Receive(p, "broadcaster")
    /\ \/ casting[p] /\ Ignore
       \/ /\ ~casting[p]
          /\ ClearRemoteVideo(p) /\ CloseAllPeers(p)
          /\ UNCHANGED <<outbox, castVars, made>>

OnBroadcaster(p) ==
    /\ Receive(p, "broadcaster")
    /\ \/ casting[p] /\ Ignore
       \/ /\ ~casting[p]
          /\ ClearRemoteVideo(p) /\ CloseAllPeers(p) /\ Send(p, <<Plain("watcher")>>)
          /\ UNCHANGED <<castVars, made>>

OnForceStop(p) ==
    /\ Receive(p, "forceStop")
    /\ \/ ~casting[p] /\ Ignore
       \/ casting[p] /\ Stop(p) /\ UNCHANGED <<starting, clicks, made, shown>>

OnWatcher(p) ==
    /\ Receive(p, "watcher")
    /\ \/ ~casting[p] /\ Ignore
       \/ /\ casting[p]
          /\ CreatePeerConnection(p, Msg(p).id, "offering", 0)
          /\ UNCHANGED <<outbox, castVars, shown>>

(* createOffer and setLocalDescription have settled; the candidates of the *)
(* peer connection follow the offer.                                       *)
SendOffer(p, id) ==
    /\ id \in DOMAIN peers[p] /\ peers[p][id].state = "offering"
    /\ peers' = [peers EXCEPT ![p][id].state = "offered"]
    /\ Send(p, <<Offer(id, peers[p][id].n)>> \o Candidates(id, peers[p][id].n))
    /\ UNCHANGED <<linkVars, inbox, castVars, made, shown, faults>>

OnOffer(p) ==
    /\ Receive(p, "offer")
    /\ \/ casting[p] /\ Ignore
       \/ /\ ~casting[p]
          /\ CreatePeerConnection(p, Msg(p).id, "answering", Msg(p).n)
          /\ shown' = [shown EXCEPT ![p] = Msg(p).id]
          /\ UNCHANGED <<outbox, castVars>>

SendAnswer(p, id) ==
    /\ id \in DOMAIN peers[p] /\ peers[p][id].state = "answering"
    /\ SetRemoteDescription(p, id, peers[p][id].asked)
    /\ Send(p, <<Answer(id, peers[p][id].n, peers[p][id].asked)>>
                   \o Candidates(id, peers[p][id].n))
    /\ UNCHANGED <<linkVars, inbox, castVars, made, shown, faults>>

(* A description is refused: the page gives this partner up. *)
OfferFails(p, id) ==
    /\ Fault
    /\ id \in DOMAIN peers[p] /\ peers[p][id].state = "offering"
    /\ ClosePeer(p, id)
    /\ UNCHANGED <<linkVars, inbox, outbox, castVars, made, shown>>

AnswerFails(p, id) ==
    /\ Fault
    /\ id \in DOMAIN peers[p] /\ peers[p][id].state = "answering"
    /\ ClosePeer(p, id) /\ ClearRemoteVideo(p)
    /\ UNCHANGED <<linkVars, inbox, outbox, castVars, made>>

(* An answer is applied by a peer connection that has made an offer and    *)
(* has no answer yet; any other refuses it, which is only logged.          *)
OnAnswer(p) ==
    /\ Receive(p, "answer")
    /\ IF Msg(p).id \in DOMAIN peers[p] /\ peers[p][Msg(p).id].state = "offered"
       THEN peers' = [peers EXCEPT ![p][Msg(p).id].state = "applying",
                                   ![p][Msg(p).id].asked = Msg(p).n]
       ELSE UNCHANGED peers
    /\ UNCHANGED <<outbox, castVars, made, shown>>

ApplyAnswer(p, id) ==
    /\ id \in DOMAIN peers[p] /\ peers[p][id].state = "applying"
    /\ SetRemoteDescription(p, id, peers[p][id].asked)
    /\ UNCHANGED <<linkVars, inbox, outbox, castVars, made, shown, faults>>

OnCandidate(p) ==
    /\ Receive(p, "candidate")
    /\ IF Msg(p).id \in DOMAIN peers[p]
       THEN QueueOrAddCandidate(p, Msg(p).id, Msg(p).n) ELSE UNCHANGED peers
    /\ UNCHANGED <<outbox, castVars, made, shown>>

(* Mutant: the peer connection of a watcher that has left is kept. *)
OnDisconnectPeerIgnored(p) ==
    /\ Receive(p, "disconnectPeer")
    /\ Ignore

OnDisconnectPeer(p) ==
    /\ Receive(p, "disconnectPeer")
    /\ ClosePeer(p, Msg(p).id)
    /\ UNCHANGED <<outbox, castVars, made, shown>>

OnBroadcasterLeft(p) ==
    /\ Receive(p, "broadcasterLeft")
    /\ \/ casting[p] /\ Ignore
       \/ /\ ~casting[p]
          /\ CloseAllPeers(p) /\ ClearRemoteVideo(p) /\ Send(p, <<Plain("watcher")>>)
          /\ UNCHANGED <<castVars, made>>

----------------------------------------------------------------------------
(* Peer connections *)

(* No media can flow: the other end is closed, or was given the            *)
(* description of another peer connection.                                 *)
Broken(p, id) ==
    LET pc == peers[p][id]
    IN  /\ pc.state = "stable"
        /\ \A q \in Pages : \A o \in DOMAIN peers[q] :
              peers[q][o].n = pc.remote =>
                  peers[q][o].state = "stable" /\ peers[q][o].remote # pc.n

(* connectionState becomes "failed". *)
ConnectionFails(p, id) ==
    /\ id \in DOMAIN peers[p] /\ Broken(p, id)
    /\ ClosePeer(p, id)
    /\ UNCHANGED <<linkVars, inbox, outbox, castVars, made, shown, faults>>

----------------------------------------------------------------------------
OnMessage(p) ==
    \/ OnBroadcaster(p) \/ OnForceStop(p) \/ OnWatcher(p) \/ OnOffer(p)
    \/ OnAnswer(p) \/ OnCandidate(p) \/ OnDisconnectPeer(p) \/ OnBroadcasterLeft(p)

Settle(p) ==
    \/ PlayStarted(p)
    \/ \E id \in Ids : SendOffer(p, id) \/ SendAnswer(p, id) \/ ApplyAnswer(p, id)

(* The two ends of a peer connection have each other's description. *)
Linked(p, q) ==
    /\ Online(p) /\ Online(q)
    /\ Me(q) \in DOMAIN peers[p] /\ Me(p) \in DOMAIN peers[q]
    /\ LET a == peers[p][Me(q)]  b == peers[q][Me(p)]
       IN  /\ a.state = "stable" /\ b.state = "stable"
           /\ a.remote = b.n /\ b.remote = a.n

(* Nothing is on its way to or from this page and no promise is pending.   *)
PageQuiet(p) ==
    /\ starting[p] = 0
    /\ Online(p) => inbox[p] = << >> /\ outbox[p] = << >>
    /\ \A id \in DOMAIN peers[p] :
          peers[p][id].state \in {"offered", "stable"} /\ ~Broken(p, id)
=============================================================================
