------------------------------- MODULE Media -------------------------------
(***************************************************************************)
(* The peer connections of one room (pkg/room/room.go).  Room.mu guards    *)
(* who is in the room and which local tracks it has; creating, closing and *)
(* replacing the peer connections happens after it is released, in loops   *)
(* over a copy of the subscribers.  Such a loop is a sequence of           *)
(* instructions here, todo[g], which its goroutine g carries out one at a  *)
(* time while the other goroutines carry out theirs.                       *)
(*                                                                         *)
(* A connection has at most one Peer of each role in its life.  peer.PC is *)
(* <<peer, current[peer]>>: the n-th peer connection made for the peer.    *)
(* Offers and answers are in RoomPage; here a track either is attached     *)
(* to a peer connection or is not.                                         *)
(***************************************************************************)
EXTENDS Naturals, Sequences, SequencesExt

CONSTANTS
    Conns,      \* WebSocket connections, named by their peer ids
    Tracks,     \* incoming tracks; browsers give each a fresh id
    NoConn,     \* Go's nil
    Hosts, Guests,  \* those that may join as publisher, as subscriber; bounds
    MaxHostPCs, MaxGuestPCs   \* connections made for one peer; bounds

ASSUME MediaAssumption ==
    /\ NoConn \notin Conns
    /\ Hosts \subseteq Conns /\ Guests \subseteq Conns
    /\ MaxHostPCs \in Nat \ {0} /\ MaxGuestPCs \in Nat \ {0}

Pub(c) == <<c, "publisher">>
Sub(c) == <<c, "subscriber">>
Peers  == Conns \X {"publisher", "subscriber"}
MaxPCs(s) == IF s = Pub(s[1]) THEN MaxHostPCs ELSE MaxGuestPCs
PCs    == UNION {{s} \X (1..MaxPCs(s)) : s \in Peers}

(* The goroutines: the ReadPump of a connection, the connection-state      *)
(* callback of its publisher peer, the goroutine AddSubscriber starts, the *)
(* OnTrack goroutine of a track, and whoever calls Room.Close.             *)
Session(c)  == <<"session", c>>
Callback(c) == <<"callback", c>>
Welcome(c)  == <<"welcome", c>>
OnTrack(t)  == <<"onTrack", t>>
Closer      == <<"closer", NoConn>>
Goroutines  == {"session", "callback", "welcome"} \X Conns
                 \cup {"onTrack"} \X Tracks \cup {Closer}

(* What such a loop does to a peer: close its peer connection; the same    *)
(* after setting resetting; make a new one; close one it read earlier;     *)
(* add a track.                                                            *)
Instructions == {"close", "retire", "renew"} \X Peers
                  \cup {"drop"} \X PCs
                  \cup {"attach"} \X (Peers \X Tracks)

VARIABLES
    publisher, subscribers, tracks, closed,   \* Room
    session,    \* role of the handler, "promoting" in PromotePublisher
    made,       \* how many peer connections each peer has had
    current,    \* which of them is peer.PC, 0 before the first
    open,       \* peer connections not closed
    failed,     \* publisher connections in state Failed
    attached,   \* <<pc, track>> after AddTrack
    resetting,  \* publishers whose resetting flag is set
    events,     \* state changes whose callback has not run
    armed,      \* callbacks about to call StopStream
    source,     \* the host a track came from, NoConn before it arrives
    arriving,   \* those whose OnTrack goroutine has not reached Room.mu
    todo

memberVars == <<publisher, subscribers, tracks, closed, session>>
pcVars     == <<made, current, open, failed, attached, resetting, events, armed>>
trackVars  == <<source, arriving>>
vars == <<memberVars, pcVars, trackVars, todo>>

TypeOK ==
    /\ publisher \in Conns \cup {NoConn}
    /\ subscribers \in SUBSET Conns
    /\ tracks \in SUBSET Tracks
    /\ closed \in BOOLEAN
    /\ session \in [Conns -> {"new", "publisher", "subscriber", "promoting", "left"}]
    /\ DOMAIN made = Peers
    /\ \A s \in Peers : made[s] \in 0..MaxPCs(s) /\ current[s] \in 0..made[s]
    /\ open \in SUBSET PCs
    /\ failed \in SUBSET PCs
    /\ attached \in SUBSET (PCs \X Tracks)
    /\ resetting \in SUBSET Conns
    /\ events \in SUBSET PCs
    /\ armed \in SUBSET Conns
    /\ source \in [Tracks -> Conns \cup {NoConn}]
    /\ arriving \in SUBSET Tracks
    /\ DOMAIN todo = Goroutines
    /\ \A g \in Goroutines : \A i \in DOMAIN todo[g] : todo[g][i] \in Instructions

Init ==
    /\ publisher = NoConn
    /\ subscribers = {}
    /\ tracks = {}
    /\ closed = FALSE
    /\ session = [c \in Conns |-> "new"]
    /\ made = [s \in Peers |-> 0]
    /\ current = [s \in Peers |-> 0]
    /\ open = {}
    /\ failed = {}
    /\ attached = {}
    /\ resetting = {}
    /\ events = {}
    /\ armed = {}
    /\ source = [t \in Tracks |-> NoConn]
    /\ arriving = {}
    /\ todo = [g \in Goroutines |-> << >>]

----------------------------------------------------------------------------
PC(s) == <<s, current[s]>>

Idle(g) == todo[g] = << >>

Start(g, program) == todo' = [todo EXCEPT ![g] = program]

(* Mutant: the new connection is made before the old one is closed. *)
RenewFirst(c) == << <<"renew", Sub(c)>>, <<"close", Sub(c)>> >>

(* resetSubscriberPC. *)
Reset(c) == << <<"close", Sub(c)>>, <<"renew", Sub(c)>> >>

(* The loops over a copy of a Go map take its elements in any order.       *)
Orders(S) == SetToSeqs(S)

ResetAll(order) ==
    [i \in 1..(2 * Len(order)) |-> Reset(order[(i + 1) \div 2])[2 - (i % 2)]]

(* PeerConnection.Close; nobody asks a closed connection what it carried.  *)
ClosePC(pc) ==
    /\ open' = open \ {pc}
    /\ failed' = failed \ {pc}
    /\ attached' = {a \in attached : a[1] # pc}

(* Mutant: the new connection is made and peer.PC not set. *)
UnassignedPC(s) ==
    /\ made[s] < MaxPCs(s)
    /\ made' = [made EXCEPT ![s] = @ + 1]
    /\ UNCHANGED current

(* newPeerConnection for a peer whose made count leaves room. *)
NewPC(s) ==
    /\ made[s] < MaxPCs(s)
    /\ made' = [made EXCEPT ![s] = @ + 1]
    /\ current' = [current EXCEPT ![s] = made[s] + 1]

(* The members and their sessions *)

AddPublisher(c) ==
    /\ session[c] = "promoting" \/ (session[c] = "new" /\ c \in Hosts)
    /\ Idle(Session(c))
    /\ ~closed /\ publisher = NoConn
    /\ publisher' = c
    /\ session' = [session EXCEPT ![c] = "publisher"]
    /\ NewPC(Pub(c))
    /\ open' = open \cup {<<Pub(c), made[Pub(c)] + 1>>}
    /\ UNCHANGED <<subscribers, tracks, closed, failed, attached, resetting,
                   events, armed, trackVars, todo>>

(* The promotion fails: the connection keeps the role of a guest.  (A join *)
(* that fails changes nothing.)                                            *)
RefusePromotion(c) ==
    /\ session[c] = "promoting"
    /\ Idle(Session(c))
    /\ closed \/ publisher # NoConn
    /\ session' = [session EXCEPT ![c] = "subscriber"]
    /\ UNCHANGED <<publisher, subscribers, tracks, closed, pcVars, trackVars, todo>>

(* Mutant: the guest is also given tracks that are not in r.tracks yet. *)
EagerSnapshot == tracks \cup arriving

Snapshot == tracks

AddSubscriber(c) ==
    /\ session[c] = "new" /\ c \in Guests
    /\ ~closed
    /\ subscribers' = subscribers \cup {c}
    /\ session' = [session EXCEPT ![c] = "subscriber"]
    /\ NewPC(Sub(c))
    /\ open' = open \cup {<<Sub(c), made[Sub(c)] + 1>>}
    /\ \E order \in Orders(Snapshot) :
           Start(Welcome(c), [i \in DOMAIN order |-> <<"attach", <<Sub(c), order[i]>>>>])
    /\ UNCHANGED <<publisher, tracks, closed, failed, attached, resetting,
                   events, armed, trackVars>>

(* Mutant: the connection the guest had is left open. *)
KeepGuestPC(c) == << >>

(* oldPC.Close, after the unlock. *)
DropGuestPC(c) == IF c \in subscribers THEN << <<"drop", PC(Sub(c))>> >> ELSE << >>

PromotePublisher(c) ==
    /\ session[c] = "subscriber"
    /\ Idle(Session(c))
    /\ ~closed /\ tracks = {} /\ publisher = NoConn
    /\ subscribers' = subscribers \ {c}
    /\ session' = [session EXCEPT ![c] = "promoting"]
    /\ Start(Session(c), DropGuestPC(c))
    /\ UNCHANGED <<publisher, tracks, closed, pcVars, trackVars>>

(* Mutant: a dead connection without media is not worth a reset. *)
NeedsResetForMedia(c) == tracks # {}

(* needReset: the host has tracks, or its connection is dead. *)
NeedsReset(c) == tracks # {} \/ PC(Pub(c)) \notin open \ failed

CanStop(c) == publisher = c /\ c \notin resetting /\ NeedsReset(c)

(* Guests are reset only when there were tracks; resetPublisherPC last. *)
StopStream(g, c) ==
    /\ CanStop(c)
    /\ tracks' = {}
    /\ \E order \in Orders(IF tracks = {} THEN {} ELSE subscribers) :
           Start(g, ResetAll(order) \o << <<"retire", Pub(c)>>, <<"renew", Pub(c)>> >>)
    /\ UNCHANGED <<publisher, subscribers, closed, session>>

(* "stop"; when there is nothing to stop nothing changes. *)
Stop(c) ==
    /\ session[c] = "publisher"
    /\ Idle(Session(c))
    /\ StopStream(Session(c), c)
    /\ UNCHANGED <<pcVars, trackVars>>

RemovePublisher(c) ==
    /\ session[c] = "publisher"
    /\ Idle(Session(c))
    /\ session' = [session EXCEPT ![c] = "left"]
    /\ \/ /\ publisher = c
          /\ publisher' = NoConn
          /\ tracks' = {}
          /\ \E order \in Orders(subscribers) :
                 Start(Session(c), << <<"retire", Pub(c)>> >> \o ResetAll(order))
       \/ /\ publisher # c
          /\ UNCHANGED <<publisher, tracks, todo>>
    /\ UNCHANGED <<subscribers, closed, pcVars, trackVars>>

RemoveSubscriber(c) ==
    /\ session[c] = "subscriber"
    /\ Idle(Session(c))
    /\ session' = [session EXCEPT ![c] = "left"]
    /\ subscribers' = subscribers \ {c}
    /\ Start(Session(c), IF c \in subscribers THEN << <<"close", Sub(c)>> >> ELSE << >>)
    /\ UNCHANGED <<publisher, tracks, closed, pcVars, trackVars>>

Close ==
    /\ ~closed
    /\ closed' = TRUE
    /\ publisher' = NoConn
    /\ subscribers' = {}
    /\ tracks' = {}
    /\ \E order \in Orders(subscribers) :
           Start(Closer, (IF publisher = NoConn THEN << >>
                          ELSE << <<"close", Pub(publisher)>> >>)
                           \o [i \in DOMAIN order |-> <<"close", Sub(order[i])>>])
    /\ UNCHANGED <<session, pcVars, trackVars>>

----------------------------------------------------------------------------
(* Media and the callbacks of Pion *)

TrackArrives(t) ==
    /\ source[t] = NoConn
    /\ publisher # NoConn
    /\ made[Pub(publisher)] < MaxHostPCs
    /\ PC(Pub(publisher)) \in open \ failed
    /\ source' = [source EXCEPT ![t] = publisher]
    /\ arriving' = arriving \cup {t}
    /\ UNCHANGED <<memberVars, pcVars, todo>>

HandlePublisherTrack(t) ==
    /\ t \in arriving
    /\ arriving' = arriving \ {t}
    /\ tracks' = tracks \cup {t}
    /\ \E order \in Orders(subscribers) :
           Start(OnTrack(t), [i \in DOMAIN order |-> <<"attach", <<Sub(order[i]), t>>>>])
    /\ UNCHANGED <<publisher, subscribers, closed, session, pcVars, source>>

(* ICE or DTLS of the host's connection fails; the bound leaves room for   *)
(* the reset that follows.                                                 *)
PCFails(c) ==
    /\ publisher = c
    /\ made[Pub(c)] < MaxHostPCs
    /\ PC(Pub(c)) \in open \ failed
    /\ failed' = failed \cup {PC(Pub(c))}
    /\ events' = events \cup {PC(Pub(c))}
    /\ UNCHANGED <<memberVars, made, current, open, attached, resetting, armed,
                   trackVars, todo>>

(* OnConnectionStateChange, called with Failed or Closed: it looks at      *)
(* resetting and peer.PC without the lock.                                 *)
OnConnectionStateChange(c, pc) ==
    /\ pc \in events
    /\ pc[1] = Pub(c)
    /\ events' = events \ {pc}
    /\ armed' = IF c \notin resetting /\ PC(Pub(c)) = pc THEN armed \cup {c} ELSE armed
    /\ UNCHANGED <<memberVars, made, current, open, failed, attached, resetting,
                   trackVars, todo>>

(* ... and then calls StopStream, which may find nothing left to stop. *)
CallbackStops(c) ==
    /\ c \in armed
    /\ Idle(Callback(c))
    /\ armed' = armed \ {c}
    /\ \/ StopStream(Callback(c), c)
       \/ ~CanStop(c) /\ UNCHANGED <<memberVars, todo>>
    /\ UNCHANGED <<made, current, open, failed, attached, resetting, events,
                   trackVars>>

----------------------------------------------------------------------------
(* The loops *)

Advance(g) == Start(g, Tail(todo[g]))

(* peer.PC is read when the instruction runs.  Pion reports Closed to the  *)
(* callback of the publisher; that of a subscriber only logs, and that of  *)
(* a publisher who left calls StopStream for nothing.                      *)
CloseStep(g, s) ==
    /\ Head(todo[g]) \in {<<"close", s>>, <<"retire", s>>}
    /\ ClosePC(PC(s))
    /\ resetting' = IF Head(todo[g]) = <<"retire", s>> THEN resetting \cup {s[1]} ELSE resetting
    /\ events' = IF s = Pub(publisher) /\ PC(s) \in open THEN events \cup {PC(s)} ELSE events
    /\ Advance(g)
    /\ UNCHANGED <<memberVars, made, current, armed, trackVars>>

RenewStep(g, s) ==
    /\ Head(todo[g]) = <<"renew", s>>
    /\ NewPC(s)
    /\ open' = open \cup {<<s, made[s] + 1>>}
    /\ resetting' = IF s = Pub(s[1]) THEN resetting \ {s[1]} ELSE resetting
    /\ Advance(g)
    /\ UNCHANGED <<memberVars, failed, attached, events, armed, trackVars>>

DropStep(g) ==
    /\ Head(todo[g])[1] = "drop"
    /\ ClosePC(Head(todo[g])[2])
    /\ Advance(g)
    /\ UNCHANGED <<memberVars, made, current, resetting, events, armed, trackVars>>

(* AddTrack fails on a closed connection: the OnTrack loop goes on to the  *)
(* next guest, the goroutine of AddSubscriber gives up.                    *)
AttachStep(g, s, t) ==
    /\ Head(todo[g]) = <<"attach", <<s, t>>>>
    /\ \/ /\ PC(s) \in open
          /\ attached' = attached \cup {<<PC(s), t>>}
          /\ Advance(g)
       \/ /\ PC(s) \notin open
          /\ Start(g, IF g = OnTrack(t) THEN Tail(todo[g]) ELSE << >>)
          /\ UNCHANGED attached
    /\ UNCHANGED <<memberVars, made, current, open, failed, resetting, events,
                   armed, trackVars>>

Step(g) ==
    /\ ~Idle(g)
    /\ \/ \E s \in Peers : CloseStep(g, s) \/ RenewStep(g, s)
       \/ DropStep(g)
       \/ \E s \in Peers, t \in Tracks : AttachStep(g, s, t)

Next ==
    \/ \E c \in Conns :
          \/ AddPublisher(c) \/ AddSubscriber(c)
          \/ PromotePublisher(c) \/ RefusePromotion(c)
          \/ Stop(c) \/ RemovePublisher(c) \/ RemoveSubscriber(c)
          \/ PCFails(c) \/ CallbackStops(c)
          \/ \E pc \in events : OnConnectionStateChange(c, pc)
    \/ Close
    \/ \E t \in Tracks : TrackArrives(t) \/ HandlePublisherTrack(t)
    \/ \E g \in Goroutines : Step(g)

Spec == Init /\ [][Next]_vars

----------------------------------------------------------------------------
(* Properties *)

Members == {Pub(c) : c \in Conns \cap {publisher}} \cup {Sub(c) : c \in subscribers}

Pending(instruction) ==
    \E g \in Goroutines : \E i \in DOMAIN todo[g] : todo[g][i] = instruction

(* Joins and tracks cross: a guest takes a copy of r.tracks, a track takes *)
(* a copy of r.subscribers.  No track is added to a connection twice by    *)
(* the two loops: it is pending once, or attached.                         *)
AttachOnce ==
    \A c \in Conns, t \in Tracks :
        /\ Pending(<<"attach", <<Sub(c), t>>>>) => <<PC(Sub(c)), t>> \notin attached
        /\ \A g, h \in Goroutines :
               /\ \E i \in DOMAIN todo[g] : todo[g][i] = <<"attach", <<Sub(c), t>>>>
               /\ \E i \in DOMAIN todo[h] : todo[h][i] = <<"attach", <<Sub(c), t>>>>
               => g = h

(* Whatever loops overlap, a member is left with an open connection: only  *)
(* a loop that will make a new one closes it.                              *)
MembersCanNegotiate ==
    \A s \in Members : PC(s) \in open \/ Pending(<<"renew", s>>)

(* room.go:563, the host "can start sharing again without rejoining": when *)
(* its connection is dead, some callback or loop is going to replace it,   *)
(* although the callbacks are skipped while a reset runs.                  *)
HostRecovers ==
    \A c \in Conns \cap {publisher} :
        \/ PC(Pub(c)) \in open \ failed
        \/ PC(Pub(c)) \in events \/ c \in armed
        \/ Pending(<<"renew", Pub(c)>>)

Quiet == armed = {} /\ events = {} /\ \A g \in Goroutines : Idle(g)

(* especificacao-agente-livestream-go.md:66, "o Pion replica os pacotes    *)
(* para todos os subscribers ativos na mesma sala": once every loop has    *)
(* ended, each track of the host is attached to the connection of each     *)
(* guest.                                                                  *)
LiveReachesAll ==
    Quiet => \A c \in subscribers, t \in tracks :
                 source[t] = publisher => <<PC(Sub(c)), t>> \in attached

(* Close sweeps the members while loops, leaves and promotions are under   *)
(* way.  The connection a peer was admitted with is closed all the same;   *)
(* only one that a reset has made can outlive the room.                    *)
AdmittedAreClosed == closed /\ Quiet => \A pc \in open : pc[2] > 1
=============================================================================
