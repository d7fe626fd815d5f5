------------------------------ MODULE RoomPage ------------------------------
(***************************************************************************)
(* The pages of one room (public/js/webrtc.js) and what the server tells   *)
(* them (ServeWS in pkg/signaling/handler.go, the negotiation in           *)
(* pkg/room/room.go).  A handler of the page runs to its first await; what *)
(* follows is an action of its own, and an operation on a peer connection  *)
(* that was closed meanwhile does not settle or is rejected.               *)
(*                                                                         *)
(* Each page numbers its peer connections in the order it makes them, and  *)
(* so does the server for each page; a description or candidate carries    *)
(* the number of the peer connection it is of.  Joins and promotions step  *)
(* by step, tracks that come late and connections that are replaced while  *)
(* they are used are in Rooms and Media; here they are single steps.       *)
(***************************************************************************)
EXTENDS Naturals, Sequences, FiniteSets, SequencesExt

CONSTANTS
    Pages,
    Hosts,      \* pages opened with role=publisher in their address
    NoPage,     \* Go's nil
    Kinds,      \* tracks of a share: audio, video
    MaxShares,  \* clicks on share; bounds the model
    Losing,     \* pages whose connection may be lost; bounds the model
    Trickling,  \* the pages between which and the server candidates are sent
    MaxPCs      \* peer connections of a page, and of the server for a page;
                \* bounds the model

ASSUME RoomPageAssumption ==
    /\ IsFiniteSet(Pages) /\ NoPage \notin Pages
    /\ Hosts \subseteq Pages /\ Trickling \subseteq Pages /\ Losing \subseteq Pages
    /\ MaxShares \in Nat /\ MaxPCs \in Nat

VARIABLES
    \* page
    ws,         \* "connecting", "open", "closed"
    role,       \* currentRole
    requested,  \* publishRequestPending
    pc,         \* pc, Null for null
    made,       \* peer connections the page has made
    pending,    \* pendingCandidates
    shares,     \* startShares under way
    stream,     \* localStream, 0 for null
    captured,   \* captures whose tracks have not been stopped
    canShare,   \* btnShare is visible, else btnStop is
    clicks,
    \* the wire
    toServer, toPage,
    \* server
    session,    \* role of the handler, "none" before it has joined
    publisher, subscribers, tracks,     \* Room
    peer,       \* Peer.PC of each page
    due,        \* negotiations of a guest: that of renegTimer, and that of the
                \* goroutine AddSubscriber starts
    gathered,   \* whether Peer.PC has a candidate to send
    todo,       \* of each goroutine: what it still has to send or replace
    \* not in the code
    disturbed,  \* pages whose Peer.PC took the description of another peer
                \* connection than its partner or the answer to another
                \* offer, could not be offered again, or was replaced late
    early,      \* pages whose candidate was sent before its offer
    outdated,   \* pages that were called or dismissed as guests after their
                \* promotion
    unsent,     \* pages that sent something without a connection
    crossed,    \* pages that applied the answer to an earlier offer
    overlapped  \* pages whose startShares overlapped, hang, or followed one
                \* whose stream still ran, until they start one alone with
                \* nothing captured

pcVars == <<pc, made, pending>>
shareVars == <<shares, stream, captured, canShare, clicks>>
pageVars == <<ws, role, requested, pcVars, shareVars>>
roomVars == <<session, publisher, subscribers, tracks>>
peerVars == <<peer, due, gathered>>
pcHistory == <<disturbed, early>>
serverHistory == <<pcHistory, outdated>>
shareHistory == <<crossed, overlapped>>
pageHistory == <<unsent, shareHistory>>
serverVars == <<roomVars, peerVars, todo, serverHistory>>
vars == <<pageVars, pageHistory, toServer, toPage, serverVars>>

Serials == 0..MaxPCs
Shares == 1..MaxShares

(* A peer connection: its number, signaling state, the description being   *)
(* applied, the peer connection it is connected to, the candidates it was  *)
(* given, and the tracks it sends (the server's) or was offered (a page's). *)
PC == [n : Serials, state : {"stable", "offered", "answering", "applying"},
       asked : Serials, remote : Serials, added : SUBSET Serials, has : SUBSET Kinds]

New(n) == [n |-> n, state |-> "stable", asked |-> 0, remote |-> 0, added |-> {}, has |-> {}]
Null == New(0)

Actions == {"join", "request_publish", "stop", "offer", "answer", "candidate",
            "publish_ok", "live_active", "ended", "error", "publisher already connected"}
Message == [action : Actions, n : Serials, re : Serials, has : SUBSET Kinds]
Msg(a) == [action |-> a, n |-> 0, re |-> 0, has |-> {}]
Candidate(n) == [Msg("candidate") EXCEPT !.n = n]
Offer(n, has) == [Msg("offer") EXCEPT !.n = n, !.has = has]
Candidates(p, n) == IF p \in Trickling THEN <<Candidate(n)>> ELSE << >>
AnswerTo(n, re) == [Msg("answer") EXCEPT !.n = n, !.re = re]

Session(p) == <<"session", p>>          \* the handler
Callback(p) == <<"callback", p>>        \* OnConnectionStateChange
Negotiation(p) == <<"negotiation", p>>  \* negotiateSubscriber
Goroutines == {"session", "callback", "negotiation"} \X Pages

Tell(p, m) == [do |-> "tell", page |-> p, msg |-> m]
Reset(p) == [do |-> "reset", page |-> p]
Renew(p) == [do |-> "renew", page |-> p]
Instruction == [do : {"tell"}, page : Pages, msg : Message] \cup [do : {"reset", "renew"}, page : Pages]

TypeOK ==
    /\ ws \in [Pages -> {"connecting", "open", "closed"}]
    /\ role \in [Pages -> {"publisher", "subscriber"}]
    /\ requested \in [Pages -> BOOLEAN]
    /\ pc \in [Pages -> PC] /\ peer \in [Pages -> PC]
    /\ pending \in [Pages -> SUBSET Serials]
    /\ \A p \in Pages : \A s \in shares[p] : s \in [k : Shares, n : Serials]
    /\ stream \in [Pages -> Shares \cup {0}]
    /\ captured \in [Pages -> SUBSET Shares]
    /\ canShare \in [Pages -> BOOLEAN]
    /\ \A p \in Pages : toServer[p] \in Seq(Message) /\ toPage[p] \in Seq(Message)
    /\ session \in [Pages -> {"none", "publisher", "subscriber", "left"}]
    /\ publisher \in Pages \cup {NoPage}
    /\ subscribers \in SUBSET (Pages \ {publisher})
    /\ tracks \in SUBSET Kinds
    /\ due \in [Pages -> SUBSET {"timer", "welcome"}]
    /\ gathered \in [Pages -> BOOLEAN]
    /\ \A g \in Goroutines : \A i \in DOMAIN todo[g] : todo[g][i] \in Instruction
    /\ clicks \in 0..MaxShares /\ made \in [Pages -> Serials]
    /\ {disturbed, early, outdated, unsent, crossed, overlapped} \subseteq SUBSET Pages

Init ==
    /\ ws = [p \in Pages |-> "connecting"]
    /\ role = [p \in Pages |-> IF p \in Hosts THEN "publisher" ELSE "subscriber"]
    /\ requested = [p \in Pages |-> FALSE]
    /\ pc = [p \in Pages |-> Null]
    /\ pending = [p \in Pages |-> {}]
    /\ shares = [p \in Pages |-> {}]
    /\ stream = [p \in Pages |-> 0]
    /\ captured = [p \in Pages |-> {}]
    /\ canShare = [p \in Pages |-> TRUE]
    /\ clicks = 0
    /\ toServer = [p \in Pages |-> << >>]
    /\ toPage = [p \in Pages |-> << >>]
    /\ session = [p \in Pages |-> "none"]
    /\ publisher = NoPage
    /\ subscribers = {}
    /\ tracks = {}
    /\ peer = [p \in Pages |-> Null]
    /\ due = [p \in Pages |-> {}]
    /\ gathered = [p \in Pages |-> FALSE]
    /\ todo = [g \in Goroutines |-> << >>]
    /\ made = [p \in Pages |-> 0]
    /\ disturbed = {} /\ early = {} /\ outdated = {} /\ unsent = {} /\ crossed = {} /\ overlapped = {}

----------------------------------------------------------------------------
(* The page: its connection *)

Send(p, ms) ==
    \/ /\ ws[p] = "open"
       /\ toServer' = [toServer EXCEPT ![p] = @ \o ms]
       /\ UNCHANGED unsent
    \/ /\ ws[p] # "open"
       /\ unsent' = unsent \cup {p}
       /\ UNCHANGED toServer

OnOpen(p) ==
    /\ ws[p] = "connecting"
    /\ ws' = [ws EXCEPT ![p] = "open"]
    /\ toServer' = [toServer EXCEPT ![p] = <<Msg("join")>>]
    /\ UNCHANGED <<role, requested, pcVars, shareVars, toPage, serverVars, pageHistory>>

(* The socket is lost; the page does not connect again. *)
OnClose(p) ==
    /\ p \in Losing /\ ws[p] = "open"
    /\ ws' = [ws EXCEPT ![p] = "closed"]
    /\ toServer' = [toServer EXCEPT ![p] = << >>]
    /\ toPage' = [toPage EXCEPT ![p] = << >>]
    /\ UNCHANGED <<role, requested, pcVars, shareVars, serverVars, pageHistory>>

Arrived(p, action) ==
    ws[p] = "open" /\ toPage[p] # << >> /\ Head(toPage[p]).action = action

OnMessage(p, action) ==
    /\ Arrived(p, action)
    /\ toPage' = [toPage EXCEPT ![p] = Tail(@)]
    /\ UNCHANGED <<serverVars, unsent>>

----------------------------------------------------------------------------
(* The page: sharing the screen *)

ClearPC(p) ==
    /\ pc' = [pc EXCEPT ![p] = Null]
    /\ pending' = [pending EXCEPT ![p] = {}]

MakePC(p, state, offer) ==
    /\ made[p] < MaxPCs
    /\ made' = [made EXCEPT ![p] = @ + 1]
    /\ pc' = [pc EXCEPT ![p] = [New(made'[p]) EXCEPT !.state = state,
                                   !.asked = offer.n, !.has = offer.has]]

(* Mutant: the tracks go on. *)
ForgetLocalMedia(p) ==
    /\ stream' = [stream EXCEPT ![p] = 0]
    /\ UNCHANGED captured
    /\ ClearPC(p)

ClearLocalMedia(p) ==
    /\ captured' = [captured EXCEPT ![p] = @ \ {stream[p]}]
    /\ stream' = [stream EXCEPT ![p] = 0]
    /\ ClearPC(p)

(* startShare up to the await of the capture dialog. *)
StartShare(p) ==
    /\ clicks < MaxShares
    /\ clicks' = clicks + 1
    /\ ClearPC(p)
    /\ shares' = [shares EXCEPT ![p] = @ \cup {[k |-> clicks', n |-> 0]}]
    /\ overlapped' = IF shares[p] # {} \/ stream[p] # 0 THEN overlapped \cup {p}
                     ELSE IF captured[p] = {} THEN overlapped \ {p} ELSE overlapped
    /\ UNCHANGED <<stream, captured, canShare, made, crossed>>

RequestShare(p) ==
    /\ canShare[p]
    /\ \/ /\ role[p] = "publisher"
          /\ StartShare(p)
          /\ UNCHANGED <<requested, toServer, unsent>>
       \/ /\ role[p] = "subscriber" /\ ~requested[p]
          /\ requested' = [requested EXCEPT ![p] = TRUE]
          /\ Send(p, <<Msg("request_publish")>>)
          /\ UNCHANGED <<pcVars, shareVars, shareHistory>>
    /\ UNCHANGED <<ws, role, toPage, serverVars>>

(* captureDisplayWithAudio and ensurePC. *)
Captured(p) ==
    \E s \in shares[p] :
        /\ s.n = 0
        /\ stream' = [stream EXCEPT ![p] = s.k]
        /\ captured' = [captured EXCEPT ![p] = @ \cup {s.k}]
        /\ IF pc[p] = Null THEN MakePC(p, "stable", Msg("offer")) ELSE UNCHANGED <<pc, made>>
        /\ shares' = [shares EXCEPT ![p] = (@ \ {s}) \cup {[s EXCEPT !.n = pc'[p].n]}]
        /\ UNCHANGED <<ws, role, requested, pending, canShare, clicks, toServer, toPage,
                       serverVars, pageHistory>>

(* createOffer and setLocalDescription have settled. *)
Offered(p) ==
    \E s \in shares[p] :
        /\ s.n # 0 /\ s.n = pc[p].n /\ pc[p].state \in {"stable", "offered"}
        /\ pc' = [pc EXCEPT ![p].state = "offered"]
        /\ shares' = [shares EXCEPT ![p] = @ \ {s}]
        /\ canShare' = [canShare EXCEPT ![p] = FALSE]
        /\ Send(p, <<Offer(s.n, {})>> \o Candidates(p, s.n))
        /\ UNCHANGED <<ws, role, requested, pending, made, stream, captured, clicks, toPage,
                       serverVars, shareHistory>>

Abandoned(p, s) == s.n # 0 /\ s.n # pc[p].n

(* The user cancels the dialog, or the peer connection was closed, or was  *)
(* given an offer of the server, before its own was made.                  *)
ShareFails(p) ==
    \E s \in shares[p] :
        /\ s.n = 0 \/ Abandoned(p, s) \/ pc[p].state = "answering"
        /\ shares' = [shares EXCEPT ![p] = @ \ {s}]
        /\ ClearLocalMedia(p)
        /\ canShare' = [canShare EXCEPT ![p] = TRUE]
        /\ UNCHANGED <<ws, role, requested, made, clicks, toServer, toPage, serverVars,
                       pageHistory>>

(* The peer connection was closed while createOffer or setLocalDescription *)
(* was under way.                                                          *)
ShareHangs(p) ==
    \E s \in shares[p] :
        /\ Abandoned(p, s)
        /\ shares' = [shares EXCEPT ![p] = @ \ {s}]
        /\ overlapped' = overlapped \cup {p}
        /\ UNCHANGED <<ws, role, requested, pcVars, stream, captured, canShare, clicks,
                       toServer, toPage, serverVars, unsent, crossed>>

(* btnStop, or the browser's own button, which ends the captured tracks.   *)
StopShare(p) ==
    /\ ~canShare[p] \/ stream[p] # 0
    /\ Send(p, <<Msg("stop")>>)
    /\ ClearLocalMedia(p)
    /\ canShare' = [canShare EXCEPT ![p] = TRUE]
    /\ UNCHANGED <<ws, role, requested, made, shares, clicks, toPage, serverVars, shareHistory>>

----------------------------------------------------------------------------
(* The page: messages *)

HandleOffer(p) ==
    /\ OnMessage(p, "offer")
    /\ MakePC(p, "answering", Head(toPage[p]))
    /\ pending' = [pending EXCEPT ![p] = {}]
    /\ UNCHANGED <<ws, role, requested, shareVars, toServer, shareHistory>>

(* Mutant: the candidates that waited are forgotten. *)
ApplyUnflushed(p) ==
    /\ pc' = [pc EXCEPT ![p].state = "stable", ![p].asked = 0, ![p].remote = pc[p].asked]
    /\ pending' = [pending EXCEPT ![p] = {}]

(* setRemoteDescription and flushCandidates. *)
Apply(p) ==
    /\ pc' = [pc EXCEPT ![p].state = "stable", ![p].asked = 0,
                        ![p].remote = pc[p].asked, ![p].added = @ \cup pending[p]]
    /\ pending' = [pending EXCEPT ![p] = {}]

Answer(p) ==
    /\ pc[p].state = "answering"
    /\ Apply(p)
    /\ Send(p, <<AnswerTo(pc[p].n, pc[p].asked)>> \o Candidates(p, pc[p].n))
    /\ UNCHANGED <<ws, role, requested, made, shareVars, toPage, serverVars, shareHistory>>

(* A peer connection that has made no offer refuses the answer. *)
HandleAnswer(p) ==
    /\ OnMessage(p, "answer")
    /\ LET m == Head(toPage[p])
       IN  \/ /\ pc[p].state = "offered"
              /\ pc' = [pc EXCEPT ![p].state = "applying", ![p].asked = m.n]
              /\ crossed' = IF m.re = pc[p].n THEN crossed \ {p} ELSE crossed \cup {p}
           \/ /\ pc[p].state # "offered"
              /\ UNCHANGED <<pc, crossed>>
    /\ UNCHANGED <<ws, role, requested, made, pending, shareVars, toServer, overlapped>>

ApplyAnswer(p) ==
    /\ pc[p].state = "applying"
    /\ Apply(p)
    /\ UNCHANGED <<ws, role, requested, made, shareVars, toServer, toPage, serverVars,
                   pageHistory>>

HandleCandidate(p) ==
    /\ OnMessage(p, "candidate")
    /\ LET n == Head(toPage[p]).n
       IN  \/ /\ pc[p].remote = 0
              /\ pending' = [pending EXCEPT ![p] = @ \cup {n}]
              /\ UNCHANGED pc
           \/ /\ pc[p].remote # 0
              /\ pc' = [pc EXCEPT ![p].added = @ \cup {n}]
              /\ UNCHANGED pending
    /\ UNCHANGED <<ws, role, requested, made, shareVars, toServer, shareHistory>>

(* clearRemoteMedia *)
OnEnded(p) ==
    /\ OnMessage(p, "ended")
    /\ ClearPC(p)
    /\ UNCHANGED <<ws, role, requested, made, shareVars, toServer, shareHistory>>

(* live_active, and an error that does not make the page leave.            *)
OnRefused(p) ==
    /\ OnMessage(p, "live_active") \/ OnMessage(p, "error")
    /\ requested' = [requested EXCEPT ![p] = FALSE]
    /\ UNCHANGED <<ws, role, pcVars, shareVars, toServer, shareHistory>>

OnPublishOk(p) ==
    /\ OnMessage(p, "publish_ok")
    /\ role' = [role EXCEPT ![p] = "publisher"]
    /\ requested' = [requested EXCEPT ![p] = FALSE]
    /\ StartShare(p)
    /\ UNCHANGED <<ws, toServer>>

(* The page is loaded again, as a subscriber. *)
OnTaken(p) ==
    /\ Arrived(p, "publisher already connected")
    /\ toPage' = [toPage EXCEPT ![p] = << >>]
    /\ ws' = [ws EXCEPT ![p] = "connecting"]
    /\ role' = [role EXCEPT ![p] = "subscriber"]
    /\ requested' = [requested EXCEPT ![p] = FALSE]
    /\ ClearPC(p)
    /\ shares' = [shares EXCEPT ![p] = {}]
    /\ stream' = [stream EXCEPT ![p] = 0]
    /\ captured' = [captured EXCEPT ![p] = {}]
    /\ canShare' = [canShare EXCEPT ![p] = TRUE]
    /\ toServer' = [toServer EXCEPT ![p] = << >>]
    /\ overlapped' = overlapped \ {p}
    /\ UNCHANGED <<clicks, made, crossed, unsent, serverVars>>

----------------------------------------------------------------------------
(* The server *)

(* The page end of Peer.PC is closed, which Pion notices some time.        *)
Gone(p) == peer[p].remote # 0 /\ pc[p].n # peer[p].remote

(* The two ends have each other's description. *)
Linked(p) ==
    /\ peer[p].n # 0 /\ peer[p].remote = pc[p].n /\ pc[p].remote = peer[p].n
    /\ peer[p].state = "stable" /\ pc[p].state = "stable"

ReplacePC(p, has) ==
    /\ peer[p].n < MaxPCs
    /\ peer' = [peer EXCEPT ![p] = [New(@.n + 1) EXCEPT !.has = has]]
    /\ gathered' = [gathered EXCEPT ![p] = FALSE]
    /\ early' = early \ {p}
    /\ UNCHANGED outdated

NewPC(p, has) == ReplacePC(p, has) /\ disturbed' = disturbed \ {p}

Idle(p) == todo[Session(p)] = << >>

(* The handler takes the next message of its page. *)
Take(p, action) ==
    /\ Idle(p) /\ session[p] # "left"
    /\ toServer[p] # << >> /\ Head(toServer[p]).action = action
    /\ toServer' = [toServer EXCEPT ![p] = Tail(@)]
    /\ UNCHANGED <<pageVars, pageHistory>>

Do(g, is) == todo' = [todo EXCEPT ![g] = is]

SendJSON(p, m) ==
    toPage' = IF ws[p] = "open" THEN [toPage EXCEPT ![p] = Append(@, m)] ELSE toPage

Reply(p, m) == SendJSON(p, m) /\ UNCHANGED todo

(* Mutant: a guest that joins a live room waits for the next track. *)
JoinUnwelcomed(p) ==
    /\ Take(p, "join")
    /\ session[p] = "none"
    /\ \/ /\ role[p] = "publisher" /\ publisher # NoPage
          /\ Reply(p, Msg("publisher already connected"))
          /\ UNCHANGED <<roomVars, peerVars, serverHistory>>
       \/ /\ role[p] = "subscriber" \/ publisher = NoPage
          /\ session' = [session EXCEPT ![p] = role[p]]
          /\ IF role[p] = "publisher" THEN publisher' = p /\ UNCHANGED subscribers
             ELSE subscribers' = subscribers \cup {p} /\ UNCHANGED publisher
          /\ NewPC(p, {})
          /\ UNCHANGED <<toPage, todo, tracks, due>>

AddPublisher(p) ==
    /\ role[p] = "publisher" /\ publisher = NoPage
    /\ publisher' = p
    /\ NewPC(p, {})
    /\ UNCHANGED <<subscribers, due>>

AddSubscriber(p) ==
    /\ role[p] = "subscriber"
    /\ subscribers' = subscribers \cup {p}
    /\ NewPC(p, tracks)
    /\ due' = [due EXCEPT ![p] = IF tracks = {} THEN {} ELSE {"welcome"}]
    /\ UNCHANGED publisher

Join(p) ==
    /\ Take(p, "join")
    /\ session[p] = "none"
    /\ \/ /\ role[p] = "publisher" /\ publisher # NoPage
          /\ Reply(p, Msg("publisher already connected"))
          /\ UNCHANGED <<roomVars, peerVars, serverHistory>>
       \/ /\ AddPublisher(p) \/ AddSubscriber(p)
          /\ session' = [session EXCEPT ![p] = role[p]]
          /\ UNCHANGED <<toPage, todo, tracks>>

(* Mutant: the guest stays in Room.subscribers. *)
PromoteKeepingGuest(p) ==
    /\ publisher' = p
    /\ session' = [session EXCEPT ![p] = "publisher"]
    /\ NewPC(p, {})
    /\ due' = [due EXCEPT ![p] = {}]
    /\ UNCHANGED subscribers

(* Mutant: the handler does not note the new role. *)
PromoteUnnoted(p) ==
    /\ publisher' = p
    /\ subscribers' = subscribers \ {p}
    /\ NewPC(p, {})
    /\ due' = [due EXCEPT ![p] = {}]
    /\ UNCHANGED session

(* Its timer and its old peer connection go with the subscriber. *)
PromotePublisher(p) ==
    /\ publisher' = p
    /\ subscribers' = subscribers \ {p}
    /\ session' = [session EXCEPT ![p] = "publisher"]
    /\ NewPC(p, {})
    /\ due' = [due EXCEPT ![p] = {}]

(* Mutant: a guest that asks while there is a host gets no answer. *)
RequestPublishSilently(p) ==
    /\ Take(p, "request_publish")
    /\ IF session[p] = "subscriber" /\ tracks = {} /\ publisher = NoPage
       THEN PromotePublisher(p) /\ Reply(p, Msg("publish_ok")) /\ UNCHANGED tracks
       ELSE /\ IF session[p] = "publisher" THEN Reply(p, Msg("publish_ok"))
               ELSE IF tracks # {} THEN Reply(p, Msg("live_active")) ELSE UNCHANGED <<toPage, todo>>
            /\ UNCHANGED <<roomVars, peerVars, serverHistory>>

RequestPublish(p) ==
    /\ Take(p, "request_publish")
    /\ \/ /\ \/ session[p] = "publisher" /\ Reply(p, Msg("publish_ok"))
             \/ session[p] = "subscriber" /\ tracks # {} /\ Reply(p, Msg("live_active"))
             \/ /\ session[p] = "none" \/ (session[p] = "subscriber" /\ tracks = {} /\ publisher # NoPage)
                /\ Reply(p, Msg("error"))
          /\ UNCHANGED <<roomVars, peerVars, serverHistory>>
       \/ /\ session[p] = "subscriber" /\ tracks = {} /\ publisher = NoPage
          /\ PromotePublisher(p)
          /\ Reply(p, Msg("publish_ok"))
          /\ UNCHANGED tracks

Dismiss(guests) == [i \in DOMAIN guests |-> Reset(guests[i])]

(* StopStream in the goroutine g. *)
StopStream(p, g) ==
    /\ \/ /\ tracks # {}
          /\ tracks' = {}
          /\ \E guests \in SetToSeqs(subscribers) : Do(g, Dismiss(guests) \o <<Renew(p)>>)
       \/ /\ tracks = {} /\ Gone(p)
          /\ Do(g, <<Renew(p)>>)
          /\ UNCHANGED tracks
       \/ tracks = {} /\ UNCHANGED <<tracks, todo>>
    /\ UNCHANGED <<toPage, session, publisher, subscribers, peerVars, serverHistory>>

Stop(p) ==
    /\ Take(p, "stop")
    /\ \/ session[p] = "publisher" /\ StopStream(p, Session(p))
       \/ /\ session[p] # "publisher"
          /\ Reply(p, Msg("error"))
          /\ UNCHANGED <<roomVars, peerVars, serverHistory>>

(* Pion finds the peer connection of the host closed or failed. *)
OnConnectionStateChange(p) ==
    /\ publisher = p /\ Gone(p) /\ todo[Callback(p)] = << >>
    /\ StopStream(p, Callback(p))
    /\ UNCHANGED <<pageVars, pageHistory, toServer>>

(* Candidates are gathered after the first local description. *)
Gathers(p) == peer[p].remote = 0 /\ p \in Trickling

(* A peer connection that is connected keeps its transport: the            *)
(* description of another peer connection does not connect it to that.     *)
SetRemote(p, m) ==
    /\ peer' = [peer EXCEPT ![p].state = "stable",
                            ![p].remote = IF @ = 0 THEN m.n ELSE @]
    /\ disturbed' = IF peer[p].remote \notin {0, m.n} \/ m.re \notin {0, peer[p].n}
                    THEN disturbed \cup {p}
                    ELSE IF m.action = "offer" /\ peer[p].remote = 0
                    THEN disturbed \ {p} ELSE disturbed

(* Mutant: the answer is made and not sent. *)
ServerHandleOfferMute(p) ==
    /\ Take(p, "offer")
    /\ session[p] # "none" /\ peer[p].state = "stable"
    /\ SetRemote(p, Head(toServer[p]))
    /\ gathered' = [gathered EXCEPT ![p] = @ \/ Gathers(p)]
    /\ UNCHANGED <<toPage, todo, roomVars, due, early, outdated>>

ServerHandleOffer(p) ==
    /\ Take(p, "offer")
    /\ LET m == Head(toServer[p])
       IN  \/ /\ session[p] # "none" /\ peer[p].state = "stable"
              /\ SetRemote(p, m)
              /\ gathered' = [gathered EXCEPT ![p] = @ \/ Gathers(p)]
              /\ Do(Session(p), <<Tell(p, AnswerTo(peer[p].n, m.n))>>)
              /\ UNCHANGED toPage
           \/ /\ session[p] = "none" \/ peer[p].state # "stable"
              /\ Reply(p, Msg("error"))
              /\ UNCHANGED <<peer, gathered, disturbed>>
    /\ UNCHANGED <<roomVars, due, early, outdated>>

ServerHandleAnswer(p) ==
    /\ Take(p, "answer")
    /\ \/ /\ session[p] # "none" /\ peer[p].state = "offered"
          /\ SetRemote(p, Head(toServer[p]))
          /\ UNCHANGED <<toPage, todo>>
       \/ /\ session[p] = "none" \/ peer[p].state # "offered"
          /\ Reply(p, Msg("error"))
          /\ UNCHANGED <<peer, disturbed>>
    /\ UNCHANGED <<roomVars, due, gathered, early, outdated>>

(* A candidate that comes before the description is refused. *)
ServerHandleCandidate(p) ==
    /\ Take(p, "candidate")
    /\ peer' = IF peer[p].remote = 0 THEN peer
               ELSE [peer EXCEPT ![p].added = @ \cup {Head(toServer[p]).n}]
    /\ UNCHANGED <<toPage, roomVars, due, gathered, todo, serverHistory>>

(* handlePublisherTrack *)
TrackArrives(p, k) ==
    /\ publisher = p /\ Linked(p) /\ stream[p] \in captured[p]
    /\ k \notin tracks
    /\ tracks' = tracks \cup {k}
    /\ peer' = [q \in Pages |-> IF q \in subscribers THEN [peer[q] EXCEPT !.has = @ \cup {k}]
                                ELSE peer[q]]
    /\ due' = [q \in Pages |-> IF q \in subscribers THEN due[q] \cup {"timer"} ELSE due[q]]
    /\ UNCHANGED <<pageVars, pageHistory, toServer, toPage, session, publisher, subscribers,
                   gathered, todo, serverHistory>>

(* negotiateMu lets one guest after the other be offered. *)
NegotiateSubscriber(q) ==
    /\ \A o \in Pages : todo[Negotiation(o)] = << >>
    /\ \E why \in due[q] :
          /\ due' = [due EXCEPT ![q] = @ \ {why}]
          /\ \/ /\ peer[q].state = "offered"
                /\ disturbed' = disturbed \cup {q}
                /\ UNCHANGED <<peer, gathered, todo>>
             \/ /\ peer[q].state = "stable"
                /\ peer' = [peer EXCEPT ![q].state = "offered"]
                /\ gathered' = [gathered EXCEPT ![q] = @ \/ Gathers(q)]
                /\ Do(Negotiation(q), <<Tell(q, Offer(peer[q].n, peer[q].has))>>)
                /\ UNCHANGED disturbed
    /\ UNCHANGED <<pageVars, pageHistory, toServer, toPage, roomVars, early, outdated>>

(* OnICECandidate, in a goroutine of its own. *)
OnICECandidate(p) ==
    /\ gathered[p]
    /\ gathered' = [gathered EXCEPT ![p] = FALSE]
    /\ SendJSON(p, Candidate(peer[p].n))
    /\ early' = IF todo[Negotiation(p)] # << >> THEN early \cup {p} ELSE early
    /\ UNCHANGED <<pageVars, pageHistory, toServer, roomVars, peer, due, todo, disturbed, outdated>>

----------------------------------------------------------------------------
(* What a goroutine sends and replaces, step by step *)

Step(g, do) ==
    /\ todo[g] # << >> /\ Head(todo[g]).do = do
    /\ todo' = [todo EXCEPT ![g] = Tail(@)]
    /\ UNCHANGED <<pageVars, pageHistory, toServer, roomVars>>

TellNext(g) ==
    /\ Step(g, "tell")
    /\ LET t == Head(todo[g])
       IN  /\ SendJSON(t.page, t.msg)
           /\ outdated' = IF g = Negotiation(t.page) /\ t.page \notin subscribers
                          THEN outdated \cup {t.page} ELSE outdated
    /\ UNCHANGED <<peerVars, pcHistory>>

(* "ended" and resetSubscriberPC.  A guest that left or was promoted has   *)
(* another Peer, but the connection of the old.                            *)
EndSubscriber(g) ==
    /\ Step(g, "reset")
    /\ LET q == Head(todo[g]).page
       IN  /\ SendJSON(q, Msg("ended"))
           /\ \/ /\ q \in subscribers
                 /\ ReplacePC(q, {})
                 /\ due' = [due EXCEPT ![q] = @ \ {"timer"}]
                 /\ disturbed' = IF tracks = {} THEN disturbed \ {q} ELSE disturbed \cup {q}
              \/ /\ q \notin subscribers
                 /\ outdated' = outdated \cup {q}
                 /\ UNCHANGED <<peerVars, pcHistory>>

ResetPublisherPC(g) ==
    /\ Step(g, "renew")
    /\ LET p == Head(todo[g]).page
       IN  \/ publisher = p /\ g = Session(p) /\ NewPC(p, {})
           \/ publisher = p /\ g = Callback(p) /\ ReplacePC(p, {}) /\ disturbed' = disturbed \cup {p}
           \/ publisher # p /\ UNCHANGED <<peer, gathered, serverHistory>>
    /\ UNCHANGED <<toPage, due>>

(* cleanup: RemovePublisher or RemoveSubscriber *)
Cleanup(p) ==
    /\ ws[p] = "closed" /\ Idle(p) /\ session[p] # "left"
    /\ session' = [session EXCEPT ![p] = "left"]
    /\ due' = [due EXCEPT ![p] = {}]
    /\ gathered' = [gathered EXCEPT ![p] = FALSE]
    /\ subscribers' = subscribers \ {p}
    /\ \/ /\ publisher = p
          /\ publisher' = NoPage
          /\ tracks' = {}
          /\ \E guests \in SetToSeqs(subscribers) : Do(Session(p), Dismiss(guests))
       \/ /\ publisher # p
          /\ UNCHANGED <<publisher, tracks, todo>>
    /\ UNCHANGED <<pageVars, pageHistory, toServer, toPage, peer, serverHistory>>

----------------------------------------------------------------------------
Handle(p) ==
    \/ Join(p) \/ RequestPublish(p) \/ Stop(p)
    \/ ServerHandleOffer(p) \/ ServerHandleAnswer(p) \/ ServerHandleCandidate(p)

Pion(p) ==
    \/ OnConnectionStateChange(p) \/ NegotiateSubscriber(p) \/ OnICECandidate(p)
    \/ \E k \in Kinds : TrackArrives(p, k)

Server ==
    \/ \E p \in Pages : Cleanup(p) \/ Pion(p)
    \/ \E g \in Goroutines : TellNext(g) \/ EndSubscriber(g) \/ ResetPublisherPC(g)

Receive(p) ==
    \/ OnEnded(p) \/ OnRefused(p) \/ OnPublishOk(p) \/ OnTaken(p)
    \/ HandleOffer(p) \/ HandleAnswer(p) \/ HandleCandidate(p)

Settle(p) == Answer(p) \/ ApplyAnswer(p) \/ Captured(p) \/ Offered(p) \/ ShareFails(p) \/ ShareHangs(p)

Page(p) ==
    OnOpen(p) \/ OnClose(p) \/ RequestShare(p) \/ StopShare(p) \/ Receive(p) \/ Settle(p)

(* The handler has a message of its page to take. *)
Pending(p) == toServer[p] # << >> /\ Idle(p)

(* What a page sends is taken at once, unless the handler is busy.  No     *)
(* order is lost: page and server meet in their messages, those to the     *)
(* page wait as long as they like, and what Pion sees of a page before its *)
(* message is the connection it has closed.                                *)
Next ==
    \/ \E p \in Pages : Pending(p) /\ (Handle(p) \/ OnConnectionStateChange(p))
    \/ /\ \A p \in Pages : ~Pending(p)
       /\ (\E p \in Pages : Page(p)) \/ Server

Spec == Init /\ [][Next]_vars

----------------------------------------------------------------------------
(* Nothing is on its way, and nobody is about to do anything but the users. *)
Quiet ==
    /\ \A p \in Pages :
          /\ toServer[p] = << >> /\ toPage[p] = << >>
          /\ shares[p] = {} /\ due[p] = {} /\ ~gathered[p]
          /\ pc[p].state \in {"stable", "offered"}
          /\ ws[p] = "closed" => session[p] = "left"
          /\ ~(publisher = p /\ Gone(p))
    /\ \A g \in Goroutines : todo[g] = << >>

(* publishRequestPending blocks the button until an answer comes: every    *)
(* request_publish is answered, whatever happens to the room meanwhile,    *)
(* unless send dropped it because the page was not yet connected.          *)
RequestIsAnswered ==
    Quiet => \A p \in Pages : requested[p] /\ ws[p] = "open" => p \in unsent

(* currentRole, which the address, publish_ok and the reload after         *)
(* "publisher already connected" set, is the role of the page's handler.   *)
RolesAgree ==
    Quiet => \A p \in Pages : ws[p] = "open" /\ session[p] # "none" => role[p] = session[p]

(* Two ends that have each other's description have each other's           *)
(* candidates, queued or not.  Excepted are the candidates the server      *)
(* gathers and sends before its own offer, which handleOffer throws away.  *)
CandidatesReach ==
    Quiet => \A p \in Pages : Linked(p) /\ ws[p] = "open" /\ p \in Trickling =>
                 /\ pc[p].n \in peer[p].added
                 /\ (peer[p].n \in pc[p].added \/ p \in early)

(* A page that offers to share captures nothing any more, however its      *)
(* shares failed or were stopped.  Excepted are pages of which two shares  *)
(* overlapped, one hangs on a closed peer connection, or one was started   *)
(* by a second publish_ok while the stream of the first still ran, until   *)
(* one is started alone with nothing captured.                             *)
CaptureReleased ==
    Quiet => \A p \in Pages : canShare[p] /\ p \notin overlapped => captured[p] = {}

(* A page that says it is live is connected to the server.  Excepted are   *)
(* pages whose server end was negotiated with an older connection of the   *)
(* page or replaced by the failure callback (disturbed), that took the     *)
(* answer to an older offer (crossed), that shared before they were        *)
(* connected (unsent), that were told as guests that a stream began or     *)
(* ended after they were promoted (outdated), or two of whose shares       *)
(* overlapped, for then one peer connection makes two offers.              *)
HostIsHeard ==
    Quiet => \A p \in Pages : ws[p] = "open" /\ ~canShare[p] =>
        Linked(p) \/ p \in disturbed \cup unsent \cup crossed \cup outdated \cup overlapped

(* Every guest is connected and was offered every track of the room,       *)
(* whether it came before or after them.  Four kinds of guests are         *)
(* excepted (disturbed): negotiateSubscriber could not offer again, for    *)
(* the answer was still out; it did offer again on a connected Peer.PC,    *)
(* and the page answered, as always, from a new connection; HandleAnswer   *)
(* took on a renewed Peer.PC the late answer to an offer of the one        *)
(* before; or a loop reset it late, in a room that was live again.         *)
GuestsSee ==
    Quiet /\ tracks # {} =>
        \A q \in subscribers : (Linked(q) /\ pc[q].has = tracks) \/ q \in disturbed
=============================================================================
