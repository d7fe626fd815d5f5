------------------------------ MODULE FileHub ------------------------------
(***************************************************************************)
(* The signaling server of the file broadcast (pkg/signaling/filehub.go)   *)
(* with the pages that use it.  Each connection has a goroutine, which     *)
(* handles one message after another: a critical section of h.mu decides   *)
(* what to send to whom, and the messages are sent after the unlock, one   *)
(* by one, while other connections register, leave and are closed.  A send *)
(* to a connection whose channel was closed panics and takes down the      *)
(* connection of the goroutine that sends.                                 *)
(***************************************************************************)
EXTENDS CastPage

CONSTANT Capacity       \* messages on their way to a page, 32 and the socket

ASSUME FileHubAssumption == Capacity \in Nat \ {0}

VARIABLES
    broadcaster,    \* FileHub.broadcaster
    watchers,       \* FileHub.watchers
    served,         \* of each connection: "none", "reading", "ended" (the
                    \* goroutine panicked), "removed" (out of the maps), "closed"
                    \* (its channel is closed)
    job,            \* what the goroutine of a connection has still to send
    \* not in the code
    registered,     \* connections that were the broadcaster
    refused,        \* broadcasters that asked to watch
    lost,           \* connections that lost a message to a full buffer
    panicked        \* connections whose goroutine panicked

history == <<registered, refused, lost, panicked>>
hubVars == <<broadcaster, watchers, served, job, history>>
vars == <<pageVars, hubVars>>

Sends == [to : Ids, msg : Message]

TypeOK ==
    /\ PageTypeOK
    /\ \A p \in Pages : Len(inbox[p]) <= Capacity
    /\ broadcaster \in Ids \cup {None}
    /\ watchers \in SUBSET Ids
    /\ served \in [Ids -> {"none", "reading", "ended", "removed", "closed"}]
    /\ \A c \in Ids : job[c] \in SUBSET Sends
    /\ registered \in SUBSET Ids /\ refused \in SUBSET Ids
    /\ lost \in SUBSET Ids
    /\ panicked \in SUBSET Ids

Init ==
    /\ PageInit
    /\ broadcaster = None
    /\ watchers = {}
    /\ served = [c \in Ids |-> "none"]
    /\ job = [c \in Ids |-> {}]
    /\ registered = {} /\ refused = {}
    /\ lost = {}
    /\ panicked = {}

----------------------------------------------------------------------------
(* ServeWS *)

Current(c) == \E p \in Pages : conn[p] = c /\ Online(p)
Owner(c) == CHOOSE p \in Pages : conn[p] = c

ServeWS(p) ==
    /\ Connect(p)
    /\ served' = [served EXCEPT ![opened'] = "reading"]
    /\ UNCHANGED <<broadcaster, watchers, job, history>>

(* readPump takes the next message when the last one has been handled. *)
Read(c, kind) ==
    /\ served[c] = "reading" /\ job[c] = {} /\ Current(c)
    /\ outbox[Owner(c)] # << >> /\ Head(outbox[Owner(c)]).kind = kind
    /\ outbox' = [outbox EXCEPT ![Owner(c)] = Tail(@)]
    /\ UNCHANGED <<linkVars, inbox, castVars, peerVars, faults, served, lost, panicked>>

Tell(S, m) == [to : S, msg : {m}]

(* Mutant: the broadcaster before this one is not told. *)
SetBroadcasterQuietly(c) ==
    /\ Read(c, "broadcaster")
    /\ broadcaster' = c
    /\ registered' = registered \cup {c}
    /\ UNCHANGED refused
    /\ watchers' = watchers \ {c}
    /\ job' = [job EXCEPT ![c] = Tell(watchers', Plain("broadcaster"))]

SetBroadcaster(c) ==
    /\ Read(c, "broadcaster")
    /\ broadcaster' = c
    /\ registered' = registered \cup {c}
    /\ UNCHANGED refused
    /\ watchers' = watchers \ {c}
    /\ job' = [job EXCEPT ![c] = Tell({broadcaster} \ {c, None}, Plain("forceStop"))
                                     \cup Tell(watchers', Plain("broadcaster"))]

AddWatcher(c) ==
    /\ Read(c, "watcher")
    /\ \/ /\ broadcaster = c
          /\ refused' = refused \cup {c}
          /\ UNCHANGED <<watchers, job>>
       \/ /\ broadcaster # c
          /\ UNCHANGED refused
          /\ watchers' = watchers \cup {c}
          /\ job' = [job EXCEPT ![c] = Tell({broadcaster} \ {None}, About("watcher", c))]
    /\ UNCHANGED <<broadcaster, registered>>

Relay(c) ==
    \E kind \in {"offer", "answer", "candidate"} :
        /\ Read(c, kind)
        /\ LET msg == Head(outbox[Owner(c)])
           IN  job' = [job EXCEPT ![c] =
                          Tell({msg.id} \cap (watchers \cup {broadcaster}),
                               [msg EXCEPT !.id = c])]
        /\ UNCHANGED <<broadcaster, watchers, registered, refused>>

----------------------------------------------------------------------------
(* The messages of a goroutine; the one to the former broadcaster is first. *)

Due(c, s) ==
    /\ s \in job[c] /\ served[c] \in {"reading", "closed"}
    /\ s.msg.kind # "forceStop" => \A t \in job[c] : t.msg.kind # "forceStop"

(* Mutant: a send waits for room in the channel of a slow page. *)
SendJSONUnbounded(c, s) ==
    /\ Due(c, s) /\ served[s.to] # "closed"
    /\ job' = [job EXCEPT ![c] = @ \ {s}]
    /\ IF Current(s.to) THEN inbox' = [inbox EXCEPT ![Owner(s.to)] = Append(@, s.msg)]
       ELSE UNCHANGED inbox
    /\ UNCHANGED <<linkVars, outbox, castVars, peerVars, faults, broadcaster, watchers,
                   served, history>>

SendJSON(c, s) ==
    /\ Due(c, s) /\ served[s.to] # "closed"
    /\ job' = [job EXCEPT ![c] = @ \ {s}]
    /\ IF ~Current(s.to) THEN UNCHANGED <<inbox, lost>>
       ELSE IF Len(inbox[Owner(s.to)]) < Capacity
       THEN /\ inbox' = [inbox EXCEPT ![Owner(s.to)] = Append(@, s.msg)]
            /\ UNCHANGED lost
       ELSE /\ lost' = lost \cup {s.to}
            /\ UNCHANGED inbox
    /\ UNCHANGED <<linkVars, outbox, castVars, peerVars, faults, broadcaster, watchers,
                   served, registered, refused, panicked>>

(* The deferred calls of the goroutine close its connection; net/http      *)
(* recovers the panic.  In onDisconnect nothing is left to be done.        *)
Panic(c, s) ==
    /\ Due(c, s) /\ served[s.to] = "closed"
    /\ job' = [job EXCEPT ![c] = {}]
    /\ panicked' = panicked \cup {c}
    /\ served' = [served EXCEPT ![c] = IF @ = "reading" THEN "ended" ELSE @]
    /\ IF Current(c) THEN Cut(Owner(c), "down") ELSE UNCHANGED <<link, inbox, outbox>>
    /\ UNCHANGED <<conn, opened, castVars, peerVars, faults, broadcaster, watchers,
                   registered, refused, lost>>

----------------------------------------------------------------------------
(* onDisconnect *)

(* readPump has returned: the socket is gone, or the goroutine panicked.    *)
Ended(c) ==
    \/ served[c] = "ended"
    \/ served[c] = "reading" /\ job[c] = {} /\ ~Current(c)

(* Mutant: whoever leaves is only taken out of the watchers. *)
ForgetWatcher(c) ==
    /\ Ended(c)
    /\ served' = [served EXCEPT ![c] = "removed"]
    /\ watchers' = watchers \ {c}
    /\ job' = [job EXCEPT ![c] =
                  IF broadcaster = c THEN Tell(watchers', Plain("broadcasterLeft"))
                  ELSE Tell({broadcaster} \ {None}, About("disconnectPeer", c))]
    /\ UNCHANGED <<pageVars, broadcaster, history>>

(* Mutant: a watcher is not taken out. *)
OnDisconnectKeeping(c) ==
    /\ Ended(c)
    /\ served' = [served EXCEPT ![c] = "removed"]
    /\ broadcaster' = IF broadcaster = c THEN None ELSE broadcaster
    /\ job' = [job EXCEPT ![c] =
                  IF broadcaster = c THEN Tell(watchers, Plain("broadcasterLeft"))
                  ELSE Tell({broadcaster} \ {None}, About("disconnectPeer", c))]
    /\ UNCHANGED <<pageVars, watchers, history>>

OnDisconnect(c) ==
    /\ Ended(c)
    /\ served' = [served EXCEPT ![c] = "removed"]
    /\ watchers' = watchers \ {c}
    /\ \/ /\ broadcaster = c
          /\ broadcaster' = None
          /\ job' = [job EXCEPT ![c] = Tell(watchers', Plain("broadcasterLeft"))]
       \/ /\ broadcaster # c
          /\ job' = [job EXCEPT ![c] =
                        Tell({broadcaster} \ {None}, About("disconnectPeer", c))]
          /\ UNCHANGED broadcaster
    /\ UNCHANGED <<pageVars, history>>

CloseSend(c) ==
    /\ served[c] = "removed"
    /\ served' = [served EXCEPT ![c] = "closed"]
    /\ UNCHANGED <<pageVars, broadcaster, watchers, job, history>>

----------------------------------------------------------------------------
Handle(c) == SetBroadcaster(c) \/ AddWatcher(c) \/ Relay(c)

Goroutine(c) ==
    \/ Handle(c) \/ OnDisconnect(c) \/ CloseSend(c)
    \/ \E s \in job[c] : SendJSON(c, s) \/ Panic(c, s)

Page(p) ==
    \/ StartBroadcast(p) \/ PlayFails(p) \/ StopBroadcast(p)
    \/ ConnectionDrops(p) \/ Leave(p)
    \/ OnMessage(p) \/ Settle(p)
    \/ \E id \in Ids : OfferFails(p, id) \/ AnswerFails(p, id) \/ ConnectionFails(p, id)

Next ==
    \/ \E p \in Pages : ServeWS(p) \/ (Page(p) /\ UNCHANGED hubVars)
    \/ \E c \in Ids : Goroutine(c)

Spec == Init /\ [][Next]_vars

(* Go runs every goroutine, and net/http the deferred calls of one that    *)
(* panicked.                                                               *)
Fairness == \A c \in Ids : WF_vars(Goroutine(c))

FairSpec == Spec /\ Fairness

----------------------------------------------------------------------------
(* Whoever the hub has registered has a goroutine that will take it out of *)
(* the maps again, and the broadcaster is not among the watchers.          *)
RegisteredAreServed ==
    /\ \A c \in watchers \cup ({broadcaster} \ {None}) : served[c] \in {"reading", "ended"}
    /\ broadcaster \notin watchers

(* Nothing is on its way and every goroutine waits for its page. *)
Quiet ==
    /\ \A p \in Pages : PageQuiet(p)
    /\ \A c \in Ids : /\ job[c] = {}
                      /\ served[c] \in {"none", "closed"}
                            \/ (served[c] = "reading" /\ Current(c))

(* Two pages never go on broadcasting: whatever the order in which pages   *)
(* take over, stop and start again, and however late the hub's forceStop   *)
(* is sent, a page that broadcasts on the connection it registered with is *)
(* the hub's broadcaster.                                                  *)
CasterIsRegistered ==
    Quiet /\ lost = {} =>
        \A p \in Pages : Online(p) /\ casting[p] /\ Me(p) \in registered =>
                            broadcaster = Me(p)

(* The hub knows every page that waits for a broadcast, so that it will be *)
(* told of the next, except one that asked while the hub still took it for *)
(* the broadcaster.                                                        *)
WaitingAreKnown ==
    Quiet => \A p \in Pages : Online(p) /\ ~casting[p] =>
                 Me(p) \in watchers \cup {broadcaster} \cup refused

(* The broadcaster keeps no peer connection for a watcher that has left:   *)
(* nothing that would make a new one comes after disconnectPeer.  So it is *)
(* while there has been one broadcaster only: AddWatcher decides under the *)
(* lock whom to send the request and sends it later, and a broadcaster     *)
(* that was taken over and has registered again may answer a watcher that  *)
(* only the one in between was told had left.                              *)
LeftPeersAreClosed ==
    Quiet /\ lost = {} /\ panicked = {} =>
        \A p \in Pages : Online(p) /\ registered = {Me(p)} =>
            \A id \in DOMAIN peers[p] : served[id] = "reading"

(* A connection that is gone is cleaned up, although sends of its own      *)
(* goroutine may panic before and during the cleanup.                      *)
CleanupCompletes ==
    \A c \in Ids :
        (served[c] # "none" /\ ~Current(c)) ~>
            (served[c] = "closed" /\ c \notin watchers /\ broadcaster # c /\ job[c] = {})
=============================================================================
