---------------------------- MODULE MediaProofs ----------------------------
(***************************************************************************)
(* The types and the safety of the peer connections of a room (Media), for *)
(* any number of connections, tracks and resets.  Each invariant is proved *)
(* from Grounded and a part of its own:                                    *)
(*   Grounded    members are in session, a peer connection is made before  *)
(*               anything refers to it, and a goroutine only runs the kind *)
(*               of loop it starts;                                        *)
(*   Negotiable  what a loop closes it renews, unless the peer is leaving; *)
(*   Once        no two loops add the same track to the same guest;        *)
(*   Held        a first connection is in the room or about to be closed.  *)
(* The lemmas ...Starts say what the loop is that an action starts, so     *)
(* that no later proof looks at the sequence it is built from.             *)
(***************************************************************************)
EXTENDS Media, FiniteSetTheorems, TLAPS

(* Names.                                                                  *)
LEMMA PeersAreTwo ==
  /\ \A c \in Conns : Pub(c) \in Peers /\ Sub(c) \in Peers
  /\ \A c, d : Pub(c) # Sub(d)
  /\ \A c, d : (Pub(c) = Pub(d) => c = d) /\ (Sub(c) = Sub(d) => c = d)
  /\ \A c : Pub(c)[1] = c /\ Sub(c)[1] = c
  /\ \A s \in Peers : s[1] \in Conns /\ s \in {Pub(s[1]), Sub(s[1])}
BY DEF Peers, Pub, Sub

LEMMA MaxPCsPositive == \A s \in Peers : MaxPCs(s) \in Nat \ {0}
BY MediaAssumption DEF MaxPCs

LEMMA PCsArePairs ==
  /\ \A s \in Peers : \A n \in 1..MaxPCs(s) : <<s, n>> \in PCs
  /\ \A pc \in PCs : /\ pc[1] \in Peers /\ pc[2] \in Nat \ {0}
                     /\ pc = <<pc[1], pc[2]>>
                     /\ pc[2] <= MaxPCs(pc[1])
<1>1. ASSUME NEW s \in Peers, NEW n \in 1..MaxPCs(s) PROVE <<s, n>> \in PCs
  BY DEF PCs
<1>2. ASSUME NEW pc \in PCs
      PROVE  \E s \in Peers : \E n \in 1..MaxPCs(s) : pc = <<s, n>>
  BY DEF PCs
<1>3. QED
  BY <1>1, <1>2, MaxPCsPositive

LEMMA InstructionKinds ==
  /\ \A s \in Peers : {<<"close", s>>, <<"retire", s>>, <<"renew", s>>} \subseteq Instructions
  /\ \A pc \in PCs : <<"drop", pc>> \in Instructions
  /\ \A s \in Peers, t \in Tracks : <<"attach", <<s, t>>>> \in Instructions
BY DEF Instructions

LEMMA InstructionCases ==
  ASSUME NEW a \in Instructions
  PROVE  \/ \E s \in Peers : a \in {<<"close", s>>, <<"retire", s>>, <<"renew", s>>}
         \/ \E pc \in PCs : a = <<"drop", pc>>
         \/ \E s \in Peers, t \in Tracks : a = <<"attach", <<s, t>>>>
BY DEF Instructions

LEMMA GoroutineNames ==
  /\ \A c \in Conns : {Session(c), Callback(c), Welcome(c)} \subseteq Goroutines
  /\ \A t \in Tracks : OnTrack(t) \in Goroutines
  /\ Closer \in Goroutines
BY DEF Goroutines, Session, Callback, Welcome, OnTrack, Closer

(* A loop over a map visits each of its elements once.                     *)
LEMMA OrdersAreSeqs ==
  ASSUME NEW S, IsFiniteSet(S), NEW order \in Orders(S)
  PROVE  /\ order \in Seq(S)
         /\ \A i, j \in DOMAIN order : order[i] = order[j] => i = j
         /\ \A x \in S : \E i \in DOMAIN order : order[i] = x
<1> DEFINE D == 1..Cardinality(S)
<1>1. Cardinality(S) \in Nat
  BY FS_CardinalityType
<1>2. order \in [D -> S] /\ \A i, j \in D : i # j => order[i] # order[j]
  BY DEF Orders, SetToSeqs
<1>3. order \in Seq(S)
  BY <1>1, <1>2
<1>4. order \in Surjection(D, S)
  <2>1. order \in Injection(D, S)
    BY <1>2 DEF Injection, IsInjective
  <2>2. IsFiniteSet(D) /\ Cardinality(D) = Cardinality(S)
    BY <1>1, FS_Interval
  <2>3. QED
    BY <2>1, <2>2, FS_Injection
<1>5. QED
  BY <1>2, <1>3, <1>4 DEF Surjection

(* The loop over the guests closes and renews one after the other.         *)
LEMMA ResetAllPairs ==
  ASSUME NEW S \in SUBSET Conns, NEW order \in Seq(S)
  PROVE  /\ ResetAll(order) \in Seq(Instructions)
         /\ Len(ResetAll(order)) = 2 * Len(order)
         /\ \A k \in 1..Len(order) :
                /\ ResetAll(order)[2 * k - 1] = <<"close", Sub(order[k])>>
                /\ ResetAll(order)[2 * k] = <<"renew", Sub(order[k])>>
         /\ \A i \in 1..(2 * Len(order)) : \E k \in 1..Len(order) : i = 2 * k - 1 \/ i = 2 * k
<1>1. ASSUME NEW i \in 1..(2 * Len(order))
      PROVE  \E k \in 1..Len(order) : i = 2 * k - 1 \/ i = 2 * k
  <2>1. i = 2 * (i \div 2) \/ i = 2 * (i \div 2) + 1
    OBVIOUS
  <2>2. i \div 2 \in Nat /\ (i = 2 * (i \div 2) + 1 => i \div 2 + 1 \in 1..Len(order))
      /\ (i = 2 * (i \div 2) => i \div 2 \in 1..Len(order))
    BY <2>1
  <2>3. QED
    BY <2>1, <2>2
<1>2. ASSUME NEW k \in 1..Len(order)
      PROVE  /\ ResetAll(order)[2 * k - 1] = <<"close", Sub(order[k])>>
             /\ ResetAll(order)[2 * k] = <<"renew", Sub(order[k])>>
  <2>1. /\ 2 * k - 1 \in 1..(2 * Len(order)) /\ 2 * k \in 1..(2 * Len(order))
        /\ (2 * k - 1 + 1) \div 2 = k /\ 2 - ((2 * k - 1) % 2) = 1
        /\ (2 * k + 1) \div 2 = k /\ 2 - ((2 * k) % 2) = 2
    OBVIOUS
  <2>2. QED
    BY <2>1 DEF ResetAll, Reset
<1>3. \A i \in 1..(2 * Len(order)) : ResetAll(order)[i] \in Instructions
  <2>1. ASSUME NEW k \in 1..Len(order)
        PROVE  {<<"close", Sub(order[k])>>, <<"renew", Sub(order[k])>>} \subseteq Instructions
    <3>1. order[k] \in Conns
      OBVIOUS
    <3>2. QED
      BY <3>1, PeersAreTwo, InstructionKinds
  <2>2. QED
    BY <1>1, <1>2, <2>1
<1>4. ResetAll(order) \in Seq(Instructions) /\ Len(ResetAll(order)) = 2 * Len(order)
  BY <1>3 DEF ResetAll
<1>5. QED
  BY <1>1, <1>2, <1>4

----------------------------------------------------------------------------
(* The inductive invariant. *)

MemberTypes ==
    /\ publisher \in Conns \cup {NoConn}
    /\ subscribers \in SUBSET Conns /\ IsFiniteSet(subscribers)
    /\ tracks \in SUBSET Tracks /\ IsFiniteSet(tracks)
    /\ session \in [Conns -> {"new", "publisher", "subscriber", "promoting", "left"}]

(* A peer connection is made before anything refers to it.                 *)
PCTypes ==
    /\ made \in [Peers -> Nat] /\ \A s \in Peers : made[s] <= MaxPCs(s)
    /\ current = made
    /\ open \in SUBSET PCs /\ failed \in SUBSET PCs /\ events \in SUBSET PCs
    /\ \A pc \in open \cup failed \cup events : pc[2] <= made[pc[1]]
    /\ attached \in SUBSET (PCs \X Tracks)
    /\ \A a \in attached : a[1][2] <= made[a[1][1]]
    /\ resetting \in SUBSET Conns
    /\ armed \in SUBSET Conns

TrackTypes ==
    /\ source \in [Tracks -> Conns \cup {NoConn}]
    /\ arriving \in SUBSET Tracks

(* A member of the room is a connection whose handler has its role, and it *)
(* has had a peer connection; a closed room has no members.                *)
MembersAreInSession ==
    /\ publisher \in Conns => session[publisher] = "publisher" /\ made[Pub(publisher)] > 0
    /\ \A c \in subscribers : session[c] = "subscriber" /\ made[Sub(c)] > 0
    /\ closed => publisher = NoConn /\ subscribers = {}

(* The goroutines that do nothing but add tracks.                          *)
AttachLoops == {"welcome"} \X Conns \cup {"onTrack"} \X Tracks

(* The goroutine g may have the instruction a: only the loops above add    *)
(* tracks, a connection read before the unlock was that of a guest who is  *)
(* no guest any more, and only a host, or one who left, is retired.        *)
Fits(g, a, guests, role) ==
    /\ a[1] = "attach" <=> g \in AttachLoops
    /\ \A pc \in PCs : a = <<"drop", pc>> =>
           \E c \in Conns : pc[1] = Sub(c) /\ c \notin guests /\ role[c] # "new"
    /\ \A s \in Peers : a = <<"retire", s>> =>
           s = Pub(s[1]) /\ role[s[1]] \in {"publisher", "left"}

LoopsFit ==
    /\ todo \in [Goroutines -> Seq(Instructions)]
    /\ \A g \in Goroutines : \A i \in DOMAIN todo[g] : Fits(g, todo[g][i], subscribers, session)
    /\ ~closed => todo[Closer] = << >>

(* What the types of Media rest on.                                        *)
Grounded == MemberTypes /\ PCTypes /\ TrackTypes /\ MembersAreInSession /\ LoopsFit

LEMMA GoroutinesDiffer ==
  /\ \A c \in Conns : Session(c) \notin AttachLoops /\ Callback(c) \notin AttachLoops
  /\ \A c \in Conns : Welcome(c) \in AttachLoops
  /\ \A t \in Tracks : OnTrack(t) \in AttachLoops
  /\ Closer \notin AttachLoops
  /\ \A c \in Conns : Closer \notin {Session(c), Callback(c), Welcome(c)}
  /\ \A t \in Tracks : Closer # OnTrack(t)
  /\ \A c, d \in Conns : Welcome(c) = Welcome(d) => c = d
  /\ \A t, u \in Tracks : OnTrack(t) = OnTrack(u) => t = u
  /\ \A c \in Conns, t \in Tracks : Welcome(c) # OnTrack(t)
BY DEF AttachLoops, Session, Callback, Welcome, OnTrack, Closer

LEMMA InitGrounded == Init => Grounded
<1> SUFFICES ASSUME Init PROVE Grounded
  OBVIOUS
<1>1. MemberTypes
  BY FS_EmptySet DEF Init, MemberTypes
<1>2. PCTypes
  <2>1. \A s \in Peers : 0 <= MaxPCs(s)
    BY MaxPCsPositive
  <2>2. QED
    BY <2>1 DEF Init, PCTypes
<1>3. TrackTypes
  BY DEF Init, TrackTypes
<1>4. MembersAreInSession
  BY MediaAssumption DEF Init, MembersAreInSession
<1>5. LoopsFit
  BY GoroutineNames DEF Init, LoopsFit
<1>6. QED
  BY <1>1, <1>2, <1>3, <1>4, <1>5 DEF Grounded

(* newPeerConnection, with the assignment to peer.PC.                      *)
LEMMA NewPCTyped ==
  ASSUME PCTypes, NEW s \in Peers, NewPC(s), open' = open \cup {<<s, made[s] + 1>>},
         UNCHANGED <<failed, attached, events, armed>>, resetting' \in SUBSET Conns
  PROVE  /\ PCTypes'
         /\ made'[s] = made[s] + 1
         /\ \A x \in Peers : made[x] <= made'[x]
<1>1. made[s] + 1 \in 1..MaxPCs(s)
  BY MaxPCsPositive DEF PCTypes, NewPC
<1>2. <<s, made[s] + 1>> \in PCs
  BY <1>1, PCsArePairs
<1>3. /\ made' \in [Peers -> Nat] /\ current' = made' /\ made'[s] = made[s] + 1
      /\ \A x \in Peers : made[x] <= made'[x]
      /\ \A x \in Peers : made'[x] <= MaxPCs(x)
  BY <1>1, MaxPCsPositive DEF PCTypes, NewPC
<1>4. \A pc \in open \cup failed \cup events :
         pc[1] \in Peers /\ pc[2] \in Nat /\ pc[2] <= made[pc[1]] /\ made[pc[1]] \in Nat
  BY PCsArePairs DEF PCTypes
<1>5. \A pc \in open' \cup failed' \cup events' : pc[2] <= made'[pc[1]]
  BY <1>3, <1>4 DEF PCTypes
<1>6. \A a \in attached :
         a[1][1] \in Peers /\ a[1][2] \in Nat /\ a[1][2] <= made[a[1][1]] /\ made[a[1][1]] \in Nat
  BY PCsArePairs DEF PCTypes
<1>7. \A a \in attached' : a[1][2] <= made'[a[1][1]]
  BY <1>3, <1>6
<1>8. PCTypes'
  BY <1>2, <1>3, <1>5, <1>7 DEF PCTypes
<1>9. QED
  BY <1>3, <1>8

(* What no step does to a member: nobody goes back to "new", or becomes a   *)
(* guest later than at first, or stays once left.                          *)
MovesOn ==
    /\ closed => closed'
    /\ \A c \in Conns :
        /\ session[c] # "new" => session'[c] # "new" /\ (c \in subscribers' => c \in subscribers)
        /\ session[c] \in {"publisher", "left"} => session'[c] \in {"publisher", "left"}

(* What fits a goroutine goes on fitting it.                               *)
LEMMA FitsStable ==
  ASSUME MovesOn, NEW g, NEW a, Fits(g, a, subscribers, session)
  PROVE  Fits(g, a, subscribers', session')
<1>1. ASSUME NEW pc \in PCs, a = <<"drop", pc>>
      PROVE  \E c \in Conns : pc[1] = Sub(c) /\ c \notin subscribers' /\ session'[c] # "new"
  BY <1>1 DEF Fits, MovesOn
<1>2. ASSUME NEW s \in Peers, a = <<"retire", s>>
      PROVE  s = Pub(s[1]) /\ session'[s[1]] \in {"publisher", "left"}
  BY <1>2, PeersAreTwo DEF Fits, MovesOn
<1>3. a[1] = "attach" <=> g \in AttachLoops
  BY DEF Fits
<1>4. QED
  BY <1>1, <1>2, <1>3 DEF Fits

LEMMA LoopsFitStable ==
  ASSUME LoopsFit, MovesOn, UNCHANGED <<todo, closed>>
  PROVE  LoopsFit'
BY FitsStable DEF LoopsFit

(* A loop starts, when its instructions fit.                               *)
LEMMA LoopsFitStart ==
  ASSUME LoopsFit, MovesOn, NEW g \in Goroutines, NEW p \in Seq(Instructions),
         Start(g, p), \A i \in DOMAIN p : Fits(g, p[i], subscribers', session'),
         closed' \/ (g # Closer /\ ~closed) \/ p = << >>
  PROVE  LoopsFit'
<1>1. todo' = [todo EXCEPT ![g] = p]
  BY DEF Start
<1>2. todo' \in [Goroutines -> Seq(Instructions)]
  BY <1>1 DEF LoopsFit
<1>3. \A h \in Goroutines : todo'[h] = IF h = g THEN p ELSE todo[h]
  BY <1>1 DEF LoopsFit
<1>4. \A h \in Goroutines : \A i \in DOMAIN todo'[h] : Fits(h, todo'[h][i], subscribers', session')
  BY <1>3, FitsStable DEF LoopsFit
<1>5. ~closed' => todo'[Closer] = << >>
  BY <1>3, GoroutineNames DEF LoopsFit, MovesOn
<1>6. QED
  BY <1>2, <1>4, <1>5 DEF LoopsFit

LEMMA AddPublisherGrounded ==
  ASSUME Grounded, NEW c \in Conns, AddPublisher(c)
  PROVE  Grounded'
<1> USE DEF Grounded, AddPublisher
<1>1. Pub(c) \in Peers
  BY PeersAreTwo
<1>2. PCTypes' /\ made'[Pub(c)] = made[Pub(c)] + 1 /\ \A x \in Peers : made[x] <= made'[x]
  <2>1. resetting' \in SUBSET Conns
    BY DEF PCTypes
  <2>2. QED
    BY <1>1, <2>1, NewPCTyped
<1>3. MemberTypes' /\ TrackTypes'
  BY DEF MemberTypes, TrackTypes, trackVars
<1>4. MembersAreInSession'
  <2>1. \A x \in Conns : made[Sub(x)] \in Nat /\ made'[Sub(x)] \in Nat /\ made[Sub(x)] <= made'[Sub(x)]
    BY <1>2, PeersAreTwo DEF PCTypes
  <2>2. made'[Pub(c)] > 0
    BY <1>1, <1>2 DEF PCTypes
  <2>3. c \notin subscribers
    BY DEF MembersAreInSession
  <2>4. QED
    BY <2>1, <2>2, <2>3 DEF MemberTypes, MembersAreInSession
<1>5. MovesOn
  BY DEF MovesOn, MemberTypes
<1>6. LoopsFit'
  BY <1>5, LoopsFitStable
<1>7. QED
  BY <1>2, <1>3, <1>4, <1>6

----------------------------------------------------------------------------
(* The programs of the loops. *)

Closing(a, s) == a \in {<<"close", s>>, <<"retire", s>>}

(* The loop p renews s after it closes it; it renews s only after that.    *)
RenewsLater(p, s) ==
    \A i \in DOMAIN p : Closing(p[i], s) =>
        \E j \in DOMAIN p : i < j /\ p[j] = <<"renew", s>>

ClosesFirst(p, s) ==
    \A j \in DOMAIN p : p[j] = <<"renew", s>> =>
        \E i \in DOMAIN p : i < j /\ Closing(p[i], s)

(* An instruction of a loop over guests: it is about the guest it names.   *)
LEMMA PlainFits ==
  ASSUME NEW g, g \notin AttachLoops, NEW s, NEW a \in {<<"close", s>>, <<"renew", s>>},
         NEW guests, NEW role
  PROVE  Fits(g, a, guests, role)
BY DEF Fits

LEMMA AttachFits ==
  ASSUME NEW g \in AttachLoops, NEW x, NEW guests, NEW role
  PROVE  Fits(g, <<"attach", x>>, guests, role)
BY DEF Fits

(* From m to n the loop p closes and renews guests of S, one after the     *)
(* other.                                                                  *)
Pairs(p, S, m, n) ==
    \A i \in m..n : i \in DOMAIN p /\ \E d \in S :
        \/ p[i] = <<"close", Sub(d)>> /\ i + 1 \in m..n /\ p[i + 1] = <<"renew", Sub(d)>>
        \/ p[i] = <<"renew", Sub(d)>> /\ i - 1 \in m..n /\ p[i - 1] = <<"close", Sub(d)>>

LEMMA ResetAllResets ==
  ASSUME NEW S \in SUBSET Conns, NEW order \in Seq(S)
  PROVE  ResetAll(order) \in Seq(Instructions) /\ Pairs(ResetAll(order), S, 1, Len(ResetAll(order)))
<1> DEFINE q == ResetAll(order)
<1>1. q \in Seq(Instructions) /\ Len(q) = 2 * Len(order)
  BY ResetAllPairs
<1>2. ASSUME NEW k \in 1..Len(order)
      PROVE  /\ order[k] \in S
             /\ 2 * k - 1 \in 1..Len(q) /\ 2 * k \in 1..Len(q)
             /\ 2 * k - 1 + 1 = 2 * k
             /\ q[2 * k - 1] = <<"close", Sub(order[k])>>
             /\ q[2 * k] = <<"renew", Sub(order[k])>>
  BY <1>1, ResetAllPairs, SMTT(30)
<1>3. /\ \A i \in 1..Len(q) : \E k \in 1..Len(order) : i = 2 * k - 1 \/ i = 2 * k
      /\ DOMAIN q = 1..Len(q)
  BY <1>1, ResetAllPairs
<1> HIDE DEF q
<1>4. Pairs(q, S, 1, Len(q))
  <2>1. ASSUME NEW k \in 1..Len(order), NEW i \in 1..Len(q), i = 2 * k - 1
        PROVE  /\ q[i] = <<"close", Sub(order[k])>>
               /\ i + 1 \in 1..Len(q) /\ q[i + 1] = <<"renew", Sub(order[k])>>
    BY <1>2, <2>1
  <2>2. ASSUME NEW k \in 1..Len(order), NEW i \in 1..Len(q), i = 2 * k
        PROVE  /\ q[i] = <<"renew", Sub(order[k])>>
               /\ i - 1 \in 1..Len(q) /\ q[i - 1] = <<"close", Sub(order[k])>>
    BY <1>2, <2>2
  <2>3. QED
    BY <1>2, <1>3, <2>1, <2>2 DEF Pairs
<1>5. QED
  BY <1>1, <1>4 DEF q

LEMMA PairsRenew ==
  ASSUME NEW S, NEW p, NEW m \in Nat, NEW n \in Nat,
         Pairs(p, S, m, n),
         NEW s, NEW i \in m..n
  PROVE  /\ Closing(p[i], s) => \E j \in DOMAIN p : i < j /\ p[j] = <<"renew", s>>
         /\ p[i] = <<"renew", s>> => \E j \in DOMAIN p : j < i /\ Closing(p[j], s)
BY DEF Closing, Pairs

(* The loop p replaces connections of the host c and of guests in S, and   *)
(* retires no host but c.                                                  *)
ReplacesOnly(p, c, S) ==
    \A i \in DOMAIN p :
        \/ p[i] = <<"retire", Pub(c)>>
        \/ \E s \in {Pub(c)} \cup {Sub(d) : d \in S} : p[i] \in {<<"close", s>>, <<"renew", s>>}

(* Outside m..n the loop p is about the host c, whom it renews only after  *)
(* retiring it.                                                            *)
HostOutside(p, c, m, n) ==
    /\ DOMAIN p \subseteq Nat
    /\ \A i \in DOMAIN p :
         \/ i \in m..n
         \/ p[i] = <<"retire", Pub(c)>>
         \/ p[i] = <<"renew", Pub(c)>> /\ \E j \in DOMAIN p : j < i /\ p[j] = <<"retire", Pub(c)>>

(* A loop over guests with the steps of one host before it or after it.    *)
LEMMA GuestsAndHost ==
  ASSUME NEW S \in SUBSET Conns, NEW p, NEW m \in Nat, NEW n \in Nat, NEW c \in Conns,
         Pairs(p, S, m, n), HostOutside(p, c, m, n)
  PROVE  /\ ReplacesOnly(p, c, S)
         /\ \A s \in Peers \ {Pub(c)} : RenewsLater(p, s)
         /\ \A s \in Peers : ClosesFirst(p, s)
         /\ \A i \in DOMAIN p : Closing(p[i], Pub(c)) => p[i] = <<"retire", Pub(c)>> /\ i \notin m..n
<1> USE DEF HostOutside
<1>1. Pub(c) \in Peers /\ \A d \in S : Sub(d) \in Peers /\ Sub(d) # Pub(c)
  BY PeersAreTwo
<1>2. ReplacesOnly(p, c, S)
  BY <1>1 DEF Pairs, ReplacesOnly
<1>0. ASSUME NEW s, NEW i \in m..n, Closing(p[i], s) PROVE \E j \in DOMAIN p : i < j /\ p[j] = <<"renew", s>>
  BY <1>0 DEF Closing, Pairs
<1>3. ASSUME NEW s \in Peers \ {Pub(c)} PROVE RenewsLater(p, s)
  <2>1. ASSUME NEW i \in DOMAIN p, Closing(p[i], s) PROVE i \in m..n
    BY <2>1 DEF Closing
  <2>2. \A i \in m..n : Closing(p[i], s) => \E j \in DOMAIN p : i < j /\ p[j] = <<"renew", s>>
    BY <1>0
  <2>3. QED
    BY <2>1, <2>2 DEF RenewsLater
<1>4. ASSUME NEW s \in Peers PROVE ClosesFirst(p, s)
  <2>1. ASSUME NEW i \in DOMAIN p, p[i] = <<"renew", s>>, i \notin m..n
        PROVE  \E j \in DOMAIN p : j < i /\ Closing(p[j], s)
    BY <2>1 DEF Closing
  <2>2. QED
    BY <2>1, PairsRenew DEF ClosesFirst
<1>5. \A i \in DOMAIN p : Closing(p[i], Pub(c)) => p[i] = <<"retire", Pub(c)>> /\ i \notin m..n
  BY <1>1 DEF Closing, Pairs
<1>6. QED
  BY <1>2, <1>3, <1>4, <1>5

(* StopStream: the guests, then the host. *)
LEMMA StopShape ==
  ASSUME NEW c \in Conns, NEW q \in Seq(Instructions), NEW p,
         p = q \o << <<"retire", Pub(c)>>, <<"renew", Pub(c)>> >>
  PROVE  /\ p \in Seq(Instructions) /\ DOMAIN p = 1..(Len(q) + 2)
         /\ \A i \in 1..Len(q) : p[i] = q[i]
         /\ p[Len(q) + 1] = <<"retire", Pub(c)>> /\ p[Len(q) + 2] = <<"renew", Pub(c)>>
<1>1. <<"retire", Pub(c)>> \in Instructions /\ <<"renew", Pub(c)>> \in Instructions
  BY PeersAreTwo, InstructionKinds
<1>2. QED
  BY <1>1

LEMMA StopProgram ==
  ASSUME NEW S \in SUBSET Conns, NEW q, Pairs(q, S, 1, Len(q)), NEW c \in Conns, NEW p,
         Len(q) \in Nat, DOMAIN p = 1..(Len(q) + 2),
         \A i \in 1..Len(q) : p[i] = q[i],
         p[Len(q) + 1] = <<"retire", Pub(c)>>, p[Len(q) + 2] = <<"renew", Pub(c)>>
  PROVE  /\ ReplacesOnly(p, c, S)
         /\ \E i \in DOMAIN p : p[i] = <<"renew", Pub(c)>>
         /\ \A s \in Peers : RenewsLater(p, s) /\ ClosesFirst(p, s)
<1> DEFINE n == Len(q)
<1>1. Pairs(p, S, 1, n)
  BY DEF Pairs
<1>2. /\ n \in Nat /\ DOMAIN p = 1..(n + 2) /\ p[n + 1] = <<"retire", Pub(c)>>
      /\ p[n + 2] = <<"renew", Pub(c)>>
  OBVIOUS
<1> HIDE DEF n
<1>3. n + 1 \in DOMAIN p /\ n + 2 \in DOMAIN p /\ n + 1 < n + 2
  BY <1>2
<1>4. \A i \in DOMAIN p : i \in 1..n \/ i = n + 1 \/ i = n + 2
  BY <1>2
<1>5. HostOutside(p, c, 1, n)
  BY <1>2, <1>3, <1>4 DEF HostOutside
<1>6. /\ ReplacesOnly(p, c, S)
      /\ \A s \in Peers \ {Pub(c)} : RenewsLater(p, s)
      /\ \A s \in Peers : ClosesFirst(p, s)
      /\ \A i \in DOMAIN p : Closing(p[i], Pub(c)) => p[i] = <<"retire", Pub(c)>> /\ i \notin 1..n
  BY <1>1, <1>2, <1>5, GuestsAndHost
<1>7. RenewsLater(p, Pub(c))
  BY <1>2, <1>3, <1>4, <1>6 DEF RenewsLater
<1>8. QED
  BY <1>2, <1>3, <1>6, <1>7

(* RemovePublisher: the host, then the guests. *)
LEMMA LeaveShape ==
  ASSUME NEW c \in Conns, NEW q \in Seq(Instructions), NEW p,
         p = << <<"retire", Pub(c)>> >> \o q
  PROVE  /\ p \in Seq(Instructions) /\ DOMAIN p = 1..(Len(q) + 1)
         /\ \A i \in 1..Len(q) : p[i + 1] = q[i]
         /\ p[1] = <<"retire", Pub(c)>>
<1>1. <<"retire", Pub(c)>> \in Instructions
  BY PeersAreTwo, InstructionKinds
<1>2. QED
  BY <1>1

LEMMA PairsShift ==
  ASSUME NEW S, NEW q, NEW p, NEW n \in Nat, Pairs(q, S, 1, n),
         DOMAIN p = 1..(n + 1), \A i \in 1..n : p[i + 1] = q[i]
  PROVE  Pairs(p, S, 2, n + 1)
<1> SUFFICES ASSUME NEW i \in 2..(n + 1)
               PROVE  i \in DOMAIN p /\ \E d \in S :
          \/ p[i] = <<"close", Sub(d)>> /\ i + 1 \in 2..(n + 1) /\ p[i + 1] = <<"renew", Sub(d)>>
          \/ p[i] = <<"renew", Sub(d)>> /\ i - 1 \in 2..(n + 1) /\ p[i - 1] = <<"close", Sub(d)>>
  BY DEF Pairs
<1>1. i - 1 \in 1..n /\ (i - 1) + 1 = i /\ (i + 1) - 1 = i /\ n \in Nat
  OBVIOUS
<1>2. PICK d \in S :
          \/ q[i - 1] = <<"close", Sub(d)>> /\ i \in 1..n /\ q[i] = <<"renew", Sub(d)>>
          \/ q[i - 1] = <<"renew", Sub(d)>> /\ (i - 1) - 1 \in 1..n /\ q[(i - 1) - 1] = <<"close", Sub(d)>>
  BY <1>1 DEF Pairs
<1>3. p[i] = q[i - 1] /\ (i \in 1..n => p[i + 1] = q[i] /\ i + 1 \in 2..(n + 1))
  BY <1>1
<1>4. (i - 1) - 1 \in 1..n => p[i - 1] = q[(i - 1) - 1] /\ i - 1 \in 2..(n + 1)
  BY <1>1
<1>5. QED
  BY <1>2, <1>3, <1>4

LEMMA LeaveProgram ==
  ASSUME NEW S \in SUBSET Conns, NEW c \in Conns, NEW p, NEW m \in Nat, 
         m > 0, DOMAIN p = 1..m, p[1] = <<"retire", Pub(c)>>, Pairs(p, S, 2, m)
  PROVE  /\ ReplacesOnly(p, c, S)
         /\ \E i \in DOMAIN p : p[i] = <<"retire", Pub(c)>>
         /\ \A s \in Peers \ {Pub(c)} : RenewsLater(p, s)
         /\ \A s \in Peers : ClosesFirst(p, s)
<1>1. 1 \in DOMAIN p /\ DOMAIN p \subseteq Nat /\ 2 \in Nat
  OBVIOUS
<1>2. HostOutside(p, c, 2, m)
  BY <1>1 DEF HostOutside
<1>3. QED
  BY <1>1, <1>2, GuestsAndHost

(* The loops of StopStream, RemovePublisher and Close, and those that add  *)
(* tracks: what the proofs need of them.                                   *)
StopsStream(p, c, S) ==
    /\ p \in Seq(Instructions)
    /\ ReplacesOnly(p, c, S)
    /\ \E i \in DOMAIN p : p[i] = <<"renew", Pub(c)>>
    /\ \A s \in Peers : RenewsLater(p, s) /\ ClosesFirst(p, s)

Leaves(p, c, S) ==
    /\ p \in Seq(Instructions)
    /\ ReplacesOnly(p, c, S)
    /\ \E i \in DOMAIN p : p[i] = <<"retire", Pub(c)>>
    /\ \A s \in Peers \ {Pub(c)} : RenewsLater(p, s)
    /\ \A s \in Peers : ClosesFirst(p, s)

ClosesAll(p, host, guests) ==
    /\ p \in Seq(Instructions)
    /\ \A i \in DOMAIN p : \E s \in Peers : p[i] = <<"close", s>>
    /\ host \in Conns => \E i \in DOMAIN p : p[i] = <<"close", Pub(host)>>
    /\ \A c \in guests : \E i \in DOMAIN p : p[i] = <<"close", Sub(c)>>

(* Each pair of S once. *)
Attaches(p, S) ==
    /\ p \in Seq(Instructions)
    /\ \A i \in DOMAIN p : \E x \in S : p[i] = <<"attach", x>>
    /\ \A i, j \in DOMAIN p : p[i] = p[j] => i = j

(* Each action starts such a loop.                                         *)
LEMMA StopStreamStarts ==
  ASSUME IsFiniteSet(subscribers), subscribers \in SUBSET Conns, NEW g, NEW c \in Conns,
         StopStream(g, c)
  PROVE  \E p : Start(g, p) /\ StopsStream(p, c, subscribers)
<1> DEFINE S == IF tracks = {} THEN {} ELSE subscribers
<1>1. IsFiniteSet(S) /\ S \in SUBSET Conns
  BY FS_EmptySet
<1>2. PICK order \in Orders(S) :
         Start(g, ResetAll(order) \o << <<"retire", Pub(c)>>, <<"renew", Pub(c)>> >>)
  BY DEF StopStream
<1> HIDE DEF S
<1>3. order \in Seq(S)
  BY <1>1, OrdersAreSeqs
<1> DEFINE q == ResetAll(order)
<1>4. q \in Seq(Instructions) /\ Pairs(q, S, 1, Len(q))
  BY <1>1, <1>3, ResetAllResets
<1> HIDE DEF q
<1>5. PICK p : p = q \o << <<"retire", Pub(c)>>, <<"renew", Pub(c)>> >>
  OBVIOUS
<1>6. Start(g, p)
  BY <1>2, <1>5 DEF q
<1>7. /\ p \in Seq(Instructions) /\ DOMAIN p = 1..(Len(q) + 2)
      /\ \A i \in 1..Len(q) : p[i] = q[i]
      /\ p[Len(q) + 1] = <<"retire", Pub(c)>> /\ p[Len(q) + 2] = <<"renew", Pub(c)>>
  BY <1>4, <1>5, StopShape
<1>8. Len(q) \in Nat
  BY <1>4
<1>9. StopsStream(p, c, S)
  BY <1>1, <1>4, <1>7, <1>8, StopProgram, ZenonT(60) DEF StopsStream
<1>10. StopsStream(p, c, subscribers)
  <2>1. S \subseteq subscribers
    BY DEF S
  <2>2. QED
    BY <1>9, <2>1 DEF StopsStream, ReplacesOnly
<1>11. QED
  BY <1>6, <1>10

LEMMA RemovePublisherStarts ==
  ASSUME IsFiniteSet(subscribers), subscribers \in SUBSET Conns, NEW c \in Conns,
         RemovePublisher(c), publisher = c
  PROVE  \E p : Start(Session(c), p) /\ Leaves(p, c, subscribers)
<1>1. PICK order \in Orders(subscribers) :
         Start(Session(c), << <<"retire", Pub(c)>> >> \o ResetAll(order))
  BY DEF RemovePublisher
<1>2. order \in Seq(subscribers)
  BY OrdersAreSeqs
<1> DEFINE q == ResetAll(order)
<1>3. q \in Seq(Instructions) /\ Pairs(q, subscribers, 1, Len(q))
  BY <1>2, ResetAllResets
<1> HIDE DEF q
<1>4. PICK p : p = << <<"retire", Pub(c)>> >> \o q
  OBVIOUS
<1>5. Start(Session(c), p)
  BY <1>1, <1>4 DEF q
<1>6. /\ p \in Seq(Instructions) /\ DOMAIN p = 1..(Len(q) + 1)
      /\ \A i \in 1..Len(q) : p[i + 1] = q[i]
      /\ p[1] = <<"retire", Pub(c)>>
  BY <1>3, <1>4, LeaveShape, ZenonT(60)
<1>7. Len(q) \in Nat
  BY <1>3
<1>8. PICK m \in Nat : m = Len(q) + 1 /\ m > 0
  BY <1>7
<1>9. DOMAIN p = 1..m /\ Pairs(p, subscribers, 2, m)
  BY <1>3, <1>6, <1>7, <1>8, PairsShift
<1>10. Leaves(p, c, subscribers)
  BY <1>6, <1>8, <1>9, LeaveProgram DEF Leaves
<1>11. QED
  BY <1>5, <1>10

LEMMA CloseStarts ==
  ASSUME IsFiniteSet(subscribers), subscribers \in SUBSET Conns,
         publisher \in Conns \cup {NoConn}, Close
  PROVE  \E p : Start(Closer, p) /\ ClosesAll(p, publisher, subscribers)
<1>1. PICK order \in Orders(subscribers) :
           Start(Closer, (IF publisher = NoConn THEN << >>
                          ELSE << <<"close", Pub(publisher)>> >>)
                           \o [i \in DOMAIN order |-> <<"close", Sub(order[i])>>])
  BY DEF Close
<1>2. /\ order \in Seq(subscribers)
      /\ \A x \in subscribers : \E i \in DOMAIN order : order[i] = x
  BY OrdersAreSeqs
<1> DEFINE q == [i \in DOMAIN order |-> <<"close", Sub(order[i])>>]
<1>3. /\ q \in Seq(Instructions)
      /\ \A i \in DOMAIN q : \E s \in Peers : q[i] = <<"close", s>>
      /\ \A c \in subscribers : \E i \in DOMAIN q : q[i] = <<"close", Sub(c)>>
  <2>1. \A i \in DOMAIN order : order[i] \in Conns
    BY <1>2
  <2>2. \A i \in DOMAIN order : Sub(order[i]) \in Peers /\ <<"close", Sub(order[i])>> \in Instructions
    BY <2>1, PeersAreTwo, InstructionKinds
  <2>3. q \in Seq(Instructions) /\ DOMAIN q = DOMAIN order
    BY <1>2, <2>2
  <2>4. QED
    BY <1>2, <2>2, <2>3
<1>4. CASE publisher = NoConn
  <2>1. Start(Closer, << >> \o q)
    BY <1>1, <1>4
  <2>2. << >> \o q = q
    BY <1>3
  <2>3. Start(Closer, q)
    BY Zenon, <2>1, <2>2
  <2>4. publisher \notin Conns
    BY <1>4, MediaAssumption
  <2>5. QED
    BY <1>3, <2>3, <2>4 DEF ClosesAll
<1>5. CASE publisher # NoConn
  <2>1. Start(Closer, << <<"close", Pub(publisher)>> >> \o q)
    BY <1>1, <1>5
  <2> HIDE DEF q
  <2>2. PICK p : p = << <<"close", Pub(publisher)>> >> \o q
    OBVIOUS
  <2>3. <<"close", Pub(publisher)>> \in Instructions /\ Pub(publisher) \in Peers
    BY <1>5, PeersAreTwo, InstructionKinds
  <2>4. /\ p \in Seq(Instructions) /\ DOMAIN p = 1..(Len(q) + 1)
        /\ \A i \in 1..Len(q) : p[i + 1] = q[i]
        /\ p[1] = <<"close", Pub(publisher)>>
    BY <1>3, <2>2, <2>3
  <2>5. Len(q) \in Nat /\ DOMAIN q = 1..Len(q)
    BY <1>3
  <2>6. /\ \A i \in DOMAIN p : i = 1 \/ (i - 1 \in DOMAIN q /\ p[i] = q[i - 1])
        /\ \A i \in DOMAIN q : i + 1 \in DOMAIN p /\ p[i + 1] = q[i]
        /\ 1 \in DOMAIN p
    <3>1. \A i \in 1..(Len(q) + 1) : i = 1 \/ (i - 1 \in 1..Len(q) /\ (i - 1) + 1 = i)
      BY <2>5
    <3>2. \A i \in 1..(Len(q) + 1) : i = 1 \/ p[(i - 1) + 1] = q[i - 1]
      BY <2>4, <3>1
    <3>3. \A i \in 1..(Len(q) + 1) : i = 1 \/ p[i] = q[i - 1]
      BY <3>1, <3>2
    <3>4. QED
      BY <2>4, <2>5, <3>1, <3>3
  <2>7. ClosesAll(p, publisher, subscribers)
    <3>1. \A i \in DOMAIN p : \E s \in Peers : p[i] = <<"close", s>>
      BY <1>3, <2>3, <2>4, <2>6
    <3>2. \A c \in subscribers : \E i \in DOMAIN p : p[i] = <<"close", Sub(c)>>
      BY <1>3, <2>6
    <3>3. QED
      BY <2>4, <2>6, <3>1, <3>2 DEF ClosesAll
  <2>8. QED
    BY <2>1, <2>2, <2>7
<1>6. QED
  BY <1>4, <1>5

LEMMA AddSubscriberStarts ==
  ASSUME IsFiniteSet(tracks), tracks \in SUBSET Tracks, NEW c \in Conns, AddSubscriber(c)
  PROVE  \E p : Start(Welcome(c), p) /\ Attaches(p, {Sub(c)} \X tracks)
<1>1. PICK order \in Orders(tracks) :
         Start(Welcome(c), [i \in DOMAIN order |-> <<"attach", <<Sub(c), order[i]>>>>])
  BY DEF AddSubscriber, Snapshot
<1>2. order \in Seq(tracks) /\ \A i, j \in DOMAIN order : order[i] = order[j] => i = j
  BY OrdersAreSeqs
<1> DEFINE p == [i \in DOMAIN order |-> <<"attach", <<Sub(c), order[i]>>>>]
<1>3. \A i \in DOMAIN order : order[i] \in tracks
  BY <1>2
<1>4. p \in Seq(Instructions)
  BY <1>2, <1>3, PeersAreTwo, InstructionKinds
<1>5. \A i \in DOMAIN p : p[i] = <<"attach", <<Sub(c), order[i]>>>> /\ order[i] \in tracks
  BY <1>3
<1>6. Attaches(p, {Sub(c)} \X tracks)
  BY <1>2, <1>4, <1>5 DEF Attaches
<1>7. QED
  BY <1>1, <1>6

LEMMA HandlePublisherTrackStarts ==
  ASSUME IsFiniteSet(subscribers), subscribers \in SUBSET Conns, NEW t \in Tracks,
         HandlePublisherTrack(t)
  PROVE  \E p : Start(OnTrack(t), p) /\ Attaches(p, {Sub(c) : c \in subscribers} \X {t})
<1>1. PICK order \in Orders(subscribers) :
         Start(OnTrack(t), [i \in DOMAIN order |-> <<"attach", <<Sub(order[i]), t>>>>])
  BY DEF HandlePublisherTrack
<1>2. order \in Seq(subscribers) /\ \A i, j \in DOMAIN order : order[i] = order[j] => i = j
  BY OrdersAreSeqs
<1> DEFINE p == [i \in DOMAIN order |-> <<"attach", <<Sub(order[i]), t>>>>]
<1>3. \A i \in DOMAIN order : order[i] \in subscribers /\ Sub(order[i]) \in Peers
  BY <1>2, PeersAreTwo
<1>4. p \in Seq(Instructions)
  BY <1>2, <1>3, InstructionKinds
<1>5. \A i \in DOMAIN p : p[i] = <<"attach", <<Sub(order[i]), t>>>> /\ order[i] \in subscribers
  BY <1>3
<1>6. \A i, j \in DOMAIN p : p[i] = p[j] => i = j
  BY <1>2, <1>5, PeersAreTwo
<1>7. Attaches(p, {Sub(c) : c \in subscribers} \X {t})
  BY <1>4, <1>5, <1>6 DEF Attaches
<1>8. QED
  BY <1>1, <1>7

----------------------------------------------------------------------------
(* Which programs fit which goroutine. *)

LEMMA ReplacingFits ==
  ASSUME NEW g, g \notin AttachLoops, NEW p, NEW c \in Conns, NEW S \in SUBSET Conns,
         ReplacesOnly(p, c, S),
         NEW guests, NEW role, role[c] \in {"publisher", "left"}
  PROVE  \A i \in DOMAIN p : Fits(g, p[i], guests, role)
BY PeersAreTwo DEF Fits, ReplacesOnly

LEMMA ClosingFits ==
  ASSUME NEW g, g \notin AttachLoops, NEW p, NEW host, NEW S, ClosesAll(p, host, S),
         NEW guests, NEW role
  PROVE  \A i \in DOMAIN p : Fits(g, p[i], guests, role)
BY DEF Fits, ClosesAll

LEMMA AttachingFits ==
  ASSUME NEW g \in AttachLoops, NEW p, NEW S, Attaches(p, S), NEW guests, NEW role
  PROVE  \A i \in DOMAIN p : Fits(g, p[i], guests, role)
BY DEF Fits, Attaches

LEMMA MovesOnStable ==
  ASSUME UNCHANGED memberVars
  PROVE  MovesOn
BY DEF MovesOn, memberVars

LEMMA AdvanceFits ==
  ASSUME LoopsFit, UNCHANGED memberVars, NEW g \in Goroutines, ~Idle(g), Advance(g)
  PROVE  /\ LoopsFit'
         /\ \A h \in Goroutines \ {g} : todo'[h] = todo[h]
         /\ Len(todo'[g]) = Len(todo[g]) - 1 /\ Len(todo[g]) \in Nat
         /\ DOMAIN todo[g] = 1..Len(todo[g]) /\ DOMAIN todo'[g] = 1..(Len(todo[g]) - 1)
         /\ \A i \in 1..(Len(todo[g]) - 1) : todo'[g][i] = todo[g][i + 1]
         /\ Head(todo[g]) = todo[g][1] /\ 1 \in DOMAIN todo[g]
<1> DEFINE q == todo[g]
<1>1. q \in Seq(Instructions) /\ q # << >>
  BY DEF LoopsFit, Idle
<1> HIDE DEF q
<1>2. /\ Tail(q) \in Seq(Instructions) /\ Len(Tail(q)) = Len(q) - 1
      /\ Len(q) \in Nat /\ DOMAIN q = 1..Len(q) /\ DOMAIN Tail(q) = 1..(Len(q) - 1)
      /\ \A i \in 1..(Len(q) - 1) : Tail(q)[i] = q[i + 1]
      /\ Head(q) = q[1] /\ 1 \in DOMAIN q
      /\ \A i \in 1..(Len(q) - 1) : i + 1 \in DOMAIN q
  BY <1>1
<1>3. Start(g, Tail(q))
  BY DEF Advance, q
<1>4. \A h \in Goroutines : todo'[h] = IF h = g THEN Tail(q) ELSE todo[h]
  BY <1>3 DEF Start, LoopsFit
<1>5. MovesOn
  BY MovesOnStable
<1>6. \A i \in DOMAIN q : Fits(g, q[i], subscribers', session')
  BY <1>5, FitsStable DEF LoopsFit, q
<1>7. \A i \in DOMAIN Tail(q) : Fits(g, Tail(q)[i], subscribers', session')
  BY <1>2, <1>6
<1>8. ~closed => g # Closer
  BY DEF LoopsFit, Idle
<1>9. closed' \/ (g # Closer /\ ~closed)
  BY <1>8 DEF memberVars
<1>10. LoopsFit'
  BY <1>2, <1>3, <1>5, <1>7, <1>9, LoopsFitStart
<1>11. QED
  BY <1>2, <1>4, <1>10 DEF q

LEMMA AbandonFits ==
  ASSUME LoopsFit, UNCHANGED memberVars, NEW g \in Goroutines, Start(g, << >>)
  PROVE  /\ LoopsFit'
         /\ \A h \in Goroutines : todo'[h] = IF h = g THEN << >> ELSE todo[h]
<1>1. MovesOn
  BY MovesOnStable
<1>2. << >> \in Seq(Instructions) /\ \A i \in DOMAIN << >> : Fits(g, << >>[i], subscribers', session')
  OBVIOUS
<1>3. LoopsFit'
  BY <1>1, <1>2, LoopsFitStart
<1>4. QED
  BY <1>3 DEF LoopsFit, Start

LEMMA ClosePCTyped ==
  ASSUME PCTypes, NEW pc, ClosePC(pc), UNCHANGED <<made, current, armed>>,
         events' = events \/ events' = events \cup (open \cap {pc}),
         resetting' \in SUBSET Conns
  PROVE  PCTypes'
<1>1. \A a \in attached' : a \in attached
  BY DEF ClosePC
<1>2. events' \in SUBSET PCs /\ \A x \in events' : x \in open \cup events
  BY DEF PCTypes
<1>3. QED
  BY <1>1, <1>2 DEF PCTypes, ClosePC

----------------------------------------------------------------------------
(* Every action keeps Grounded. *)

LEMMA RefusePromotionGrounded ==
  ASSUME Grounded, NEW c \in Conns, RefusePromotion(c)
  PROVE  Grounded'
<1> USE DEF Grounded, RefusePromotion
<1>1. MemberTypes' /\ PCTypes' /\ TrackTypes'
  BY DEF MemberTypes, PCTypes, TrackTypes, pcVars, trackVars
<1>2. MembersAreInSession'
  BY DEF MemberTypes, MembersAreInSession, pcVars
<1>3. MovesOn
  BY DEF MovesOn, MemberTypes
<1>4. LoopsFit'
  BY <1>3, LoopsFitStable
<1>5. QED
  BY <1>1, <1>2, <1>4

LEMMA AddSubscriberGrounded ==
  ASSUME Grounded, NEW c \in Conns, AddSubscriber(c)
  PROVE  Grounded'
<1> USE DEF Grounded
<1>1. Sub(c) \in Peers
  BY PeersAreTwo
<1>2. PCTypes' /\ made'[Sub(c)] = made[Sub(c)] + 1 /\ \A x \in Peers : made[x] <= made'[x]
  <2>1. resetting' \in SUBSET Conns
    BY DEF PCTypes, AddSubscriber
  <2>2. QED
    BY <1>1, <2>1, NewPCTyped DEF AddSubscriber
<1>3. MemberTypes' /\ TrackTypes'
  BY FS_AddElement DEF MemberTypes, TrackTypes, trackVars, AddSubscriber
<1>4. MembersAreInSession'
  <2>1. \A x \in Conns : /\ made[Sub(x)] \in Nat /\ made'[Sub(x)] \in Nat /\ made[Sub(x)] <= made'[Sub(x)]
                         /\ made[Pub(x)] \in Nat /\ made'[Pub(x)] \in Nat /\ made[Pub(x)] <= made'[Pub(x)]
    BY <1>2, PeersAreTwo DEF PCTypes
  <2>2. made'[Sub(c)] > 0
    BY <1>1, <1>2 DEF PCTypes
  <2>3. publisher # c
    BY DEF MembersAreInSession, AddSubscriber
  <2>4. QED
    BY <2>1, <2>2, <2>3 DEF MemberTypes, MembersAreInSession, AddSubscriber
<1>5. LoopsFit'
  <2>1. PICK p : Start(Welcome(c), p) /\ Attaches(p, {Sub(c)} \X tracks)
    BY AddSubscriberStarts DEF MemberTypes
  <2>2. Welcome(c) \in Goroutines /\ Welcome(c) \in AttachLoops /\ Welcome(c) # Closer
    BY GoroutineNames, GoroutinesDiffer
  <2>3. MovesOn
    BY DEF MovesOn, MemberTypes, AddSubscriber
  <2>4. ~closed
    BY DEF AddSubscriber
  <2>5. \A i \in DOMAIN p : Fits(Welcome(c), p[i], subscribers', session')
    BY <2>1, <2>2, AttachingFits
  <2>6. p \in Seq(Instructions)
    BY <2>1 DEF Attaches
  <2>7. QED
    BY <2>1, <2>2, <2>3, <2>4, <2>5, <2>6, LoopsFitStart
<1>6. QED
  BY <1>2, <1>3, <1>4, <1>5

LEMMA PromotePublisherGrounded ==
  ASSUME Grounded, NEW c \in Conns, PromotePublisher(c)
  PROVE  Grounded'
<1> USE DEF Grounded
<1>1. MemberTypes' /\ PCTypes' /\ TrackTypes'
  BY FS_RemoveElement DEF MemberTypes, PCTypes, TrackTypes, pcVars, trackVars, PromotePublisher
<1>2. MembersAreInSession'
  BY MediaAssumption DEF MemberTypes, MembersAreInSession, pcVars, PromotePublisher
<1>3. LoopsFit'
  <2>1. Session(c) \in Goroutines /\ Session(c) \notin AttachLoops /\ Session(c) # Closer
    BY GoroutineNames, GoroutinesDiffer
  <2>2. MovesOn
    BY DEF MovesOn, MemberTypes, PromotePublisher
  <2>3. PICK p : p = DropGuestPC(c) /\ Start(Session(c), p)
    BY DEF PromotePublisher
  <2>4. CASE c \in subscribers
    <3>1. Sub(c) \in Peers /\ made[Sub(c)] \in 1..MaxPCs(Sub(c))
      BY <2>4, PeersAreTwo, MaxPCsPositive DEF PCTypes, MembersAreInSession
    <3>2. PC(Sub(c)) \in PCs /\ PC(Sub(c))[1] = Sub(c)
      BY <3>1, PCsArePairs DEF PCTypes, PC
    <3>3. p = << <<"drop", PC(Sub(c))>> >>
      BY <2>3, <2>4 DEF DropGuestPC
    <3>4. p \in Seq(Instructions)
      BY <3>2, <3>3, InstructionKinds
    <3>5. c \notin subscribers' /\ session'[c] # "new"
      BY DEF MemberTypes, PromotePublisher
    <3>6. Fits(Session(c), <<"drop", PC(Sub(c))>>, subscribers', session')
      BY <2>1, <3>2, <3>5 DEF Fits
    <3>7. \A i \in DOMAIN p : Fits(Session(c), p[i], subscribers', session')
      BY <3>3, <3>6
    <3>8. ~closed
      BY DEF PromotePublisher
    <3>9. QED
      BY <2>1, <2>2, <2>3, <3>4, <3>7, <3>8, LoopsFitStart
  <2>5. CASE c \notin subscribers
    <3>1. p = << >>
      BY <2>3, <2>5 DEF DropGuestPC
    <3>2. p \in Seq(Instructions) /\ \A i \in DOMAIN p : Fits(Session(c), p[i], subscribers', session')
      BY <3>1
    <3>3. QED
      BY <2>1, <2>2, <2>3, <3>1, <3>2, LoopsFitStart
  <2>6. QED
    BY <2>4, <2>5
<1>4. QED
  BY <1>1, <1>2, <1>3

(* The part of StopStream under the lock, whoever calls it. *)
LEMMA StopStreamGrounded ==
  ASSUME Grounded, NEW g \in Goroutines, g \notin AttachLoops, g # Closer,
         NEW c \in Conns, StopStream(g, c)
  PROVE  MemberTypes' /\ LoopsFit'
<1> USE DEF Grounded
<1>1. MemberTypes'
  BY FS_EmptySet DEF MemberTypes, StopStream
<1>2. PICK p : Start(g, p) /\ StopsStream(p, c, subscribers)
  BY StopStreamStarts DEF MemberTypes
<1>3. MovesOn
  BY DEF MovesOn, StopStream
<1>4. session'[c] \in {"publisher", "left"} /\ ~closed
  BY MediaAssumption DEF StopStream, CanStop, MembersAreInSession
<1>5. \A i \in DOMAIN p : Fits(g, p[i], subscribers', session')
  BY <1>2, <1>4, ReplacingFits DEF StopsStream, MemberTypes
<1>6. p \in Seq(Instructions)
  BY <1>2 DEF StopsStream
<1>7. LoopsFit'
  BY <1>2, <1>3, <1>4, <1>5, <1>6, LoopsFitStart
<1>8. QED
  BY <1>1, <1>7

LEMMA StopGrounded ==
  ASSUME Grounded, NEW c \in Conns, Stop(c)
  PROVE  Grounded'
<1> USE DEF Grounded
<1>1. MemberTypes' /\ LoopsFit'
  BY GoroutineNames, GoroutinesDiffer, StopStreamGrounded DEF Stop
<1>2. PCTypes' /\ TrackTypes'
  BY DEF PCTypes, TrackTypes, pcVars, trackVars, Stop
<1>3. MembersAreInSession'
  BY DEF MembersAreInSession, pcVars, Stop, StopStream
<1>4. QED
  BY <1>1, <1>2, <1>3

LEMMA CallbackStopsGrounded ==
  ASSUME Grounded, NEW c \in Conns, CallbackStops(c)
  PROVE  Grounded'
<1> USE DEF Grounded
<1>1. PCTypes' /\ TrackTypes'
  BY DEF PCTypes, TrackTypes, trackVars, CallbackStops
<1>2. CASE StopStream(Callback(c), c)
  <2>1. MemberTypes' /\ LoopsFit'
    BY <1>2, GoroutineNames, GoroutinesDiffer, StopStreamGrounded
  <2>2. MembersAreInSession'
    BY <1>2 DEF MembersAreInSession, StopStream, CallbackStops
  <2>3. QED
    BY <1>1, <2>1, <2>2
<1>3. CASE UNCHANGED <<memberVars, todo>>
  <2>1. MemberTypes' /\ MembersAreInSession'
    BY <1>3 DEF MemberTypes, MembersAreInSession, memberVars, CallbackStops
  <2>2. MovesOn /\ UNCHANGED <<todo, closed>>
    BY <1>3, MovesOnStable DEF memberVars
  <2>3. LoopsFit'
    BY <2>2, LoopsFitStable
  <2>4. QED
    BY <1>1, <2>1, <2>3
<1>4. QED
  BY <1>2, <1>3 DEF CallbackStops

LEMMA RemovePublisherGrounded ==
  ASSUME Grounded, NEW c \in Conns, RemovePublisher(c)
  PROVE  Grounded'
<1> USE DEF Grounded
<1>1. MemberTypes' /\ PCTypes' /\ TrackTypes'
  BY FS_EmptySet DEF MemberTypes, PCTypes, TrackTypes, pcVars, trackVars, RemovePublisher
<1>2. MembersAreInSession'
  BY MediaAssumption DEF MemberTypes, MembersAreInSession, pcVars, RemovePublisher
<1>3. MovesOn
  BY DEF MovesOn, MemberTypes, RemovePublisher
<1>4. CASE publisher = c
  <2>1. PICK p : Start(Session(c), p) /\ Leaves(p, c, subscribers)
    BY <1>4, RemovePublisherStarts DEF MemberTypes
  <2>2. session'[c] = "left" /\ ~closed
    BY <1>4, MediaAssumption DEF MemberTypes, MembersAreInSession, RemovePublisher
  <2>3. Session(c) \in Goroutines /\ Session(c) \notin AttachLoops /\ Session(c) # Closer
    BY GoroutineNames, GoroutinesDiffer
  <2>4. \A i \in DOMAIN p : Fits(Session(c), p[i], subscribers', session')
    BY <2>1, <2>2, <2>3, ReplacingFits DEF Leaves, MemberTypes
  <2>5. p \in Seq(Instructions)
    BY <2>1 DEF Leaves
  <2>6. LoopsFit'
    BY <1>3, <2>1, <2>2, <2>3, <2>4, <2>5, LoopsFitStart
  <2>7. QED
    BY <1>1, <1>2, <2>6
<1>5. CASE publisher # c
  <2>1. UNCHANGED <<todo, closed>>
    BY <1>5 DEF RemovePublisher
  <2>2. QED
    BY <1>1, <1>2, <1>3, <2>1, LoopsFitStable
<1>6. QED
  BY <1>4, <1>5

LEMMA RemoveSubscriberGrounded ==
  ASSUME Grounded, NEW c \in Conns, RemoveSubscriber(c)
  PROVE  Grounded'
<1> USE DEF Grounded
<1>1. MemberTypes' /\ PCTypes' /\ TrackTypes'
  BY FS_RemoveElement DEF MemberTypes, PCTypes, TrackTypes, pcVars, trackVars, RemoveSubscriber
<1>2. MembersAreInSession'
  BY MediaAssumption DEF MemberTypes, MembersAreInSession, pcVars, RemoveSubscriber
<1>3. MovesOn
  BY DEF MovesOn, MemberTypes, RemoveSubscriber
<1>4. PICK p : /\ p = IF c \in subscribers THEN << <<"close", Sub(c)>> >> ELSE << >>
               /\ Start(Session(c), p)
  BY DEF RemoveSubscriber
<1>5. Session(c) \in Goroutines /\ Session(c) \notin AttachLoops /\ Session(c) # Closer
  BY GoroutineNames, GoroutinesDiffer
<1>6. <<"close", Sub(c)>> \in Instructions
  BY PeersAreTwo, InstructionKinds
<1>7. p \in Seq(Instructions) /\ \A i \in DOMAIN p : p[i] = <<"close", Sub(c)>>
  BY <1>4, <1>6
<1>8. \A i \in DOMAIN p : Fits(Session(c), p[i], subscribers', session')
  BY <1>5, <1>7, PlainFits
<1>9. closed \/ ~closed
  OBVIOUS
<1>10. c \in subscribers => ~closed
  BY DEF MembersAreInSession
<1>11. closed' \/ (Session(c) # Closer /\ ~closed) \/ p = << >>
  BY <1>5 DEF RemoveSubscriber
<1>12. QED
  BY <1>1, <1>2, <1>3, <1>4, <1>5, <1>7, <1>8, <1>11, LoopsFitStart

LEMMA CloseGrounded ==
  ASSUME Grounded, Close
  PROVE  Grounded'
<1> USE DEF Grounded
<1>1. MemberTypes' /\ PCTypes' /\ TrackTypes'
  BY FS_EmptySet DEF MemberTypes, PCTypes, TrackTypes, pcVars, trackVars, Close
<1>2. MembersAreInSession'
  BY MediaAssumption DEF MembersAreInSession, Close
<1>3. MovesOn
  BY DEF MovesOn, Close
<1>4. PICK p : Start(Closer, p) /\ ClosesAll(p, publisher, subscribers)
  BY CloseStarts DEF MemberTypes
<1>5. Closer \in Goroutines /\ Closer \notin AttachLoops
  BY GoroutineNames, GoroutinesDiffer
<1>6. \A i \in DOMAIN p : Fits(Closer, p[i], subscribers', session')
  BY <1>4, <1>5, ClosingFits
<1>7. p \in Seq(Instructions) /\ closed'
  BY <1>4 DEF ClosesAll, Close
<1>8. QED
  BY <1>1, <1>2, <1>3, <1>4, <1>5, <1>6, <1>7, LoopsFitStart

(* Media and the callbacks start at most a loop that attaches. *)
LEMMA HandlePublisherTrackGrounded ==
  ASSUME Grounded, NEW t \in Tracks, HandlePublisherTrack(t)
  PROVE  Grounded'
<1> USE DEF Grounded
<1>1. MemberTypes' /\ PCTypes' /\ TrackTypes'
  BY FS_AddElement DEF MemberTypes, PCTypes, TrackTypes, pcVars, HandlePublisherTrack
<1>2. MembersAreInSession'
  BY DEF MembersAreInSession, pcVars, HandlePublisherTrack
<1>3. MovesOn
  BY DEF MovesOn, HandlePublisherTrack
<1>4. PICK p : Start(OnTrack(t), p) /\ Attaches(p, {Sub(c) : c \in subscribers} \X {t})
  BY HandlePublisherTrackStarts DEF MemberTypes
<1>5. OnTrack(t) \in Goroutines /\ OnTrack(t) \in AttachLoops /\ OnTrack(t) # Closer
  BY GoroutineNames, GoroutinesDiffer
<1>6. \A i \in DOMAIN p : Fits(OnTrack(t), p[i], subscribers', session')
  BY <1>4, <1>5, AttachingFits
<1>7. p \in Seq(Instructions) /\ UNCHANGED closed
  BY <1>4 DEF Attaches, HandlePublisherTrack
<1>8. QED
  BY <1>1, <1>2, <1>3, <1>4, <1>5, <1>6, <1>7, LoopsFitStart

LEMMA MediaEventsGrounded ==
  ASSUME Grounded,
         \/ \E t \in Tracks : TrackArrives(t)
         \/ \E c \in Conns : PCFails(c)
         \/ \E c \in Conns, pc \in events : OnConnectionStateChange(c, pc)
         \/ UNCHANGED vars
  PROVE  Grounded'
<1> USE DEF Grounded, TrackArrives, PCFails, OnConnectionStateChange, vars
<1>1. UNCHANGED <<memberVars, made, current, open, attached, resetting, todo>>
  BY DEF pcVars
<1>2. MemberTypes' /\ MembersAreInSession'
  BY <1>1 DEF MemberTypes, MembersAreInSession, memberVars
<1>3. TrackTypes'
  BY DEF TrackTypes, trackVars, MemberTypes
<1>4. PCTypes'
  BY DEF PCTypes, pcVars
<1>5. LoopsFit'
  BY <1>1, MovesOnStable, LoopsFitStable DEF memberVars
<1>6. QED
  BY <1>2, <1>3, <1>4, <1>5

(* The steps of the loops. *)
LEMMA CloseStepGrounded ==
  ASSUME Grounded, NEW g \in Goroutines, ~Idle(g), NEW s \in Peers, CloseStep(g, s)
  PROVE  Grounded'
<1> USE DEF Grounded, CloseStep
<1>1. MemberTypes' /\ TrackTypes' /\ MembersAreInSession'
  BY DEF MemberTypes, TrackTypes, MembersAreInSession, memberVars, trackVars
<1>2. LoopsFit'
  BY AdvanceFits
<1>3. PCTypes'
  <2>1. resetting' \in SUBSET Conns
    BY PeersAreTwo DEF PCTypes
  <2>2. events' = events \/ events' = events \cup (open \cap {PC(s)})
    OBVIOUS
  <2>3. QED
    BY <2>1, <2>2, ClosePCTyped
<1>4. QED
  BY <1>1, <1>2, <1>3

LEMMA RenewStepGrounded ==
  ASSUME Grounded, NEW g \in Goroutines, ~Idle(g), NEW s \in Peers, RenewStep(g, s)
  PROVE  Grounded' /\ made'[s] = made[s] + 1 /\ \A x \in Peers : made[x] <= made'[x]
<1> USE DEF Grounded, RenewStep
<1>1. MemberTypes' /\ TrackTypes'
  BY DEF MemberTypes, TrackTypes, memberVars, trackVars
<1>2. LoopsFit'
  BY AdvanceFits
<1>3. PCTypes' /\ made'[s] = made[s] + 1 /\ \A x \in Peers : made[x] <= made'[x]
  <2>1. resetting' \in SUBSET Conns
    BY DEF PCTypes
  <2>2. QED
    BY <2>1, NewPCTyped
<1>4. MembersAreInSession'
  <2>1. \A x \in Peers : made[x] \in Nat /\ made'[x] \in Nat /\ made[x] <= made'[x]
    BY <1>3 DEF PCTypes
  <2>2. QED
    BY <2>1, PeersAreTwo DEF MembersAreInSession, MemberTypes, memberVars
<1>5. QED
  BY <1>1, <1>2, <1>3, <1>4

LEMMA DropStepGrounded ==
  ASSUME Grounded, NEW g \in Goroutines, ~Idle(g), DropStep(g)
  PROVE  Grounded'
<1> USE DEF Grounded, DropStep
<1>1. MemberTypes' /\ TrackTypes' /\ MembersAreInSession'
  BY DEF MemberTypes, TrackTypes, MembersAreInSession, memberVars, trackVars
<1>2. LoopsFit'
  BY AdvanceFits
<1>3. PCTypes'
  <2>1. resetting' \in SUBSET Conns
    BY DEF PCTypes
  <2>2. QED
    BY <2>1, ClosePCTyped
<1>4. QED
  BY <1>1, <1>2, <1>3

LEMMA AttachStepGrounded ==
  ASSUME Grounded, NEW g \in Goroutines, ~Idle(g), NEW s \in Peers, NEW t \in Tracks,
         AttachStep(g, s, t)
  PROVE  Grounded'
<1> USE DEF Grounded, AttachStep
<1>1. MemberTypes' /\ TrackTypes' /\ MembersAreInSession'
  BY DEF MemberTypes, TrackTypes, MembersAreInSession, memberVars, trackVars
<1>2. LoopsFit'
  BY AdvanceFits, AbandonFits DEF Advance
<1>3. PCTypes'
  BY DEF PCTypes, PC
<1>4. QED
  BY <1>1, <1>2, <1>3

LEMMA StepGrounded ==
  ASSUME Grounded, NEW g \in Goroutines, Step(g)
  PROVE  Grounded'
BY CloseStepGrounded, RenewStepGrounded, DropStepGrounded, AttachStepGrounded DEF Step

(* The actions of Next that do more than wait for media.                   *)
LEMMA NextGrounded == Grounded /\ [Next]_vars => Grounded'
<1> SUFFICES ASSUME Grounded, [Next]_vars PROVE Grounded'
  OBVIOUS
<1>1. CASE \E c \in Conns :
              \/ AddPublisher(c) \/ AddSubscriber(c)
              \/ PromotePublisher(c) \/ RefusePromotion(c)
              \/ Stop(c) \/ RemovePublisher(c) \/ RemoveSubscriber(c) \/ CallbackStops(c)
  BY <1>1, AddPublisherGrounded, AddSubscriberGrounded, PromotePublisherGrounded,
     RefusePromotionGrounded, StopGrounded, RemovePublisherGrounded,
     RemoveSubscriberGrounded, CallbackStopsGrounded
<1>2. CASE Close
  BY <1>2, CloseGrounded
<1>3. CASE \E t \in Tracks : HandlePublisherTrack(t)
  BY <1>3, HandlePublisherTrackGrounded
<1>4. CASE \E g \in Goroutines : Step(g)
  BY <1>4, StepGrounded
<1>5. CASE \/ \E t \in Tracks : TrackArrives(t)
           \/ \E c \in Conns : PCFails(c)
           \/ \E c \in Conns, pc \in events : OnConnectionStateChange(c, pc)
           \/ UNCHANGED vars
  BY <1>5, MediaEventsGrounded
<1>6. QED
  BY <1>1, <1>2, <1>3, <1>4, <1>5 DEF Next

(* Room.Close is for good. *)
ClosedIsBoolean == closed \in BOOLEAN

LEMMA ClosedTyped == ClosedIsBoolean /\ [Next]_vars => ClosedIsBoolean'
<1> SUFFICES ASSUME closed \in BOOLEAN, [Next]_vars PROVE closed' \in BOOLEAN
  BY DEF ClosedIsBoolean
<1>1. closed' = closed \/ closed' = TRUE
  <2>1. ASSUME NEW g, Step(g) PROVE closed' = closed
    BY <2>1 DEF Step, CloseStep, RenewStep, DropStep, AttachStep, memberVars
  <2>2. ASSUME NEW c \in Conns,
               \/ AddPublisher(c) \/ AddSubscriber(c)
               \/ PromotePublisher(c) \/ RefusePromotion(c)
               \/ Stop(c) \/ RemovePublisher(c) \/ RemoveSubscriber(c)
               \/ PCFails(c) \/ CallbackStops(c)
               \/ \E pc \in events : OnConnectionStateChange(c, pc)
        PROVE  closed' = closed
    BY <2>2 DEF AddPublisher, AddSubscriber, PromotePublisher, RefusePromotion, Stop,
       StopStream, RemovePublisher, RemoveSubscriber, PCFails, CallbackStops,
       OnConnectionStateChange, memberVars
  <2>3. ASSUME NEW t, TrackArrives(t) \/ HandlePublisherTrack(t) PROVE closed' = closed
    BY <2>3 DEF TrackArrives, HandlePublisherTrack, memberVars
  <2>4. Close => closed' = TRUE
    BY DEF Close
  <2>5. UNCHANGED vars => closed' = closed
    BY DEF vars, memberVars
  <2>6. QED
    BY <2>1, <2>2, <2>3, <2>4, <2>5 DEF Next
<1>2. QED
  BY <1>1

(* The room and its peer connections keep their types, whatever the        *)
(* goroutines of room.go do: peer.PC is one of the connections made for    *)
(* the peer, and each loop a sequence of instructions.                     *)
THEOREM MediaTyped == Spec => []TypeOK
<1>1. Init => ClosedIsBoolean
  BY DEF Init, ClosedIsBoolean
<1>2. Grounded /\ ClosedIsBoolean => TypeOK
  <2> SUFFICES ASSUME Grounded, closed \in BOOLEAN PROVE TypeOK
    BY DEF ClosedIsBoolean
  <2>1. DOMAIN made = Peers /\ \A s \in Peers : made[s] \in 0..MaxPCs(s) /\ current[s] \in 0..made[s]
    BY MaxPCsPositive DEF Grounded, PCTypes
  <2>2. DOMAIN todo = Goroutines /\ \A g \in Goroutines : \A i \in DOMAIN todo[g] : todo[g][i] \in Instructions
    BY DEF Grounded, LoopsFit
  <2>3. QED
    BY <2>1, <2>2 DEF TypeOK, Grounded, MemberTypes, PCTypes, TrackTypes
<1>3. QED
  BY <1>1, <1>2, InitGrounded, NextGrounded, ClosedTyped, PTL DEF Spec

(* The inductive part of the types, which the proofs below share.          *)
THEOREM AlwaysGrounded == Spec => []Grounded
BY InitGrounded, NextGrounded, PTL DEF Spec

----------------------------------------------------------------------------
(* Members can negotiate and the host recovers. *)

(* The peer has left the room, or the room is closed: nobody needs its     *)
(* connection any more.                                                    *)
Over(s) == closed \/ session[s[1]] = "left"

(* A loop that closes the connection of a peer makes it a new one later.   *)
LoopsRenew == \A g \in Goroutines, s \in Peers : Over(s) \/ RenewsLater(todo[g], s)

(* While the callbacks of a host are skipped some loop is going to renew   *)
(* its connection.                                                         *)
ResettingIsPending ==
    \A c \in resetting :
        /\ session[c] \in {"publisher", "left"}
        /\ publisher = c => Pending(<<"renew", Pub(c)>>)

Negotiable == LoopsRenew /\ ResettingIsPending /\ MembersCanNegotiate /\ HostRecovers

(* Leaving and closing are for good. *)
Lasting == \A s \in Peers : Over(s) => Over(s)'

KeepsRenewals == \A s \in Peers : Pending(<<"renew", s>>) => Pending(<<"renew", s>>)'

LEMMA MembersAreNotOver ==
  ASSUME Grounded
  PROVE  /\ \A s \in Members : s \in Peers /\ ~Over(s)
         /\ \A c \in Conns : publisher = c => Pub(c) \in Members
         /\ \A c \in Conns : Sub(c) \in Members => c \in subscribers
         /\ \A c \in Conns : Pub(c) \in Members => publisher = c
BY PeersAreTwo, MediaAssumption DEF Grounded, MemberTypes, MembersAreInSession, Members, Over

(* Only a goroutine without anything to do, or one that adds tracks,       *)
(* starts a loop: nothing else that was pending is lost.                   *)
LEMMA StartKeepsPending ==
  ASSUME LoopsFit, NEW g \in Goroutines, NEW p, Start(g, p),
         Idle(g) \/ g \in AttachLoops,
         NEW a, a[1] # "attach", Pending(a)
  PROVE  Pending(a)'
<1>1. \A h \in Goroutines \ {g} : todo'[h] = todo[h]
  BY DEF LoopsFit, Start
<1>2. ASSUME NEW i \in DOMAIN todo[g], todo[g][i] = a PROVE FALSE
  <2>1. Fits(g, a, subscribers, session)
    BY <1>2 DEF LoopsFit
  <2>2. g \notin AttachLoops
    BY <2>1 DEF Fits
  <2>3. DOMAIN << >> = {}
    OBVIOUS
  <2>4. QED
    BY <2>2, <2>3, <1>2 DEF Idle
<1>3. QED
  BY <1>1, <1>2 DEF Pending

LEMMA StartKeepsRenewals ==
  ASSUME LoopsFit, NEW g \in Goroutines, NEW p, Start(g, p),
         Idle(g) \/ g \in AttachLoops
  PROVE  KeepsRenewals
<1>1. \A s \in Peers : <<"renew", s>>[1] # "attach"
  OBVIOUS
<1>2. QED
  BY <1>1, StartKeepsPending DEF KeepsRenewals

(* A loop goes on: only its first instruction is no longer pending.        *)
LEMMA AdvanceKeepsPending ==
  ASSUME LoopsFit, UNCHANGED memberVars, NEW g \in Goroutines, ~Idle(g), Advance(g),
         NEW a, Pending(a), Head(todo[g]) # a
  PROVE  Pending(a)'
<1> DEFINE q == todo[g]
           r == todo'[g]
           n == Len(q)
<1>1. /\ \A h \in Goroutines \ {g} : todo'[h] = todo[h]
      /\ n \in Nat /\ DOMAIN q = 1..n /\ DOMAIN r = 1..(n - 1)
      /\ \A i \in 1..(n - 1) : r[i] = q[i + 1]
      /\ Head(q) = q[1]
  BY AdvanceFits
<1>2. PICK h \in Goroutines : \E i \in DOMAIN todo[h] : todo[h][i] = a
  BY DEF Pending
<1>3. CASE h # g
  BY <1>1, <1>2, <1>3 DEF Pending
<1>4. CASE h = g
  <2>1. PICK i \in 1..n : q[i] = a
    BY <1>1, <1>2, <1>4
  <2>2. i # 1
    BY <1>1, <2>1
  <2> HIDE DEF q, r, n
  <2>3. i - 1 \in 1..(n - 1) /\ (i - 1) + 1 = i
    BY <1>1, <2>2
  <2>4. r[i - 1] = a /\ i - 1 \in DOMAIN r
    BY <1>1, <2>1, <2>3
  <2>5. QED
    BY <2>4 DEF Pending, r
<1>5. QED
  BY <1>3, <1>4

LEMMA AdvanceRenews ==
  ASSUME LoopsFit, UNCHANGED memberVars, NEW g \in Goroutines, ~Idle(g), Advance(g), LoopsRenew
  PROVE  /\ LoopsRenew'
         /\ \A s \in Peers : Closing(Head(todo[g]), s) => Over(s) \/ Pending(<<"renew", s>>)'
<1> DEFINE q == todo[g]
           r == todo'[g]
           n == Len(q)
<1>1. /\ \A h \in Goroutines \ {g} : todo'[h] = todo[h]
      /\ n \in Nat /\ DOMAIN q = 1..n /\ DOMAIN r = 1..(n - 1)
      /\ \A i \in 1..(n - 1) : r[i] = q[i + 1]
      /\ Head(q) = q[1] /\ 1 \in DOMAIN q
  BY AdvanceFits
<1>2. \A s \in Peers : Over(s)' <=> Over(s)
  BY DEF Over, memberVars
<1>3. \A s \in Peers : Over(s) \/ RenewsLater(q, s)
  BY DEF LoopsRenew
<1> HIDE DEF q, r, n
<1>4. ASSUME NEW s \in Peers, RenewsLater(q, s) PROVE RenewsLater(r, s)
  <2>1. SUFFICES ASSUME NEW i \in DOMAIN r, Closing(r[i], s)
                 PROVE  \E j \in DOMAIN r : i < j /\ r[j] = <<"renew", s>>
    BY DEF RenewsLater
  <2>2. i + 1 \in DOMAIN q /\ Closing(q[i + 1], s)
    BY <1>1, <2>1
  <2>3. PICK j \in DOMAIN q : i + 1 < j /\ q[j] = <<"renew", s>>
    BY <1>4, <2>2 DEF RenewsLater
  <2>4. j - 1 \in 1..(n - 1) /\ (j - 1) + 1 = j /\ i < j - 1
    BY <1>1, <2>1, <2>3
  <2>5. r[j - 1] = q[j] /\ j - 1 \in DOMAIN r
    BY <1>1, <2>4
  <2>6. QED
    BY <2>3, <2>4, <2>5
<1>5. ASSUME NEW s \in Peers, RenewsLater(q, s), Closing(q[1], s)
      PROVE  \E j \in DOMAIN r : r[j] = <<"renew", s>>
  <2>1. PICK j \in DOMAIN q : 1 < j /\ q[j] = <<"renew", s>>
    BY <1>1, <1>5 DEF RenewsLater
  <2>2. j - 1 \in 1..(n - 1) /\ (j - 1) + 1 = j
    BY <1>1, <2>1
  <2>3. QED
    BY <1>1, <2>1, <2>2
<1>6. LoopsRenew'
  <2>1. \A h \in Goroutines \ {g}, s \in Peers : Over(s)' \/ RenewsLater(todo'[h], s)
    BY <1>1, <1>2 DEF LoopsRenew
  <2>2. \A s \in Peers : Over(s)' \/ RenewsLater(todo'[g], s)
    BY <1>2, <1>3, <1>4 DEF r
  <2>3. QED
    BY <2>1, <2>2 DEF LoopsRenew
<1>7. \A s \in Peers : Closing(Head(todo[g]), s) => Over(s) \/ Pending(<<"renew", s>>)'
  <2>1. Head(todo[g]) = q[1]
    BY <1>1 DEF q
  <2>2. \A s \in Peers : (\E j \in DOMAIN r : r[j] = <<"renew", s>>) => Pending(<<"renew", s>>)'
    BY DEF Pending, r
  <2>3. QED
    BY <1>3, <1>5, <2>1, <2>2
<1>8. QED
  BY <1>6, <1>7

LEMMA StartRenews ==
  ASSUME LoopsFit, LoopsRenew, Lasting, NEW g \in Goroutines, NEW p, Start(g, p),
         \A s \in Peers : Over(s)' \/ RenewsLater(p, s)
  PROVE  LoopsRenew'
<1>1. \A h \in Goroutines : todo'[h] = IF h = g THEN p ELSE todo[h]
  BY DEF LoopsFit, Start
<1>2. QED
  BY <1>1 DEF LoopsRenew, Lasting

----------------------------------------------------------------------------
(* The actions under Room.mu. *)

(* A step that removes members, or none, and starts a loop.                *)
LEMMA ShrinkNegotiable ==
  ASSUME Grounded, Negotiable, UNCHANGED <<made, current, open, resetting>>,
         publisher' \in {publisher, NoConn}, subscribers' \subseteq subscribers,
         MovesOn, KeepsRenewals
  PROVE  ResettingIsPending' /\ MembersCanNegotiate'
<1>1. ResettingIsPending'
  <2>1. \A c \in resetting : c \in Conns /\ Pub(c) \in Peers /\ c # NoConn
    BY PeersAreTwo, MediaAssumption DEF Grounded, PCTypes
  <2>2. QED
    BY <2>1 DEF Negotiable, ResettingIsPending, MovesOn, KeepsRenewals
<1>2. MembersCanNegotiate'
  <2>1. Members' \subseteq Members
    BY MediaAssumption DEF Members
  <2>2. \A s \in Members : PC(s)' = PC(s) /\ s \in Peers
    BY MembersAreNotOver DEF PC
  <2>3. QED
    BY <2>1, <2>2 DEF Negotiable, MembersCanNegotiate, KeepsRenewals
<1>3. QED
  BY <1>1, <1>2

LEMMA ShrinkHostRecovers ==
  ASSUME Grounded, Negotiable, UNCHANGED <<made, current, open, failed, events, armed>>,
         publisher' \in {publisher, NoConn}, KeepsRenewals
  PROVE  HostRecovers'
<1>1. \A c \in Conns : Pub(c) \in Peers /\ c # NoConn /\ PC(Pub(c))' = PC(Pub(c))
  BY PeersAreTwo, MediaAssumption DEF PC
<1>2. QED
  BY <1>1 DEF Negotiable, HostRecovers, KeepsRenewals

LEMMA RefusePromotionNegotiable ==
  ASSUME Grounded, Negotiable, NEW c \in Conns, RefusePromotion(c)
  PROVE  Negotiable'
<1> USE DEF RefusePromotion
<1>1. MovesOn /\ Lasting /\ KeepsRenewals
  BY PeersAreTwo DEF MovesOn, Lasting, Over, KeepsRenewals, Pending, Grounded, MemberTypes
<1>2. LoopsRenew'
  BY <1>1 DEF Negotiable, LoopsRenew, Lasting
<1>3. QED
  BY <1>1, <1>2, ShrinkNegotiable, ShrinkHostRecovers DEF Negotiable, pcVars

LEMMA PromotePublisherNegotiable ==
  ASSUME Grounded, Negotiable, NEW c \in Conns, PromotePublisher(c)
  PROVE  Negotiable'
<1> USE DEF PromotePublisher
<1>1. MovesOn /\ Lasting
  BY PeersAreTwo DEF MovesOn, Lasting, Over, Grounded, MemberTypes
<1>2. Session(c) \in Goroutines /\ LoopsFit
  BY GoroutineNames DEF Grounded
<1>3. KeepsRenewals
  BY <1>2, StartKeepsRenewals
<1>4. \A s \in Peers : RenewsLater(DropGuestPC(c), s)
  BY DEF DropGuestPC, RenewsLater, Closing
<1>5. LoopsRenew'
  BY <1>1, <1>2, <1>4, StartRenews DEF Negotiable
<1>6. QED
  BY <1>1, <1>3, <1>5, ShrinkNegotiable, ShrinkHostRecovers DEF Negotiable, pcVars

LEMMA RemoveSubscriberNegotiable ==
  ASSUME Grounded, Negotiable, NEW c \in Conns, RemoveSubscriber(c)
  PROVE  Negotiable'
<1> USE DEF RemoveSubscriber
<1>1. MovesOn /\ Lasting
  BY PeersAreTwo DEF MovesOn, Lasting, Over, Grounded, MemberTypes
<1>2. Session(c) \in Goroutines /\ LoopsFit
  BY GoroutineNames DEF Grounded
<1>3. KeepsRenewals
  BY <1>2, StartKeepsRenewals
<1>4. \A s \in Peers : Over(s)' \/ RenewsLater(IF c \in subscribers THEN << <<"close", Sub(c)>> >> ELSE << >>, s)
  <2>1. Over(Sub(c))'
    BY PeersAreTwo DEF Over, Grounded, MemberTypes
  <2>2. QED
    BY <2>1 DEF RenewsLater, Closing
<1>5. LoopsRenew'
  BY <1>1, <1>2, <1>4, StartRenews DEF Negotiable
<1>6. QED
  BY <1>1, <1>3, <1>5, ShrinkNegotiable, ShrinkHostRecovers DEF Negotiable, pcVars

LEMMA RemovePublisherNegotiable ==
  ASSUME Grounded, Negotiable, NEW c \in Conns, RemovePublisher(c)
  PROVE  Negotiable'
<1> USE DEF RemovePublisher
<1>1. MovesOn /\ Lasting
  BY PeersAreTwo DEF MovesOn, Lasting, Over, Grounded, MemberTypes
<1>2. Session(c) \in Goroutines /\ LoopsFit
  BY GoroutineNames DEF Grounded
<1>3. CASE publisher = c
  <2>1. PICK p : Start(Session(c), p) /\ Leaves(p, c, subscribers)
    BY <1>3, RemovePublisherStarts DEF Grounded, MemberTypes
  <2>2. KeepsRenewals
    BY <1>2, <2>1, StartKeepsRenewals
  <2>3. Over(Pub(c))'
    BY PeersAreTwo DEF Over, Grounded, MemberTypes
  <2>4. LoopsRenew'
    BY <1>1, <1>2, <2>1, <2>3, StartRenews DEF Negotiable, Leaves
  <2>5. QED
    BY <1>1, <2>2, <2>4, ShrinkNegotiable, ShrinkHostRecovers DEF Negotiable, pcVars
<1>4. CASE publisher # c
  <2>1. KeepsRenewals
    BY <1>4 DEF KeepsRenewals, Pending
  <2>2. LoopsRenew'
    BY <1>1, <1>4 DEF Negotiable, LoopsRenew, Lasting
  <2>3. QED
    BY <1>1, <1>4, <2>1, <2>2, ShrinkNegotiable, ShrinkHostRecovers DEF Negotiable, pcVars
<1>5. QED
  BY <1>3, <1>4

LEMMA CloseNegotiable ==
  ASSUME Grounded, Negotiable, Close
  PROVE  Negotiable'
<1> USE DEF Close
<1>1. MovesOn /\ Lasting
  BY DEF MovesOn, Lasting, Over
<1>2. PICK p : Start(Closer, p)
  BY CloseStarts DEF Grounded, MemberTypes
<1>3. Closer \in Goroutines /\ LoopsFit /\ Idle(Closer)
  BY GoroutineNames DEF Grounded, LoopsFit, Idle
<1>4. KeepsRenewals
  BY <1>2, <1>3, StartKeepsRenewals
<1>5. \A s \in Peers : Over(s)'
  BY DEF Over
<1>6. LoopsRenew'
  BY <1>1, <1>2, <1>3, <1>5, StartRenews DEF Negotiable
<1>7. QED
  BY <1>1, <1>4, <1>6, ShrinkNegotiable, ShrinkHostRecovers DEF Negotiable, pcVars

LEMMA HandlePublisherTrackNegotiable ==
  ASSUME Grounded, Negotiable, NEW t \in Tracks, HandlePublisherTrack(t)
  PROVE  Negotiable'
<1> USE DEF HandlePublisherTrack
<1>1. MovesOn /\ Lasting
  BY DEF MovesOn, Lasting, Over
<1>2. PICK p : Start(OnTrack(t), p) /\ Attaches(p, {Sub(c) : c \in subscribers} \X {t})
  BY HandlePublisherTrackStarts DEF Grounded, MemberTypes
<1>3. OnTrack(t) \in Goroutines /\ OnTrack(t) \in AttachLoops /\ LoopsFit
  BY GoroutineNames, GoroutinesDiffer DEF Grounded
<1>4. KeepsRenewals
  BY <1>2, <1>3, StartKeepsRenewals
<1>5. \A s \in Peers : RenewsLater(p, s)
  BY <1>2 DEF Attaches, RenewsLater, Closing
<1>6. LoopsRenew'
  BY <1>1, <1>2, <1>3, <1>5, StartRenews DEF Negotiable
<1>7. QED
  BY <1>1, <1>4, <1>6, ShrinkNegotiable, ShrinkHostRecovers DEF Negotiable, pcVars

(* What the stop of a stream leaves to its loop: the host's new connection. *)
LEMMA StopStreamNegotiable ==
  ASSUME Grounded, Negotiable, NEW g \in Goroutines, Idle(g), NEW c \in Conns,
         StopStream(g, c), UNCHANGED <<made, current, open, resetting>>
  PROVE  /\ LoopsRenew' /\ ResettingIsPending' /\ MembersCanNegotiate'
         /\ KeepsRenewals /\ Pending(<<"renew", Pub(c)>>)'
<1> USE DEF StopStream
<1>1. MovesOn /\ Lasting
  BY DEF MovesOn, Lasting, Over
<1>2. PICK p : Start(g, p) /\ StopsStream(p, c, subscribers)
  BY StopStreamStarts DEF Grounded, MemberTypes
<1>3. LoopsFit
  BY DEF Grounded
<1>4. KeepsRenewals
  BY <1>2, <1>3, StartKeepsRenewals
<1>5. LoopsRenew'
  BY <1>1, <1>2, <1>3, StartRenews DEF Negotiable, StopsStream
<1>6. Pending(<<"renew", Pub(c)>>)'
  <2>1. todo'[g] = p
    BY <1>2, <1>3 DEF Start, LoopsFit
  <2>2. QED
    BY <1>2, <2>1 DEF StopsStream, Pending
<1>7. QED
  BY <1>1, <1>4, <1>5, <1>6, ShrinkNegotiable

LEMMA StopNegotiable ==
  ASSUME Grounded, Negotiable, NEW c \in Conns, Stop(c)
  PROVE  Negotiable'
<1>1. Session(c) \in Goroutines
  BY GoroutineNames
<1>2. LoopsRenew' /\ ResettingIsPending' /\ MembersCanNegotiate' /\ KeepsRenewals
  BY <1>1, StopStreamNegotiable DEF Stop, pcVars
<1>3. HostRecovers'
  BY <1>2, ShrinkHostRecovers DEF Stop, StopStream, pcVars
<1>4. QED
  BY <1>2, <1>3 DEF Negotiable

(* A callback that finds nothing to stop leaves a host whose connection is *)
(* alive or about to be replaced.                                          *)
LEMMA CallbackStopsNegotiable ==
  ASSUME Grounded, Negotiable, NEW c \in Conns, CallbackStops(c)
  PROVE  Negotiable'
<1> USE DEF CallbackStops
<1>1. Callback(c) \in Goroutines /\ \A d \in Conns : PC(Pub(d))' = PC(Pub(d))
  BY GoroutineNames DEF PC
<1>2. CASE StopStream(Callback(c), c)
  <2>1. /\ LoopsRenew' /\ ResettingIsPending' /\ MembersCanNegotiate'
        /\ KeepsRenewals /\ Pending(<<"renew", Pub(c)>>)'
    BY <1>1, <1>2, StopStreamNegotiable
  <2>2. publisher' = publisher
    BY <1>2 DEF StopStream
  <2>3. HostRecovers'
    BY <1>1, <2>1, <2>2, PeersAreTwo DEF Negotiable, HostRecovers, KeepsRenewals
  <2>4. QED
    BY <2>1, <2>3 DEF Negotiable
<1>3. CASE ~CanStop(c) /\ UNCHANGED <<memberVars, todo>>
  <2>1. KeepsRenewals /\ LoopsRenew' /\ MovesOn
    BY <1>3, MovesOnStable DEF KeepsRenewals, Pending, Negotiable, LoopsRenew, Over, memberVars
  <2>2. ResettingIsPending' /\ MembersCanNegotiate'
    BY <1>3, <2>1, ShrinkNegotiable DEF memberVars
  <2>3. HostRecovers'
    <3>1. publisher = c => c \in resetting \/ PC(Pub(c)) \in open \ failed
      BY <1>3 DEF CanStop, NeedsReset
    <3>2. publisher = c /\ c \in resetting => Pending(<<"renew", Pub(c)>>)
      BY DEF Negotiable, ResettingIsPending
    <3>3. \A d \in Conns : Pending(<<"renew", Pub(d)>>) => Pending(<<"renew", Pub(d)>>)'
      BY <2>1, PeersAreTwo DEF KeepsRenewals
    <3>4. publisher' = publisher
      BY <1>3 DEF memberVars
    <3>5. QED
      BY <1>1, <3>1, <3>2, <3>3, <3>4 DEF Negotiable, HostRecovers
  <2>4. QED
    BY <2>1, <2>2, <2>3 DEF Negotiable
<1>4. QED
  BY <1>2, <1>3

(* A connection that is made for s is not one that is closed or failed.    *)
LEMMA NewPCNegotiable ==
  ASSUME Grounded, NEW s \in Peers, NewPC(s), open' = open \cup {<<s, made[s] + 1>>},
         UNCHANGED failed
  PROVE  /\ PC(s)' \in open' /\ PC(s)' \notin failed'
         /\ \A x \in Peers \ {s} : PC(x)' = PC(x)
<1>1. PC(s)' = <<s, made[s] + 1>> /\ made[s] \in Nat
  BY DEF Grounded, PCTypes, NewPC, PC
<1>2. <<s, made[s] + 1>> \notin failed
  BY <1>1 DEF Grounded, PCTypes
<1>3. \A x \in Peers \ {s} : PC(x)' = PC(x)
  BY DEF Grounded, PCTypes, NewPC, PC
<1>4. QED
  BY <1>1, <1>2, <1>3

LEMMA AddPublisherNegotiable ==
  ASSUME Grounded, Negotiable, NEW c \in Conns, AddPublisher(c)
  PROVE  Negotiable'
<1> USE DEF AddPublisher
<1>1. /\ PC(Pub(c))' \in open' /\ PC(Pub(c))' \notin failed'
      /\ \A x \in Peers \ {Pub(c)} : PC(x)' = PC(x)
  BY PeersAreTwo, NewPCNegotiable
<1>2. KeepsRenewals /\ Lasting
  BY PeersAreTwo DEF KeepsRenewals, Pending, Lasting, Over, Grounded, MemberTypes
<1>3. LoopsRenew'
  BY <1>2 DEF Negotiable, LoopsRenew, Lasting
<1>4. ResettingIsPending'
  <2>1. c \notin resetting
    BY DEF Negotiable, ResettingIsPending
  <2>2. QED
    BY <2>1 DEF Negotiable, ResettingIsPending, Grounded, PCTypes, MemberTypes
<1>5. MembersCanNegotiate'
  <2>1. \A s \in Members' : s = Pub(c) \/ s \in Members \ {Pub(c)}
    BY PeersAreTwo DEF Members
  <2>2. \A s \in Members : s \in Peers
    BY MembersAreNotOver
  <2>3. QED
    BY <1>1, <1>2, <2>1, <2>2 DEF Negotiable, MembersCanNegotiate, KeepsRenewals
<1>6. HostRecovers'
  BY <1>1 DEF HostRecovers
<1>7. QED
  BY <1>3, <1>4, <1>5, <1>6 DEF Negotiable

LEMMA AddSubscriberNegotiable ==
  ASSUME Grounded, Negotiable, NEW c \in Conns, AddSubscriber(c)
  PROVE  Negotiable'
<1> USE DEF AddSubscriber
<1>1. /\ PC(Sub(c))' \in open'
      /\ \A x \in Peers \ {Sub(c)} : PC(x)' = PC(x)
      /\ \A d \in Conns : PC(Pub(d))' = PC(Pub(d))
  BY PeersAreTwo, NewPCNegotiable
<1>2. PICK p : Start(Welcome(c), p) /\ Attaches(p, {Sub(c)} \X tracks)
  BY AddSubscriberStarts DEF Grounded, MemberTypes
<1>3. Welcome(c) \in Goroutines /\ Welcome(c) \in AttachLoops /\ LoopsFit
  BY GoroutineNames, GoroutinesDiffer DEF Grounded
<1>4. Lasting
  BY PeersAreTwo DEF Lasting, Over, Grounded, MemberTypes
<1>5. KeepsRenewals
  BY <1>2, <1>3, StartKeepsRenewals
<1>6. \A s \in Peers : RenewsLater(p, s)
  BY <1>2 DEF Attaches, RenewsLater, Closing
<1>7. LoopsRenew'
  BY <1>2, <1>3, <1>4, <1>6, StartRenews DEF Negotiable
<1>8. ResettingIsPending'
  <2>1. c \notin resetting
    BY DEF Negotiable, ResettingIsPending
  <2>2. QED
    BY <1>5, <2>1, PeersAreTwo
    DEF Negotiable, ResettingIsPending, Grounded, PCTypes, MemberTypes, KeepsRenewals
<1>9. MembersCanNegotiate'
  <2>1. \A s \in Members' : s = Sub(c) \/ s \in Members \ {Sub(c)}
    BY PeersAreTwo DEF Members
  <2>2. \A s \in Members : s \in Peers
    BY MembersAreNotOver
  <2>3. QED
    BY <1>1, <1>5, <2>1, <2>2 DEF Negotiable, MembersCanNegotiate, KeepsRenewals
<1>10. HostRecovers'
  BY <1>1, <1>5, PeersAreTwo DEF Negotiable, HostRecovers, KeepsRenewals
<1>11. QED
  BY <1>7, <1>8, <1>9, <1>10 DEF Negotiable

----------------------------------------------------------------------------
(* Media, the callbacks and the loops. *)

LEMMA MediaEventsNegotiable ==
  ASSUME Grounded, Negotiable,
         \/ \E t \in Tracks : TrackArrives(t)
         \/ \E c \in Conns : PCFails(c)
         \/ \E c \in Conns, pc \in events : OnConnectionStateChange(c, pc)
         \/ UNCHANGED vars
  PROVE  Negotiable'
<1> USE DEF TrackArrives, PCFails, OnConnectionStateChange, vars
<1>1. UNCHANGED <<memberVars, made, current, open, resetting, todo>>
  BY DEF pcVars
<1>2. KeepsRenewals /\ LoopsRenew' /\ MovesOn
  BY <1>1, MovesOnStable DEF KeepsRenewals, Pending, Negotiable, LoopsRenew, Over, memberVars
<1>3. ResettingIsPending' /\ MembersCanNegotiate'
  BY <1>1, <1>2, ShrinkNegotiable DEF memberVars
<1>4. /\ publisher' = publisher
      /\ \A c \in Conns : Pub(c) \in Peers /\ PC(Pub(c))' = PC(Pub(c))
      /\ \A c \in Conns : Pending(<<"renew", Pub(c)>>) => Pending(<<"renew", Pub(c)>>)'
  BY <1>1, <1>2, PeersAreTwo DEF PC, memberVars, KeepsRenewals
<1>5. CASE (\E t \in Tracks : TrackArrives(t)) \/ UNCHANGED vars
  BY <1>1, <1>2, <1>3, <1>5, ShrinkHostRecovers DEF pcVars, Negotiable, memberVars
<1>6. CASE \E c \in Conns : PCFails(c)
  <2>1. PICK c \in Conns : PCFails(c)
    BY <1>6
  <2>2. HostRecovers'
    BY <1>4, <2>1 DEF Negotiable, HostRecovers
  <2>3. QED
    BY <1>2, <1>3, <2>2 DEF Negotiable
<1>7. CASE \E c \in Conns, pc \in events : OnConnectionStateChange(c, pc)
  <2>1. PICK c \in Conns, pc \in events : OnConnectionStateChange(c, pc)
    BY <1>7
  <2>2. \A d \in Conns : PC(Pub(d)) = pc => d = c
    BY <2>1, PeersAreTwo DEF PC
  <2>3. publisher = c /\ c \in resetting => Pending(<<"renew", Pub(c)>>)
    BY DEF Negotiable, ResettingIsPending
  <2>4. open' = open /\ failed' = failed
    BY <2>1
  <2>5. \A d \in Conns : PC(Pub(d)) \in events => PC(Pub(d)) \in events' \/ d = c
    BY <2>1, <2>2
  <2>6. armed \subseteq armed'
    BY <2>1
  <2>7. ASSUME publisher = c, PC(Pub(c)) \in events
        PROVE  \/ PC(Pub(c)) \in events' \/ c \in armed' \/ c \in resetting
    BY <2>1, <2>7
  <2>8. HostRecovers'
    BY <1>4, <2>3, <2>4, <2>5, <2>6, <2>7 DEF Negotiable, HostRecovers
  <2>9. QED
    BY <1>2, <1>3, <2>8 DEF Negotiable
<1>8. QED
  BY <1>5, <1>6, <1>7

LEMMA CloseStepNegotiable ==
  ASSUME Grounded, Negotiable, NEW g \in Goroutines, ~Idle(g), NEW s \in Peers, CloseStep(g, s)
  PROVE  Negotiable'
<1> USE DEF CloseStep
<1>1. LoopsFit /\ LoopsRenew /\ UNCHANGED memberVars /\ Advance(g)
  BY DEF Grounded, Negotiable
<1>2. LoopsRenew' /\ (Over(s) \/ Pending(<<"renew", s>>)')
  BY <1>1, AdvanceRenews DEF Closing
<1>3. \A x \in Peers : Head(todo[g]) # <<"renew", x>>
  OBVIOUS
<1>4. KeepsRenewals
  BY <1>1, <1>3, AdvanceKeepsPending DEF KeepsRenewals
<1>5. /\ UNCHANGED <<publisher, subscribers, session>> /\ Members' = Members
      /\ \A x : PC(x)' = PC(x)
      /\ \A x : x # s => PC(x) # PC(s)
  BY DEF memberVars, PC, Members
<1>6. ASSUME NEW x \in Members PROVE PC(x)' \in open' \/ Pending(<<"renew", x>>)'
  <2>1. x \in Peers /\ ~Over(x)
    BY MembersAreNotOver
  <2>2. CASE x = s
    BY <1>2, <2>1, <2>2
  <2>3. CASE x # s
    BY <1>4, <1>5, <2>1, <2>3 DEF Negotiable, MembersCanNegotiate, ClosePC, KeepsRenewals
  <2>4. QED
    BY <2>2, <2>3
<1>7. MembersCanNegotiate'
  BY <1>5, <1>6 DEF MembersCanNegotiate
<1>8. ResettingIsPending'
  <2>1. ASSUME NEW c \in resetting'
        PROVE  session[c] \in {"publisher", "left"} /\ (publisher = c => Pending(<<"renew", Pub(c)>>)')
    <3>1. CASE c \in resetting
      <4>1. c \in Conns /\ Pub(c) \in Peers
        BY <3>1, PeersAreTwo DEF Grounded, PCTypes
      <4>2. QED
        BY <1>4, <3>1, <4>1 DEF Negotiable, ResettingIsPending, KeepsRenewals
    <3>2. CASE c = s[1] /\ Head(todo[g]) = <<"retire", s>>
      <4>1. Fits(g, <<"retire", s>>, subscribers, session)
        BY <1>1, <3>2, AdvanceFits, ZenonT(60) DEF LoopsFit
      <4>2. s = Pub(c) /\ session[c] \in {"publisher", "left"} /\ c \in Conns
        BY <3>2, <4>1, PeersAreTwo DEF Fits
      <4>3. publisher = c => ~Over(s)
        BY <4>2, MembersAreNotOver
      <4>4. QED
        BY <1>2, <4>2, <4>3
    <3>3. QED
      BY <2>1, <3>1, <3>2
  <2>2. QED
    BY <1>5, <2>1 DEF ResettingIsPending
<1>9. HostRecovers'
  <2>1. ASSUME NEW c \in Conns, publisher = c
        PROVE  \/ PC(Pub(c)) \in open' \ failed'
               \/ PC(Pub(c)) \in events' \/ c \in armed'
               \/ Pending(<<"renew", Pub(c)>>)'
    <3>1. Pub(c) \in Peers /\ ~Over(Pub(c))
      BY <2>1, MembersAreNotOver
    <3>2. CASE Pub(c) = s
      BY <1>2, <3>1, <3>2
    <3>3. CASE Pub(c) # s
      BY <1>4, <1>5, <2>1, <3>1, <3>3 DEF Negotiable, HostRecovers, ClosePC, KeepsRenewals
    <3>4. QED
      BY <3>2, <3>3
  <2>2. QED
    BY <1>5, <2>1 DEF HostRecovers
<1>10. QED
  BY <1>2, <1>7, <1>8, <1>9 DEF Negotiable

LEMMA RenewStepNegotiable ==
  ASSUME Grounded, Negotiable, NEW g \in Goroutines, ~Idle(g), NEW s \in Peers, RenewStep(g, s)
  PROVE  Negotiable'
<1> USE DEF RenewStep
<1>1. LoopsFit /\ LoopsRenew /\ UNCHANGED memberVars /\ Advance(g)
  BY DEF Grounded, Negotiable
<1>2. LoopsRenew'
  BY <1>1, AdvanceRenews
<1>3. \A x \in Peers \ {s} : Pending(<<"renew", x>>) => Pending(<<"renew", x>>)'
  BY <1>1, AdvanceKeepsPending
<1>4. /\ PC(s)' \in open' /\ PC(s)' \notin failed'
      /\ \A x \in Peers \ {s} : PC(x)' = PC(x)
  BY NewPCNegotiable
<1>5. UNCHANGED <<publisher, subscribers, session>> /\ Members' = Members
  BY DEF memberVars, Members
<1>6. MembersCanNegotiate'
  <2>1. \A x \in Members : x \in Peers
    BY MembersAreNotOver
  <2>2. QED
    BY <1>3, <1>4, <1>5, <2>1 DEF Negotiable, MembersCanNegotiate
<1>7. ResettingIsPending'
  <2>1. \A c \in resetting' : c \in resetting /\ c \in Conns /\ Pub(c) \in Peers /\ Pub(c) # s
    BY PeersAreTwo DEF Grounded, PCTypes
  <2>2. QED
    BY <1>3, <1>5, <2>1 DEF Negotiable, ResettingIsPending
<1>8. HostRecovers'
  BY <1>3, <1>4, <1>5, PeersAreTwo DEF Negotiable, HostRecovers
<1>9. QED
  BY <1>2, <1>6, <1>7, <1>8 DEF Negotiable

LEMMA DropStepNegotiable ==
  ASSUME Grounded, Negotiable, NEW g \in Goroutines, ~Idle(g), DropStep(g)
  PROVE  Negotiable'
<1> USE DEF DropStep
<1>1. LoopsFit /\ LoopsRenew /\ UNCHANGED memberVars /\ Advance(g)
  BY DEF Grounded, Negotiable
<1>2. LoopsRenew' /\ Lasting
  BY <1>1, AdvanceRenews DEF Lasting, Over, memberVars
<1>3. \A x \in Peers : Head(todo[g]) # <<"renew", x>>
  OBVIOUS
<1>4. KeepsRenewals
  BY <1>1, <1>3, AdvanceKeepsPending DEF KeepsRenewals
<1>5. Head(todo[g])[2][1] \notin Members
  <2>1. Head(todo[g]) \in Instructions /\ Fits(g, Head(todo[g]), subscribers, session)
    BY <1>1, AdvanceFits DEF LoopsFit
  <2>2. PICK pc \in PCs : Head(todo[g]) = <<"drop", pc>>
    BY <2>1, InstructionCases
  <2>3. PICK c \in Conns : pc[1] = Sub(c) /\ c \notin subscribers
    BY <2>1, <2>2 DEF Fits
  <2>4. QED
    BY <2>2, <2>3, MembersAreNotOver
<1>6. /\ UNCHANGED <<publisher, subscribers, session>> /\ Members' = Members
      /\ \A x : PC(x)' = PC(x) /\ PC(x)[1] = x
  BY DEF memberVars, PC, Members
<1>7. \A x \in Members : /\ x \in Peers /\ PC(x)' = PC(x)
                         /\ PC(x) \in open => PC(x) \in open'
  BY <1>5, <1>6, MembersAreNotOver DEF ClosePC
<1>8. MembersCanNegotiate'
  BY <1>4, <1>6, <1>7 DEF Negotiable, MembersCanNegotiate, KeepsRenewals
<1>9. ResettingIsPending'
  <2>1. \A c \in resetting : Pub(c) \in Peers
    BY PeersAreTwo DEF Grounded, PCTypes
  <2>2. QED
    BY <1>4, <1>6, <2>1 DEF Negotiable, ResettingIsPending, KeepsRenewals
<1>10. HostRecovers'
  <2>1. \A c \in Conns : publisher = c => Pub(c) \in Members
    BY MembersAreNotOver
  <2>2. failed' \subseteq failed
    BY DEF ClosePC
  <2>3. QED
    BY <1>4, <1>6, <1>7, <2>1, <2>2 DEF Negotiable, HostRecovers, KeepsRenewals
<1>11. QED
  BY <1>2, <1>8, <1>9, <1>10 DEF Negotiable

LEMMA AttachStepNegotiable ==
  ASSUME Grounded, Negotiable, NEW g \in Goroutines, ~Idle(g), NEW s \in Peers, NEW t \in Tracks,
         AttachStep(g, s, t)
  PROVE  Negotiable'
<1> USE DEF AttachStep
<1>1. LoopsFit /\ LoopsRenew /\ UNCHANGED memberVars
  BY DEF Grounded, Negotiable
<1>2. KeepsRenewals /\ LoopsRenew'
  <2>1. CASE Advance(g)
    <3>1. \A x \in Peers : Head(todo[g]) # <<"renew", x>>
      OBVIOUS
    <3>2. QED
      BY <1>1, <2>1, <3>1, AdvanceRenews, AdvanceKeepsPending DEF KeepsRenewals
  <2>2. CASE Start(g, << >>)
    <3>1. g \in AttachLoops
      <4>1. todo[g] \in Seq(Instructions) /\ todo[g] # << >>
        BY <1>1 DEF LoopsFit, Idle
      <4>2. Head(todo[g]) = todo[g][1] /\ 1 \in DOMAIN todo[g]
        BY <4>1
      <4>3. Fits(g, <<"attach", <<s, t>>>>, subscribers, session)
        BY <1>1, <4>2 DEF LoopsFit
      <4>4. QED
        BY <4>3 DEF Fits
    <3>2. \A x \in Peers : RenewsLater(<< >>, x)
      BY DEF RenewsLater
    <3>3. Lasting
      BY <1>1 DEF Lasting, Over, memberVars
    <3>4. QED
      BY <1>1, <2>2, <3>1, <3>2, <3>3, StartKeepsRenewals, StartRenews
  <2>3. QED
    BY <2>1, <2>2 DEF Advance
<1>3. MovesOn
  BY <1>1, MovesOnStable
<1>4. ResettingIsPending' /\ MembersCanNegotiate'
  BY <1>1, <1>2, <1>3, ShrinkNegotiable DEF memberVars
<1>5. HostRecovers'
  BY <1>1, <1>2, ShrinkHostRecovers DEF memberVars
<1>6. QED
  BY <1>2, <1>4, <1>5 DEF Negotiable

LEMMA NextNegotiable == Grounded /\ Negotiable /\ [Next]_vars => Negotiable'
<1> SUFFICES ASSUME Grounded, Negotiable, [Next]_vars PROVE Negotiable'
  OBVIOUS
<1>1. CASE \E c \in Conns :
              \/ AddPublisher(c) \/ AddSubscriber(c)
              \/ PromotePublisher(c) \/ RefusePromotion(c)
              \/ Stop(c) \/ RemovePublisher(c) \/ RemoveSubscriber(c) \/ CallbackStops(c)
  BY <1>1, AddPublisherNegotiable, AddSubscriberNegotiable, PromotePublisherNegotiable,
     RefusePromotionNegotiable, StopNegotiable, RemovePublisherNegotiable,
     RemoveSubscriberNegotiable, CallbackStopsNegotiable
<1>2. CASE Close
  BY <1>2, CloseNegotiable
<1>3. CASE \E t \in Tracks : HandlePublisherTrack(t)
  BY <1>3, HandlePublisherTrackNegotiable
<1>4. CASE \E g \in Goroutines : Step(g)
  BY <1>4, CloseStepNegotiable, RenewStepNegotiable, DropStepNegotiable,
     AttachStepNegotiable DEF Step
<1>5. CASE \/ \E t \in Tracks : TrackArrives(t)
           \/ \E c \in Conns : PCFails(c)
           \/ \E c \in Conns, pc \in events : OnConnectionStateChange(c, pc)
           \/ UNCHANGED vars
  BY <1>5, MediaEventsNegotiable
<1>6. QED
  BY <1>1, <1>2, <1>3, <1>4, <1>5 DEF Next

LEMMA InitNegotiable == Init => Negotiable
<1> SUFFICES ASSUME Init PROVE Negotiable
  OBVIOUS
<1>1. LoopsRenew /\ ResettingIsPending
  BY DEF Init, LoopsRenew, RenewsLater, ResettingIsPending
<1>2. \A c \in Conns : publisher # c
  BY MediaAssumption DEF Init
<1>3. Members = {}
  BY <1>2 DEF Init, Members
<1>4. QED
  BY <1>1, <1>2, <1>3 DEF Negotiable, MembersCanNegotiate, HostRecovers

(* Negotiable is the inductive invariant of the next two theorems.         *)
THEOREM AlwaysNegotiable == Spec => []Negotiable
BY AlwaysGrounded, InitNegotiable, NextNegotiable, PTL DEF Spec

(* Whatever loops overlap, a member of the room has an open connection or  *)
(* some loop is going to make it one: a loop renews what it closes unless  *)
(* the peer has left or the room is closed.                                *)
THEOREM MembersAlwaysNegotiate == Spec => []MembersCanNegotiate
<1>1. Negotiable => MembersCanNegotiate
  BY DEF Negotiable
<1>2. QED
  BY <1>1, AlwaysNegotiable, PTL

(* A host whose connection is dead is never forgotten, although the        *)
(* callbacks are skipped while resetting is set: a connection that is      *)
(* being reset has its renewal in some loop.                               *)
THEOREM HostAlwaysRecovers == Spec => []HostRecovers
<1>1. Negotiable => HostRecovers
  BY DEF Negotiable
<1>2. QED
  BY <1>1, AlwaysNegotiable, PTL

----------------------------------------------------------------------------
(* Each track is added once. *)

Att(s, t) == <<"attach", <<s, t>>>>

Holds(g, a) == \E i \in DOMAIN todo[g] : todo[g][i] = a

Distinct(p) == \A i, j \in DOMAIN p : p[i][1] = "attach" /\ p[i] = p[j] => i = j

(* A track that has not reached r.tracks.                                  *)
Fresh(t) == t \in arriving \/ source[t] = NoConn

TracksAreNew ==
    /\ \A t \in arriving : source[t] # NoConn
    /\ \A t \in Tracks : Fresh(t) => t \notin tracks /\ \A a \in attached : a[2] # t

(* Only the goroutine of the guest and that of the track add the track to  *)
(* the guest's connection, and only one of them.                           *)
LoopsAttachOnce ==
    /\ \A g \in Goroutines : Distinct(todo[g])
    /\ \A g \in Goroutines, s \in Peers, t \in Tracks : Holds(g, Att(s, t)) =>
           /\ session[s[1]] # "new"
           /\ g \in {Welcome(s[1]), OnTrack(t)}
           /\ <<PC(s), t>> \notin attached
           /\ ~Fresh(t)
    /\ \A g, h \in Goroutines, s \in Peers, t \in Tracks :
           Holds(g, Att(s, t)) /\ Holds(h, Att(s, t)) => g = h

Once == TracksAreNew /\ LoopsAttachOnce

LEMMA OnceIsAttachOnce == Once => AttachOnce
BY PeersAreTwo DEF Once, LoopsAttachOnce, AttachOnce, Holds, Pending, Att

(* A step that adds nothing, and adds to no loop that adds.                *)
LEMMA OnceKept ==
  ASSUME Grounded, Grounded', Once,
         \A g \in AttachLoops : todo'[g] = todo[g],
         \A s \in Peers, t \in Tracks : <<PC(s), t>> \notin attached => <<PC(s), t>>' \notin attached',
         attached' \subseteq attached, tracks' \subseteq tracks,
         \A t \in arriving' : source'[t] # NoConn,
         \A t \in Tracks : Fresh(t)' => Fresh(t),
         \A c \in Conns : session[c] # "new" => session'[c] # "new"
  PROVE  Once'
<1>1. TracksAreNew'
  BY DEF Once, TracksAreNew
<1>2. ASSUME NEW g \in Goroutines
      PROVE  /\ Distinct(todo'[g])
             /\ \A s \in Peers, t \in Tracks : Holds(g, Att(s, t))' => Holds(g, Att(s, t))
  <2>1. CASE g \in AttachLoops
    BY <2>1 DEF Once, LoopsAttachOnce, Holds
  <2>2. CASE g \notin AttachLoops
    <3>1. \A i \in DOMAIN todo'[g] : todo'[g][i][1] # "attach"
      BY <2>2 DEF Grounded, LoopsFit, Fits
    <3>2. QED
      BY <3>1 DEF Distinct, Holds, Att
  <2>3. QED
    BY <2>1, <2>2
<1>3. \A g \in Goroutines, s \in Peers, t \in Tracks : Holds(g, Att(s, t))' =>
           /\ session'[s[1]] # "new"
           /\ g \in {Welcome(s[1]), OnTrack(t)}
           /\ <<PC(s), t>>' \notin attached'
           /\ ~Fresh(t)'
  BY <1>2, PeersAreTwo DEF Once, LoopsAttachOnce
<1>4. \A g, h \in Goroutines, s \in Peers, t \in Tracks :
           Holds(g, Att(s, t))' /\ Holds(h, Att(s, t))' => g = h
  BY <1>2 DEF Once, LoopsAttachOnce
<1>5. LoopsAttachOnce'
  BY <1>2, <1>3, <1>4 DEF LoopsAttachOnce
<1>6. QED
  BY <1>1, <1>5 DEF Once

LEMMA StartLeavesAttaching ==
  ASSUME LoopsFit, NEW g \in Goroutines, g \notin AttachLoops, NEW p, Start(g, p)
  PROVE  \A h \in AttachLoops : todo'[h] = todo[h]
BY DEF LoopsFit, Start, AttachLoops, Goroutines

(* The actions that leave tracks, attached and peer.PC alone, or clear     *)
(* r.tracks.                                                               *)
LEMMA MembersOnce ==
  ASSUME Grounded, Grounded', Once, NEW c \in Conns,
         \/ PromotePublisher(c) \/ RefusePromotion(c) \/ Stop(c)
         \/ RemovePublisher(c) \/ RemoveSubscriber(c) \/ CallbackStops(c)
  PROVE  Once'
<1>1. UNCHANGED <<made, current, attached, trackVars>> /\ tracks' \subseteq tracks
  BY DEF PromotePublisher, RefusePromotion, Stop, StopStream, RemovePublisher,
     RemoveSubscriber, CallbackStops, pcVars, memberVars
<1>2. \A d \in Conns : session[d] # "new" => session'[d] # "new"
  BY DEF PromotePublisher, RefusePromotion, Stop, StopStream, RemovePublisher,
     RemoveSubscriber, CallbackStops, memberVars, Grounded, MemberTypes
<1>3. \A g \in AttachLoops : todo'[g] = todo[g]
  <2>1. \/ todo' = todo
        \/ \E p : Start(Session(c), p) \/ Start(Callback(c), p)
    BY DEF PromotePublisher, RefusePromotion, Stop, StopStream, RemovePublisher,
       RemoveSubscriber, CallbackStops
  <2>2. QED
    BY <2>1, StartLeavesAttaching, GoroutineNames, GoroutinesDiffer DEF Grounded
<1>4. \A s, t : PC(s)' = PC(s) /\ <<PC(s), t>>' = <<PC(s), t>>
  BY <1>1 DEF PC
<1>5. /\ \A t \in Tracks : Fresh(t)' => Fresh(t)
      /\ \A t \in arriving' : source'[t] # NoConn
  BY <1>1 DEF Fresh, trackVars, Once, TracksAreNew
<1>6. QED
  BY <1>1, <1>2, <1>3, <1>4, <1>5, OnceKept

LEMMA CloseOnce ==
  ASSUME Grounded, Grounded', Once, Close
  PROVE  Once'
<1>1. UNCHANGED <<made, current, attached, trackVars, session>> /\ tracks' \subseteq tracks
  BY DEF Close, pcVars
<1>2. \A g \in AttachLoops : todo'[g] = todo[g]
  <2>1. \E p : Start(Closer, p)
    BY DEF Close
  <2>2. QED
    BY <2>1, StartLeavesAttaching, GoroutineNames, GoroutinesDiffer DEF Grounded
<1>3. \A s, t : PC(s)' = PC(s) /\ <<PC(s), t>>' = <<PC(s), t>>
  BY <1>1 DEF PC
<1>4. /\ \A t \in Tracks : Fresh(t)' => Fresh(t)
      /\ \A t \in arriving' : source'[t] # NoConn
  BY <1>1 DEF Fresh, trackVars, Once, TracksAreNew
<1>5. QED
  BY <1>1, <1>2, <1>3, <1>4, OnceKept

(* Nothing is attached to a connection before it is made.                  *)
LEMMA NewPCOnce ==
  ASSUME Grounded, NEW s \in Peers, NewPC(s)
  PROVE  /\ \A t : <<PC(s), t>>' \notin attached
         /\ \A x \in Peers \ {s}, t \in Tracks : <<PC(x), t>>' = <<PC(x), t>>
<1>1. PC(s)' = <<s, made[s] + 1>> /\ made[s] \in Nat
  BY DEF Grounded, PCTypes, NewPC, PC
<1>2. \A t : <<<<s, made[s] + 1>>, t>> \notin attached
  BY <1>1 DEF Grounded, PCTypes
<1>3. \A x \in Peers \ {s} : PC(x)' = PC(x)
  BY DEF Grounded, PCTypes, NewPC, PC
<1>4. QED
  BY <1>1, <1>2, <1>3

LEMMA AddPublisherOnce ==
  ASSUME Grounded, Grounded', Once, NEW c \in Conns, AddPublisher(c)
  PROVE  Once'
<1> USE DEF AddPublisher
<1>1. Pub(c) \in Peers
  BY PeersAreTwo
<1>2. \A s \in Peers, t \in Tracks : <<PC(s), t>> \notin attached => <<PC(s), t>>' \notin attached'
  BY <1>1, NewPCOnce
<1>3. /\ \A t \in Tracks : Fresh(t)' => Fresh(t)
      /\ \A t \in arriving' : source'[t] # NoConn
  BY DEF Fresh, trackVars, Once, TracksAreNew
<1>4. \A d \in Conns : session[d] # "new" => session'[d] # "new"
  BY DEF Grounded, MemberTypes
<1>5. QED
  BY <1>2, <1>3, <1>4, OnceKept

(* The loops that close and renew.                                         *)
LEMMA LoopsOnce ==
  ASSUME Grounded, Grounded', Once, NEW g \in Goroutines, ~Idle(g),
         DropStep(g) \/ \E s \in Peers : CloseStep(g, s) \/ RenewStep(g, s)
  PROVE  Once'
<1>1. UNCHANGED memberVars /\ UNCHANGED trackVars /\ Advance(g) /\ Head(todo[g])[1] # "attach"
  BY DEF DropStep, CloseStep, RenewStep
<1>2. attached' \subseteq attached
  BY DEF DropStep, CloseStep, RenewStep, ClosePC
<1>3. \A h \in AttachLoops : todo'[h] = todo[h]
  <2>1. Fits(g, Head(todo[g]), subscribers, session)
    BY <1>1, AdvanceFits DEF Grounded, LoopsFit
  <2>2. g \notin AttachLoops
    BY <1>1, <2>1 DEF Fits
  <2>3. QED
    BY <1>1, <2>2, StartLeavesAttaching DEF Grounded, Advance
<1>4. \A s \in Peers, t \in Tracks : <<PC(s), t>> \notin attached => <<PC(s), t>>' \notin attached'
  <2>1. CASE UNCHANGED <<made, current>>
    BY <1>2, <2>1 DEF PC
  <2>2. CASE \E s \in Peers : RenewStep(g, s)
    BY <1>2, <2>2, NewPCOnce DEF RenewStep
  <2>3. QED
    BY <2>1, <2>2 DEF DropStep, CloseStep
<1>5. /\ \A t \in Tracks : Fresh(t)' => Fresh(t)
      /\ \A t \in arriving' : source'[t] # NoConn
  BY <1>1 DEF Fresh, trackVars, Once, TracksAreNew
<1>6. tracks' \subseteq tracks /\ session' = session
  BY <1>1 DEF memberVars
<1>7. QED
  BY <1>2, <1>3, <1>4, <1>5, <1>6, OnceKept

LEMMA MediaEventsOnce ==
  ASSUME Grounded, Grounded', Once,
         \/ \E t \in Tracks : TrackArrives(t)
         \/ \E c \in Conns : PCFails(c)
         \/ \E c \in Conns, pc \in events : OnConnectionStateChange(c, pc)
         \/ UNCHANGED vars
  PROVE  Once'
<1> USE DEF TrackArrives, PCFails, OnConnectionStateChange, vars
<1>1. UNCHANGED <<memberVars, made, current, attached, todo>>
  BY DEF pcVars
<1>2. /\ \A t \in Tracks : Fresh(t)' => Fresh(t)
      /\ \A t \in arriving' : source'[t] # NoConn
  BY DEF Fresh, trackVars, Once, TracksAreNew, Grounded, TrackTypes
<1>3. \A s, t : PC(s)' = PC(s) /\ <<PC(s), t>>' = <<PC(s), t>>
  BY <1>1 DEF PC
<1>4. tracks' \subseteq tracks /\ session' = session
  BY <1>1 DEF memberVars
<1>5. QED
  BY <1>1, <1>2, <1>3, <1>4, OnceKept

(* A guest joins: none of the tracks it is given was on its way to it.     *)
LEMMA AddSubscriberOnce ==
  ASSUME Grounded, Grounded', Once, NEW c \in Conns, AddSubscriber(c)
  PROVE  Once'
<1> USE DEF AddSubscriber
<1>1. PICK p : Start(Welcome(c), p) /\ Attaches(p, {Sub(c)} \X tracks)
  BY AddSubscriberStarts DEF Grounded, MemberTypes
<1>2. \A h \in Goroutines : todo'[h] = IF h = Welcome(c) THEN p ELSE todo[h]
  BY <1>1 DEF Grounded, LoopsFit, Start
<1>3. Sub(c) \in Peers /\ Welcome(c) \in Goroutines /\ Sub(c)[1] = c
  BY PeersAreTwo, GoroutineNames
<1>4. /\ \A t : <<PC(Sub(c)), t>>' \notin attached
      /\ \A x \in Peers \ {Sub(c)}, t \in Tracks : <<PC(x), t>>' = <<PC(x), t>>
  BY <1>3, NewPCOnce
<1>5. /\ UNCHANGED <<tracks, attached, arriving, source>>
      /\ \A t \in Tracks : Fresh(t)' <=> Fresh(t)
  BY DEF trackVars, Fresh
<1>6. TracksAreNew'
  BY <1>5 DEF Once, TracksAreNew
<1>7. \A g \in Goroutines : Distinct(todo'[g])
  BY <1>1, <1>2 DEF Attaches, Distinct, Once, LoopsAttachOnce
<1>8. ASSUME NEW s \in Peers, NEW t \in Tracks, \E i \in DOMAIN p : p[i] = Att(s, t)
      PROVE  s = Sub(c) /\ t \in tracks
  BY <1>1, <1>8 DEF Attaches, Att
<1>9. \A g \in Goroutines, t \in Tracks : ~Holds(g, Att(Sub(c), t))
  BY <1>3 DEF Once, LoopsAttachOnce
<1>10. ASSUME NEW g \in Goroutines, NEW s \in Peers, NEW t \in Tracks, Holds(g, Att(s, t))'
       PROVE  \/ g = Welcome(c) /\ s = Sub(c) /\ t \in tracks
              \/ g # Welcome(c) /\ s # Sub(c) /\ Holds(g, Att(s, t))
  BY <1>2, <1>8, <1>9, <1>10 DEF Holds
<1>11. \A d \in Conns : session[d] # "new" => session'[d] # "new"
  BY DEF Grounded, MemberTypes
<1>12. session'[c] # "new"
  BY DEF Grounded, MemberTypes
<1>13. \A g \in Goroutines, s \in Peers, t \in Tracks : Holds(g, Att(s, t))' =>
           /\ session'[s[1]] # "new"
           /\ g \in {Welcome(s[1]), OnTrack(t)}
           /\ <<PC(s), t>>' \notin attached'
           /\ ~Fresh(t)'
  <2>1. SUFFICES ASSUME NEW g \in Goroutines, NEW s \in Peers, NEW t \in Tracks, Holds(g, Att(s, t))'
                 PROVE  /\ session'[s[1]] # "new"
                        /\ g \in {Welcome(s[1]), OnTrack(t)}
                        /\ <<PC(s), t>>' \notin attached'
                        /\ ~Fresh(t)'
    OBVIOUS
  <2>2. CASE g = Welcome(c) /\ s = Sub(c) /\ t \in tracks
    BY <1>3, <1>4, <1>5, <1>12, <2>2 DEF Once, TracksAreNew
  <2>3. CASE g # Welcome(c) /\ s # Sub(c) /\ Holds(g, Att(s, t))
    BY <1>4, <1>5, <1>11, <2>3, PeersAreTwo DEF Once, LoopsAttachOnce
  <2>4. QED
    BY <1>10, <2>1, <2>2, <2>3
<1>14. \A g, h \in Goroutines, s \in Peers, t \in Tracks :
           Holds(g, Att(s, t))' /\ Holds(h, Att(s, t))' => g = h
  BY <1>10 DEF Once, LoopsAttachOnce
<1>15. LoopsAttachOnce'
  BY <1>7, <1>13, <1>14 DEF LoopsAttachOnce
<1>16. QED
  BY <1>6, <1>15 DEF Once

(* A track reaches r.tracks: no loop and no connection has it yet.         *)
LEMMA HandlePublisherTrackOnce ==
  ASSUME Grounded, Grounded', Once, NEW u \in Tracks, HandlePublisherTrack(u)
  PROVE  Once'
<1> USE DEF HandlePublisherTrack
<1>1. PICK p : Start(OnTrack(u), p) /\ Attaches(p, {Sub(c) : c \in subscribers} \X {u})
  BY HandlePublisherTrackStarts DEF Grounded, MemberTypes
<1>2. \A h \in Goroutines : todo'[h] = IF h = OnTrack(u) THEN p ELSE todo[h]
  BY <1>1 DEF Grounded, LoopsFit, Start
<1>3. OnTrack(u) \in Goroutines
  BY GoroutineNames
<1>4. /\ UNCHANGED <<attached, source, session>>
      /\ \A s, t : <<PC(s), t>>' = <<PC(s), t>>
      /\ \A t \in Tracks : Fresh(t)' <=> Fresh(t) /\ t # u
  BY DEF pcVars, PC, Fresh, Once, TracksAreNew
<1>5. Fresh(u) /\ \A a \in attached : a[2] # u
  BY DEF Fresh, Once, TracksAreNew
<1>6. TracksAreNew'
  BY <1>4 DEF Once, TracksAreNew
<1>7. \A g \in Goroutines : Distinct(todo'[g])
  BY <1>1, <1>2 DEF Attaches, Distinct, Once, LoopsAttachOnce
<1>8. ASSUME NEW s \in Peers, NEW t \in Tracks, \E i \in DOMAIN p : p[i] = Att(s, t)
      PROVE  t = u /\ s[1] \in subscribers
  BY <1>1, <1>8, PeersAreTwo DEF Attaches, Att
<1>9. \A g \in Goroutines, s \in Peers : ~Holds(g, Att(s, u))
  BY <1>5 DEF Once, LoopsAttachOnce
<1>10. ASSUME NEW g \in Goroutines, NEW s \in Peers, NEW t \in Tracks, Holds(g, Att(s, t))'
       PROVE  \/ g = OnTrack(u) /\ t = u /\ s[1] \in subscribers
              \/ g # OnTrack(u) /\ t # u /\ Holds(g, Att(s, t))
  BY <1>2, <1>8, <1>9, <1>10 DEF Holds
<1>11. \A g \in Goroutines, s \in Peers, t \in Tracks : Holds(g, Att(s, t))' =>
           /\ session'[s[1]] # "new"
           /\ g \in {Welcome(s[1]), OnTrack(t)}
           /\ <<PC(s), t>>' \notin attached'
           /\ ~Fresh(t)'
  <2>1. SUFFICES ASSUME NEW g \in Goroutines, NEW s \in Peers, NEW t \in Tracks, Holds(g, Att(s, t))'
                 PROVE  /\ session'[s[1]] # "new"
                        /\ g \in {Welcome(s[1]), OnTrack(t)}
                        /\ <<PC(s), t>>' \notin attached'
                        /\ ~Fresh(t)'
    OBVIOUS
  <2>2. CASE g = OnTrack(u) /\ t = u /\ s[1] \in subscribers
    <3>1. session[s[1]] # "new"
      BY <2>2 DEF Grounded, MembersAreInSession
    <3>2. QED
      BY <1>4, <1>5, <2>2, <3>1
  <2>3. CASE g # OnTrack(u) /\ t # u /\ Holds(g, Att(s, t))
    BY <1>4, <2>3 DEF Once, LoopsAttachOnce
  <2>4. QED
    BY <1>10, <2>1, <2>2, <2>3
<1>12. \A g, h \in Goroutines, s \in Peers, t \in Tracks :
           Holds(g, Att(s, t))' /\ Holds(h, Att(s, t))' => g = h
  BY <1>10 DEF Once, LoopsAttachOnce
<1>13. LoopsAttachOnce'
  BY <1>7, <1>11, <1>12 DEF LoopsAttachOnce
<1>14. QED
  BY <1>6, <1>13 DEF Once

(* The loop that adds a track has it only once.                            *)
LEMMA AttachStepOnce ==
  ASSUME Grounded, Grounded', Once, NEW g \in Goroutines, ~Idle(g), NEW s \in Peers, NEW t \in Tracks,
         AttachStep(g, s, t)
  PROVE  Once'
<1> USE DEF AttachStep
<1> DEFINE q == todo[g]
           r == todo'[g]
           n == Len(q)
<1>1. /\ UNCHANGED <<memberVars, made, current, trackVars, session, tracks, arriving, source>>
      /\ \A x, u : PC(x)' = PC(x) /\ <<PC(x), u>>' = <<PC(x), u>>
      /\ \A u : Fresh(u)' <=> Fresh(u)
      /\ attached' \subseteq attached \cup {<<PC(s), t>>}
  BY DEF PC, Fresh, trackVars, memberVars
<1>2. q \in Seq(Instructions) /\ q # << >>
  BY DEF Grounded, LoopsFit, Idle
<1>3. n \in Nat /\ DOMAIN q = 1..n /\ 1 \in DOMAIN q /\ q[1] = Att(s, t)
  BY <1>2 DEF Att
<1>4. Distinct(q) /\ Holds(g, Att(s, t))
  BY <1>3 DEF Once, LoopsAttachOnce, Holds
<1>5. \A h \in Goroutines \ {g} : todo'[h] = todo[h]
  BY AdvanceFits, AbandonFits DEF Grounded, Advance
<1>6. /\ DOMAIN r \subseteq 1..(n - 1)
      /\ \A i \in DOMAIN r : i + 1 \in DOMAIN q /\ r[i] = q[i + 1]
  <2>1. CASE Advance(g)
    BY <1>3, <2>1, AdvanceFits, SMTT(30) DEF Grounded
  <2>2. CASE Start(g, << >>)
    <3>1. r = << >>
      BY <2>2, AbandonFits DEF Grounded
    <3>2. DOMAIN r = {}
      BY <3>1
    <3>3. QED
      BY <3>2
  <2>3. QED
    BY <2>1, <2>2 DEF Advance
<1> HIDE DEF q, r, n
<1>7. Distinct(r)
  <2>1. SUFFICES ASSUME NEW i \in DOMAIN r, NEW j \in DOMAIN r, r[i][1] = "attach", r[i] = r[j]
                 PROVE  i = j
    BY DEF Distinct
  <2>2. i + 1 = j + 1
    BY <1>4, <1>6, <2>1 DEF Distinct
  <2>3. i \in Int /\ j \in Int
    BY <1>6
  <2>4. QED
    BY <2>2, <2>3
<1>8. \A i \in DOMAIN r : r[i] # Att(s, t)
  <2>1. SUFFICES ASSUME NEW i \in DOMAIN r, r[i] = Att(s, t) PROVE FALSE
    OBVIOUS
  <2>2. q[i + 1] = q[1] /\ q[1][1] = "attach" /\ i + 1 \in DOMAIN q
    BY <1>3, <1>6, <2>1 DEF Att
  <2>3. i + 1 = 1 /\ i \in 1..(n - 1)
    BY <1>3, <1>4, <1>6, <2>2 DEF Distinct
  <2>4. QED
    BY <1>3, <2>3
<1>9. ASSUME NEW h \in Goroutines, NEW x \in Peers, NEW u \in Tracks, Holds(h, Att(x, u))'
      PROVE  Holds(h, Att(x, u)) /\ <<x, u>> # <<s, t>>
  <2>1. CASE h = g
    <3>1. PICK i \in DOMAIN r : r[i] = Att(x, u)
      BY <1>9, <2>1 DEF Holds, r
    <3>2. Holds(g, Att(x, u))
      BY <1>6, <3>1 DEF Holds, q
    <3>3. QED
      BY <1>8, <2>1, <3>1, <3>2
  <2>2. CASE h # g
    <3>1. Holds(h, Att(x, u))
      BY <1>5, <1>9, <2>2 DEF Holds
    <3>2. QED
      BY <1>4, <2>2, <3>1 DEF Once, LoopsAttachOnce
  <2>3. QED
    BY <2>1, <2>2
<1>10. ~Fresh(t)
  BY <1>4 DEF Once, LoopsAttachOnce
<1>11. TracksAreNew'
  BY <1>1, <1>10 DEF Once, TracksAreNew
<1>12. \A h \in Goroutines, x \in Peers, u \in Tracks : Holds(h, Att(x, u))' =>
           /\ session'[x[1]] # "new"
           /\ h \in {Welcome(x[1]), OnTrack(u)}
           /\ <<PC(x), u>>' \notin attached'
           /\ ~Fresh(u)'
  <2>1. \A x, u : <<PC(x), u>> = <<PC(s), t>> => x = s /\ u = t
    BY DEF PC
  <2>2. QED
    BY <1>1, <1>9, <2>1 DEF Once, LoopsAttachOnce
<1>13. \A h, k \in Goroutines, x \in Peers, u \in Tracks :
           Holds(h, Att(x, u))' /\ Holds(k, Att(x, u))' => h = k
  BY <1>9 DEF Once, LoopsAttachOnce
<1>14. \A h \in Goroutines : Distinct(todo'[h])
  BY <1>5, <1>7 DEF Once, LoopsAttachOnce, r
<1>15. LoopsAttachOnce'
  BY <1>12, <1>13, <1>14 DEF LoopsAttachOnce
<1>16. QED
  BY <1>11, <1>15 DEF Once

LEMMA NextOnce == Grounded /\ Grounded' /\ Once /\ [Next]_vars => Once'
<1> SUFFICES ASSUME Grounded, Grounded', Once, [Next]_vars PROVE Once'
  OBVIOUS
<1>1. CASE \E c \in Conns : AddPublisher(c) \/ AddSubscriber(c)
  BY <1>1, AddPublisherOnce, AddSubscriberOnce
<1>2. CASE \E c \in Conns :
              \/ PromotePublisher(c) \/ RefusePromotion(c) \/ Stop(c)
              \/ RemovePublisher(c) \/ RemoveSubscriber(c) \/ CallbackStops(c)
  BY <1>2, MembersOnce
<1>3. CASE Close
  BY <1>3, CloseOnce
<1>4. CASE \E t \in Tracks : HandlePublisherTrack(t)
  BY <1>4, HandlePublisherTrackOnce
<1>5. CASE \E g \in Goroutines : Step(g)
  BY <1>5, LoopsOnce, AttachStepOnce DEF Step
<1>6. CASE \/ \E t \in Tracks : TrackArrives(t)
           \/ \E c \in Conns : PCFails(c)
           \/ \E c \in Conns, pc \in events : OnConnectionStateChange(c, pc)
           \/ UNCHANGED vars
  BY <1>6, MediaEventsOnce
<1>7. QED
  BY <1>1, <1>2, <1>3, <1>4, <1>5, <1>6 DEF Next

LEMMA InitOnce == Init => Once
BY DEF Init, Once, TracksAreNew, LoopsAttachOnce, Distinct, Holds

(* Once is the inductive invariant of TracksAreAttachedOnce.               *)
THEOREM AlwaysOnce == Spec => []Once
BY AlwaysGrounded, InitOnce, NextOnce, PTL DEF Spec

(* However joins and tracks cross, no track is added to a connection of a  *)
(* guest twice: the copy of r.tracks a guest takes and the copy of         *)
(* r.subscribers a track takes never both hold the other.                  *)
THEOREM TracksAreAttachedOnce == Spec => []AttachOnce
BY OnceIsAttachOnce, AlwaysOnce, PTL

----------------------------------------------------------------------------
(* The connections peers were admitted with. *)

First(s) == <<s, 1>>

Dooms(a, s) == Closing(a, s) \/ a = <<"drop", First(s)>>

Doomed(s) == \E a \in Instructions : Dooms(a, s) /\ Pending(a)

(* No loop makes the first connection of a peer: the admission does.       *)
RenewedAreMade ==
    \A g \in Goroutines : \A i \in DOMAIN todo[g], s \in Peers :
        todo[g][i] = <<"renew", s>> => made[s] > 0

(* A connection is admitted once in each role.                             *)
AdmittedOnce ==
    \A c \in Conns :
        /\ session[c] \in {"new", "subscriber", "promoting"} => made[Pub(c)] = 0
        /\ session[c] = "new" => made[Sub(c)] = 0

(* A first connection that is open has not been replaced; it is in the     *)
(* room, or a loop is going to close it, and no loop makes another before  *)
(* it closes this one.                                                     *)
FirstsAreHeld ==
    \A s \in Peers : First(s) \in open =>
        /\ made[s] = 1
        /\ s \in Members \/ Doomed(s)
        /\ \A g \in Goroutines : ClosesFirst(todo[g], s)

Held == RenewedAreMade /\ AdmittedOnce /\ FirstsAreHeld

KeepsDoomed == \A s \in Peers : Doomed(s) => Doomed(s)'

(* What a started loop makes is made already.                              *)
RenewsMade(p) == \A i \in DOMAIN p, s \in Peers : p[i] = <<"renew", s>> => made[s] > 0

LEMMA HeldIsClosed == Grounded /\ Held => AdmittedAreClosed
<1> SUFFICES ASSUME Grounded, Held, closed, Quiet, NEW pc \in open, pc[2] = 1 PROVE FALSE
  BY PCsArePairs DEF AdmittedAreClosed, Grounded, PCTypes
<1>1. pc[1] \in Peers /\ pc = First(pc[1])
  BY PCsArePairs DEF Grounded, PCTypes, First
<1>2. pc[1] \notin Members
  BY <1>1, MembersAreNotOver DEF Over
<1>3. Doomed(pc[1])
  BY <1>1, <1>2 DEF Held, FirstsAreHeld
<1>4. \A g \in Goroutines : DOMAIN todo[g] = {}
  BY DEF Quiet, Idle
<1>5. QED
  BY <1>3, <1>4 DEF Doomed, Pending

LEMMA DoomsNotAttach ==
  ASSUME NEW a, NEW s, Dooms(a, s)
  PROVE  a[1] # "attach"
BY DEF Dooms, Closing

LEMMA StartKeepsDoomed ==
  ASSUME LoopsFit, NEW g \in Goroutines, NEW p, Start(g, p),
         Idle(g) \/ g \in AttachLoops
  PROVE  KeepsDoomed
BY StartKeepsPending, DoomsNotAttach DEF KeepsDoomed, Doomed

(* A step under Room.mu: it starts at most one loop, makes no connection   *)
(* and closes none; a member it removes is doomed.                         *)
LEMMA StartHeld ==
  ASSUME Grounded, Held, UNCHANGED <<made, open>>, NEW g \in Goroutines, NEW p, Start(g, p),
         Idle(g) \/ g \in AttachLoops,
         RenewsMade(p), \A s \in Peers : ClosesFirst(p, s),
         \A c \in Conns : session'[c] \in {"new", "subscriber", "promoting"} =>
             /\ session[c] \in {"new", "subscriber", "promoting"}
             /\ session'[c] = "new" => session[c] = "new",
         \A s \in Peers : s \in Members /\ First(s) \in open /\ made[s] = 1 => s \in Members' \/ Doomed(s)'
  PROVE  Held'
<1>1. \A h \in Goroutines : todo'[h] = IF h = g THEN p ELSE todo[h]
  BY DEF Grounded, LoopsFit, Start
<1>2. RenewedAreMade'
  <2>1. ASSUME NEW h \in Goroutines, NEW i \in DOMAIN todo'[h], NEW s \in Peers,
               todo'[h][i] = <<"renew", s>>
        PROVE  made[s] > 0
    BY <1>1, <2>1 DEF Held, RenewedAreMade, RenewsMade
  <2>2. QED
    BY <2>1 DEF RenewedAreMade
<1>3. AdmittedOnce'
  BY DEF Held, AdmittedOnce
<1>4. KeepsDoomed
  BY StartKeepsDoomed DEF Grounded
<1>5. FirstsAreHeld'
  <2>1. ASSUME NEW s \in Peers, First(s) \in open
        PROVE  /\ made[s] = 1
               /\ s \in Members' \/ Doomed(s)'
               /\ \A h \in Goroutines : ClosesFirst(todo'[h], s)
    BY <1>1, <1>4, <2>1 DEF Held, FirstsAreHeld, KeepsDoomed
  <2>2. QED
    BY <2>1 DEF FirstsAreHeld
<1>6. QED
  BY <1>2, <1>3, <1>5 DEF Held

LEMMA FrameHeld ==
  ASSUME Grounded, Held, UNCHANGED <<made, open, todo>>, Members \subseteq Members',
         \A c \in Conns : session'[c] \in {"new", "subscriber", "promoting"} =>
             /\ session[c] \in {"new", "subscriber", "promoting"}
             /\ session'[c] = "new" => session[c] = "new"
  PROVE  Held'
<1>1. RenewedAreMade'
  BY DEF Held, RenewedAreMade
<1>2. AdmittedOnce'
  BY DEF Held, AdmittedOnce
<1>3. \A s : Doomed(s)' <=> Doomed(s)
  BY DEF Doomed, Pending
<1>4. FirstsAreHeld'
  BY <1>3 DEF Held, FirstsAreHeld
<1>5. QED
  BY <1>1, <1>2, <1>4 DEF Held

LEMMA ReplacesMade ==
  ASSUME Grounded, NEW c \in Conns, publisher = c, NEW p, ReplacesOnly(p, c, subscribers)
  PROVE  RenewsMade(p)
<1>1. \A s \in {Pub(c)} \cup {Sub(d) : d \in subscribers} : made[s] > 0
  BY DEF Grounded, MembersAreInSession
<1>2. QED
  BY <1>1 DEF ReplacesOnly, RenewsMade

LEMMA StopStreamHeld ==
  ASSUME Grounded, Held, NEW g \in Goroutines, Idle(g), NEW c \in Conns,
         StopStream(g, c), UNCHANGED <<made, open>>
  PROVE  Held'
<1> USE DEF StopStream
<1>1. PICK p : Start(g, p) /\ StopsStream(p, c, subscribers)
  BY StopStreamStarts DEF Grounded, MemberTypes
<1>2. RenewsMade(p) /\ \A s \in Peers : ClosesFirst(p, s)
  BY <1>1, ReplacesMade DEF StopsStream, CanStop
<1>3. Members' = Members
  BY DEF Members
<1>4. QED
  BY <1>1, <1>2, <1>3, StartHeld

LEMMA RemovePublisherHeld ==
  ASSUME Grounded, Held, NEW c \in Conns, RemovePublisher(c)
  PROVE  Held'
<1> USE DEF RemovePublisher
<1>1. \A d \in Conns : session'[d] \in {"new", "subscriber", "promoting"} => session'[d] = session[d]
  BY DEF Grounded, MemberTypes
<1>2. CASE publisher = c
  <2>1. PICK p : Start(Session(c), p) /\ Leaves(p, c, subscribers)
    BY <1>2, RemovePublisherStarts DEF Grounded, MemberTypes
  <2>2. Session(c) \in Goroutines /\ Pub(c) \in Peers /\ <<"retire", Pub(c)>> \in Instructions
    BY GoroutineNames, PeersAreTwo, InstructionKinds
  <2>3. RenewsMade(p) /\ \A s \in Peers : ClosesFirst(p, s)
    BY <1>2, <2>1, ReplacesMade DEF Leaves
  <2>4. Doomed(Pub(c))'
    <3>1. todo'[Session(c)] = p
      BY <2>1, <2>2 DEF Grounded, LoopsFit, Start
    <3>2. Pending(<<"retire", Pub(c)>>)'
      BY <2>1, <2>2, <3>1 DEF Leaves, Pending
    <3>3. QED
      BY <2>2, <3>2 DEF Doomed, Dooms, Closing
  <2>5. \A s \in Members : s = Pub(c) \/ s \in Members'
    BY <1>2 DEF Members
  <2>6. QED
    BY <1>1, <2>1, <2>2, <2>3, <2>4, <2>5, StartHeld DEF pcVars
<1>3. CASE publisher # c
  BY <1>1, <1>3, FrameHeld DEF Members, pcVars
<1>4. QED
  BY <1>2, <1>3

LEMMA RemoveSubscriberHeld ==
  ASSUME Grounded, Held, NEW c \in Conns, RemoveSubscriber(c)
  PROVE  Held'
<1> USE DEF RemoveSubscriber
<1>1. \A d \in Conns : session'[d] \in {"new", "subscriber", "promoting"} => session'[d] = session[d]
  BY DEF Grounded, MemberTypes
<1>2. PICK p : /\ p = IF c \in subscribers THEN << <<"close", Sub(c)>> >> ELSE << >>
               /\ Start(Session(c), p)
  OBVIOUS
<1>3. /\ Session(c) \in Goroutines /\ Sub(c) \in Peers /\ <<"close", Sub(c)>> \in Instructions
      /\ todo'[Session(c)] = p
  BY <1>2, GoroutineNames, PeersAreTwo, InstructionKinds DEF Grounded, LoopsFit, Start
<1>4. RenewsMade(p) /\ \A s \in Peers : ClosesFirst(p, s)
  BY <1>2 DEF RenewsMade, ClosesFirst
<1>5. c \in subscribers => Doomed(Sub(c))'
  <2>1. c \in subscribers => Pending(<<"close", Sub(c)>>)'
    BY <1>2, <1>3 DEF Pending
  <2>2. QED
    BY <1>3, <2>1 DEF Doomed, Dooms, Closing
<1>6. \A s \in Members : s \in Members' \/ (s = Sub(c) /\ c \in subscribers)
  BY DEF Members
<1>7. QED
  BY <1>1, <1>2, <1>3, <1>4, <1>5, <1>6, StartHeld DEF pcVars

(* The connection the guest had is dropped after the unlock.               *)
LEMMA PromotePublisherHeld ==
  ASSUME Grounded, Held, NEW c \in Conns, PromotePublisher(c)
  PROVE  Held'
<1> USE DEF PromotePublisher
<1>1. \A d \in Conns : session'[d] \in {"new", "subscriber", "promoting"} =>
          /\ session[d] \in {"new", "subscriber", "promoting"}
          /\ session'[d] = "new" => session[d] = "new"
  BY DEF Grounded, MemberTypes
<1>2. /\ Session(c) \in Goroutines /\ Sub(c) \in Peers
      /\ todo'[Session(c)] = DropGuestPC(c)
  BY GoroutineNames, PeersAreTwo DEF Grounded, LoopsFit, Start
<1>3. RenewsMade(DropGuestPC(c)) /\ \A s \in Peers : ClosesFirst(DropGuestPC(c), s)
  BY DEF RenewsMade, ClosesFirst, DropGuestPC
<1>4. ASSUME c \in subscribers, made[Sub(c)] = 1 PROVE Doomed(Sub(c))'
  <2>1. PC(Sub(c)) = First(Sub(c)) /\ First(Sub(c)) \in PCs
    BY <1>2, <1>4, PCsArePairs, MaxPCsPositive DEF PC, First, Grounded, PCTypes
  <2>2. DropGuestPC(c) = << <<"drop", First(Sub(c))>> >>
    BY <1>4, <2>1 DEF DropGuestPC
  <2>3. Pending(<<"drop", First(Sub(c))>>)'
    BY <1>2, <2>2 DEF Pending
  <2>4. <<"drop", First(Sub(c))>> \in Instructions
    BY <2>1, InstructionKinds
  <2>5. QED
    BY <2>3, <2>4 DEF Doomed, Dooms
<1>5. \A s \in Members : s \in Members' \/ (s = Sub(c) /\ c \in subscribers)
  BY DEF Members
<1>6. QED
  BY <1>1, <1>2, <1>3, <1>4, <1>5, StartHeld DEF pcVars

LEMMA CloseHeld ==
  ASSUME Grounded, Held, Close
  PROVE  Held'
<1> USE DEF Close
<1>1. PICK p : Start(Closer, p) /\ ClosesAll(p, publisher, subscribers)
  BY CloseStarts DEF Grounded, MemberTypes
<1>2. Closer \in Goroutines /\ Idle(Closer) /\ todo'[Closer] = p
  BY <1>1, GoroutineNames DEF Grounded, LoopsFit, Idle, Start
<1>3. RenewsMade(p) /\ \A s \in Peers : ClosesFirst(p, s)
  BY <1>1 DEF RenewsMade, ClosesFirst, ClosesAll
<1>4. \A s \in Members : \E i \in DOMAIN p : p[i] = <<"close", s>>
  BY <1>1 DEF Members, ClosesAll
<1>5. \A s \in Members : Doomed(s)'
  <2>1. \A s \in Members : s \in Peers /\ <<"close", s>> \in Instructions
    BY MembersAreNotOver, InstructionKinds
  <2>2. QED
    BY <1>2, <1>4, <2>1 DEF Doomed, Dooms, Closing, Pending
<1>6. QED
  BY <1>1, <1>2, <1>3, <1>5, StartHeld DEF pcVars

LEMMA HandlePublisherTrackHeld ==
  ASSUME Grounded, Held, NEW t \in Tracks, HandlePublisherTrack(t)
  PROVE  Held'
<1> USE DEF HandlePublisherTrack
<1>1. PICK p : Start(OnTrack(t), p) /\ Attaches(p, {Sub(c) : c \in subscribers} \X {t})
  BY HandlePublisherTrackStarts DEF Grounded, MemberTypes
<1>2. OnTrack(t) \in Goroutines /\ OnTrack(t) \in AttachLoops
  BY GoroutineNames, GoroutinesDiffer
<1>3. RenewsMade(p) /\ \A s \in Peers : ClosesFirst(p, s)
  BY <1>1 DEF RenewsMade, ClosesFirst, Attaches
<1>4. Members' = Members
  BY DEF Members
<1>5. QED
  BY <1>1, <1>2, <1>3, <1>4, StartHeld DEF pcVars

LEMMA QuietHeld ==
  ASSUME Grounded, Held,
         \/ \E c \in Conns : RefusePromotion(c) \/ PCFails(c) \/ (CallbackStops(c) /\ ~CanStop(c))
         \/ \E t \in Tracks : TrackArrives(t)
         \/ \E c \in Conns, pc \in events : OnConnectionStateChange(c, pc)
         \/ UNCHANGED vars
  PROVE  Held'
<1> USE DEF TrackArrives, PCFails, OnConnectionStateChange, vars, RefusePromotion, CallbackStops,
            StopStream, pcVars, memberVars
<1>1. UNCHANGED <<made, open, todo, publisher, subscribers>>
  OBVIOUS
<1>2. Members' = Members
  BY <1>1 DEF Members
<1>3. \A d \in Conns : session'[d] \in {"new", "subscriber", "promoting"} =>
          /\ session[d] \in {"new", "subscriber", "promoting"}
          /\ session'[d] = "new" => session[d] = "new"
  BY DEF Grounded, MemberTypes
<1>4. QED
  BY <1>1, <1>2, <1>3, FrameHeld

(* A peer is admitted: it had no connection before.                        *)
LEMMA AdmitHeld ==
  ASSUME Grounded, Held, NEW x \in Peers, NewPC(x), open' = open \cup {<<x, made[x] + 1>>},
         made[x] = 0, x \in Members', Members \subseteq Members', KeepsDoomed, AdmittedOnce',
         \A g \in Goroutines : todo'[g] = todo[g] \/ \A i \in DOMAIN todo'[g] : todo'[g][i][1] = "attach"
  PROVE  Held'
<1>1. /\ made'[x] = 1 /\ open' = open \cup {First(x)}
      /\ \A s \in Peers \ {x} : made'[s] = made[s]
      /\ \A s \in Peers : made[s] > 0 => made'[s] > 0
  BY DEF NewPC, First, Grounded, PCTypes
<1>2. ASSUME NEW g \in Goroutines, NEW i \in DOMAIN todo'[g], NEW s \in Peers,
             todo'[g][i] = <<"renew", s>>
      PROVE  todo'[g] = todo[g] /\ made[s] > 0 /\ s # x
  BY <1>2 DEF Held, RenewedAreMade
<1>3. RenewedAreMade'
  BY <1>1, <1>2 DEF RenewedAreMade
<1>4. ASSUME NEW s \in Peers, NEW g \in Goroutines, s = x \/ ClosesFirst(todo[g], s)
      PROVE  ClosesFirst(todo'[g], s)
  BY <1>2, <1>4 DEF ClosesFirst
<1>5. FirstsAreHeld'
  <2>1. ASSUME NEW s \in Peers, First(s) \in open'
        PROVE  /\ made'[s] = 1
               /\ s \in Members' \/ Doomed(s)'
               /\ \A g \in Goroutines : ClosesFirst(todo'[g], s)
    <3>1. CASE s = x
      BY <1>1, <1>4, <3>1
    <3>2. CASE s # x
      <4>1. First(s) \in open
        BY <1>1, <2>1, <3>2 DEF First
      <4>2. QED
        BY <1>1, <1>4, <3>2, <4>1 DEF Held, FirstsAreHeld, KeepsDoomed
    <3>3. QED
      BY <3>1, <3>2
  <2>2. QED
    BY <2>1 DEF FirstsAreHeld
<1>6. QED
  BY <1>3, <1>5 DEF Held

LEMMA AddPublisherHeld ==
  ASSUME Grounded, Held, NEW c \in Conns, AddPublisher(c)
  PROVE  Held'
<1> USE DEF AddPublisher
<1>1. Pub(c) \in Peers /\ Pub(c) \in Members' /\ made[Pub(c)] = 0
  BY PeersAreTwo DEF Members, Held, AdmittedOnce
<1>2. Members \subseteq Members'
  BY MediaAssumption DEF Members
<1>3. KeepsDoomed
  BY DEF KeepsDoomed, Doomed, Pending
<1>4. AdmittedOnce'
  BY PeersAreTwo DEF Held, AdmittedOnce, NewPC, Grounded, MemberTypes, PCTypes
<1>5. QED
  BY <1>1, <1>2, <1>3, <1>4, AdmitHeld

LEMMA AddSubscriberHeld ==
  ASSUME Grounded, Held, NEW c \in Conns, AddSubscriber(c)
  PROVE  Held'
<1> USE DEF AddSubscriber
<1>1. Sub(c) \in Peers /\ Sub(c) \in Members' /\ made[Sub(c)] = 0
  BY PeersAreTwo DEF Members, Held, AdmittedOnce
<1>2. Members \subseteq Members'
  BY DEF Members
<1>3. PICK p : Start(Welcome(c), p) /\ Attaches(p, {Sub(c)} \X tracks)
  BY AddSubscriberStarts DEF Grounded, MemberTypes
<1>4. Welcome(c) \in Goroutines /\ Welcome(c) \in AttachLoops /\ LoopsFit
  BY GoroutineNames, GoroutinesDiffer DEF Grounded
<1>5. KeepsDoomed
  BY <1>3, <1>4, StartKeepsDoomed
<1>6. \A g \in Goroutines : todo'[g] = todo[g] \/ \A i \in DOMAIN todo'[g] : todo'[g][i][1] = "attach"
  <2>1. \A i \in DOMAIN p : p[i][1] = "attach"
    BY <1>3 DEF Attaches
  <2>2. QED
    BY <1>3, <1>4, <2>1 DEF Start, LoopsFit
<1>7. AdmittedOnce'
  BY PeersAreTwo DEF Held, AdmittedOnce, NewPC, Grounded, MemberTypes, PCTypes
<1>8. QED
  BY <1>1, <1>2, <1>5, <1>6, <1>7, AdmitHeld

(* A loop takes its first instruction.                                     *)
LEMMA AdvanceHeld ==
  ASSUME Grounded, RenewedAreMade, UNCHANGED memberVars, NEW g \in Goroutines, ~Idle(g), Advance(g)
  PROVE  /\ \A h \in Goroutines : \A i \in DOMAIN todo'[h], s \in Peers :
                todo'[h][i] = <<"renew", s>> => made[s] > 0
         /\ \A s \in Peers : Doomed(s) /\ ~Dooms(Head(todo[g]), s) => Doomed(s)'
         /\ \A s \in Peers, h \in Goroutines :
                ClosesFirst(todo[h], s) /\ ~Closing(Head(todo[g]), s) => ClosesFirst(todo'[h], s)
         /\ \A s \in Peers : Head(todo[g]) = <<"renew", s>> =>
                made[s] > 0 /\ ~ClosesFirst(todo[g], s)
<1> DEFINE q == todo[g]
           r == todo'[g]
           n == Len(q)
<1>1. /\ \A h \in Goroutines \ {g} : todo'[h] = todo[h]
      /\ n \in Nat /\ DOMAIN q = 1..n /\ DOMAIN r = 1..(n - 1)
      /\ \A i \in 1..(n - 1) : r[i] = q[i + 1]
      /\ Head(q) = q[1] /\ 1 \in DOMAIN q
  BY AdvanceFits DEF Grounded
<1>2. \A i \in DOMAIN q, s \in Peers : q[i] = <<"renew", s>> => made[s] > 0
  BY DEF RenewedAreMade
<1>3. LoopsFit
  BY DEF Grounded
<1>4. ASSUME NEW s \in Peers, Doomed(s), ~Dooms(Head(todo[g]), s)
      PROVE  Doomed(s)'
  <2>1. PICK a \in Instructions : Dooms(a, s) /\ Pending(a)
    BY <1>4 DEF Doomed
  <2>2. Head(todo[g]) # a
    BY <1>4, <2>1
  <2>3. Pending(a)'
    BY <1>3, <2>1, <2>2, AdvanceKeepsPending
  <2>4. QED
    BY <2>1, <2>3 DEF Doomed
<1> HIDE DEF q, r, n
<1>5. ASSUME NEW i \in DOMAIN r PROVE i + 1 \in DOMAIN q /\ r[i] = q[i + 1] /\ i \in Nat
  BY <1>1
<1>6. \A i \in DOMAIN r, s \in Peers : r[i] = <<"renew", s>> => made[s] > 0
  BY <1>2, <1>5
<1>7. \A h \in Goroutines : \A i \in DOMAIN todo'[h], s \in Peers :
          todo'[h][i] = <<"renew", s>> => made[s] > 0
  <2>1. ASSUME NEW h \in Goroutines, NEW i \in DOMAIN todo'[h], NEW s \in Peers,
               todo'[h][i] = <<"renew", s>>
        PROVE  made[s] > 0
    <3>1. CASE h = g
      BY <1>6, <2>1, <3>1 DEF r
    <3>2. CASE h # g
      BY <1>1, <2>1, <3>2 DEF RenewedAreMade
    <3>3. QED
      BY <3>1, <3>2
  <2>2. QED
    BY <2>1
<1>8. ASSUME NEW s \in Peers, ClosesFirst(q, s), ~Closing(q[1], s) PROVE ClosesFirst(r, s)
  <2>1. SUFFICES ASSUME NEW j \in DOMAIN r, r[j] = <<"renew", s>>
                 PROVE  \E i \in DOMAIN r : i < j /\ Closing(r[i], s)
    BY DEF ClosesFirst
  <2>2. j + 1 \in DOMAIN q /\ q[j + 1] = <<"renew", s>> /\ j \in Nat
    BY <1>5, <2>1
  <2>3. PICK i \in DOMAIN q : i < j + 1 /\ Closing(q[i], s)
    BY <1>8, <2>2 DEF ClosesFirst
  <2>4. i # 1
    BY <1>8, <2>3
  <2>5. i - 1 \in 1..(n - 1) /\ (i - 1) + 1 = i /\ i - 1 < j
    BY <1>1, <2>2, <2>3, <2>4
  <2>6. i - 1 \in DOMAIN r /\ r[i - 1] = q[i]
    BY <1>1, <2>5
  <2>7. QED
    BY <2>3, <2>5, <2>6
<1>9. \A s \in Peers, h \in Goroutines :
          ClosesFirst(todo[h], s) /\ ~Closing(Head(todo[g]), s) => ClosesFirst(todo'[h], s)
  BY <1>1, <1>8 DEF q, r
<1>10. \A s \in Peers : q[1] = <<"renew", s>> => made[s] > 0 /\ ~ClosesFirst(q, s)
  BY <1>1, <1>2 DEF ClosesFirst
<1>11. \A s \in Peers : Head(todo[g]) = <<"renew", s>> => made[s] > 0 /\ ~ClosesFirst(todo[g], s)
  BY <1>1, <1>10 DEF q
<1>12. QED
  BY <1>4, <1>7, <1>9, <1>11

LEMMA CloseStepHeld ==
  ASSUME Grounded, Held, NEW g \in Goroutines, ~Idle(g), NEW x \in Peers, CloseStep(g, x)
  PROVE  Held'
<1> USE DEF CloseStep
<1>1. UNCHANGED memberVars /\ Advance(g) /\ RenewedAreMade /\ made' = made /\ Members' = Members
  BY DEF Held, memberVars, Members
<1>2. \A s \in Peers : Dooms(Head(todo[g]), s) => s = x
  BY DEF Dooms, Closing
<1>3. RenewedAreMade'
  BY <1>1, AdvanceHeld DEF RenewedAreMade
<1>4. AdmittedOnce'
  BY <1>1 DEF Held, AdmittedOnce, memberVars
<1>5. ASSUME NEW s \in Peers, First(s) \in open'
      PROVE  s # x /\ First(s) \in open
  BY <1>5 DEF Held, FirstsAreHeld, ClosePC, PC, First, Grounded, PCTypes
<1>6. ASSUME NEW s \in Peers, First(s) \in open'
      PROVE  /\ made[s] = 1
             /\ s \in Members \/ Doomed(s)'
             /\ \A h \in Goroutines : ClosesFirst(todo'[h], s)
  <2>1. ~Dooms(Head(todo[g]), s) /\ ~Closing(Head(todo[g]), s) /\ First(s) \in open
    BY <1>2, <1>5, <1>6 DEF Dooms
  <2>2. QED
    BY <1>1, <2>1, AdvanceHeld DEF Held, FirstsAreHeld
<1>7. FirstsAreHeld'
  BY <1>1, <1>6 DEF FirstsAreHeld
<1>8. QED
  BY <1>3, <1>4, <1>7 DEF Held

(* No loop makes a connection before it has closed the first.              *)
LEMMA RenewStepHeld ==
  ASSUME Grounded, Held, NEW g \in Goroutines, ~Idle(g), NEW x \in Peers, RenewStep(g, x)
  PROVE  Held'
<1> USE DEF RenewStep
<1>1. UNCHANGED memberVars /\ Advance(g) /\ RenewedAreMade /\ Members' = Members
  BY DEF Held, memberVars, Members
<1>2. /\ \A s \in Peers : ~Dooms(Head(todo[g]), s) /\ ~Closing(Head(todo[g]), s)
      /\ made[x] > 0 /\ ~ClosesFirst(todo[g], x)
  BY <1>1, AdvanceHeld DEF Dooms, Closing
<1>3. /\ \A s \in Peers : made[s] > 0 => made'[s] > 0
      /\ \A s \in Peers : s # x => made'[s] = made[s]
      /\ \A s \in Peers : First(s) \in open' => First(s) \in open
  BY <1>2 DEF NewPC, First, Grounded, PCTypes
<1>4. RenewedAreMade'
  BY <1>1, <1>3, AdvanceHeld DEF RenewedAreMade
<1>5. AdmittedOnce'
  BY <1>1, <1>2, <1>3, PeersAreTwo DEF Held, AdmittedOnce, memberVars
<1>6. ASSUME NEW s \in Peers, First(s) \in open'
      PROVE  /\ made'[s] = 1
             /\ s \in Members \/ Doomed(s)'
             /\ \A h \in Goroutines : ClosesFirst(todo'[h], s)
  <2>1. s # x /\ First(s) \in open
    BY <1>2, <1>3, <1>6 DEF Held, FirstsAreHeld
  <2>2. QED
    BY <1>1, <1>2, <1>3, <2>1, AdvanceHeld DEF Held, FirstsAreHeld
<1>7. FirstsAreHeld'
  BY <1>1, <1>6 DEF FirstsAreHeld
<1>8. QED
  BY <1>4, <1>5, <1>7 DEF Held

LEMMA DropStepHeld ==
  ASSUME Grounded, Held, NEW g \in Goroutines, ~Idle(g), DropStep(g)
  PROVE  Held'
<1> USE DEF DropStep
<1>1. UNCHANGED memberVars /\ Advance(g) /\ RenewedAreMade /\ made' = made /\ Members' = Members
  BY DEF Held, memberVars, Members
<1>2. \A s \in Peers : Dooms(Head(todo[g]), s) => Head(todo[g])[2] = First(s)
  BY DEF Dooms, Closing
<1>3. RenewedAreMade'
  BY <1>1, AdvanceHeld DEF RenewedAreMade
<1>4. AdmittedOnce'
  BY <1>1 DEF Held, AdmittedOnce, memberVars
<1>5. ASSUME NEW s \in Peers, First(s) \in open'
      PROVE  /\ made[s] = 1
             /\ s \in Members \/ Doomed(s)'
             /\ \A h \in Goroutines : ClosesFirst(todo'[h], s)
  <2>1. First(s) \in open /\ First(s) # Head(todo[g])[2]
    BY <1>5 DEF ClosePC
  <2>2. ~Dooms(Head(todo[g]), s) /\ ~Closing(Head(todo[g]), s)
    BY <1>2, <2>1 DEF Dooms
  <2>3. QED
    BY <1>1, <2>1, <2>2, AdvanceHeld DEF Held, FirstsAreHeld
<1>6. FirstsAreHeld'
  BY <1>1, <1>5 DEF FirstsAreHeld
<1>7. QED
  BY <1>3, <1>4, <1>6 DEF Held

LEMMA AttachStepHeld ==
  ASSUME Grounded, Held, NEW g \in Goroutines, ~Idle(g), NEW x \in Peers, NEW t \in Tracks,
         AttachStep(g, x, t)
  PROVE  Held'
<1> USE DEF AttachStep
<1>1. /\ UNCHANGED memberVars /\ RenewedAreMade /\ Members' = Members
      /\ made' = made /\ open' = open /\ session' = session
  BY DEF Held, memberVars, Members
<1>2. CASE Advance(g)
  <2>1. RenewedAreMade'
    BY <1>1, <1>2, AdvanceHeld DEF RenewedAreMade
  <2>2. AdmittedOnce'
    BY <1>1 DEF Held, AdmittedOnce
  <2>3. \A s \in Peers : ~Dooms(Head(todo[g]), s) /\ ~Closing(Head(todo[g]), s)
    BY DEF Dooms, Closing
  <2>4. ASSUME NEW s \in Peers, First(s) \in open
        PROVE  /\ made[s] = 1
               /\ s \in Members \/ Doomed(s)'
               /\ \A h \in Goroutines : ClosesFirst(todo'[h], s)
    BY <1>1, <1>2, <2>3, <2>4, AdvanceHeld DEF Held, FirstsAreHeld
  <2>5. FirstsAreHeld'
    BY <1>1, <2>4 DEF FirstsAreHeld
  <2>6. QED
    BY <2>1, <2>2, <2>5 DEF Held
<1>3. CASE Start(g, << >>)
  <2>1. g \in AttachLoops
    <3>1. todo[g] \in Seq(Instructions) /\ todo[g] # << >> /\ LoopsFit
      BY DEF Grounded, LoopsFit, Idle
    <3>2. Head(todo[g]) = todo[g][1] /\ 1 \in DOMAIN todo[g]
      BY <3>1
    <3>3. Fits(g, <<"attach", <<x, t>>>>, subscribers, session)
      BY <3>1, <3>2 DEF LoopsFit
    <3>4. QED
      BY <3>3 DEF Fits
  <2>2. RenewsMade(<< >>) /\ \A s \in Peers : ClosesFirst(<< >>, s)
    BY DEF RenewsMade, ClosesFirst
  <2>3. QED
    BY <1>1, <1>3, <2>1, <2>2, StartHeld
<1>4. QED
  BY <1>2, <1>3 DEF Advance

LEMMA NextHeld == Grounded /\ Held /\ [Next]_vars => Held'
<1> SUFFICES ASSUME Grounded, Held, [Next]_vars PROVE Held'
  OBVIOUS
<1>1. ASSUME NEW c \in Conns, Stop(c) PROVE Held'
  BY <1>1, GoroutineNames, StopStreamHeld DEF Stop, pcVars
<1>2. ASSUME NEW c \in Conns, CallbackStops(c), StopStream(Callback(c), c) PROVE Held'
  BY <1>2, GoroutineNames, StopStreamHeld DEF CallbackStops
<1>3. CASE \E c \in Conns :
              \/ AddPublisher(c) \/ AddSubscriber(c) \/ PromotePublisher(c)
              \/ RemovePublisher(c) \/ RemoveSubscriber(c)
  BY <1>3, AddPublisherHeld, AddSubscriberHeld, PromotePublisherHeld,
     RemovePublisherHeld, RemoveSubscriberHeld
<1>4. CASE Close
  BY <1>4, CloseHeld
<1>5. CASE \E t \in Tracks : HandlePublisherTrack(t)
  BY <1>5, HandlePublisherTrackHeld
<1>6. CASE \E g \in Goroutines : Step(g)
  BY <1>6, CloseStepHeld, RenewStepHeld, DropStepHeld, AttachStepHeld DEF Step
<1>7. CASE \/ \E c \in Conns : RefusePromotion(c) \/ PCFails(c) \/ (CallbackStops(c) /\ ~CanStop(c))
           \/ \E t \in Tracks : TrackArrives(t)
           \/ \E c \in Conns, pc \in events : OnConnectionStateChange(c, pc)
           \/ UNCHANGED vars
  BY <1>7, QuietHeld
<1>8. ASSUME NEW c \in Conns, CallbackStops(c)
      PROVE  StopStream(Callback(c), c) \/ ~CanStop(c)
  BY <1>8 DEF CallbackStops
<1>9. QED
  BY <1>1, <1>2, <1>3, <1>4, <1>5, <1>6, <1>7, <1>8 DEF Next

LEMMA InitHeld == Init => Held
BY PeersAreTwo DEF Init, Held, RenewedAreMade, AdmittedOnce, FirstsAreHeld

(* Held is the inductive invariant of AdmittedAreAlwaysClosed.             *)
THEOREM AlwaysHeld == Spec => []Held
BY AlwaysGrounded, InitHeld, NextHeld, PTL DEF Spec

(* Once the room is closed and every loop has ended, no connection a peer  *)
(* was admitted with is open, whatever the sweep of Close crossed: until   *)
(* then such a connection is in the room or some loop is going to close    *)
(* it.                                                                     *)
THEOREM AdmittedAreAlwaysClosed == Spec => []AdmittedAreClosed
BY HeldIsClosed, AlwaysGrounded, AlwaysHeld, PTL
=============================================================================
