--------------------------- MODULE CastPageProofs ---------------------------
(***************************************************************************)
(* What the proofs about FileHub and VideoRoom share: the types of the     *)
(* page, the numbering of connections, and what a step of a page does to   *)
(* its queues, its role and its peer connections.                          *)
(***************************************************************************)
EXTENDS CastPage, TLAPS

PeerMaps == UNION {[S -> Peer] : S \in SUBSET Ids}

(* Of the messages: those of a kind, and those of a kind about a partner.  *)
Kind(k) == {m \in Message : m.kind = k}
Of(k, id) == {m \in Message : m.kind = k /\ m.id = id}

(* What concerns a peer connection names it and the partner.               *)
Named(m) == m.kind \in {"offer", "answer", "candidate"} => m.id \in Ids /\ m.n \in Serials

Inward == {m \in Message : Named(m) /\ (m.kind = "watcher" => m.id \in Ids)}
Outward == {m \in Message : Named(m)}

PageTyped ==
    /\ conn \in [Pages -> Ids \cup {None}]
    /\ opened \in 0..MaxConns
    /\ link \in [Pages -> {"down", "open", "left"}]
    /\ inbox \in [Pages -> Seq(Inward)]
    /\ outbox \in [Pages -> Seq(Outward)]
    /\ casting \in [Pages -> BOOLEAN]
    /\ starting \in [Pages -> Nat]
    /\ \A p \in Pages : starting[p] <= clicks
    /\ shown \in [Pages -> Ids \cup {None}]
    /\ peers \in [Pages -> PeerMaps]
    /\ clicks \in 0..MaxClicks
    /\ made \in 0..MaxPeers
    /\ faults \in 0..MaxFaults

(* A connection is new to every page and every message when it opens, and  *)
(* nothing waits for a page that has none.                                 *)
Numbered ==
    /\ \A p \in Pages : conn[p] <= opened
    /\ \A p, q \in Pages : conn[p] = conn[q] /\ conn[p] # None => p = q
    /\ \A p \in Pages : Online(p) => conn[p] # None
    /\ \A p \in Pages : ~Online(p) => inbox[p] = << >> /\ (BuffersOffline \/ outbox[p] = << >>)

(* q has an element of A; after each element of A it has one of B.         *)
Has(q, A) == \E i \in DOMAIN q : q[i] \in A
Followed(q, A, B) ==
    \A i \in DOMAIN q : q[i] \in A => \E j \in DOMAIN q : i < j /\ q[j] \in B

(* A page that does not broadcast asks to watch after it has announced a   *)
(* broadcast, so that a server never takes it for the broadcaster for long.*)
TakesItBack == \A p \in Pages : casting[p] \/ Followed(outbox[p], Kind("broadcaster"), Kind("watcher"))

PagePart == PageTyped /\ Numbered /\ TakesItBack

----------------------------------------------------------------------------
(* Values *)

LEMMA Numbers ==
  /\ Ids \subseteq Nat /\ None \notin Ids /\ Serials \subseteq 0..MaxPeers /\ 0 \in 0..MaxPeers
  /\ \A n \in 0..MaxConns : n < MaxConns => n + 1 \in Ids /\ n + 1 \in 0..MaxConns
  /\ \A n \in 0..MaxPeers : n < MaxPeers => n + 1 \in Serials
BY CastPageAssumption DEF Ids, None, Serials

LEMMA MessagesAre ==
  /\ \A k \in Kinds : Plain(k) \in Message /\ Plain(k).kind = k
  /\ \A k \in Kinds, id \in Ids : /\ About(k, id) \in Message
                                  /\ About(k, id).kind = k /\ About(k, id).id = id
  /\ \A id \in Ids, n \in Serials : /\ Offer(id, n) \in Message
                                    /\ Offer(id, n).kind = "offer" /\ Offer(id, n).id = id
                                    /\ Offer(id, n).n = n
  /\ \A id \in Ids, n \in Serials, re \in 0..MaxPeers :
        /\ Answer(id, n, re) \in Message
        /\ Answer(id, n, re).kind = "answer" /\ Answer(id, n, re).id = id
        /\ Answer(id, n, re).n = n
<1>1. \A k \in Kinds : Plain(k) \in Message /\ Plain(k).kind = k
  BY Numbers DEF Plain, Message
<1>2. \A k \in Kinds, id \in Ids : /\ About(k, id) \in Message
                                   /\ About(k, id).kind = k /\ About(k, id).id = id
  BY Numbers DEF About, Message
<1>3. \A id \in Ids, n \in Serials : /\ Offer(id, n) \in Message
                                     /\ Offer(id, n).kind = "offer" /\ Offer(id, n).id = id
                                     /\ Offer(id, n).n = n
  BY Numbers DEF Offer, Message, Kinds
<1>4. \A id \in Ids, n \in Serials, re \in 0..MaxPeers :
         /\ Answer(id, n, re) \in Message
         /\ Answer(id, n, re).kind = "answer" /\ Answer(id, n, re).id = id
         /\ Answer(id, n, re).n = n
  BY Numbers DEF Answer, Message, Kinds
<1>5. QED
  BY <1>1, <1>2, <1>3, <1>4

LEMMA MessageFields ==
  ASSUME NEW m \in Message
  PROVE  m.kind \in Kinds /\ m.id \in Ids \cup {None} /\ m.n \in 0..MaxPeers
BY DEF Message

LEMMA OutwardMessages ==
  /\ \A k \in {"broadcaster", "watcher"} : Plain(k) \in Outward
  /\ \A id \in Ids, n \in Serials : Offer(id, n) \in Outward
  /\ \A id \in Ids, n \in Serials, re \in 0..MaxPeers : Answer(id, n, re) \in Outward
<1>1. {"broadcaster", "watcher"} \subseteq Kinds
  BY DEF Kinds
<1>2. QED
  BY <1>1, MessagesAre DEF Outward, Named

(* A server relays a message with the name of its sender.                  *)
LEMMA RelayedMessage ==
  ASSUME NEW m \in Outward, m.kind \in {"offer", "answer", "candidate"}, NEW c \in Ids
  PROVE  /\ [m EXCEPT !.id = c] \in Inward
         /\ [m EXCEPT !.id = c].kind = m.kind /\ [m EXCEPT !.id = c].id = c
         /\ [m EXCEPT !.id = c].n = m.n
<1> DEFINE r == [m EXCEPT !.id = c]
<1>1. m \in Message /\ m.n \in Serials
  BY DEF Outward, Named
<1>2. r \in Message /\ r.kind = m.kind /\ r.id = c /\ r.n = m.n
  BY <1>1 DEF Message
<1> HIDE DEF r
<1>3. r \in Inward
  BY <1>1, <1>2 DEF Inward, Named
<1>4. QED
  BY <1>2, <1>3 DEF r

----------------------------------------------------------------------------
(* Queues *)

LEMMA TailIndices ==
  ASSUME NEW T, NEW q \in Seq(T), q # << >>
  PROVE  /\ Tail(q) \in Seq(T) /\ Head(q) \in T /\ Head(q) = q[1]
         /\ DOMAIN q \subseteq Nat \ {0} /\ DOMAIN Tail(q) \subseteq Nat \ {0} /\ 1 \in DOMAIN q
         /\ \A i \in DOMAIN Tail(q) : i + 1 \in DOMAIN q /\ Tail(q)[i] = q[i + 1]
         /\ \A i \in DOMAIN q : i = 1 \/ (i - 1 \in DOMAIN Tail(q) /\ Tail(q)[i - 1] = q[i])
<1> DEFINE r == Tail(q)
<1>1. /\ Len(q) \in Nat /\ DOMAIN q = 1..Len(q) /\ DOMAIN r = 1..(Len(q) - 1) /\ Len(q) > 0
      /\ \A i \in 1..(Len(q) - 1) : r[i] = q[i + 1]
      /\ r \in Seq(T) /\ Head(q) \in T /\ Head(q) = q[1]
  OBVIOUS
<1> HIDE DEF r
<1>2. /\ \A i \in DOMAIN r : i + 1 \in DOMAIN q /\ r[i] = q[i + 1]
      /\ \A i \in DOMAIN q : i = 1 \/ (i - 1 \in DOMAIN r /\ r[i - 1] = q[i])
  BY <1>1
<1>3. DOMAIN q \subseteq Nat \ {0} /\ DOMAIN r \subseteq Nat \ {0} /\ 1 \in DOMAIN q
  BY <1>1
<1>4. QED
  BY <1>1, <1>2, <1>3 DEF r

LEMMA ConcatIndices ==
  ASSUME NEW T, NEW q \in Seq(T), NEW r \in Seq(T)
  PROVE  /\ q \o r \in Seq(T)
         /\ Len(q) \in Nat /\ DOMAIN q = 1..Len(q) /\ DOMAIN r \subseteq Nat \ {0}
         /\ DOMAIN (q \o r) \subseteq Nat \ {0}
         /\ \A i \in DOMAIN q : i \in DOMAIN (q \o r) /\ (q \o r)[i] = q[i]
         /\ \A i \in DOMAIN r : Len(q) + i \in DOMAIN (q \o r) /\ (q \o r)[Len(q) + i] = r[i]
         /\ \A i \in DOMAIN (q \o r) :
               \/ i \in DOMAIN q
               \/ i - Len(q) \in DOMAIN r /\ (q \o r)[i] = r[i - Len(q)] /\ i > Len(q)
<1> DEFINE c == q \o r
<1>1. /\ c \in Seq(T)
      /\ DOMAIN c = 1..(Len(q) + Len(r)) /\ DOMAIN q = 1..Len(q) /\ DOMAIN r = 1..Len(r)
      /\ Len(q) \in Nat /\ Len(r) \in Nat
      /\ \A i \in 1..Len(q) : c[i] = q[i]
      /\ \A i \in 1..Len(r) : c[Len(q) + i] = r[i]
  OBVIOUS
<1> HIDE DEF c
<1>2. \A i \in DOMAIN q : i \in DOMAIN c /\ c[i] = q[i]
  BY <1>1
<1>3. \A i \in DOMAIN r : Len(q) + i \in DOMAIN c /\ c[Len(q) + i] = r[i]
  BY <1>1
<1>4. DOMAIN c \subseteq Nat \ {0}
  BY <1>1
<1>5. \A i \in DOMAIN c :
         i \in DOMAIN q \/ (i - Len(q) \in DOMAIN r /\ c[i] = r[i - Len(q)] /\ i > Len(q))
  BY <1>1
<1>6. QED
  BY <1>1, <1>2, <1>3, <1>4, <1>5 DEF c

LEMMA HasNothing == \A A, B : ~Has(<< >>, A) /\ Followed(<< >>, A, B)
BY DEF Has, Followed

LEMMA HasOne == \A m, A, B : (Has(<<m>>, A) <=> m \in A) /\ (m \notin A => Followed(<<m>>, A, B))
BY DEF Has, Followed

LEMMA FollowedByNone == \A q, A, B : ~Has(q, A) => Followed(q, A, B)
BY DEF Has, Followed

LEMMA TailHas ==
  ASSUME NEW T, NEW q \in Seq(T), q # << >>, NEW A, NEW B
  PROVE  /\ Has(Tail(q), A) => Has(q, A)
         /\ Has(q, A) => Head(q) \in A \/ Has(Tail(q), A)
         /\ Head(q) \in A => Has(q, A)
         /\ Followed(q, A, B) => Followed(Tail(q), A, B)
         /\ Followed(q, A, B) /\ Head(q) \in A => Has(Tail(q), B)
<1> DEFINE r == Tail(q)
<1>1. /\ Head(q) = q[1] /\ DOMAIN q \subseteq Nat \ {0} /\ DOMAIN r \subseteq Nat \ {0}
      /\ 1 \in DOMAIN q
      /\ \A i \in DOMAIN r : i + 1 \in DOMAIN q /\ r[i] = q[i + 1]
      /\ \A i \in DOMAIN q : i = 1 \/ (i - 1 \in DOMAIN r /\ r[i - 1] = q[i])
  BY TailIndices
<1> HIDE DEF r
<1>2. (Has(r, A) => Has(q, A)) /\ (Has(q, A) => Head(q) \in A \/ Has(r, A)) /\ (Head(q) \in A => Has(q, A))
  BY <1>1 DEF Has
<1>3. ASSUME Followed(q, A, B) PROVE Followed(r, A, B)
  <2>1. ASSUME NEW i \in DOMAIN r, r[i] \in A
        PROVE  \E j \in DOMAIN r : i < j /\ r[j] \in B
    <3>1. PICK j \in DOMAIN q : i + 1 < j /\ q[j] \in B
      BY <1>1, <1>3, <2>1 DEF Followed
    <3>2. j - 1 \in DOMAIN r /\ r[j - 1] = q[j] /\ i < j - 1
      BY <1>1, <3>1
    <3>3. QED
      BY <3>1, <3>2
  <2>2. QED
    BY <2>1 DEF Followed
<1>4. ASSUME Followed(q, A, B), Head(q) \in A PROVE Has(r, B)
  <2>1. PICK j \in DOMAIN q : 1 < j /\ q[j] \in B
    BY <1>1, <1>4 DEF Followed
  <2>2. j - 1 \in DOMAIN r /\ r[j - 1] = q[j]
    BY <1>1, <2>1
  <2>3. QED
    BY <2>1, <2>2 DEF Has
<1>5. QED
  BY <1>2, <1>3, <1>4 DEF r

LEMMA ConcatHas ==
  ASSUME NEW T, NEW q \in Seq(T), NEW r \in Seq(T), NEW A, NEW B
  PROVE  /\ Has(q \o r, A) <=> Has(q, A) \/ Has(r, A)
         /\ (Followed(q, A, B) \/ Has(r, B)) /\ Followed(r, A, B) => Followed(q \o r, A, B)
<1> DEFINE c == q \o r
<1>1. /\ Len(q) \in Nat /\ DOMAIN q = 1..Len(q) /\ DOMAIN r \subseteq Nat \ {0}
      /\ DOMAIN c \subseteq Nat \ {0}
      /\ \A i \in DOMAIN q : i \in DOMAIN c /\ c[i] = q[i]
      /\ \A i \in DOMAIN r : Len(q) + i \in DOMAIN c /\ c[Len(q) + i] = r[i]
      /\ \A i \in DOMAIN c :
            i \in DOMAIN q \/ (i - Len(q) \in DOMAIN r /\ c[i] = r[i - Len(q)] /\ i > Len(q))
  BY ConcatIndices
<1> HIDE DEF c
<1>2. Has(c, A) <=> Has(q, A) \/ Has(r, A)
  BY <1>1 DEF Has
<1>3. ASSUME Followed(q, A, B) \/ Has(r, B), Followed(r, A, B) PROVE Followed(c, A, B)
  <2>1. ASSUME NEW i \in DOMAIN c, c[i] \in A
        PROVE  \E j \in DOMAIN c : i < j /\ c[j] \in B
    <3>1. CASE i \in DOMAIN q /\ Has(r, B)
      <4>1. PICK j \in DOMAIN r : r[j] \in B
        BY <3>1 DEF Has
      <4>2. Len(q) + j \in DOMAIN c /\ i < Len(q) + j /\ c[Len(q) + j] \in B
        BY <1>1, <3>1, <4>1
      <4>3. QED
        BY <4>2
    <3>2. CASE i \in DOMAIN q /\ Followed(q, A, B)
      <4>1. PICK j \in DOMAIN q : i < j /\ q[j] \in B
        BY <1>1, <2>1, <3>2 DEF Followed
      <4>2. QED
        BY <1>1, <4>1
    <3>3. CASE i \notin DOMAIN q
      <4>1. i - Len(q) \in DOMAIN r /\ r[i - Len(q)] \in A
        BY <1>1, <2>1, <3>3
      <4>2. PICK j \in DOMAIN r : i - Len(q) < j /\ r[j] \in B
        BY <1>3, <4>1 DEF Followed
      <4>3. Len(q) + j \in DOMAIN c /\ i < Len(q) + j /\ c[Len(q) + j] \in B
        BY <1>1, <2>1, <3>3, <4>2
      <4>4. QED
        BY <4>3
    <3>4. QED
      BY <1>3, <3>1, <3>2, <3>3
  <2>2. QED
    BY <2>1 DEF Followed
<1>4. QED
  BY <1>2, <1>3 DEF c

LEMMA AppendHas ==
  ASSUME NEW T, NEW q \in Seq(T), NEW m \in T
  PROVE  /\ Append(q, m) \in Seq(T)
         /\ \A A : Has(Append(q, m), A) <=> Has(q, A) \/ m \in A
         /\ \A A, B : (Followed(q, A, B) \/ m \in B) /\ m \notin A => Followed(Append(q, m), A, B)
<1> DEFINE r == <<m>>
<1>1. r \in Seq(T) /\ Append(q, m) = q \o r /\ Append(q, m) \in Seq(T)
  OBVIOUS
<1>2. \A A, B : (Has(r, A) <=> m \in A) /\ (m \notin A => Followed(r, A, B))
  BY HasOne
<1> HIDE DEF r
<1>3. \A A, B : /\ Has(q \o r, A) <=> Has(q, A) \/ Has(r, A)
                /\ (Followed(q, A, B) \/ Has(r, B)) /\ Followed(r, A, B) => Followed(q \o r, A, B)
  BY <1>1, ConcatHas
<1>4. QED
  BY <1>1, <1>2, <1>3

----------------------------------------------------------------------------
(* Peer connections *)

(* A page keeps what peer connections it keeps, and none starts to offer.  *)
Keeps(p) ==
    /\ peers' \in [Pages -> PeerMaps]
    /\ \A q \in Pages \ {p} : peers'[q] = peers[q]
    /\ \A id \in DOMAIN peers'[p] :
          /\ id \in DOMAIN peers[p]
          /\ peers'[p][id].state = "offering" => peers[p][id].state = "offering"

(* A page makes a peer connection for partner id.                          *)
Makes(p, id, state) ==
    /\ peers' \in [Pages -> PeerMaps]
    /\ \A q \in Pages \ {p} : peers'[q] = peers[q]
    /\ DOMAIN peers'[p] = DOMAIN peers[p] \cup {id} /\ peers'[p][id].state = state
    /\ \A x \in DOMAIN peers[p] \ {id} : peers'[p][x] = peers[p][x]

LEMMA PeerMapsAre ==
  /\ \A f \in PeerMaps : DOMAIN f \subseteq Ids /\ \A id \in DOMAIN f : f[id] \in Peer
  /\ << >> \in PeerMaps /\ DOMAIN << >> = {}
  /\ \A f \in PeerMaps, id \in Ids, pc \in Peer : Put(f, id, pc) \in PeerMaps
  /\ \A f \in PeerMaps : \A id : Restrict(f, DOMAIN f \ {id}) \in PeerMaps
  /\ \A f \in PeerMaps : \A id \in DOMAIN f : \A pc \in Peer : [f EXCEPT ![id] = pc] \in PeerMaps
<1>1. \A f \in PeerMaps : \E S \in SUBSET Ids : f \in [S -> Peer]
  BY DEF PeerMaps
<1>2. \A S \in SUBSET Ids : \A f \in [S -> Peer] : f \in PeerMaps
  BY DEF PeerMaps
<1>3. << >> \in PeerMaps /\ DOMAIN << >> = {}
  <2>1. << >> \in [{} -> Peer] /\ DOMAIN << >> = {}
    OBVIOUS
  <2>2. QED
    BY <1>2, <2>1
<1>4. ASSUME NEW f \in PeerMaps, NEW id \in Ids, NEW pc \in Peer
      PROVE  Put(f, id, pc) \in PeerMaps
  <2>1. PICK S \in SUBSET Ids : f \in [S -> Peer]
    BY <1>1
  <2>2. Put(f, id, pc) \in [S \cup {id} -> Peer]
    BY <2>1 DEF Put
  <2>3. QED
    BY <1>2, <2>2
<1>5. ASSUME NEW f \in PeerMaps, NEW id
      PROVE  Restrict(f, DOMAIN f \ {id}) \in PeerMaps
  <2>1. PICK S \in SUBSET Ids : f \in [S -> Peer]
    BY <1>1
  <2>2. Restrict(f, DOMAIN f \ {id}) \in [S \ {id} -> Peer]
    BY <2>1 DEF Restrict
  <2>3. QED
    BY <1>2, <2>2
<1>6. ASSUME NEW f \in PeerMaps, NEW id \in DOMAIN f, NEW pc \in Peer
      PROVE  [f EXCEPT ![id] = pc] \in PeerMaps
  <2>1. PICK S \in SUBSET Ids : f \in [S -> Peer]
    BY <1>1
  <2>2. [f EXCEPT ![id] = pc] \in [S -> Peer]
    BY <2>1
  <2>3. QED
    BY <1>2, <2>2
<1>7. \A f \in PeerMaps : DOMAIN f \subseteq Ids /\ \A id \in DOMAIN f : f[id] \in Peer
  BY <1>1
<1>8. QED
  BY <1>3, <1>4, <1>5, <1>6, <1>7

(* What the handlers make of a peer connection.                            *)
LEMMA PeersAre ==
  /\ \A n \in Serials, state \in PeerState, m \in 0..MaxPeers :
        [n |-> n, state |-> state, asked |-> m, remote |-> 0, pending |-> {}, added |-> {}] \in Peer
  /\ \A pc \in Peer :
        /\ pc.n \in Serials /\ pc.asked \in 0..MaxPeers
        /\ \A n \in 0..MaxPeers :
              /\ [pc EXCEPT !.state = "stable", !.remote = n, !.asked = 0, !.pending = {},
                            !.added = pc.added \cup pc.pending] \in Peer
              /\ [pc EXCEPT !.state = "applying", !.asked = n] \in Peer
        /\ [pc EXCEPT !.state = "offered"] \in Peer
        /\ \A n \in Serials : /\ [pc EXCEPT !.pending = pc.pending \cup {n}] \in Peer
                              /\ [pc EXCEPT !.added = pc.added \cup {n}] \in Peer
<1>1. /\ PeerState = {"offering", "offered", "applying", "answering", "stable"}
      /\ {} \in SUBSET Serials /\ 0 \in 0..MaxPeers
  BY Numbers DEF PeerState
<1>2. \A n \in Serials, state \in PeerState, m \in 0..MaxPeers :
        [n |-> n, state |-> state, asked |-> m, remote |-> 0, pending |-> {}, added |-> {}] \in Peer
  BY <1>1 DEF Peer
<1>3. ASSUME NEW pc \in Peer
      PROVE  /\ pc.n \in Serials /\ pc.asked \in 0..MaxPeers
             /\ \A n \in 0..MaxPeers :
                   /\ [pc EXCEPT !.state = "stable", !.remote = n, !.asked = 0, !.pending = {},
                                 !.added = pc.added \cup pc.pending] \in Peer
                   /\ [pc EXCEPT !.state = "applying", !.asked = n] \in Peer
             /\ [pc EXCEPT !.state = "offered"] \in Peer
             /\ \A n \in Serials : /\ [pc EXCEPT !.pending = pc.pending \cup {n}] \in Peer
                                   /\ [pc EXCEPT !.added = pc.added \cup {n}] \in Peer
  <2> DEFINE all == pc.added \cup pc.pending
             wait(n) == pc.pending \cup {n}
             have(n) == pc.added \cup {n}
  <2>1. /\ pc.n \in Serials /\ pc.asked \in 0..MaxPeers
        /\ pc.pending \in SUBSET Serials /\ pc.added \in SUBSET Serials
    BY DEF Peer
  <2>2. /\ all \in SUBSET Serials
        /\ \A n \in Serials : wait(n) \in SUBSET Serials /\ have(n) \in SUBSET Serials
    BY <2>1
  <2> HIDE DEF all, wait, have
  <2>3. ASSUME NEW n \in 0..MaxPeers
        PROVE  /\ [pc EXCEPT !.state = "stable", !.remote = n, !.asked = 0, !.pending = {},
                             !.added = all] \in Peer
               /\ [pc EXCEPT !.state = "applying", !.asked = n] \in Peer
    BY <1>1, <2>2 DEF Peer
  <2>4. [pc EXCEPT !.state = "offered"] \in Peer
    BY <1>1 DEF Peer
  <2>5. ASSUME NEW n \in Serials
        PROVE  [pc EXCEPT !.pending = wait(n)] \in Peer /\ [pc EXCEPT !.added = have(n)] \in Peer
    BY <2>2 DEF Peer
  <2>6. QED
    BY <2>1, <2>3, <2>4, <2>5 DEF all, wait, have
<1>4. QED
  BY <1>2, <1>3

LEMMA ReplaceKeeps ==
  ASSUME PageTyped, NEW p \in Pages, NEW id \in DOMAIN peers[p], NEW pc \in Peer,
         pc.state = "offering" => peers[p][id].state = "offering",
         peers' = [peers EXCEPT ![p] = [peers[p] EXCEPT ![id] = pc]]
  PROVE  Keeps(p)
<1>1. peers[p] \in PeerMaps /\ [peers[p] EXCEPT ![id] = pc] \in PeerMaps
  BY PeerMapsAre DEF PageTyped
<1>2. QED
  BY <1>1 DEF PageTyped, Keeps

LEMMA CloseKeeps ==
  ASSUME PageTyped, NEW p \in Pages,
         UNCHANGED peers \/ CloseAllPeers(p) \/ \E id : ClosePeer(p, id)
  PROVE  Keeps(p)
<1>1. CASE UNCHANGED peers
  BY <1>1 DEF PageTyped, Keeps
<1>2. CASE CloseAllPeers(p)
  BY <1>2, PeerMapsAre DEF PageTyped, Keeps, CloseAllPeers
<1>3. ASSUME NEW id, ClosePeer(p, id) PROVE Keeps(p)
  <2> DEFINE f == Restrict(peers[p], DOMAIN peers[p] \ {id})
  <2>1. peers[p] \in PeerMaps
    BY DEF PageTyped
  <2>2. f \in PeerMaps /\ DOMAIN f = DOMAIN peers[p] \ {id} /\ \A x \in DOMAIN f : f[x] = peers[p][x]
    BY <2>1, PeerMapsAre DEF Restrict
  <2>3. peers' = [peers EXCEPT ![p] = f]
    BY <1>3 DEF ClosePeer
  <2> HIDE DEF f
  <2>4. QED
    BY <2>2, <2>3 DEF PageTyped, Keeps
<1>4. QED
  BY <1>1, <1>2, <1>3

LEMMA ClosePeerCloses ==
  ASSUME PageTyped, NEW p \in Pages, NEW id, ClosePeer(p, id)
  PROVE  id \notin DOMAIN peers'[p]
<1>1. peers'[p] = Restrict(peers[p], DOMAIN peers[p] \ {id})
  BY DEF ClosePeer, PageTyped
<1>2. QED
  BY <1>1 DEF Restrict

LEMMA SetRemoteDescriptionKeeps ==
  ASSUME PageTyped, NEW p \in Pages, NEW id \in DOMAIN peers[p],
         SetRemoteDescription(p, id, peers[p][id].asked)
  PROVE  Keeps(p)
<1> DEFINE pc == peers[p][id]
           new == [pc EXCEPT !.state = "stable", !.remote = pc.asked, !.asked = 0, !.pending = {},
                             !.added = pc.added \cup pc.pending]
<1>1. pc \in Peer
  BY PeerMapsAre DEF PageTyped
<1>2. new \in Peer
  BY <1>1, PeersAre
<1>3. new.state = "stable"
  BY <1>1 DEF Peer
<1>4. peers' = [peers EXCEPT ![p] = [peers[p] EXCEPT ![id] = new]]
  BY DEF SetRemoteDescription, PageTyped
<1> HIDE DEF new
<1>5. QED
  BY <1>2, <1>3, <1>4, ReplaceKeeps

LEMMA QueueOrAddKeeps ==
  ASSUME PageTyped, NEW p \in Pages, NEW id \in DOMAIN peers[p], NEW n \in Serials,
         QueueOrAddCandidate(p, id, n)
  PROVE  Keeps(p)
<1> DEFINE pc == peers[p][id]
           waits == [pc EXCEPT !.pending = pc.pending \cup {n}]
           has == [pc EXCEPT !.added = pc.added \cup {n}]
<1>1. pc \in Peer
  BY PeerMapsAre DEF PageTyped
<1>2. waits \in Peer /\ has \in Peer
  BY <1>1, PeersAre
<1>3. waits.state = pc.state /\ has.state = pc.state
  BY <1>1 DEF Peer
<1>4. \/ peers' = [peers EXCEPT ![p] = [peers[p] EXCEPT ![id] = waits]]
      \/ peers' = [peers EXCEPT ![p] = [peers[p] EXCEPT ![id] = has]]
  <2>1. CASE pc.remote = 0
    BY <2>1 DEF QueueOrAddCandidate, PageTyped
  <2>2. CASE pc.remote # 0
    BY <2>2 DEF QueueOrAddCandidate, PageTyped
  <2>3. QED
    BY <2>1, <2>2
<1> HIDE DEF waits, has
<1>5. QED
  BY <1>2, <1>3, <1>4, ReplaceKeeps

LEMMA CreateMakes ==
  ASSUME PageTyped, NEW p \in Pages, NEW id \in Ids, NEW state \in PeerState,
         NEW n \in 0..MaxPeers, CreatePeerConnection(p, id, state, n)
  PROVE  Makes(p, id, state) /\ made' \in 0..MaxPeers
<1> DEFINE new == [n |-> made + 1, state |-> state, asked |-> n, remote |-> 0,
                   pending |-> {}, added |-> {}]
           f == Put(peers[p], id, new)
<1>1. made \in 0..MaxPeers /\ made < MaxPeers /\ made' = made + 1 /\ peers' = [peers EXCEPT ![p] = f]
  BY DEF CreatePeerConnection, PageTyped
<1>2. made + 1 \in Serials /\ made' \in 0..MaxPeers
  BY <1>1, Numbers DEF Serials
<1>3. new \in Peer /\ new.state = state
  BY <1>2, PeersAre
<1> HIDE DEF new
<1>4. peers[p] \in PeerMaps
  BY DEF PageTyped
<1>5. /\ f \in PeerMaps /\ DOMAIN f = DOMAIN peers[p] \cup {id} /\ f[id] = new
      /\ \A x \in DOMAIN peers[p] \ {id} : f[x] = peers[p][x]
  BY <1>3, <1>4, PeerMapsAre DEF Put
<1> HIDE DEF f
<1>6. Makes(p, id, state)
  BY <1>1, <1>3, <1>5 DEF Makes, PageTyped
<1>7. QED
  BY <1>2, <1>6

----------------------------------------------------------------------------
(* What a step of a page does *)

PageStep(p) ==
    \/ StartBroadcast(p) \/ PlayStarted(p) \/ PlayFails(p) \/ StopBroadcast(p)
    \/ ConnectionDrops(p) \/ Leave(p) \/ OnMessage(p)
    \/ \E id \in Ids : \/ SendOffer(p, id) \/ SendAnswer(p, id) \/ ApplyAnswer(p, id)
                       \/ OfferFails(p, id) \/ AnswerFails(p, id) \/ ConnectionFails(p, id)

Hears(p, k) ==
    /\ Online(p) /\ inbox[p] # << >> /\ Msg(p) \in Inward /\ Msg(p).kind = k
    /\ inbox' = [inbox EXCEPT ![p] = Tail(inbox[p])]

(* It loses its connection with what was under way, or else takes at most  *)
(* a message and sends some: "broadcaster" when it starts to broadcast,    *)
(* "watcher" when it stops, and an offer for a peer connection that offers.*)
Talks(p) ==
    \/ /\ Online(p) /\ ~Online(p)' /\ \A q \in Pages \ {p} : link'[q] = link[q]
       /\ inbox' = [inbox EXCEPT ![p] = << >>] /\ outbox' = [outbox EXCEPT ![p] = << >>]
       /\ casting' \in {casting, [casting EXCEPT ![p] = FALSE]}
    \/ /\ UNCHANGED link
       /\ \/ UNCHANGED inbox
          \/ \E k \in Kinds : Hears(p, k) /\ (k = "forceStop" => ~casting'[p])
       /\ \/ /\ casting' = [casting EXCEPT ![p] = TRUE] /\ UNCHANGED inbox
             /\ Send(p, <<Plain("broadcaster")>>)
          \/ casting' = [casting EXCEPT ![p] = FALSE] /\ Send(p, <<Plain("watcher")>>)
          \/ /\ UNCHANGED casting
             /\ \/ UNCHANGED outbox
                \/ \E ms \in Seq(Outward) :
                      /\ Send(p, ms) /\ ~Has(ms, Kind("broadcaster"))
                      /\ \A id : Has(ms, Of("offer", id)) =>
                            id \in DOMAIN peers[p] /\ peers[p][id].state = "offering"

(* Its peer connections: it makes one when it is asked for an offer or is  *)
(* made one, and closes that of a partner that is gone.                    *)
Peering(p) ==
    /\ \/ Keeps(p)
       \/ Hears(p, "watcher") /\ Makes(p, Msg(p).id, "offering")
       \/ Hears(p, "offer") /\ Makes(p, Msg(p).id, "answering")
    /\ UNCHANGED link /\ inbox' # inbox /\ Msg(p).kind = "disconnectPeer" =>
          Msg(p).id \notin DOMAIN peers'[p]

Effect(p) == PageTyped' /\ UNCHANGED <<conn, opened>> /\ Talks(p) /\ Peering(p)

LEMMA SendEffect ==
  ASSUME PageTyped, NEW p \in Pages, NEW ms \in Seq(Outward), Send(p, ms)
  PROVE  /\ outbox' \in [Pages -> Seq(Outward)]
         /\ \A q \in Pages \ {p} : outbox'[q] = outbox[q]
         /\ IF Online(p) \/ BuffersOffline THEN outbox'[p] = outbox[p] \o ms
            ELSE outbox'[p] = outbox[p]
<1>1. outbox[p] \in Seq(Outward) /\ outbox[p] \o ms \in Seq(Outward)
  BY DEF PageTyped
<1>2. CASE Online(p) \/ BuffersOffline
  <2>1. outbox' = [outbox EXCEPT ![p] = outbox[p] \o ms]
    BY <1>2 DEF Send
  <2>2. QED
    BY <1>1, <1>2, <2>1 DEF PageTyped
<1>3. CASE ~(Online(p) \/ BuffersOffline)
  <2>1. outbox' = outbox
    BY <1>3 DEF Send
  <2>2. QED
    BY <1>3, <2>1 DEF PageTyped
<1>4. QED
  BY <1>2, <1>3

LEMMA ReceiveEffect ==
  ASSUME PageTyped, NEW p \in Pages, NEW k \in Kinds, Receive(p, k)
  PROVE  /\ Hears(p, k) /\ inbox' \in [Pages -> Seq(Inward)]
         /\ UNCHANGED <<conn, opened, link, faults>>
         /\ Msg(p) \in Message /\ Named(Msg(p)) /\ (k = "watcher" => Msg(p).id \in Ids)
<1>1. /\ Online(p) /\ inbox[p] # << >> /\ Head(inbox[p]).kind = k
      /\ inbox' = [inbox EXCEPT ![p] = Tail(inbox[p])] /\ UNCHANGED <<conn, opened, link, faults>>
  BY DEF Receive, linkVars
<1>2. inbox[p] \in Seq(Inward) /\ Head(inbox[p]) \in Inward /\ Tail(inbox[p]) \in Seq(Inward)
  BY <1>1 DEF PageTyped
<1>3. Hears(p, k)
  BY <1>1, <1>2 DEF Hears, Msg
<1>4. inbox' \in [Pages -> Seq(Inward)]
  BY <1>1, <1>2 DEF PageTyped
<1>5. QED
  BY <1>1, <1>2, <1>3, <1>4 DEF Msg, Inward

LEMMA PlainSent ==
  ASSUME NEW k \in {"broadcaster", "watcher"}
  PROVE  <<Plain(k)>> \in Seq(Outward) /\ \A id : ~Has(<<Plain(k)>>, Of("offer", id))
<1>1. k \in Kinds /\ Plain(k) \in Outward
  BY OutwardMessages DEF Kinds
<1>2. Plain(k).kind = k
  BY <1>1, MessagesAre
<1>3. QED
  BY <1>1, <1>2, HasOne DEF Of

LEMMA DescriptionSent ==
  ASSUME NEW m \in Outward, m.kind # "broadcaster", NEW id \in Ids, NEW n \in Serials
  PROVE  /\ <<m>> \o Candidates(id, n) \in Seq(Outward)
         /\ ~Has(<<m>> \o Candidates(id, n), Kind("broadcaster"))
         /\ \A x : Has(<<m>> \o Candidates(id, n), Of("offer", x)) => m.kind = "offer" /\ m.id = x
<1> DEFINE c == [kind |-> "candidate", id |-> id, n |-> n, re |-> 0]
<1>1. c \in Message /\ c.kind = "candidate" /\ c.id = id /\ c.n = n
  BY Numbers DEF Message, Kinds
<1>2. c \in Outward
  BY <1>1 DEF Outward, Named
<1>3. Candidates(id, n) \in {<<c>>, << >>}
  BY DEF Candidates
<1> HIDE DEF c
<1>4. <<m>> \in Seq(Outward) /\ Candidates(id, n) \in Seq(Outward)
  <2>1. (\A x \in Outward : <<x>> \in Seq(Outward)) /\ << >> \in Seq(Outward)
    OBVIOUS
  <2>2. QED
    BY <1>2, <1>3, <2>1
<1>5. \A A : Has(Candidates(id, n), A) => c \in A
  <2>1. CASE Candidates(id, n) = <<c>>
    BY <2>1, HasOne
  <2>2. CASE Candidates(id, n) = << >>
    BY <2>2, HasNothing
  <2>3. QED
    BY <1>3, <2>1, <2>2
<1>6. /\ <<m>> \o Candidates(id, n) \in Seq(Outward)
      /\ \A A : Has(<<m>> \o Candidates(id, n), A) => m \in A \/ c \in A
  <2>1. <<m>> \o Candidates(id, n) \in Seq(Outward)
    BY <1>4
  <2>2. \A A : Has(<<m>> \o Candidates(id, n), A) <=> Has(<<m>>, A) \/ Has(Candidates(id, n), A)
    BY <1>4, ConcatHas
  <2>3. QED
    BY <1>5, <2>1, <2>2, HasOne
<1>7. QED
  BY <1>1, <1>6 DEF Kind, Of

LEMMA UserStep ==
  ASSUME PageTyped, NEW p \in Pages,
         StartBroadcast(p) \/ PlayStarted(p) \/ PlayFails(p) \/ StopBroadcast(p)
  PROVE  Effect(p)
<1>1. CASE StartBroadcast(p)
  <2>1. /\ UNCHANGED <<conn, opened, link, inbox, outbox, casting, made, faults>>
        /\ clicks < MaxClicks /\ clicks' = clicks + 1
        /\ starting' = [starting EXCEPT ![p] = starting[p] + 1]
        /\ shown' = [shown EXCEPT ![p] = None] /\ CloseAllPeers(p)
    BY <1>1 DEF StartBroadcast, linkVars, ClearRemoteVideo
  <2>2. Keeps(p)
    BY <2>1, CloseKeeps
  <2>3. /\ clicks' \in 0..MaxClicks /\ starting' \in [Pages -> Nat]
        /\ \A q \in Pages : starting'[q] <= clicks'
    BY <2>1, CastPageAssumption DEF PageTyped
  <2>4. shown' \in [Pages -> Ids \cup {None}]
    BY <2>1 DEF PageTyped
  <2>5. PageTyped'
    BY <2>1, <2>2, <2>3, <2>4 DEF PageTyped, Keeps
  <2>6. QED
    BY <2>1, <2>2, <2>5 DEF Effect, Talks, Peering
<1>2. CASE PlayStarted(p)
  <2>1. /\ UNCHANGED <<conn, opened, link, inbox, clicks, peers, made, shown, faults>>
        /\ starting[p] > 0 /\ starting' = [starting EXCEPT ![p] = starting[p] - 1]
        /\ casting' = [casting EXCEPT ![p] = TRUE]
        /\ Send(p, <<Plain("broadcaster")>>)
    BY <1>2 DEF PlayStarted, linkVars, peerVars
  <2>2. Keeps(p)
    BY <2>1, CloseKeeps
  <2>3. outbox' \in [Pages -> Seq(Outward)]
    BY <2>1, PlainSent, SendEffect
  <2>4. starting' \in [Pages -> Nat] /\ \A q \in Pages : starting'[q] <= clicks
    BY <2>1, CastPageAssumption DEF PageTyped
  <2>5. casting' \in [Pages -> BOOLEAN]
    BY <2>1 DEF PageTyped
  <2>6. PageTyped'
    BY <2>1, <2>3, <2>4, <2>5 DEF PageTyped
  <2>7. QED
    BY <2>1, <2>2, <2>6 DEF Effect, Talks, Peering
<1>3. CASE PlayFails(p)
  <2>1. /\ UNCHANGED <<conn, opened, link, inbox, outbox, casting, clicks, peers, made, shown>>
        /\ starting[p] > 0 /\ starting' = [starting EXCEPT ![p] = starting[p] - 1]
        /\ faults < MaxFaults /\ faults' = faults + 1
    BY <1>3 DEF PlayFails, linkVars, peerVars, Fault
  <2>2. Keeps(p)
    BY <2>1, CloseKeeps
  <2>3. PageTyped'
    BY <2>1, CastPageAssumption DEF PageTyped
  <2>4. QED
    BY <2>1, <2>2, <2>3 DEF Effect, Talks, Peering
<1>4. CASE StopBroadcast(p)
  <2>1. /\ UNCHANGED <<conn, opened, link, inbox, starting, clicks, made, shown, faults>>
        /\ CloseAllPeers(p) /\ casting' = [casting EXCEPT ![p] = FALSE]
        /\ Send(p, <<Plain("watcher")>>)
    BY <1>4 DEF StopBroadcast, Stop, linkVars
  <2>2. Keeps(p)
    BY <2>1, CloseKeeps
  <2>3. outbox' \in [Pages -> Seq(Outward)]
    BY <2>1, PlainSent, SendEffect
  <2>4. PageTyped'
    BY <2>1, <2>2, <2>3 DEF PageTyped, Keeps
  <2>5. QED
    BY <2>1, <2>2, <2>4 DEF Effect, Talks, Peering
<1>5. QED
  BY <1>1, <1>2, <1>3, <1>4

LEMMA AwayStep ==
  ASSUME PageTyped, NEW p \in Pages, ConnectionDrops(p) \/ Leave(p)
  PROVE  Effect(p)
<1>1. PICK s \in {"down", "left"} : Cut(p, s)
  BY DEF ConnectionDrops, Leave
<1>2. /\ link' = [link EXCEPT ![p] = s]
      /\ inbox' = [inbox EXCEPT ![p] = << >>] /\ outbox' = [outbox EXCEPT ![p] = << >>]
  BY <1>1 DEF Cut
<1>3. /\ UNCHANGED <<conn, opened, clicks, made>>
      /\ Online(p) /\ faults < MaxFaults /\ faults' = faults + 1
      /\ casting' \in {casting, [casting EXCEPT ![p] = FALSE]}
      /\ starting' \in {starting, [starting EXCEPT ![p] = 0]}
      /\ shown' \in {shown, [shown EXCEPT ![p] = None]}
      /\ UNCHANGED peers \/ CloseAllPeers(p)
  BY DEF ConnectionDrops, Leave, Fault, castVars, peerVars, ClearRemoteVideo
<1>4. Keeps(p)
  BY <1>3, CloseKeeps
<1>5. ~Online(p)' /\ (\A q \in Pages \ {p} : link'[q] = link[q])
      /\ link' \in [Pages -> {"down", "open", "left"}]
  BY <1>2 DEF PageTyped, Online
<1>6. inbox' \in [Pages -> Seq(Inward)] /\ outbox' \in [Pages -> Seq(Outward)]
  <2>1. << >> \in Seq(Inward) /\ << >> \in Seq(Outward)
    OBVIOUS
  <2>2. QED
    BY <1>2, <2>1 DEF PageTyped
<1>7. casting' \in [Pages -> BOOLEAN]
  BY <1>3 DEF PageTyped
<1>8. starting' \in [Pages -> Nat] /\ \A q \in Pages : starting'[q] <= clicks
  <2>1. CASE starting' = starting
    BY <2>1 DEF PageTyped
  <2>2. CASE starting' = [starting EXCEPT ![p] = 0]
    <3>1. clicks \in Nat
      BY CastPageAssumption DEF PageTyped
    <3>2. QED
      BY <2>2, <3>1 DEF PageTyped
  <2>3. QED
    BY <1>3, <2>1, <2>2
<1>9. shown' \in [Pages -> Ids \cup {None}] /\ faults' \in 0..MaxFaults
  <2>1. faults' \in 0..MaxFaults
    BY <1>3, CastPageAssumption DEF PageTyped
  <2>2. shown' \in [Pages -> Ids \cup {None}]
    BY <1>3 DEF PageTyped
  <2>3. QED
    BY <2>1, <2>2
<1>10. PageTyped'
  BY <1>3, <1>4, <1>5, <1>6, <1>7, <1>8, <1>9 DEF PageTyped, Keeps
<1>11. ~UNCHANGED link
  BY <1>3, <1>5 DEF Online
<1>12. QED
  BY <1>2, <1>3, <1>4, <1>5, <1>10, <1>11 DEF Effect, Talks, Peering

(* A handler that only takes its message and touches peer connections.     *)
LEMMA HandlerEffect ==
  ASSUME PageTyped, NEW p \in Pages, NEW k \in Kinds, Receive(p, k),
         casting' = casting \/ (casting' = [casting EXCEPT ![p] = FALSE] /\ Send(p, <<Plain("watcher")>>)),
         UNCHANGED casting => UNCHANGED outbox \/ Send(p, <<Plain("watcher")>>),
         k = "forceStop" => ~casting'[p],
         UNCHANGED <<starting, clicks>>,
         \/ Keeps(p) /\ UNCHANGED made
         \/ k = "watcher" /\ Makes(p, Msg(p).id, "offering") /\ made' \in 0..MaxPeers
         \/ k = "offer" /\ Makes(p, Msg(p).id, "answering") /\ made' \in 0..MaxPeers,
         shown' \in {shown, [shown EXCEPT ![p] = None], [shown EXCEPT ![p] = Msg(p).id]},
         k = "disconnectPeer" => Msg(p).id \notin DOMAIN peers'[p]
  PROVE  Effect(p)
<1>1. /\ Hears(p, k) /\ inbox' \in [Pages -> Seq(Inward)] /\ UNCHANGED <<conn, opened, link, faults>>
      /\ Msg(p) \in Message /\ Msg(p).kind = k
  BY ReceiveEffect DEF Hears
<1>2. <<Plain("watcher")>> \in Seq(Outward) /\ ~Has(<<Plain("watcher")>>, Kind("broadcaster"))
      /\ \A id : ~Has(<<Plain("watcher")>>, Of("offer", id))
  <2>1. Plain("watcher").kind = "watcher"
    BY MessagesAre DEF Kinds
  <2>2. QED
    BY <2>1, PlainSent, HasOne DEF Kind
<1>3. outbox' \in [Pages -> Seq(Outward)]
  <2>1. CASE UNCHANGED outbox
    BY <2>1 DEF PageTyped
  <2>2. CASE Send(p, <<Plain("watcher")>>)
    BY <1>2, <2>2, SendEffect
  <2>3. QED
    BY <2>1, <2>2
<1>4. casting' \in [Pages -> BOOLEAN]
  BY DEF PageTyped
<1>5. shown' \in [Pages -> Ids \cup {None}]
  <2>1. Msg(p).id \in Ids \cup {None}
    BY <1>1, MessageFields
  <2>2. QED
    BY <2>1 DEF PageTyped
<1>6. peers' \in [Pages -> PeerMaps] /\ made' \in 0..MaxPeers
  BY DEF PageTyped, Keeps, Makes
<1>7. PageTyped'
  BY <1>1, <1>3, <1>4, <1>5, <1>6 DEF PageTyped
<1>8. Talks(p)
  <2>1. CASE UNCHANGED casting
    <3>1. \/ UNCHANGED outbox
          \/ \E ms \in Seq(Outward) :
                /\ Send(p, ms) /\ ~Has(ms, Kind("broadcaster"))
                /\ \A id : Has(ms, Of("offer", id)) =>
                      id \in DOMAIN peers[p] /\ peers[p][id].state = "offering"
      BY <1>2, <2>1
    <3>2. QED
      BY <1>1, <2>1, <3>1 DEF Talks
  <2>2. CASE casting' = [casting EXCEPT ![p] = FALSE] /\ Send(p, <<Plain("watcher")>>)
    BY <1>1, <2>2 DEF Talks
  <2>3. QED
    BY <2>1, <2>2
<1>9. Peering(p)
  BY <1>1 DEF Peering
<1>10. QED
  BY <1>1, <1>7, <1>8, <1>9 DEF Effect

LEMMA OnMessageStep ==
  ASSUME PageTyped, NEW p \in Pages, OnMessage(p)
  PROVE  Effect(p)
<1> USE DEF castVars, peerVars, Ignore
<1>1. CASE OnBroadcaster(p)
  <2>1. /\ Receive(p, "broadcaster") /\ UNCHANGED <<casting, starting, clicks, made>>
        /\ UNCHANGED outbox \/ Send(p, <<Plain("watcher")>>)
        /\ UNCHANGED peers \/ CloseAllPeers(p)
        /\ shown' \in {shown, [shown EXCEPT ![p] = None]}
    BY <1>1 DEF OnBroadcaster, ClearRemoteVideo
  <2>2. QED
    BY <2>1, CloseKeeps, HandlerEffect DEF Kinds
<1>2. CASE OnForceStop(p)
  <2>1. /\ Receive(p, "forceStop") /\ UNCHANGED <<starting, clicks, made, shown>>
        /\ UNCHANGED peers \/ CloseAllPeers(p)
        /\ \/ UNCHANGED <<casting, outbox>> /\ ~casting[p]
           \/ casting' = [casting EXCEPT ![p] = FALSE] /\ Send(p, <<Plain("watcher")>>)
    BY <1>2 DEF OnForceStop, Stop
  <2>2. ~casting'[p]
    BY <2>1 DEF PageTyped
  <2>3. UNCHANGED casting => UNCHANGED outbox \/ Send(p, <<Plain("watcher")>>)
    BY <2>1
  <2>4. QED
    BY <2>1, <2>2, <2>3, CloseKeeps, HandlerEffect DEF Kinds
<1>3. CASE OnWatcher(p)
  <2>1. /\ Receive(p, "watcher") /\ UNCHANGED <<outbox, casting, starting, clicks, shown>>
        /\ UNCHANGED <<peers, made>> \/ CreatePeerConnection(p, Msg(p).id, "offering", 0)
    BY <1>3 DEF OnWatcher
  <2>2. "watcher" \in Kinds /\ "offering" \in PeerState
    BY DEF Kinds, PeerState
  <2>3. Msg(p).id \in Ids
    BY <2>1, <2>2, ReceiveEffect
  <2>4. (Keeps(p) /\ UNCHANGED made) \/ (Makes(p, Msg(p).id, "offering") /\ made' \in 0..MaxPeers)
    BY <2>1, <2>2, <2>3, Numbers, CloseKeeps, CreateMakes
  <2>5. QED
    BY <2>1, <2>2, <2>4, HandlerEffect
<1>4. CASE OnOffer(p)
  <2>1. /\ Receive(p, "offer") /\ UNCHANGED <<outbox, casting, starting, clicks>>
        /\ shown' \in {shown, [shown EXCEPT ![p] = Msg(p).id]}
        /\ UNCHANGED <<peers, made>> \/ CreatePeerConnection(p, Msg(p).id, "answering", Msg(p).n)
    BY <1>4 DEF OnOffer
  <2>2. "offer" \in Kinds /\ "answering" \in PeerState
    BY DEF Kinds, PeerState
  <2>3. Msg(p).id \in Ids /\ Msg(p).n \in 0..MaxPeers
    <3>1. Named(Msg(p)) /\ Hears(p, "offer")
      BY <2>1, <2>2, ReceiveEffect
    <3>2. QED
      BY <3>1, Numbers DEF Named, Hears
  <2>4. (Keeps(p) /\ UNCHANGED made) \/ (Makes(p, Msg(p).id, "answering") /\ made' \in 0..MaxPeers)
    BY <2>1, <2>2, <2>3, CloseKeeps, CreateMakes
  <2>5. QED
    BY <2>1, <2>2, <2>4, HandlerEffect
<1>5. CASE OnAnswer(p)
  <2> DEFINE id == Msg(p).id
             new == [peers[p][id] EXCEPT !.state = "applying", !.asked = Msg(p).n]
  <2>1. Receive(p, "answer") /\ UNCHANGED <<outbox, casting, starting, clicks, made, shown>>
    BY <1>5 DEF OnAnswer
  <2>2. \/ UNCHANGED peers
        \/ id \in DOMAIN peers[p] /\ peers' = [peers EXCEPT ![p] = [peers[p] EXCEPT ![id] = new]]
    <3>1. CASE id \in DOMAIN peers[p] /\ peers[p][id].state = "offered"
      <4>1. peers' = [peers EXCEPT ![p][id].state = "applying", ![p][id].asked = Msg(p).n]
        BY <1>5, <3>1 DEF OnAnswer
      <4>2. QED
        BY <3>1, <4>1 DEF PageTyped
    <3>2. CASE ~(id \in DOMAIN peers[p] /\ peers[p][id].state = "offered")
      BY <1>5, <3>2 DEF OnAnswer
    <3>3. QED
      BY <3>1, <3>2
  <2>3. Msg(p).n \in 0..MaxPeers
    BY <2>1, ReceiveEffect, MessageFields DEF Kinds
  <2>4. ASSUME id \in DOMAIN peers[p] PROVE new \in Peer /\ new.state = "applying"
    <3>1. peers[p][id] \in Peer
      BY <2>4, PeerMapsAre DEF PageTyped
    <3>2. QED
      BY <2>3, <3>1, PeersAre DEF Peer
  <2> HIDE DEF id, new
  <2>5. Keeps(p)
    BY <2>2, <2>4, CloseKeeps, ReplaceKeeps
  <2>6. QED
    BY <2>1, <2>5, HandlerEffect DEF Kinds
<1>6. CASE OnCandidate(p)
  <2>1. /\ Receive(p, "candidate") /\ UNCHANGED <<outbox, casting, starting, clicks, made, shown>>
        /\ \/ UNCHANGED peers
           \/ Msg(p).id \in DOMAIN peers[p] /\ QueueOrAddCandidate(p, Msg(p).id, Msg(p).n)
    BY <1>6 DEF OnCandidate
  <2>2. Msg(p).n \in Serials
    <3>1. Named(Msg(p)) /\ Hears(p, "candidate")
      BY <2>1, ReceiveEffect DEF Kinds
    <3>2. QED
      BY <3>1 DEF Named, Hears
  <2>3. Keeps(p)
    BY <2>1, <2>2, CloseKeeps, QueueOrAddKeeps
  <2>4. QED
    BY <2>1, <2>3, HandlerEffect DEF Kinds
<1>7. CASE OnDisconnectPeer(p)
  <2>1. /\ Receive(p, "disconnectPeer") /\ ClosePeer(p, Msg(p).id)
        /\ UNCHANGED <<outbox, casting, starting, clicks, made, shown>>
    BY <1>7 DEF OnDisconnectPeer
  <2>2. QED
    BY <2>1, CloseKeeps, ClosePeerCloses, HandlerEffect DEF Kinds
<1>8. CASE OnBroadcasterLeft(p)
  <2>1. /\ Receive(p, "broadcasterLeft") /\ UNCHANGED <<casting, starting, clicks, made>>
        /\ UNCHANGED outbox \/ Send(p, <<Plain("watcher")>>)
        /\ UNCHANGED peers \/ CloseAllPeers(p)
        /\ shown' \in {shown, [shown EXCEPT ![p] = None]}
    BY <1>8 DEF OnBroadcasterLeft, ClearRemoteVideo
  <2>2. QED
    BY <2>1, CloseKeeps, HandlerEffect DEF Kinds
<1>9. QED
  BY <1>1, <1>2, <1>3, <1>4, <1>5, <1>6, <1>7, <1>8 DEF OnMessage

LEMMA PeerStep ==
  ASSUME PageTyped, NEW p \in Pages, NEW id \in Ids,
         \/ SendOffer(p, id) \/ SendAnswer(p, id) \/ ApplyAnswer(p, id)
         \/ OfferFails(p, id) \/ AnswerFails(p, id) \/ ConnectionFails(p, id)
  PROVE  Effect(p)
<1> DEFINE pc == peers[p][id]
           says == /\ UNCHANGED casting
                   /\ \/ UNCHANGED outbox
                      \/ \E ms \in Seq(Outward) :
                            /\ Send(p, ms) /\ ~Has(ms, Kind("broadcaster"))
                            /\ \A x : Has(ms, Of("offer", x)) =>
                                  x \in DOMAIN peers[p] /\ peers[p][x].state = "offering"
<1>1. id \in DOMAIN peers[p] /\ pc \in Peer
  <2>1. id \in DOMAIN peers[p]
    BY DEF SendOffer, SendAnswer, ApplyAnswer, OfferFails, AnswerFails, ConnectionFails
  <2>2. QED
    BY <2>1, PeerMapsAre DEF PageTyped
<1>2. pc.n \in Serials /\ pc.asked \in 0..MaxPeers
  BY <1>1, PeersAre
<1>3. /\ UNCHANGED <<conn, opened, link, inbox, casting, starting, clicks, made>>
      /\ shown' \in {shown, [shown EXCEPT ![p] = None]}
  BY DEF SendOffer, SendAnswer, ApplyAnswer, OfferFails, AnswerFails, ConnectionFails,
     linkVars, castVars, ClearRemoteVideo
<1>4. faults' \in 0..MaxFaults
  <2>1. faults' = faults \/ (faults < MaxFaults /\ faults' = faults + 1)
    BY DEF SendOffer, SendAnswer, ApplyAnswer, OfferFails, AnswerFails, ConnectionFails, Fault
  <2>2. QED
    BY <2>1, CastPageAssumption DEF PageTyped
<1>5. Keeps(p) /\ says
  <2>1. CASE SendOffer(p, id)
    <3> DEFINE m == Offer(id, pc.n)
               new == [pc EXCEPT !.state = "offered"]
    <3>1. /\ pc.state = "offering" /\ Send(p, <<m>> \o Candidates(id, pc.n))
          /\ peers' = [peers EXCEPT ![p] = [peers[p] EXCEPT ![id] = new]]
      BY <2>1 DEF SendOffer, PageTyped
    <3>2. new \in Peer /\ new.state = "offered"
      BY <1>1, PeersAre DEF Peer
    <3>3. m \in Outward /\ m.kind = "offer" /\ m.id = id
      BY <1>2, MessagesAre, OutwardMessages
    <3> HIDE DEF new, m
    <3>4. Keeps(p)
      BY <1>1, <3>1, <3>2, ReplaceKeeps
    <3>5. /\ <<m>> \o Candidates(id, pc.n) \in Seq(Outward)
          /\ ~Has(<<m>> \o Candidates(id, pc.n), Kind("broadcaster"))
          /\ \A x : Has(<<m>> \o Candidates(id, pc.n), Of("offer", x)) => x = id
      BY <1>2, <3>3, DescriptionSent
    <3>6. QED
      BY <1>1, <1>3, <3>1, <3>4, <3>5
  <2>2. CASE SendAnswer(p, id)
    <3> DEFINE m == Answer(id, pc.n, pc.asked)
    <3>1. SetRemoteDescription(p, id, pc.asked) /\ Send(p, <<m>> \o Candidates(id, pc.n))
      BY <2>2 DEF SendAnswer
    <3>2. m \in Outward /\ m.kind = "answer"
      BY <1>2, MessagesAre, OutwardMessages
    <3> HIDE DEF m
    <3>3. Keeps(p)
      BY <1>1, <3>1, SetRemoteDescriptionKeeps
    <3>4. /\ <<m>> \o Candidates(id, pc.n) \in Seq(Outward)
          /\ ~Has(<<m>> \o Candidates(id, pc.n), Kind("broadcaster"))
          /\ \A x : ~Has(<<m>> \o Candidates(id, pc.n), Of("offer", x))
      BY <1>2, <3>2, DescriptionSent
    <3>5. QED
      BY <1>3, <3>1, <3>3, <3>4
  <2>3. CASE ApplyAnswer(p, id)
    <3>1. SetRemoteDescription(p, id, pc.asked) /\ UNCHANGED outbox
      BY <2>3 DEF ApplyAnswer
    <3>2. QED
      BY <1>1, <1>3, <3>1, SetRemoteDescriptionKeeps
  <2>4. CASE OfferFails(p, id) \/ AnswerFails(p, id) \/ ConnectionFails(p, id)
    <3>1. ClosePeer(p, id) /\ UNCHANGED outbox
      BY <2>4 DEF OfferFails, AnswerFails, ConnectionFails
    <3>2. QED
      BY <1>3, <3>1, CloseKeeps
  <2>5. QED
    BY <2>1, <2>2, <2>3, <2>4
<1>6. outbox' \in [Pages -> Seq(Outward)]
  <2>1. CASE UNCHANGED outbox
    BY <2>1 DEF PageTyped
  <2>2. ASSUME NEW ms \in Seq(Outward), Send(p, ms) PROVE outbox' \in [Pages -> Seq(Outward)]
    BY <2>2, SendEffect
  <2>3. QED
    BY <1>5, <2>1, <2>2
<1>7. shown' \in [Pages -> Ids \cup {None}]
  BY <1>3 DEF PageTyped
<1>8. PageTyped'
  BY <1>3, <1>4, <1>5, <1>6, <1>7 DEF PageTyped, Keeps
<1>9. QED
  BY <1>3, <1>5, <1>8 DEF Effect, Talks, Peering

LEMMA PageStepEffect ==
  ASSUME PageTyped, NEW p \in Pages, PageStep(p)
  PROVE  Effect(p)
BY UserStep, AwayStep, OnMessageStep, PeerStep DEF PageStep

(* The video: a page shows a partner from its offer on, when it does not   *)
(* broadcast, until it clears the video, as it does when it is told that   *)
(* the broadcaster has left.                                               *)
LEMMA VideoAfter ==
  ASSUME PageTyped, NEW p \in Pages, PageStep(p)
  PROVE  /\ \A q \in Pages \ {p} : shown'[q] = shown[q]
         /\ faults' = faults \/ faults' = faults + 1
         /\ Online(p) /\ ~Online(p)' => faults' = faults + 1
         /\ \/ shown'[p] = None
            \/ /\ shown'[p] = shown[p]
               /\ Online(p)' /\ inbox' # inbox /\ Msg(p).kind = "broadcasterLeft" => casting[p]
            \/ Hears(p, "offer") /\ shown'[p] = Msg(p).id /\ ~casting[p] /\ UNCHANGED <<casting, outbox>>
<1> USE DEF linkVars, castVars, peerVars, Fault, ClearRemoteVideo, Ignore
<1>1. shown \in [Pages -> Ids \cup {None}] /\ link \in [Pages -> {"down", "open", "left"}]
  BY DEF PageTyped
<1>2. CASE StartBroadcast(p) \/ PlayStarted(p) \/ PlayFails(p) \/ StopBroadcast(p)
  <2>1. UNCHANGED <<link, inbox>> /\ shown' \in {shown, [shown EXCEPT ![p] = None]}
        /\ (faults' = faults \/ faults' = faults + 1)
    BY <1>2 DEF StartBroadcast, PlayStarted, PlayFails, StopBroadcast
  <2>2. QED
    BY <1>1, <2>1 DEF Online
<1>3. CASE ConnectionDrops(p) \/ Leave(p)
  <2>1. faults' = faults + 1 /\ shown' \in {shown, [shown EXCEPT ![p] = None]}
        /\ (link' = [link EXCEPT ![p] = "down"] \/ link' = [link EXCEPT ![p] = "left"])
    BY <1>3 DEF ConnectionDrops, Leave, Cut
  <2>2. ~Online(p)'
    BY <1>1, <2>1 DEF Online
  <2>3. QED
    BY <1>1, <2>1, <2>2
<1>4. CASE OnMessage(p)
  <2>1. ASSUME NEW k \in Kinds, Receive(p, k),
               \/ shown' = shown /\ (k = "broadcasterLeft" => casting[p])
               \/ shown' = [shown EXCEPT ![p] = None]
               \/ /\ k = "offer" /\ shown' = [shown EXCEPT ![p] = Msg(p).id] /\ ~casting[p]
                  /\ UNCHANGED <<casting, outbox>>
        PROVE  /\ \A q \in Pages \ {p} : shown'[q] = shown[q]
               /\ UNCHANGED <<link, faults>>
               /\ \/ shown'[p] = None
                  \/ shown'[p] = shown[p] /\ (Msg(p).kind = "broadcasterLeft" => casting[p])
                  \/ Hears(p, "offer") /\ shown'[p] = Msg(p).id /\ ~casting[p] /\ UNCHANGED <<casting, outbox>>
    <3>1. Hears(p, k) /\ Msg(p).kind = k /\ UNCHANGED <<link, faults>>
      BY <2>1, ReceiveEffect DEF Hears
    <3>2. QED
      BY <1>1, <2>1, <3>1
  <2>2. CASE OnForceStop(p) \/ OnWatcher(p) \/ OnAnswer(p) \/ OnCandidate(p) \/ OnDisconnectPeer(p)
    <3>1. shown' = shown /\ \E k \in Kinds \ {"broadcasterLeft"} : Receive(p, k)
      BY <2>2 DEF OnForceStop, OnWatcher, OnAnswer, OnCandidate, OnDisconnectPeer, Kinds
    <3>2. QED
      BY <2>1, <3>1 DEF Online
  <2>3. CASE OnBroadcaster(p)
    <3>1. Receive(p, "broadcaster") /\ shown' \in {shown, [shown EXCEPT ![p] = None]}
      BY <2>3 DEF OnBroadcaster
    <3>2. QED
      BY <2>1, <3>1 DEF Online, Kinds
  <2>4. CASE OnBroadcasterLeft(p)
    <3>1. /\ Receive(p, "broadcasterLeft")
          /\ (casting[p] /\ shown' = shown) \/ shown' = [shown EXCEPT ![p] = None]
      BY <2>4 DEF OnBroadcasterLeft
    <3>2. QED
      BY <2>1, <3>1 DEF Online, Kinds
  <2>5. CASE OnOffer(p)
    <3>1. /\ Receive(p, "offer") /\ UNCHANGED <<casting, outbox>>
          /\ shown' = shown \/ (~casting[p] /\ shown' = [shown EXCEPT ![p] = Msg(p).id])
      BY <2>5 DEF OnOffer
    <3>2. QED
      BY <2>1, <3>1 DEF Online, Kinds
  <2>6. QED
    BY <1>4, <2>2, <2>3, <2>4, <2>5 DEF OnMessage
<1>5. ASSUME NEW id \in Ids,
             \/ SendOffer(p, id) \/ SendAnswer(p, id) \/ ApplyAnswer(p, id)
             \/ OfferFails(p, id) \/ AnswerFails(p, id) \/ ConnectionFails(p, id)
      PROVE  UNCHANGED <<link, inbox>> /\ shown' \in {shown, [shown EXCEPT ![p] = None]}
             /\ (faults' = faults \/ faults' = faults + 1)
  BY <1>5 DEF SendOffer, SendAnswer, ApplyAnswer, OfferFails, AnswerFails, ConnectionFails
<1>6. CASE \E id \in Ids : \/ SendOffer(p, id) \/ SendAnswer(p, id) \/ ApplyAnswer(p, id)
                           \/ OfferFails(p, id) \/ AnswerFails(p, id) \/ ConnectionFails(p, id)
  BY <1>1, <1>5, <1>6 DEF Online
<1>7. QED
  BY <1>2, <1>3, <1>4, <1>6 DEF PageStep

LEMMA OthersKeep ==
  ASSUME PageTyped, NEW p \in Pages, Effect(p), NEW q \in Pages, q # p
  PROVE  /\ conn'[q] = conn[q] /\ link'[q] = link[q] /\ inbox'[q] = inbox[q]
         /\ outbox'[q] = outbox[q] /\ casting'[q] = casting[q] /\ peers'[q] = peers[q]
<1>1. conn'[q] = conn[q] /\ peers'[q] = peers[q]
  BY DEF Effect, Peering, Keeps, Makes
<1>2. link'[q] = link[q] /\ inbox'[q] = inbox[q] /\ casting'[q] = casting[q]
  BY DEF Effect, Talks, Hears, PageTyped
<1>3. outbox'[q] = outbox[q]
  <2>1. \/ UNCHANGED outbox \/ outbox' = [outbox EXCEPT ![p] = << >>]
        \/ \E ms \in Seq(Outward) : Send(p, ms)
    BY PlainSent DEF Effect, Talks
  <2>2. QED
    BY <2>1, SendEffect DEF PageTyped
<1>4. QED
  BY <1>1, <1>2, <1>3

(* Where the page stands after its step, if it still has a connection.     *)
LEMMA StandsAfter ==
  ASSUME PageTyped, NEW p \in Pages, Effect(p), Online(p)'
  PROVE  /\ Online(p)
         /\ \/ inbox'[p] = inbox[p]
            \/ \E k \in Kinds : Hears(p, k) /\ (k = "forceStop" => ~casting'[p])
         /\ \/ casting'[p] /\ outbox'[p] = outbox[p] \o <<Plain("broadcaster")>>
            \/ ~casting'[p] /\ outbox'[p] = outbox[p] \o <<Plain("watcher")>>
            \/ /\ casting'[p] = casting[p]
               /\ \/ outbox'[p] = outbox[p]
                  \/ \E ms \in Seq(Outward) :
                        /\ outbox'[p] = outbox[p] \o ms /\ ~Has(ms, Kind("broadcaster"))
                        /\ \A id : Has(ms, Of("offer", id)) =>
                              id \in DOMAIN peers[p] /\ peers[p][id].state = "offering"
<1>1. /\ UNCHANGED link
      /\ \/ UNCHANGED inbox
         \/ \E k \in Kinds : Hears(p, k) /\ (k = "forceStop" => ~casting'[p])
      /\ \/ casting' = [casting EXCEPT ![p] = TRUE] /\ Send(p, <<Plain("broadcaster")>>)
         \/ casting' = [casting EXCEPT ![p] = FALSE] /\ Send(p, <<Plain("watcher")>>)
         \/ /\ UNCHANGED casting
            /\ \/ UNCHANGED outbox
               \/ \E ms \in Seq(Outward) :
                     /\ Send(p, ms) /\ ~Has(ms, Kind("broadcaster"))
                     /\ \A id : Has(ms, Of("offer", id)) =>
                           id \in DOMAIN peers[p] /\ peers[p][id].state = "offering"
  BY DEF Effect, Talks
<1>2. Online(p)
  BY <1>1 DEF Online
<1>3. \A ms \in Seq(Outward) : Send(p, ms) => outbox'[p] = outbox[p] \o ms
  BY <1>2, SendEffect
<1>4. <<Plain("broadcaster")>> \in Seq(Outward) /\ <<Plain("watcher")>> \in Seq(Outward)
  BY PlainSent
<1>5. \/ casting'[p] /\ outbox'[p] = outbox[p] \o <<Plain("broadcaster")>>
      \/ ~casting'[p] /\ outbox'[p] = outbox[p] \o <<Plain("watcher")>>
      \/ /\ casting'[p] = casting[p]
         /\ \/ outbox'[p] = outbox[p]
            \/ \E ms \in Seq(Outward) :
                  /\ outbox'[p] = outbox[p] \o ms /\ ~Has(ms, Kind("broadcaster"))
                  /\ \A id : Has(ms, Of("offer", id)) =>
                        id \in DOMAIN peers[p] /\ peers[p][id].state = "offering"
  BY <1>1, <1>3, <1>4 DEF PageTyped
<1>6. QED
  BY <1>1, <1>2, <1>5

LEMMA PlainKinds ==
  ASSUME NEW k \in Kinds
  PROVE  /\ Plain(k) \in Kind(k) /\ Has(<<Plain(k)>>, Kind(k))
         /\ \A l \in Kinds \ {k} : ~Has(<<Plain(k)>>, Kind(l))
<1>1. Plain(k) \in Kind(k) /\ \A l \in Kinds \ {k} : Plain(k) \notin Kind(l)
  BY MessagesAre DEF Kind
<1>2. QED
  BY <1>1, HasOne

(* A page that broadcasts has just announced it, or did broadcast and has  *)
(* taken no forceStop; one that does not has just asked to watch, or did   *)
(* not broadcast.                                                          *)
LEMMA RoleAfter ==
  ASSUME PageTyped, NEW p \in Pages, Effect(p), Online(p)'
  PROVE  /\ \A k : Has(outbox[p], Kind(k)) => Has(outbox'[p], Kind(k))
         /\ casting'[p] => \/ Has(outbox'[p], Kind("broadcaster"))
                           \/ /\ casting[p]
                              /\ Has(inbox[p], Kind("forceStop")) => Has(inbox'[p], Kind("forceStop"))
         /\ ~casting'[p] => ~casting[p] \/ Has(outbox'[p], Kind("watcher"))
<1>1. \A ms \in Seq(Outward) : \A A : Has(outbox[p] \o ms, A) <=> Has(outbox[p], A) \/ Has(ms, A)
  BY ConcatHas DEF PageTyped
<1>2. \A k \in {"broadcaster", "watcher"} :
        <<Plain(k)>> \in Seq(Outward) /\ Has(<<Plain(k)>>, Kind(k))
  BY PlainSent, PlainKinds DEF Kinds
<1>3. casting'[p] /\ Has(inbox[p], Kind("forceStop")) => Has(inbox'[p], Kind("forceStop"))
  <2>1. CASE inbox'[p] = inbox[p]
    BY <2>1
  <2>2. ASSUME NEW k \in Kinds, Hears(p, k), k # "forceStop", Has(inbox[p], Kind("forceStop"))
        PROVE  Has(inbox'[p], Kind("forceStop"))
    <3>1. inbox[p] \in Seq(Inward) /\ inbox[p] # << >> /\ inbox'[p] = Tail(inbox[p])
      BY <2>2 DEF Hears, PageTyped
    <3>2. Head(inbox[p]) \notin Kind("forceStop")
      BY <2>2 DEF Hears, Msg, Kind
    <3>3. QED
      BY <2>2, <3>1, <3>2, TailHas
  <2>3. QED
    BY <2>1, <2>2, StandsAfter
<1>4. CASE casting'[p] /\ outbox'[p] = outbox[p] \o <<Plain("broadcaster")>>
  <2>1. PICK ms \in Seq(Outward) : ms = <<Plain("broadcaster")>>
    BY <1>2
  <2>2. outbox'[p] = outbox[p] \o ms
    BY <1>4, <2>1
  <2>3. \A A : Has(outbox'[p], A) <=> Has(outbox[p], A) \/ Has(ms, A)
    BY <1>1, <2>2
  <2>4. QED
    BY <1>2, <1>4, <2>1, <2>3
<1>5. CASE ~casting'[p] /\ outbox'[p] = outbox[p] \o <<Plain("watcher")>>
  <2>1. PICK ms \in Seq(Outward) : ms = <<Plain("watcher")>>
    BY <1>2
  <2>2. outbox'[p] = outbox[p] \o ms
    BY <1>5, <2>1
  <2>3. \A A : Has(outbox'[p], A) <=> Has(outbox[p], A) \/ Has(ms, A)
    BY <1>1, <2>2
  <2>4. QED
    BY <1>2, <1>5, <2>1, <2>3
<1>6. CASE casting'[p] = casting[p] /\ outbox'[p] = outbox[p]
  BY <1>3, <1>6
<1>7. ASSUME casting'[p] = casting[p], NEW ms \in Seq(Outward), outbox'[p] = outbox[p] \o ms
      PROVE  \A k : Has(outbox[p], Kind(k)) => Has(outbox'[p], Kind(k))
  BY <1>1, <1>7
<1>8. QED
  BY <1>3, <1>4, <1>5, <1>6, <1>7, StandsAfter

(* Offers are made for peer connections that offer.                        *)
LEMMA OffersAfter ==
  ASSUME PageTyped, NEW p \in Pages, Effect(p), NEW id, Has(outbox'[p], Of("offer", id))
  PROVE  \/ Has(outbox[p], Of("offer", id))
         \/ id \in DOMAIN peers[p] /\ peers[p][id].state = "offering"
<1>1. outbox[p] \in Seq(Outward)
  BY DEF PageTyped
<1>2. ASSUME NEW ms \in Seq(Outward), Send(p, ms),
             Has(ms, Of("offer", id)) => id \in DOMAIN peers[p] /\ peers[p][id].state = "offering"
      PROVE  \/ Has(outbox[p], Of("offer", id))
             \/ id \in DOMAIN peers[p] /\ peers[p][id].state = "offering"
  <2>1. outbox'[p] = outbox[p] \/ outbox'[p] = outbox[p] \o ms
    BY <1>2, SendEffect
  <2>2. Has(outbox[p] \o ms, Of("offer", id)) <=> Has(outbox[p], Of("offer", id)) \/ Has(ms, Of("offer", id))
    BY <1>1, ConcatHas
  <2>3. QED
    BY <1>2, <2>1, <2>2
<1>3. \A k \in {"broadcaster", "watcher"} : <<Plain(k)>> \in Seq(Outward) /\ ~Has(<<Plain(k)>>, Of("offer", id))
  BY PlainSent
<1>4. outbox' # [outbox EXCEPT ![p] = << >>]
  BY HasNothing DEF PageTyped
<1>5. CASE UNCHANGED outbox
  BY <1>5
<1>6. CASE \E ms \in Seq(Outward) :
              /\ Send(p, ms)
              /\ Has(ms, Of("offer", id)) => id \in DOMAIN peers[p] /\ peers[p][id].state = "offering"
  BY <1>2, <1>6
<1>7. CASE Send(p, <<Plain("broadcaster")>>) \/ Send(p, <<Plain("watcher")>>)
  BY <1>2, <1>3, <1>7
<1>8. QED
  BY <1>4, <1>5, <1>6, <1>7 DEF Effect, Talks

(* A page only takes messages from its inbox.                              *)
LEMMA InboxAfter ==
  ASSUME PageTyped, NEW p \in Pages, Effect(p), NEW q \in Pages
  PROVE  /\ \A A : Has(inbox'[q], A) => Has(inbox[q], A)
         /\ Len(inbox'[q]) <= Len(inbox[q])
<1>1. \/ inbox'[q] = inbox[q] \/ inbox'[q] = << >>
      \/ inbox[q] # << >> /\ inbox'[q] = Tail(inbox[q])
  <2>1. \/ UNCHANGED inbox \/ inbox' = [inbox EXCEPT ![p] = << >>]
        \/ inbox[p] # << >> /\ inbox' = [inbox EXCEPT ![p] = Tail(inbox[p])]
    BY DEF Effect, Talks, Hears
  <2>2. QED
    BY <2>1 DEF PageTyped
<1>2. inbox[q] \in Seq(Inward)
  BY DEF PageTyped
<1>3. CASE inbox'[q] = inbox[q]
  BY <1>2, <1>3
<1>4. CASE inbox'[q] = << >>
  BY <1>2, <1>4, HasNothing
<1>5. CASE inbox[q] # << >> /\ inbox'[q] = Tail(inbox[q])
  <2>1. Len(Tail(inbox[q])) <= Len(inbox[q])
    BY <1>2, <1>5
  <2>2. \A A : Has(Tail(inbox[q]), A) => Has(inbox[q], A)
    BY <1>2, <1>5, TailHas
  <2>3. QED
    BY <1>5, <2>1, <2>2
<1>6. QED
  BY <1>1, <1>3, <1>4, <1>5

----------------------------------------------------------------------------
(* Descriptions and their candidates *)

(* The description of peer connection n to or from a partner, and its      *)
(* candidate; and what is of no peer connection numbered up to n.          *)
Description(id, n) == {m \in Message : m.kind \in {"offer", "answer"} /\ m.id = id /\ m.n = n}
Candidate(id, n) == {m \in Message : m.kind = "candidate" /\ m.id = id /\ m.n = n}
Beyond(n) == {m \in Message : m.n > n}

LEMMA DescriptionFollowed ==
  ASSUME NEW m \in Outward, m.kind \in {"offer", "answer"}, m.id \in Ids, m.n \in Serials
  PROVE  /\ <<m>> \o Candidates(m.id, m.n) \in Seq(Outward)
         /\ \A x \in Ids, n \in Serials \cap Trickling :
               Followed(<<m>> \o Candidates(m.id, m.n), Description(x, n), Candidate(x, n))
         /\ \A n \in Nat : m.n <= n => ~Has(<<m>> \o Candidates(m.id, m.n), Beyond(n))
<1> DEFINE c == [kind |-> "candidate", id |-> m.id, n |-> m.n, re |-> 0]
           cs == Candidates(m.id, m.n)
<1>1. c \in Message /\ c.kind = "candidate" /\ c.id = m.id /\ c.n = m.n
  BY Numbers DEF Message, Kinds
<1>2. cs = IF m.n \in Trickling THEN <<c>> ELSE << >>
  BY DEF Candidates
<1>3. <<m>> \o cs \in Seq(Outward) /\ <<m>> \in Seq(Outward) /\ cs \in Seq(Outward)
  <2>1. c \in Outward
    BY <1>1 DEF Outward, Named
  <2> HIDE DEF c
  <2>2. /\ \A x \in Outward : <<x>> \in Seq(Outward)
        /\ << >> \in Seq(Outward)
        /\ \A q, r \in Seq(Outward) : q \o r \in Seq(Outward)
    OBVIOUS
  <2> HIDE DEF cs
  <2>3. QED
    BY <1>2, <2>1, <2>2
<1>4. ASSUME NEW x \in Ids, NEW n \in Serials \cap Trickling
      PROVE  Followed(<<m>> \o cs, Description(x, n), Candidate(x, n))
  <2>1. Followed(cs, Description(x, n), Candidate(x, n))
    <3>1. c \notin Description(x, n)
      BY <1>1 DEF Description
    <3> HIDE DEF c
    <3>2. QED
      BY <1>2, <3>1, HasOne, HasNothing
  <2>2. Followed(<<m>>, Description(x, n), Candidate(x, n)) \/ Has(cs, Candidate(x, n))
    <3>1. CASE m \in Description(x, n)
      <4>1. c \in Candidate(x, n) /\ m.n \in Trickling
        BY <1>1, <3>1 DEF Description, Candidate
      <4> HIDE DEF c
      <4>2. QED
        BY <1>2, <4>1, HasOne
    <3>2. CASE m \notin Description(x, n)
      BY <3>2, HasOne
    <3>3. QED
      BY <3>1, <3>2
  <2> HIDE DEF cs
  <2>3. QED
    BY <1>3, <2>1, <2>2, ConcatHas
<1>5. ASSUME NEW n \in Nat, m.n <= n PROVE ~Has(<<m>> \o cs, Beyond(n))
  <2>1. m \notin Beyond(n) /\ c \notin Beyond(n)
    BY <1>1, <1>5, CastPageAssumption DEF Beyond, Serials
  <2> HIDE DEF c
  <2>2. ~Has(<<m>>, Beyond(n)) /\ ~Has(cs, Beyond(n))
    BY <1>2, <2>1, HasOne, HasNothing
  <2> HIDE DEF cs
  <2>3. QED
    BY <1>3, <2>2, ConcatHas
<1>6. QED
  BY <1>3, <1>4, <1>5 DEF cs

(* Every description a page sends is followed by its candidate, and is of  *)
(* a peer connection it has made.                                          *)
LEMMA SentAfter ==
  ASSUME PageTyped, NEW p \in Pages, PageStep(p), Effect(p),
         \A id \in DOMAIN peers[p] : peers[p][id].n <= made
  PROVE  /\ Online(p)' => \A A : Has(outbox[p], A) => Has(outbox'[p], A)
         /\ \A id \in Ids, n \in Serials \cap Trickling :
               Followed(outbox[p], Description(id, n), Candidate(id, n)) =>
                  Followed(outbox'[p], Description(id, n), Candidate(id, n))
         /\ ~Has(outbox[p], Beyond(made)) => ~Has(outbox'[p], Beyond(made))
<1> USE DEF linkVars, castVars, peerVars, Ignore
<1> DEFINE Orderly(ms) ==
              /\ \A id \in Ids, n \in Serials \cap Trickling :
                    Followed(ms, Description(id, n), Candidate(id, n))
              /\ ~Has(ms, Beyond(made))
<1>1. outbox[p] \in Seq(Outward) /\ made \in Nat
  BY CastPageAssumption DEF PageTyped
<1>2. ASSUME NEW k \in {"broadcaster", "watcher"}
      PROVE  <<Plain(k)>> \in Seq(Outward) /\ Orderly(<<Plain(k)>>)
  <2>1. Plain(k).kind = k /\ Plain(k).n = 0
    BY MessagesAre DEF Kinds, Plain
  <2>2. Plain(k) \notin Beyond(made) /\ \A id, n : Plain(k) \notin Description(id, n)
    BY <1>1, <2>1 DEF Beyond, Description
  <2>3. QED
    BY <2>2, PlainSent, HasOne
<1>3. ASSUME NEW id \in Ids, SendOffer(p, id) \/ SendAnswer(p, id)
      PROVE  \E ms \in Seq(Outward) : Send(p, ms) /\ Orderly(ms)
  <2> DEFINE pc == peers[p][id]
  <2>1. id \in DOMAIN peers[p] /\ pc.n \in Serials /\ pc.asked \in 0..MaxPeers /\ pc.n <= made
    <3>1. id \in DOMAIN peers[p]
      BY <1>3 DEF SendOffer, SendAnswer
    <3>2. pc \in Peer
      BY <3>1, PeerMapsAre DEF PageTyped
    <3>3. QED
      BY <3>1, <3>2, PeersAre
  <2>2. \E m \in Outward : /\ m.kind \in {"offer", "answer"} /\ m.id = id /\ m.n = pc.n
                           /\ Send(p, <<m>> \o Candidates(id, pc.n))
    <3>1. CASE SendOffer(p, id)
      BY <2>1, <3>1, MessagesAre, OutwardMessages DEF SendOffer
    <3>2. CASE SendAnswer(p, id)
      <4> DEFINE m == Answer(id, pc.n, pc.asked)
      <4>1. m \in Outward /\ m.kind = "answer" /\ m.id = id /\ m.n = pc.n
        BY <2>1, MessagesAre, OutwardMessages
      <4>2. Send(p, <<m>> \o Candidates(id, pc.n))
        BY <3>2 DEF SendAnswer
      <4> HIDE DEF m
      <4>3. QED
        BY <4>1, <4>2
    <3>3. QED
      BY <1>3, <3>1, <3>2
  <2>3. QED
    BY <1>1, <2>1, <2>2, DescriptionFollowed
<1>4. \/ UNCHANGED outbox
      \/ ~Online(p)' /\ outbox' = [outbox EXCEPT ![p] = << >>]
      \/ \E ms \in Seq(Outward) : Send(p, ms) /\ Orderly(ms)
  <2>1. CASE StartBroadcast(p) \/ PlayStarted(p) \/ PlayFails(p) \/ StopBroadcast(p)
    <3>1. UNCHANGED outbox \/ \E k \in {"broadcaster", "watcher"} : Send(p, <<Plain(k)>>)
      BY <2>1 DEF StartBroadcast, PlayStarted, PlayFails, StopBroadcast, Stop
    <3>2. QED
      BY <1>2, <3>1
  <2>2. CASE ConnectionDrops(p) \/ Leave(p)
    <3>1. PICK s \in {"down", "left"} : Cut(p, s)
      BY <2>2 DEF ConnectionDrops, Leave
    <3>2. QED
      BY <3>1 DEF Cut, PageTyped, Online
  <2>3. CASE OnMessage(p)
    <3>1. UNCHANGED outbox \/ Send(p, <<Plain("watcher")>>)
      BY <2>3 DEF OnMessage, OnBroadcaster, OnForceStop, Stop, OnWatcher, OnOffer, OnAnswer,
                  OnCandidate, OnDisconnectPeer, OnBroadcasterLeft
    <3>2. QED
      BY <1>2, <3>1
  <2>4. ASSUME NEW id \in Ids,
               ApplyAnswer(p, id) \/ OfferFails(p, id) \/ AnswerFails(p, id) \/ ConnectionFails(p, id)
        PROVE  UNCHANGED outbox
    BY <2>4 DEF ApplyAnswer, OfferFails, AnswerFails, ConnectionFails
  <2>5. QED
    BY <1>3, <2>1, <2>2, <2>3, <2>4 DEF PageStep
<1>5. CASE UNCHANGED outbox
  BY <1>5
<1>6. CASE ~Online(p)' /\ outbox' = [outbox EXCEPT ![p] = << >>]
  BY <1>6, HasNothing DEF PageTyped
<1>7. ASSUME NEW ms \in Seq(Outward), Send(p, ms), Orderly(ms)
      PROVE  /\ \A A : Has(outbox[p], A) => Has(outbox'[p], A)
             /\ \A id \in Ids, n \in Serials \cap Trickling :
                   Followed(outbox[p], Description(id, n), Candidate(id, n)) =>
                      Followed(outbox'[p], Description(id, n), Candidate(id, n))
             /\ ~Has(outbox[p], Beyond(made)) => ~Has(outbox'[p], Beyond(made))
  <2>1. outbox'[p] = outbox[p] \/ outbox'[p] = outbox[p] \o ms
    BY <1>7, SendEffect
  <2>2. \A A, B : /\ Has(outbox[p] \o ms, A) <=> Has(outbox[p], A) \/ Has(ms, A)
                  /\ Followed(outbox[p], A, B) /\ Followed(ms, A, B) => Followed(outbox[p] \o ms, A, B)
    BY <1>1, ConcatHas
  <2>3. QED
    BY <1>7, <2>1, <2>2
<1>8. QED
  BY <1>4, <1>5, <1>6, <1>7

(* What a step makes of the peer connection for a partner: nothing that    *)
(* concerns descriptions and candidates, or it hears a candidate, applies  *)
(* the description it was asked to, is asked by an answer, or is new.      *)
Same(p, id) ==
    /\ id \in DOMAIN peers[p] /\ peers'[p][id].n = peers[p][id].n
    /\ peers'[p][id].remote = peers[p][id].remote /\ peers'[p][id].asked = peers[p][id].asked
    /\ peers'[p][id].pending = peers[p][id].pending /\ peers'[p][id].added = peers[p][id].added
    /\ \/ UNCHANGED inbox \/ ~Online(p)'
       \/ \E k \in Kinds : Hears(p, k) /\ (k = "candidate" => Msg(p).id # id)

HearsCandidate(p, id) ==
    /\ Hears(p, "candidate") /\ Msg(p).id = id
    /\ id \in DOMAIN peers[p] /\ peers'[p][id].n = peers[p][id].n
    /\ peers'[p][id].remote = peers[p][id].remote /\ peers'[p][id].asked = peers[p][id].asked
    /\ peers[p][id].pending \subseteq peers'[p][id].pending
    /\ peers[p][id].added \subseteq peers'[p][id].added
    /\ IF peers[p][id].remote = 0 THEN Msg(p).n \in peers'[p][id].pending
       ELSE Msg(p).n \in peers'[p][id].added

Applies(p, id) ==
    /\ UNCHANGED inbox
    /\ id \in DOMAIN peers[p] /\ peers'[p][id].n = peers[p][id].n
    /\ peers'[p][id].remote = peers[p][id].asked /\ peers'[p][id].asked = 0
    /\ peers'[p][id].added = peers[p][id].added \cup peers[p][id].pending

IsAnswered(p, id) ==
    /\ Hears(p, "answer") /\ Msg(p).id = id
    /\ id \in DOMAIN peers[p] /\ peers'[p][id].n = peers[p][id].n
    /\ peers'[p][id].remote = peers[p][id].remote /\ peers'[p][id].asked = Msg(p).n
    /\ peers'[p][id].pending = peers[p][id].pending /\ peers'[p][id].added = peers[p][id].added

IsNew(p, id) ==
    /\ made' = made + 1 /\ peers'[p][id].n = made' /\ peers'[p][id].remote = 0
    /\ \/ peers'[p][id].asked = 0 /\ Hears(p, "watcher") /\ Msg(p).id = id
       \/ peers'[p][id].asked = Msg(p).n /\ Hears(p, "offer") /\ Msg(p).id = id

Evolves(p, id) ==
    Same(p, id) \/ HearsCandidate(p, id) \/ Applies(p, id) \/ IsAnswered(p, id) \/ IsNew(p, id)

LEMMA ConnectionsAfter ==
  ASSUME PageTyped, NEW p \in Pages, PageStep(p)
  PROVE  /\ made' = made \/ made' = made + 1
         /\ \A id \in DOMAIN peers'[p] : Evolves(p, id)
<1> USE DEF linkVars, castVars, peerVars, Ignore
<1>1. ASSUME UNCHANGED made, NEW f, peers' = [peers EXCEPT ![p] = f],
             \A id \in DOMAIN f : id \in DOMAIN peers[p] /\ f[id] = peers[p][id],
             UNCHANGED inbox \/ ~Online(p)' \/ \E k \in Kinds \ {"candidate"} : Hears(p, k)
      PROVE  UNCHANGED made /\ \A id \in DOMAIN peers'[p] : Same(p, id)
  BY <1>1 DEF Same, PageTyped
<1>2. ASSUME UNCHANGED made,
             UNCHANGED peers \/ CloseAllPeers(p) \/ \E id : ClosePeer(p, id),
             UNCHANGED inbox \/ ~Online(p)' \/ \E k \in Kinds \ {"candidate"} : Hears(p, k)
      PROVE  UNCHANGED made /\ \A id \in DOMAIN peers'[p] : Same(p, id)
  <2>1. CASE UNCHANGED peers
    BY <1>1, <1>2, <2>1 DEF PageTyped, Same
  <2>2. CASE CloseAllPeers(p)
    BY <1>1, <1>2, <2>2, PeerMapsAre DEF CloseAllPeers
  <2>3. ASSUME NEW id, ClosePeer(p, id)
        PROVE  UNCHANGED made /\ \A x \in DOMAIN peers'[p] : Same(p, x)
    <3> DEFINE f == Restrict(peers[p], DOMAIN peers[p] \ {id})
    <3>1. peers' = [peers EXCEPT ![p] = f]
      BY <2>3 DEF ClosePeer
    <3>2. \A x \in DOMAIN f : x \in DOMAIN peers[p] /\ f[x] = peers[p][x]
      BY DEF Restrict
    <3> HIDE DEF f
    <3>3. QED
      BY <1>1, <1>2, <3>1, <3>2
  <2>4. QED
    BY <1>2, <2>1, <2>2, <2>3
<1>3. ASSUME NEW id \in DOMAIN peers[p], NEW pc \in Peer,
             peers' = [peers EXCEPT ![p] = [peers[p] EXCEPT ![id] = pc]]
      PROVE  /\ DOMAIN peers'[p] = DOMAIN peers[p] /\ peers'[p][id] = pc
             /\ \A x \in DOMAIN peers[p] \ {id} : peers'[p][x] = peers[p][x]
  <2>1. peers'[p] = [peers[p] EXCEPT ![id] = pc]
    BY <1>3 DEF PageTyped
  <2>2. \E S \in SUBSET Ids : peers[p] \in [S -> Peer]
    BY DEF PageTyped, PeerMaps
  <2>3. QED
    BY <2>1, <2>2
<1>4. \A id \in DOMAIN peers[p] : peers[p][id] \in Peer
  BY PeerMapsAre DEF PageTyped
<1>5. ASSUME NEW id \in DOMAIN peers[p], UNCHANGED <<inbox, made>>,
             SetRemoteDescription(p, id, peers[p][id].asked)
      PROVE  \A x \in DOMAIN peers'[p] : Evolves(p, x)
  <2> DEFINE pc == peers[p][id]
             new == [pc EXCEPT !.state = "stable", !.remote = pc.asked, !.asked = 0, !.pending = {},
                               !.added = pc.added \cup pc.pending]
  <2>1. new \in Peer /\ pc \in Peer
    BY <1>4, PeersAre
  <2>2. new.n = pc.n /\ new.remote = pc.asked /\ new.asked = 0 /\ new.added = pc.added \cup pc.pending
    BY <2>1 DEF Peer
  <2>3. peers' = [peers EXCEPT ![p] = [peers[p] EXCEPT ![id] = new]]
    BY <1>5 DEF SetRemoteDescription, PageTyped
  <2> HIDE DEF new
  <2>4. Applies(p, id)
    BY <1>3, <1>5, <2>1, <2>2, <2>3 DEF Applies
  <2>5. \A x \in DOMAIN peers'[p] \ {id} : Same(p, x)
    BY <1>3, <1>5, <2>1, <2>3 DEF Same
  <2>6. QED
    BY <2>4, <2>5 DEF Evolves
<1>6. ASSUME NEW k \in {"watcher", "offer"}, Receive(p, k), NEW state \in PeerState,
             NEW n \in 0..MaxPeers, CreatePeerConnection(p, Msg(p).id, state, n),
             (k = "watcher" /\ n = 0) \/ (k = "offer" /\ n = Msg(p).n)
      PROVE  made' = made + 1 /\ \A x \in DOMAIN peers'[p] : Evolves(p, x)
  <2> DEFINE new == [n |-> made + 1, state |-> state, asked |-> n, remote |-> 0,
                     pending |-> {}, added |-> {}]
             f == Put(peers[p], Msg(p).id, new)
  <2>1. made' = made + 1 /\ peers'[p] = f /\ Hears(p, k)
    BY <1>6, ReceiveEffect DEF CreatePeerConnection, PageTyped, Kinds
  <2>2. /\ new.n = made + 1 /\ new.remote = 0 /\ new.asked = n
        /\ f[Msg(p).id] = new /\ DOMAIN f = DOMAIN peers[p] \cup {Msg(p).id}
        /\ \A x \in DOMAIN peers[p] \ {Msg(p).id} : f[x] = peers[p][x]
    BY DEF Put
  <2> HIDE DEF f, new
  <2>3. IsNew(p, Msg(p).id)
    BY <1>6, <2>1, <2>2 DEF IsNew
  <2>4. \A x \in DOMAIN peers'[p] \ {Msg(p).id} : Same(p, x)
    BY <2>1, <2>2 DEF Same, Kinds
  <2>5. QED
    BY <2>1, <2>3, <2>4 DEF Evolves
<1>7. CASE StartBroadcast(p) \/ PlayStarted(p) \/ PlayFails(p) \/ StopBroadcast(p)
  <2>1. UNCHANGED <<made, inbox>> /\ (UNCHANGED peers \/ CloseAllPeers(p))
    BY <1>7 DEF StartBroadcast, PlayStarted, PlayFails, StopBroadcast, Stop
  <2>2. QED
    BY <1>2, <2>1 DEF Evolves
<1>8. CASE ConnectionDrops(p) \/ Leave(p)
  <2>1. UNCHANGED made /\ (UNCHANGED peers \/ CloseAllPeers(p)) /\ \E s \in {"down", "left"} : Cut(p, s)
    BY <1>8 DEF ConnectionDrops, Leave
  <2>2. ~Online(p)'
    BY <2>1 DEF Cut, PageTyped, Online
  <2>3. QED
    BY <1>2, <2>1, <2>2 DEF Evolves
<1>9. CASE OnBroadcaster(p) \/ OnForceStop(p) \/ OnDisconnectPeer(p) \/ OnBroadcasterLeft(p)
  <2>1. /\ UNCHANGED made
        /\ UNCHANGED peers \/ CloseAllPeers(p) \/ \E id : ClosePeer(p, id)
        /\ \E k \in Kinds \ {"candidate"} : Receive(p, k)
    BY <1>9 DEF OnBroadcaster, OnForceStop, OnDisconnectPeer, OnBroadcasterLeft, Stop, Kinds
  <2>2. QED
    BY <1>2, <2>1, ReceiveEffect DEF Evolves
<1>10. CASE OnWatcher(p)
  <2>1. CASE UNCHANGED <<peers, made>>
    BY <1>2, <1>10, <2>1, ReceiveEffect DEF OnWatcher, Kinds, Evolves
  <2>2. CASE CreatePeerConnection(p, Msg(p).id, "offering", 0)
    BY <1>6, <1>10, <2>2, Numbers DEF OnWatcher, PeerState
  <2>3. QED
    BY <1>10, <2>1, <2>2 DEF OnWatcher
<1>11. CASE OnOffer(p)
  <2>1. CASE UNCHANGED <<peers, made>>
    BY <1>2, <1>11, <2>1, ReceiveEffect DEF OnOffer, Kinds, Evolves
  <2>2. CASE CreatePeerConnection(p, Msg(p).id, "answering", Msg(p).n)
    <3>1. Receive(p, "offer") /\ Msg(p).n \in 0..MaxPeers
      BY <1>11, ReceiveEffect, MessageFields DEF OnOffer, Kinds
    <3>2. QED
      BY <1>6, <2>2, <3>1 DEF PeerState
  <2>3. QED
    BY <1>11, <2>1, <2>2 DEF OnOffer
<1>12. CASE OnAnswer(p)
  <2> DEFINE id == Msg(p).id
             new == [peers[p][id] EXCEPT !.state = "applying", !.asked = Msg(p).n]
  <2>1. Hears(p, "answer") /\ Msg(p).n \in 0..MaxPeers /\ UNCHANGED made
    BY <1>12, ReceiveEffect, MessageFields DEF OnAnswer, Kinds
  <2>2. CASE UNCHANGED peers
    BY <1>2, <2>1, <2>2 DEF Evolves, Kinds
  <2>3. CASE id \in DOMAIN peers[p] /\ peers[p][id].state = "offered"
    <3>1. peers' = [peers EXCEPT ![p][id].state = "applying", ![p][id].asked = Msg(p).n]
      BY <1>12, <2>3 DEF OnAnswer
    <3>2. peers' = [peers EXCEPT ![p] = [peers[p] EXCEPT ![id] = new]]
      BY <2>3, <3>1 DEF PageTyped
    <3>3. /\ new \in Peer /\ new.n = peers[p][id].n /\ new.remote = peers[p][id].remote
          /\ new.asked = Msg(p).n /\ new.pending = peers[p][id].pending
          /\ new.added = peers[p][id].added
      <4>1. peers[p][id] \in Peer
        BY <1>4, <2>3, PeersAre
      <4>2. new \in Peer
        BY <2>1, <4>1, PeersAre
      <4>3. QED
        BY <2>1, <4>1, <4>2 DEF Peer
    <3> HIDE DEF new
    <3>4. IsAnswered(p, id)
      BY <1>3, <2>1, <2>3, <3>2, <3>3 DEF IsAnswered
    <3>5. \A x \in DOMAIN peers'[p] \ {id} : Same(p, x)
      BY <1>3, <2>1, <2>3, <3>2, <3>3 DEF Same, Kinds
    <3>6. QED
      BY <2>1, <3>4, <3>5 DEF Evolves
  <2>4. QED
    BY <1>12, <2>2, <2>3 DEF OnAnswer
<1>13. CASE OnCandidate(p)
  <2> DEFINE id == Msg(p).id
             n == Msg(p).n
             pc == peers[p][id]
             waits == [pc EXCEPT !.pending = pc.pending \cup {n}]
             has == [pc EXCEPT !.added = pc.added \cup {n}]
  <2>1. Hears(p, "candidate") /\ n \in Serials /\ UNCHANGED made
    <3>1. Receive(p, "candidate") /\ UNCHANGED made
      BY <1>13 DEF OnCandidate
    <3>2. Hears(p, "candidate") /\ Named(Msg(p))
      BY <3>1, ReceiveEffect DEF Kinds
    <3>3. QED
      BY <3>1, <3>2 DEF Named, Hears
  <2>2. CASE id \notin DOMAIN peers[p]
    <3>1. UNCHANGED peers
      BY <1>13, <2>2 DEF OnCandidate
    <3>2. \A x \in DOMAIN peers'[p] : Same(p, x)
      BY <2>1, <2>2, <3>1 DEF Same, Kinds
    <3>3. QED
      BY <2>1, <3>2 DEF Evolves
  <2>3. CASE id \in DOMAIN peers[p]
    <3>1. QueueOrAddCandidate(p, id, n)
      BY <1>13, <2>3 DEF OnCandidate
    <3>2. IF pc.remote = 0 THEN peers' = [peers EXCEPT ![p] = [peers[p] EXCEPT ![id] = waits]]
          ELSE peers' = [peers EXCEPT ![p] = [peers[p] EXCEPT ![id] = has]]
      BY <2>3, <3>1 DEF QueueOrAddCandidate, PageTyped
    <3>3. /\ waits \in Peer /\ waits.n = pc.n /\ waits.remote = pc.remote /\ waits.asked = pc.asked
          /\ waits.pending = pc.pending \cup {n} /\ waits.added = pc.added
          /\ has \in Peer /\ has.n = pc.n /\ has.remote = pc.remote /\ has.asked = pc.asked
          /\ has.pending = pc.pending /\ has.added = pc.added \cup {n}
      <4>1. pc \in Peer
        BY <1>4, <2>3
      <4>2. waits \in Peer /\ has \in Peer
        BY <2>1, <4>1, PeersAre
      <4> HIDE DEF pc
      <4>3. QED
        BY <4>1, <4>2 DEF Peer
    <3> HIDE DEF waits, has
    <3>4. HearsCandidate(p, id)
      BY <1>3, <2>1, <2>3, <3>2, <3>3 DEF HearsCandidate
    <3>5. \A x \in DOMAIN peers'[p] \ {id} : Same(p, x)
      BY <1>3, <2>1, <2>3, <3>2, <3>3 DEF Same, Kinds
    <3>6. QED
      BY <2>1, <3>4, <3>5 DEF Evolves
  <2>4. QED
    BY <2>2, <2>3
<1>14. ASSUME NEW id \in Ids, SendOffer(p, id)
       PROVE  UNCHANGED made /\ \A x \in DOMAIN peers'[p] : Same(p, x)
  <2> DEFINE new == [peers[p][id] EXCEPT !.state = "offered"]
  <2>1. /\ id \in DOMAIN peers[p] /\ UNCHANGED <<inbox, made>>
        /\ peers' = [peers EXCEPT ![p] = [peers[p] EXCEPT ![id] = new]]
    BY <1>14 DEF SendOffer, PageTyped
  <2>2. /\ new \in Peer /\ new.n = peers[p][id].n /\ new.remote = peers[p][id].remote
        /\ new.asked = peers[p][id].asked /\ new.pending = peers[p][id].pending
        /\ new.added = peers[p][id].added
    <3>1. peers[p][id] \in Peer
      BY <1>4, <2>1
    <3>2. new \in Peer
      BY <3>1, PeersAre
    <3>3. QED
      BY <3>1, <3>2 DEF Peer
  <2> HIDE DEF new
  <2>3. QED
    BY <1>3, <2>1, <2>2 DEF Same
<1>15. ASSUME NEW id \in Ids, SendAnswer(p, id) \/ ApplyAnswer(p, id)
       PROVE  UNCHANGED made /\ \A x \in DOMAIN peers'[p] : Evolves(p, x)
  BY <1>5, <1>15 DEF SendAnswer, ApplyAnswer
<1>16. ASSUME NEW id \in Ids, OfferFails(p, id) \/ AnswerFails(p, id) \/ ConnectionFails(p, id)
       PROVE  UNCHANGED made /\ \A x \in DOMAIN peers'[p] : Same(p, x)
  BY <1>2, <1>16 DEF OfferFails, AnswerFails, ConnectionFails
<1>17. QED
  BY <1>7, <1>8, <1>9, <1>10, <1>11, <1>12, <1>13, <1>14, <1>15, <1>16 DEF PageStep, OnMessage, Evolves

----------------------------------------------------------------------------
(* What pages keep to, whatever the server does *)

LEMMA PageKeepsNumbers ==
  ASSUME PageTyped, Numbered, NEW p \in Pages, Effect(p)
  PROVE  Numbered'
<1>1. UNCHANGED <<conn, opened>>
  BY DEF Effect
<1>2. ASSUME NEW q \in Pages, Online(q)' PROVE Online(q)
  BY <1>2, OthersKeep, StandsAfter DEF Online
<1>3. ASSUME NEW q \in Pages, ~Online(q)'
      PROVE  inbox'[q] = << >> /\ (BuffersOffline \/ outbox'[q] = << >>)
  <2>1. CASE q # p
    BY <1>3, <2>1, OthersKeep DEF Online, Numbered
  <2>2. CASE q = p /\ Online(p)
    BY <1>3, <2>2 DEF Effect, Talks, Online, PageTyped
  <2>3. CASE q = p /\ ~Online(p)
    <3>1. ~\E k \in Kinds : Hears(p, k)
      BY <2>3 DEF Hears
    <3>2. UNCHANGED inbox /\ (UNCHANGED outbox \/ \E ms \in Seq(Outward) : Send(p, ms))
      BY <2>3, <3>1, PlainSent DEF Effect, Talks
    <3>3. BuffersOffline \/ UNCHANGED outbox
      BY <2>3, <3>2 DEF Send
    <3>4. QED
      BY <2>3, <3>2, <3>3 DEF Numbered
  <2>4. QED
    BY <2>1, <2>2, <2>3
<1>4. QED
  BY <1>1, <1>2, <1>3 DEF Numbered

LEMMA PageTakesItBack ==
  ASSUME PageTyped, Numbered, TakesItBack, NEW p \in Pages, Effect(p)
  PROVE  TakesItBack'
<1> DEFINE Safe(q) == Followed(q, Kind("broadcaster"), Kind("watcher"))
<1>1. ASSUME NEW q \in Pages, q # p PROVE casting'[q] \/ Safe(outbox'[q])
  BY <1>1, OthersKeep DEF TakesItBack
<1>2. ASSUME ~casting'[p], NEW ms \in Seq(Outward), Send(p, ms),
             \/ ~Has(ms, Kind("broadcaster")) /\ ~casting[p]
             \/ ms = <<Plain("watcher")>>
      PROVE  Safe(outbox'[p])
  <2>1. outbox[p] \in Seq(Outward)
    BY DEF PageTyped
  <2>2. Followed(ms, Kind("broadcaster"), Kind("watcher"))
        /\ (ms = <<Plain("watcher")>> => Has(ms, Kind("watcher")))
    BY <1>2, FollowedByNone, PlainKinds DEF Kinds
  <2>3. ~casting[p] => Safe(outbox[p])
    BY DEF TakesItBack
  <2>4. CASE outbox'[p] = outbox[p] \o ms
    BY <1>2, <2>1, <2>2, <2>3, <2>4, ConcatHas
  <2>5. CASE outbox'[p] # outbox[p] \o ms
    <3>1. ~Online(p) /\ ~BuffersOffline /\ outbox'[p] = outbox[p]
      BY <1>2, <2>5, SendEffect
    <3>2. QED
      BY <3>1, HasNothing DEF Numbered
  <2>6. QED
    BY <2>4, <2>5
<1>3. ASSUME ~casting'[p] PROVE Safe(outbox'[p])
  <2>1. CASE outbox' = [outbox EXCEPT ![p] = << >>]
    BY <2>1, HasNothing DEF PageTyped
  <2>2. CASE UNCHANGED casting /\ UNCHANGED outbox
    BY <1>3, <2>2 DEF TakesItBack
  <2>3. CASE UNCHANGED casting /\ \E ms \in Seq(Outward) : Send(p, ms) /\ ~Has(ms, Kind("broadcaster"))
    BY <1>2, <1>3, <2>3
  <2>4. CASE Send(p, <<Plain("watcher")>>)
    BY <1>2, <1>3, <2>4, PlainSent
  <2>5. casting' # [casting EXCEPT ![p] = TRUE]
    BY <1>3 DEF PageTyped
  <2>6. QED
    BY <2>1, <2>2, <2>3, <2>4, <2>5 DEF Effect, Talks
<1>4. QED
  BY <1>1, <1>3 DEF TakesItBack

LEMMA ConnectEffect ==
  ASSUME PageTyped, Numbered, TakesItBack, NEW p \in Pages, Connect(p)
  PROVE  /\ PageTyped' /\ Numbered' /\ TakesItBack'
         /\ link[p] = "down" /\ opened' = opened + 1 /\ opened' \in Ids
         /\ link' = [link EXCEPT ![p] = "open"] /\ conn' = [conn EXCEPT ![p] = opened']
         /\ inbox' = [inbox EXCEPT ![p] = << >>] /\ UNCHANGED <<casting, peers, shown>>
         /\ \A q \in Pages \ {p} : outbox'[q] = outbox[q]
         /\ ~casting[p] => Has(outbox'[p], Kind("watcher"))
         /\ \A id : Has(outbox'[p], Of("offer", id)) => Has(outbox[p], Of("offer", id))
<1> DEFINE ms == IF casting[p] THEN << >> ELSE <<Plain("watcher")>>
<1>1. /\ link[p] = "down" /\ opened < MaxConns /\ opened' = opened + 1
      /\ link' = [link EXCEPT ![p] = "open"] /\ conn' = [conn EXCEPT ![p] = opened']
      /\ inbox' = [inbox EXCEPT ![p] = << >>] /\ outbox' = [outbox EXCEPT ![p] = outbox[p] \o ms]
      /\ UNCHANGED <<casting, starting, clicks, peers, made, shown, faults>>
  BY DEF Connect, castVars, peerVars
<1>2. opened' \in Ids /\ opened' \in 0..MaxConns
  BY <1>1, Numbers DEF PageTyped
<1>3. << >> \in Seq(Inward) /\ << >> \in Seq(Outward)
  OBVIOUS
<1>4. /\ ms \in Seq(Outward) /\ ~Has(ms, Kind("broadcaster")) /\ \A id : ~Has(ms, Of("offer", id))
      /\ ~casting[p] => Has(ms, Kind("watcher"))
  BY <1>3, PlainSent, PlainKinds, HasNothing DEF Kinds
<1> HIDE DEF ms
<1>5. outbox[p] \in Seq(Outward)
  BY DEF PageTyped
<1>6. outbox[p] \o ms \in Seq(Outward)
  BY <1>4, <1>5
<1>7. outbox'[p] = outbox[p] \o ms /\ (\A q \in Pages \ {p} : outbox'[q] = outbox[q])
      /\ outbox' \in [Pages -> Seq(Outward)]
  BY <1>1, <1>6 DEF PageTyped
<1>8. inbox' \in [Pages -> Seq(Inward)] /\ conn' \in [Pages -> Ids \cup {None}]
      /\ link' \in [Pages -> {"down", "open", "left"}]
  BY <1>1, <1>2, <1>3 DEF PageTyped
<1>9. PageTyped'
  BY <1>1, <1>2, <1>7, <1>8 DEF PageTyped
<1>10. \A q \in Pages : conn[q] \in Nat /\ conn[q] # opened' /\ conn[q] <= opened'
  <2>1. opened \in Nat /\ opened' = opened + 1
    BY <1>1, CastPageAssumption DEF PageTyped
  <2>2. \A q \in Pages : conn[q] \in Nat /\ conn[q] <= opened
    <3>1. Ids \cup {None} \subseteq Nat
      BY Numbers DEF None
    <3>2. QED
      BY <3>1 DEF PageTyped, Numbered
  <2>3. QED
    BY <2>1, <2>2
<1>11. opened' # None /\ opened' <= opened'
  BY <1>2, Numbers
<1>12. Numbered'
  <2>1. \A q \in Pages : conn'[q] <= opened'
    BY <1>1, <1>10, <1>11 DEF PageTyped
  <2>2. \A q, r \in Pages : conn'[q] = conn'[r] /\ conn'[q] # None => q = r
    BY <1>1, <1>10 DEF PageTyped, Numbered
  <2>3. \A q \in Pages : Online(q)' => conn'[q] # None
    BY <1>1, <1>11 DEF PageTyped, Numbered, Online
  <2>4. \A q \in Pages : ~Online(q)' => inbox'[q] = << >> /\ (BuffersOffline \/ outbox'[q] = << >>)
    BY <1>1, <1>7 DEF PageTyped, Numbered, Online
  <2>5. QED
    BY <2>1, <2>2, <2>3, <2>4 DEF Numbered
<1>13. \A A : Has(outbox'[p], A) <=> Has(outbox[p], A) \/ Has(ms, A)
  <2>1. \A A : Has(outbox[p] \o ms, A) <=> Has(outbox[p], A) \/ Has(ms, A)
    BY <1>4, <1>5, ConcatHas
  <2>2. QED
    BY <1>7, <2>1
<1>14. TakesItBack'
  <2>1. Followed(ms, Kind("broadcaster"), Kind("watcher"))
    BY <1>4, FollowedByNone
  <2>2. ~casting[p] => Followed(outbox'[p], Kind("broadcaster"), Kind("watcher"))
    BY <1>4, <1>5, <1>7, <2>1, ConcatHas
  <2>3. QED
    BY <1>1, <1>7, <2>2 DEF TakesItBack
<1>15. QED
  BY <1>1, <1>2, <1>4, <1>7, <1>9, <1>12, <1>13, <1>14

(* A server takes messages from pages and sends them some, and may give up *)
(* the connection of a page.                                               *)
LEMMA ServerKeeps ==
  ASSUME PagePart,
         UNCHANGED <<conn, opened, casting, starting, clicks, peers, made, shown, faults>>,
         link' \in [Pages -> {"down", "open", "left"}], inbox' \in [Pages -> Seq(Inward)],
         outbox' \in [Pages -> Seq(Outward)],
         \A p \in Pages :
            /\ Online(p)' => Online(p)
            /\ ~Online(p)' => inbox'[p] = << >>
            /\ \/ outbox'[p] = << >>
               \/ outbox'[p] = outbox[p] /\ link'[p] = link[p]
               \/ outbox[p] # << >> /\ outbox'[p] = Tail(outbox[p]) /\ Online(p)'
  PROVE  PagePart'
<1> USE DEF PagePart
<1>1. PageTyped'
  BY DEF PageTyped
<1>2. Numbered'
  <2>1. \A p \in Pages : ~Online(p)' => BuffersOffline \/ outbox'[p] = << >>
    BY DEF Numbered, Online
  <2>2. QED
    BY <2>1 DEF Numbered
<1>3. ASSUME NEW p \in Pages
      PROVE  casting'[p] \/ Followed(outbox'[p], Kind("broadcaster"), Kind("watcher"))
  <2>1. outbox[p] \in Seq(Outward)
    BY DEF PageTyped
  <2>2. casting'[p] = casting[p]
    OBVIOUS
  <2>3. casting[p] \/ Followed(outbox[p], Kind("broadcaster"), Kind("watcher"))
    BY DEF TakesItBack
  <2>4. CASE outbox[p] # << >> /\ outbox'[p] = Tail(outbox[p])
    BY <2>1, <2>2, <2>3, <2>4, TailHas
  <2>5. QED
    BY <2>2, <2>3, <2>4, HasNothing
<1>4. QED
  BY <1>1, <1>2, <1>3 DEF TakesItBack

LEMMA PageInitPart == PageInit => PagePart
<1> SUFFICES ASSUME PageInit PROVE PageTyped /\ Numbered /\ TakesItBack
  BY DEF PagePart
<1>1. << >> \in Seq(Inward) /\ << >> \in Seq(Outward) /\ << >> \in PeerMaps
  BY PeerMapsAre
<1>2. 0 \in 0..MaxConns /\ 0 \in 0..MaxClicks /\ 0 \in 0..MaxFaults /\ 0 \in 0..MaxPeers
  BY CastPageAssumption
<1>3. PageTyped
  BY <1>1, <1>2 DEF PageInit, PageTyped, None
<1>4. Numbered /\ TakesItBack
  BY HasNothing DEF PageInit, Numbered, TakesItBack, Online, None
<1>5. QED
  BY <1>3, <1>4

LEMMA PageTypedIsOK == PageTyped => PageTypeOK
<1> SUFFICES ASSUME PageTyped PROVE PageTypeOK
  OBVIOUS
<1>1. \A p \in Pages : starting[p] \in 0..MaxClicks
  BY CastPageAssumption DEF PageTyped
<1>2. starting \in [Pages -> 0..MaxClicks]
  BY <1>1 DEF PageTyped
<1>3. ASSUME NEW p \in Pages PROVE inbox[p] \in Seq(Message) /\ outbox[p] \in Seq(Message)
  <2>1. Inward \subseteq Message /\ Outward \subseteq Message
    BY DEF Inward, Outward
  <2>2. inbox[p] \in Seq(Inward) /\ outbox[p] \in Seq(Outward)
    BY DEF PageTyped
  <2>3. QED
    BY <2>1, <2>2
<1>4. ASSUME NEW p \in Pages
      PROVE  DOMAIN peers[p] \in SUBSET Ids /\ \A id \in DOMAIN peers[p] : peers[p][id] \in Peer
  BY PeerMapsAre DEF PageTyped
<1>5. QED
  BY <1>2, <1>3, <1>4 DEF PageTyped, PageTypeOK

=============================================================================
