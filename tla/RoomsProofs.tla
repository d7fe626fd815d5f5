---------------------------- MODULE RoomsProofs ----------------------------
(***************************************************************************)
(* The safety properties of Rooms hold for every number of rooms,          *)
(* addresses and connections.  No one of them is inductive alone: whether  *)
(* RemoveIfEmpty may unlist a room depends on which connections still name *)
(* it, that on what each goroutine knows at its place, and that on where   *)
(* the room's maps hold the connection.  Inductive is their conjunction.   *)
(***************************************************************************)
EXTENDS Rooms, TLAPS

(* No room and no session exists at the start.                             *)
LEMMA InitInductive == Init => Inductive
<1> SUFFICES ASSUME Init PROVE Inductive
  OBVIOUS
<1> USE RoomsAssumption DEF Init
<1>1. TypeOK
  BY DEF TypeOK, Roles, Places
<1>2. OneRoomPerIP /\ UnlistedIsClosed /\ ClosedIsEmpty
  BY DEF OneRoomPerIP, UnlistedIsClosed, ClosedIsEmpty, Exists
<1>3. MembersHaveSessions /\ HostKeepsSlot
  BY DEF MembersHaveSessions, HostKeepsSlot
<1>4. AbandonedIsUnlisted /\ SessionsAreConsistent
  BY DEF AbandonedIsUnlisted, SessionsAreConsistent
<1>5. QED
  BY <1>1, <1>2, <1>3, <1>4 DEF Inductive

(* A new id is in no other map yet; the room it replaces goes to closing   *)
(* in the same critical section.                                           *)
(* A new id is in no other map yet; the room it replaces goes to closing   *)
(* in the same critical section.                                           *)
LEMMA CreateInductive ==
  ASSUME Inductive, NEW ip \in IPs, NEW r \in RoomIds, Create(ip, r)
  PROVE  Inductive'
<1> USE RoomsAssumption DEF Inductive, Create, TypeOK, Replace, roomVars,
          sessionVars, Exists
<1>1. TypeOK'
  OBVIOUS
<1>2. OneRoomPerIP'
  BY DEF OneRoomPerIP, UnlistedIsClosed
<1>3. UnlistedIsClosed'
  BY DEF UnlistedIsClosed
<1>4. SessionsAreConsistent'
  BY DEF SessionsAreConsistent
<1>5. AbandonedIsUnlisted'
  BY DEF AbandonedIsUnlisted, SessionsAreConsistent
<1>6. ClosedIsEmpty' /\ MembersHaveSessions' /\ HostKeepsSlot'
  BY DEF ClosedIsEmpty, MembersHaveSessions, HostKeepsSlot, IsEmpty
<1>7. QED
  BY <1>1, <1>2, <1>3, <1>4, <1>5, <1>6

(* Close empties the room as it sets closed, so whoever still names the    *)
(* room as its own is in none of its maps, and is excused by HostKeepsSlot. *)
LEMMA CloseInductive ==
  ASSUME Inductive, NEW r \in RoomIds, Close(r)
  PROVE  Inductive'
<1> USE RoomsAssumption DEF Inductive, Close, TypeOK, sessionVars, Exists
<1>1. TypeOK'
  OBVIOUS
<1>2. UnlistedIsClosed'
  BY DEF UnlistedIsClosed
<1>3. ClosedIsEmpty'
  BY DEF ClosedIsEmpty, IsEmpty
<1>4. MembersHaveSessions'
  BY DEF MembersHaveSessions
<1>5. HostKeepsSlot'
  BY DEF HostKeepsSlot, MembersHaveSessions
<1>6. OneRoomPerIP' /\ AbandonedIsUnlisted' /\ SessionsAreConsistent'
  BY DEF OneRoomPerIP, AbandonedIsUnlisted, SessionsAreConsistent
<1>7. QED
  BY <1>1, <1>2, <1>3, <1>4, <1>5, <1>6

(* The step that may unlist a room.  A room it leaves listed is not empty, *)
(* and a peer in it is another connection that still names it.             *)
LEMMA RemoveIfEmptyInductive ==
  ASSUME Inductive, NEW p \in Peers, RemoveIfEmpty(p)
  PROVE  Inductive'
<1> USE RoomsAssumption DEF Inductive, RemoveIfEmpty, TypeOK, Replace,
          clearIPLocked, roomVars, Goto, Exists, Places
<1>1. TypeOK'
  OBVIOUS
<1>2. OneRoomPerIP'
  BY DEF OneRoomPerIP, UnlistedIsClosed
<1>3. UnlistedIsClosed'
  BY DEF UnlistedIsClosed
<1>4. MembersHaveSessions'
  BY DEF MembersHaveSessions
<1>5. HostKeepsSlot'
  BY DEF HostKeepsSlot
<1>6. AbandonedIsUnlisted'
  BY DEF AbandonedIsUnlisted, MembersHaveSessions, SessionsAreConsistent,
         IsEmpty
<1>7. SessionsAreConsistent'
  BY DEF SessionsAreConsistent
<1>8. ClosedIsEmpty'
  BY DEF ClosedIsEmpty, IsEmpty
<1>9. QED
  BY <1>1, <1>2, <1>3, <1>4, <1>5, <1>6, <1>7, <1>8

(* Join only remembers a room that exists now, open or not by the time     *)
(* it is used.                                                             *)
LEMMA JoinInductive ==
  ASSUME Inductive, NEW p \in Peers, NEW r \in RoomIds, NEW call, Join(p, r, call)
  PROVE  Inductive'
<1> USE RoomsAssumption DEF Inductive, Join, TypeOK, managerVars, roomVars,
          Goto, Exists, Places
<1>1. TypeOK'
  OBVIOUS
<1>2. MembersHaveSessions'
  BY DEF MembersHaveSessions
<1>3. HostKeepsSlot'
  BY DEF HostKeepsSlot
<1>4. SessionsAreConsistent'
  BY DEF SessionsAreConsistent, UnlistedIsClosed
<1>5. /\ OneRoomPerIP' /\ UnlistedIsClosed' /\ ClosedIsEmpty'
      /\ AbandonedIsUnlisted'
  BY DEF OneRoomPerIP, UnlistedIsClosed, ClosedIsEmpty, AbandonedIsUnlisted,
         IsEmpty
<1>6. QED
  BY <1>1, <1>2, <1>3, <1>4, <1>5

(* The slot is taken only when nobody has it, which by HostKeepsSlot means *)
(* that no connection holds the role in this room.                         *)
LEMMA AddPublisherInductive ==
  ASSUME Inductive, NEW p \in Peers, AddPublisher(p)
  PROVE  Inductive'
<1> USE RoomsAssumption DEF Inductive, AddPublisher, TypeOK, managerVars,
          Goto, Accepts, SlotFree, Admitted, Refused, Exists, Roles, Places
<1>1. TypeOK'
  BY DEF SessionsAreConsistent
<1>2. ClosedIsEmpty'
  BY DEF ClosedIsEmpty, SessionsAreConsistent, IsEmpty
<1>3. MembersHaveSessions'
  BY DEF MembersHaveSessions, SessionsAreConsistent
<1>4. HostKeepsSlot'
  BY DEF HostKeepsSlot, SessionsAreConsistent
<1>5. AbandonedIsUnlisted'
  BY DEF AbandonedIsUnlisted, SessionsAreConsistent
<1>6. SessionsAreConsistent'
  BY DEF SessionsAreConsistent
<1>7. OneRoomPerIP' /\ UnlistedIsClosed'
  BY DEF OneRoomPerIP, UnlistedIsClosed
<1>8. QED
  BY <1>1, <1>2, <1>3, <1>4, <1>5, <1>6, <1>7

(* A connection reaches AddSubscriber only from a join, in no room yet.    *)
LEMMA AddSubscriberInductive ==
  ASSUME Inductive, NEW p \in Peers, AddSubscriber(p)
  PROVE  Inductive'
<1> USE RoomsAssumption DEF Inductive, AddSubscriber, TypeOK, managerVars,
          Goto, Accepts, Admitted, Refused, Exists, Roles, Places
<1>1. TypeOK'
  BY DEF SessionsAreConsistent
<1>2. ClosedIsEmpty'
  BY DEF ClosedIsEmpty, SessionsAreConsistent, IsEmpty
<1>3. MembersHaveSessions'
  BY DEF MembersHaveSessions, SessionsAreConsistent
<1>4. HostKeepsSlot'
  BY DEF HostKeepsSlot, SessionsAreConsistent
<1>5. AbandonedIsUnlisted'
  BY DEF AbandonedIsUnlisted, SessionsAreConsistent
<1>6. SessionsAreConsistent'
  BY DEF SessionsAreConsistent
<1>7. OneRoomPerIP' /\ UnlistedIsClosed'
  BY DEF OneRoomPerIP, UnlistedIsClosed
<1>8. QED
  BY <1>1, <1>2, <1>3, <1>4, <1>5, <1>6, <1>7

(* Only a guest passes the role test, so a promotion never starts from a   *)
(* connection that holds the slot.                                         *)
LEMMA RequestPublishInductive ==
  ASSUME Inductive, NEW p \in Peers, RequestPublish(p)
  PROVE  Inductive'
<1> USE RoomsAssumption DEF Inductive, RequestPublish, TypeOK, managerVars,
          roomVars, Goto, Exists, Places, Roles
<1>1. TypeOK'
  OBVIOUS
<1>2. MembersHaveSessions'
  BY DEF MembersHaveSessions
<1>3. HostKeepsSlot'
  BY DEF HostKeepsSlot
<1>4. SessionsAreConsistent'
  BY DEF SessionsAreConsistent
<1>5. /\ OneRoomPerIP' /\ UnlistedIsClosed' /\ ClosedIsEmpty'
      /\ AbandonedIsUnlisted'
  BY DEF OneRoomPerIP, UnlistedIsClosed, ClosedIsEmpty, AbandonedIsUnlisted,
         IsEmpty
<1>6. QED
  BY <1>1, <1>2, <1>3, <1>4, <1>5

(* The guest leaves subscribers in the step that moves it to AddPublisher. *)
LEMMA PromotePublisherInductive ==
  ASSUME Inductive, NEW p \in Peers, PromotePublisher(p)
  PROVE  Inductive'
<1> USE RoomsAssumption DEF Inductive, PromotePublisher, TypeOK, Accepts,
          SlotFree, deleteSubscriber, managerVars, Goto, Exists, Places
<1>1. TypeOK'
  BY DEF SessionsAreConsistent
<1>2. ClosedIsEmpty'
  BY DEF ClosedIsEmpty, SessionsAreConsistent, IsEmpty
<1>3. MembersHaveSessions'
  BY DEF MembersHaveSessions, SessionsAreConsistent
<1>4. HostKeepsSlot'
  BY DEF HostKeepsSlot, SessionsAreConsistent
<1>5. SessionsAreConsistent'
  BY DEF SessionsAreConsistent
<1>6. OneRoomPerIP' /\ UnlistedIsClosed' /\ AbandonedIsUnlisted'
  BY DEF OneRoomPerIP, UnlistedIsClosed, AbandonedIsUnlisted
<1>7. QED
  BY <1>1, <1>2, <1>3, <1>4, <1>5, <1>6

(* Media does not touch membership.                                        *)
LEMMA TrackArrivesInductive ==
  ASSUME Inductive, NEW p \in Peers, NEW r \in RoomIds, TrackArrives(p, r)
  PROVE  Inductive'
<1> USE RoomsAssumption DEF Inductive, TrackArrives, TypeOK, managerVars,
          sessionVars, Exists
<1>1. TypeOK'
  OBVIOUS
<1>2. /\ OneRoomPerIP' /\ UnlistedIsClosed' /\ ClosedIsEmpty'
      /\ MembersHaveSessions' /\ HostKeepsSlot' /\ AbandonedIsUnlisted'
      /\ SessionsAreConsistent'
  BY DEF OneRoomPerIP, UnlistedIsClosed, ClosedIsEmpty, MembersHaveSessions,
         HostKeepsSlot, AbandonedIsUnlisted, SessionsAreConsistent, IsEmpty
<1>3. QED
  BY <1>1, <1>2

(* A late track changes tracks and nothing that membership depends on.     *)
LEMMA HandlePublisherTrackInductive ==
  ASSUME Inductive, NEW p \in Peers, NEW r \in RoomIds, HandlePublisherTrack(p, r)
  PROVE  Inductive'
<1> USE RoomsAssumption DEF Inductive, HandlePublisherTrack, TypeOK,
          managerVars, sessionVars, Exists
<1>1. TypeOK'
  OBVIOUS
<1>2. /\ OneRoomPerIP' /\ UnlistedIsClosed' /\ ClosedIsEmpty'
      /\ MembersHaveSessions' /\ HostKeepsSlot' /\ AbandonedIsUnlisted'
      /\ SessionsAreConsistent'
  BY DEF OneRoomPerIP, UnlistedIsClosed, ClosedIsEmpty, MembersHaveSessions,
         HostKeepsSlot, AbandonedIsUnlisted, SessionsAreConsistent, IsEmpty
<1>3. QED
  BY <1>1, <1>2

(* Stopping a stream keeps the host in the room.                           *)
LEMMA StopStreamInductive ==
  ASSUME Inductive, NEW p \in Peers, NEW r \in RoomIds, StopStream(p, r)
  PROVE  Inductive'
<1> USE RoomsAssumption DEF Inductive, StopStream, TypeOK, managerVars,
          sessionVars, Exists
<1>1. TypeOK'
  OBVIOUS
<1>2. /\ OneRoomPerIP' /\ UnlistedIsClosed' /\ ClosedIsEmpty'
      /\ MembersHaveSessions' /\ HostKeepsSlot' /\ AbandonedIsUnlisted'
      /\ SessionsAreConsistent'
  BY DEF OneRoomPerIP, UnlistedIsClosed, ClosedIsEmpty, MembersHaveSessions,
         HostKeepsSlot, AbandonedIsUnlisted, SessionsAreConsistent, IsEmpty
<1>3. QED
  BY <1>1, <1>2

(* A connection that joined keeps its room and role for cleanup.           *)
LEMMA DisconnectInductive ==
  ASSUME Inductive, NEW p \in Peers, Disconnect(p)
  PROVE  Inductive'
<1> USE RoomsAssumption DEF Inductive, Disconnect, TypeOK, managerVars,
          roomVars, Goto, Exists, Places
<1>1. TypeOK'
  OBVIOUS
<1>2. MembersHaveSessions'
  BY DEF MembersHaveSessions
<1>3. HostKeepsSlot'
  BY DEF HostKeepsSlot
<1>4. SessionsAreConsistent'
  BY DEF SessionsAreConsistent
<1>5. /\ OneRoomPerIP' /\ UnlistedIsClosed' /\ ClosedIsEmpty'
      /\ AbandonedIsUnlisted'
  BY DEF OneRoomPerIP, UnlistedIsClosed, ClosedIsEmpty, AbandonedIsUnlisted,
         IsEmpty
<1>6. QED
  BY <1>1, <1>2, <1>3, <1>4, <1>5

(* cleanup takes the connection out of the one map its role names; by      *)
(* MembersHaveSessions it can be in no other.                              *)
LEMMA RemovePeerInductive ==
  ASSUME Inductive, NEW p \in Peers, RemovePeer(p)
  PROVE  Inductive'
<1> USE RoomsAssumption DEF Inductive, RemovePeer, TypeOK, managerVars,
          RemovePublisher, RemoveSubscriber, deleteSubscriber, Goto, Exists, Places
<1>1. TypeOK'
  OBVIOUS
<1>2. ClosedIsEmpty'
  BY DEF ClosedIsEmpty, SessionsAreConsistent, IsEmpty
<1>3. MembersHaveSessions'
  BY DEF MembersHaveSessions, SessionsAreConsistent
<1>4. HostKeepsSlot'
  BY DEF HostKeepsSlot, MembersHaveSessions, SessionsAreConsistent
<1>5. SessionsAreConsistent'
  BY DEF SessionsAreConsistent
<1>6. OneRoomPerIP' /\ UnlistedIsClosed' /\ AbandonedIsUnlisted'
  BY DEF OneRoomPerIP, UnlistedIsClosed, AbandonedIsUnlisted
<1>7. QED
  BY <1>1, <1>2, <1>3, <1>4, <1>5, <1>6

(* Every step of the system preserves the inductive invariant.             *)
LEMMA NextInductive == Inductive /\ [Next]_vars => Inductive'
<1> SUFFICES ASSUME Inductive, [Next]_vars PROVE Inductive'
  OBVIOUS
<1>1. ASSUME NEW ip \in IPs, NEW r \in RoomIds, Create(ip, r) PROVE Inductive'
  BY <1>1, CreateInductive
<1>2. ASSUME NEW r \in RoomIds, Close(r) PROVE Inductive'
  BY <1>2, CloseInductive
<1>3. ASSUME NEW p \in Peers, User(p) PROVE Inductive'
  <2>1. ASSUME NEW r \in RoomIds, NEW call, Join(p, r, call) PROVE Inductive'
    BY <2>1, JoinInductive
  <2>2. CASE RequestPublish(p)
    BY <2>2, RequestPublishInductive
  <2>3. ASSUME NEW r \in RoomIds, TrackArrives(p, r) PROVE Inductive'
    BY <2>3, TrackArrivesInductive
  <2>4. ASSUME NEW r \in RoomIds, StopStream(p, r) PROVE Inductive'
    BY <2>4, StopStreamInductive
  <2>5. CASE Disconnect(p)
    BY <2>5, DisconnectInductive
  <2>6. QED
    BY <1>3, <2>1, <2>2, <2>3, <2>4, <2>5 DEF User
<1>4. ASSUME NEW p \in Peers, Session(p) PROVE Inductive'
  BY <1>4, AddPublisherInductive, AddSubscriberInductive, PromotePublisherInductive,
     RemovePeerInductive, RemoveIfEmptyInductive DEF Session
<1>5. ASSUME NEW p \in Peers, NEW r \in RoomIds, HandlePublisherTrack(p, r)
      PROVE  Inductive'
  BY <1>5, HandlePublisherTrackInductive
<1>6. CASE UNCHANGED vars
  BY <1>6 DEF vars, managerVars, roomVars, sessionVars, Inductive, TypeOK,
     OneRoomPerIP, UnlistedIsClosed, ClosedIsEmpty, MembersHaveSessions,
     HostKeepsSlot, AbandonedIsUnlisted, SessionsAreConsistent, Exists, IsEmpty
<1>7. QED
  BY <1>1, <1>2, <1>3, <1>4, <1>5, <1>6 DEF Next

(* The inductive invariant holds in every reachable state.                 *)
THEOREM InductiveInvariant == Spec => []Inductive
  BY InitInductive, NextInductive, PTL DEF Spec

(* Every variable of the manager, the rooms and the sessions keeps its     *)
(* type, whatever goroutines interleave.                                   *)
THEOREM TypeCorrect == Spec => []TypeOK
<1>1. Inductive => TypeOK
  BY DEF Inductive
<1>2. QED
  BY <1>1, InductiveInvariant, PTL

(* Manager.rooms and Manager.byIP name the same rooms, one per address.    *)
THEOREM ManagerMapsAgree == Spec => []OneRoomPerIP
<1>1. Inductive => OneRoomPerIP
  BY DEF Inductive
<1>2. QED
  BY <1>1, InductiveInvariant, PTL

(* A room taken out of Manager.rooms is closed or has exactly one closer   *)
(* on its way.                                                             *)
THEOREM UnlistedRoomsAreClosed == Spec => []UnlistedIsClosed
<1>1. Inductive => UnlistedIsClosed
  BY DEF Inductive
<1>2. QED
  BY <1>1, InductiveInvariant, PTL

(* No closed room has a host or a guest.                                   *)
THEOREM ClosedRoomsAreEmpty == Spec => []ClosedIsEmpty
<1>1. Inductive => ClosedIsEmpty
  BY DEF Inductive
<1>2. QED
  BY <1>1, InductiveInvariant, PTL

(* The handlers' local joinedRoom and role agree with the rooms' maps: a   *)
(* member has a session that will remove it.                               *)
THEOREM MembersHaveTheirSessions == Spec => []MembersHaveSessions
<1>1. Inductive => MembersHaveSessions
  BY DEF Inductive
<1>2. QED
  BY <1>1, InductiveInvariant, PTL

(* A host keeps its slot until it leaves or the room is closed.            *)
THEOREM HostsKeepTheirSlots == Spec => []HostKeepsSlot
<1>1. Inductive => HostKeepsSlot
  BY DEF Inductive
<1>2. QED
  BY <1>1, InductiveInvariant, PTL

(* A room that was entered and that no connection names any more has been  *)
(* taken out of Manager.rooms by the cleanup of one of them.               *)
THEOREM NoRoomLeaks == Spec => []AbandonedIsUnlisted
<1>1. Inductive => AbandonedIsUnlisted
  BY DEF Inductive
<1>2. QED
  BY <1>1, InductiveInvariant, PTL

(* What a room looks like to the manager's callers, before a step and      *)
(* after it; a step in which these agree maps to a stutter.                *)
LEMMA SameView ==
  ASSUME UNCHANGED <<rooms, creatorIP, closed, visited>>
  PROVE  UNCHANGED <<phase, creatorIP>>
  BY DEF phase, Exists

(* Opening a room withdraws the open room of the same address, and byIP    *)
(* finds exactly that one.                                                 *)
LEMMA CreateIsOpenRoom ==
  ASSUME Inductive, NEW ip \in IPs, NEW r \in RoomIds, Create(ip, r)
  PROVE  Lifecycle!OpenRoom(ip, r)
<1> USE RoomsAssumption DEF Inductive, TypeOK, Create, Replace, Exists, roomVars
<1>1. phase[r] = "unborn"
  BY DEF phase
<1>2. ASSUME NEW x \in RoomIds
      PROVE  x \in Lifecycle!Open /\ creatorIP[x] = ip <=> x \in rooms \cap {byIP[ip]}
  BY DEF phase, Lifecycle!Open, OneRoomPerIP, UnlistedIsClosed
<1>3. phase' = [x \in RoomIds |->
                  IF x = r THEN "fresh"
                  ELSE IF x \in Lifecycle!Open /\ creatorIP[x] = ip THEN "withdrawn"
                  ELSE phase[x]]
  <2>1. ASSUME NEW x \in RoomIds
        PROVE  phase'[x] = IF x = r THEN "fresh"
                           ELSE IF x \in rooms \cap {byIP[ip]} THEN "withdrawn"
                           ELSE phase[x]
    <3>1. CASE x = r
      BY <3>1 DEF phase, UnlistedIsClosed, SessionsAreConsistent
    <3>2. CASE x # r
      BY <3>2 DEF phase, UnlistedIsClosed
    <3>3. QED
      BY <3>1, <3>2
  <2>2. phase' = [x \in RoomIds |-> phase'[x]]
    BY DEF phase
  <2>3. QED
    BY <2>1, <2>2, <1>2
<1>4. QED
  BY <1>1, <1>3 DEF Lifecycle!OpenRoom

(* Only a withdrawn room is closed.                                        *)
LEMMA CloseIsClose ==
  ASSUME Inductive, NEW r \in RoomIds, Close(r)
  PROVE  Lifecycle!Close(r)
<1> USE RoomsAssumption DEF Inductive, TypeOK, Close, Exists, UnlistedIsClosed
<1>1. phase[r] = "withdrawn"
  BY DEF phase
<1>2. ASSUME NEW x \in RoomIds
      PROVE  phase'[x] = [phase EXCEPT ![r] = "closed"][x]
  BY DEF phase
<1>3. phase' = [phase EXCEPT ![r] = "closed"]
  BY <1>2 DEF phase
<1>4. QED
  BY <1>1, <1>3 DEF Lifecycle!Close, Lifecycle!Move

(* The cleanup that unlists a room had entered it, so no fresh room is     *)
(* reclaimed.                                                              *)
LEMMA RemoveIfEmptyIsAbandon ==
  ASSUME Inductive, NEW p \in Peers, RemoveIfEmpty(p)
  PROVE  \/ UNCHANGED <<phase, creatorIP>>
         \/ \E r \in RoomIds : Lifecycle!Abandon(r)
<1> USE RoomsAssumption DEF Inductive, TypeOK, RemoveIfEmpty, Replace, roomVars
<1>1. CASE joinedRoom[p] \in rooms /\ IsEmpty(joinedRoom[p])
  <2>1. Lifecycle!Abandon(joinedRoom[p])
    BY <1>1 DEF phase, Exists, UnlistedIsClosed, SessionsAreConsistent,
       Lifecycle!Abandon, Lifecycle!Move
  <2>2. QED
    BY <1>1, <2>1
<1>2. CASE ~(joinedRoom[p] \in rooms /\ IsEmpty(joinedRoom[p]))
  <2>1. rooms' = rooms
    BY <1>2
  <2>2. QED
    BY <2>1, SameView
<1>3. QED
  BY <1>1, <1>2

(* The first admission to a listed room enters it; an admission to a room  *)
(* unlisted since the join looked it up changes nothing a caller sees.     *)
LEMMA AdmissionIsEnter ==
  ASSUME Inductive, NEW p \in Peers, AddPublisher(p) \/ AddSubscriber(p)
  PROVE  \/ UNCHANGED <<phase, creatorIP>>
         \/ \E r \in RoomIds : Lifecycle!Enter(r)
<1> USE RoomsAssumption DEF Inductive, TypeOK, managerVars
<1>1. UNCHANGED <<rooms, creatorIP, closed>>
  BY DEF AddPublisher, AddSubscriber
<1>2. PICK r \in RoomIds : visited' = visited \/ (visited' = visited \cup {r} /\ r \notin closed)
  BY DEF AddPublisher, AddSubscriber, Accepts, SlotFree, Admitted, Refused, SessionsAreConsistent
<1>3. CASE r \in rooms /\ r \notin visited /\ visited' # visited
  <2>1. phase[r] = "fresh"
    BY <1>3 DEF phase, Exists, UnlistedIsClosed
  <2>2. ASSUME NEW x \in RoomIds
        PROVE  phase'[x] = [phase EXCEPT ![r] = "entered"][x]
    BY <1>1, <1>2, <1>3 DEF phase, Exists, UnlistedIsClosed
  <2>3. phase' = [phase EXCEPT ![r] = "entered"]
    BY <2>2 DEF phase
  <2>4. QED
    BY <1>1, <2>1, <2>3 DEF Lifecycle!Enter, Lifecycle!Move
<1>4. CASE ~(r \in rooms /\ r \notin visited /\ visited' # visited)
  BY <1>1, <1>2, <1>4 DEF phase, Exists
<1>5. QED
  BY <1>3, <1>4

(* The manager with its sessions implements the safety part of             *)
(* RoomLifecycle: a room is opened, entered, withdrawn and closed in that  *)
(* order only, and only for the reasons RoomLifecycle names.               *)
THEOREM RefinesLifecycle == Spec => Lifecycle!Spec
<1>1. Init => Lifecycle!Init
  BY DEF Init, Lifecycle!Init, phase, Exists
<1>2. Inductive /\ [Next]_vars => [Lifecycle!Next]_(Lifecycle!vars)
  <2> SUFFICES ASSUME Inductive, [Next]_vars
               PROVE  Lifecycle!Next \/ UNCHANGED <<phase, creatorIP>>
    BY DEF Lifecycle!vars
  <2>1. ASSUME NEW ip \in IPs, NEW r \in RoomIds, Create(ip, r)
        PROVE  Lifecycle!Next
    BY <2>1, CreateIsOpenRoom DEF Lifecycle!Next
  <2>2. ASSUME NEW r \in RoomIds, Close(r) PROVE Lifecycle!Next
    BY <2>2, CloseIsClose DEF Lifecycle!Next
  <2>3. ASSUME NEW p \in Peers, User(p) PROVE UNCHANGED <<phase, creatorIP>>
    BY <2>3, SameView
    DEF User, Join, RequestPublish, TrackArrives, StopStream, Disconnect,
        managerVars, roomVars
  <2>4. ASSUME NEW p \in Peers, Session(p)
        PROVE  Lifecycle!Next \/ UNCHANGED <<phase, creatorIP>>
    <3>1. CASE AddPublisher(p) \/ AddSubscriber(p)
      BY <3>1, AdmissionIsEnter DEF Lifecycle!Next
    <3>2. CASE PromotePublisher(p) \/ RemovePeer(p)
      BY <3>2, SameView DEF PromotePublisher, RemovePeer, managerVars
    <3>3. CASE RemoveIfEmpty(p)
      BY <3>3, RemoveIfEmptyIsAbandon DEF Lifecycle!Next
    <3>4. QED
      BY <2>4, <3>1, <3>2, <3>3 DEF Session
  <2>5. ASSUME NEW p \in Peers, NEW r \in RoomIds, HandlePublisherTrack(p, r)
        PROVE  UNCHANGED <<phase, creatorIP>>
    BY <2>5, SameView DEF HandlePublisherTrack, managerVars
  <2>6. CASE UNCHANGED vars
    BY <2>6, SameView DEF vars, managerVars, roomVars
  <2>7. QED
    BY <2>1, <2>2, <2>3, <2>4, <2>5, <2>6 DEF Next
<1>3. QED
  BY <1>1, <1>2, InductiveInvariant, PTL DEF Spec, Lifecycle!Spec
=============================================================================
