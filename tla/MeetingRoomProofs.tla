------------------------- MODULE MeetingRoomProofs -------------------------
(***************************************************************************)
(* What holds of the signaling room for any set of connections, any        *)
(* assignment of users to them and any limits.                             *)
(*                                                                         *)
(* The invariants of MeetingRoom are not inductive as they stand: the      *)
(* host's seat depends on nobody being inside a room that does not exist,  *)
(* entry depends on what a connection in the middle of its join cannot     *)
(* have yet.  IInv adds these facts; each is kept by every action.         *)
(***************************************************************************)
EXTENDS MeetingRoom, FiniteSetTheorems, TLAPS

USE LimitAssumption DEF Goto

-----------------------------------------------------------------------------
(* The inductive invariant *)

\* Who is inside or waiting belongs to the room that exists now and has a bound
\* connection; in particular a code without a room has nobody.
Presence == \A c \in Peers \cup Queue :
                /\ roomOf[c] = room /\ roomOf[c] # 0
                /\ bound[c]

\* A join in progress has bound nothing yet, and knows its room once the policy
\* is loaded.
Joining == \A c \in Conn : pc[c] \in JoinSteps =>
                /\ ~bound[c]
                /\ pc[c] # "policy" => roomOf[c] # 0

\* Who left is unbound for good.
Gone == \A c \in Conn : pc[c] = "left" => ~bound[c]

\* The close handler runs only for a socket that is no longer open.
Closing == \A c \in Conn : sock[c] = "open" => closeHandler[c] = "none"

\* What changeRole carries over its awaits is one of the roles it accepts.
Demotion == \A m \in Conn : /\ newRole[m] # "host"
                            /\ pc[m] = "changingRole" => newRole[m] # "none"

\* An owned meeting that has started has somebody in it, and only those who may
\* start it join directly.
Doors == Owned => /\ hostStarted => Peers # {}
                  /\ \A c \in Conn : pc[c] = "sfu" => IsOwner(c)

\* A handler that waits on behalf of a target has one.
Targeted == \A m \in Conn : pc[m] \in {"admitting", "kicking", "changingRole"} => target[m] # None

Seat == OneHost /\ HostIsInside /\ AdHocSeatTaken

IInv == /\ TypeOK /\ Targeted /\ Presence /\ Joining /\ Gone /\ Closing /\ Demotion /\ Doors
        /\ Seat /\ InsideOrWaiting /\ NoGhostPeers
TypeInv == TypeOK /\ Targeted

-----------------------------------------------------------------------------
(* Type correctness *)

\* RoomManager's mutators keep the room well typed.
RoomTypes == /\ role \in [Conn -> Roles \cup {"none"}]
             /\ waiting \in [Conn -> WaitStates \cup {"none"}]
             /\ hostPeerId \in Conn \cup {None} /\ hostStarted \in BOOLEAN

\* A role given on joining is a role.
LEMMA JoinRoleIsRole ==
    ASSUME NEW c, NEW initial
    PROVE  JoinRole(c, initial) \in Roles
BY DEF JoinRole, Roles

\* addPeer keeps the types of the room,
LEMMA AddPeerTypes ==
    ASSUME RoomTypes, NEW c \in Conn, NEW initial, AddPeer(c, initial)
    PROVE  RoomTypes'
<1>1. JoinRole(c, initial) \in Roles
  BY JoinRoleIsRole
<1> QED
  BY <1>1 DEF RoomTypes, AddPeer, Roles, WaitStates

\* Whoever takes over is inside.
LEMMA SuccessorIsInside ==
    ASSUME NEW c \in Conn, NEW next \in Successors(c)
    PROVE  next = None \/ next \in Peers \ {c}
BY DEF Successors, CoHosts, Peers

\* removePeer does,
LEMMA RemovePeerTypes ==
    ASSUME RoomTypes, emptyTimers \in Nat, NEW c \in Conn, RemovePeer(c)
    PROVE  RoomTypes' /\ emptyTimers' \in Nat
<1>1. PICK next \in Successors(c) :
         /\ role' = [p \in Conn |-> IF p = c THEN "none"
                                    ELSE IF p = next THEN "host" ELSE role[p]]
         /\ hostPeerId' = HostAfter(c, next)
  BY DEF RemovePeer
<1>2. next \in Conn \cup {None}
  BY SuccessorIsInside DEF Peers
<1>3. role' \in [Conn -> Roles \cup {"none"}] /\ hostPeerId' \in Conn \cup {None}
  BY <1>1, <1>2 DEF RoomTypes, HostAfter, Roles
<1>4. waiting' \in [Conn -> WaitStates \cup {"none"}]
  BY DEF RoomTypes, RemovePeer, WaitStates
<1>5. hostStarted' \in BOOLEAN /\ emptyTimers' \in Nat
  BY DEF RoomTypes, RemovePeer
<1> QED
  BY <1>3, <1>4, <1>5 DEF RoomTypes

\* and changePeerRole gives a role.
LEMMA ChangePeerRoleTypes ==
    ASSUME role \in [Conn -> Roles \cup {"none"}], NEW t,
           NEW r \in Roles \cup {"none"}, ChangePeerRole(t, r)
    PROVE  role' \in [Conn -> Roles \cup {"none"}]
BY DEF ChangePeerRole

\* The admissions left to make are kept among the connections.
LEMMA AdmitFromTypes ==
    ASSUME TypeOK, Targeted, NEW m \in Conn, NEW targets \in SUBSET Conn,
           NEW busy \in SUBSET Conn, AdmitFrom(m, targets, busy)
    PROVE  /\ pc' \in [Conn -> PcStates] /\ target' \in [Conn -> Conn \cup {None}]
           /\ todo' \in [Conn -> SUBSET Conn] /\ admitting' \in SUBSET Conn
           /\ Targeted'
BY ConnAssumption DEF AdmitFrom, TypeOK, PcStates, Targeted

\* The types, and what handlers in flight carry over their awaits.
LEMMA TypeInvHolds == Spec => []TypeInv
<1>1. Init => TypeInv
  <2> SUFFICES ASSUME Init PROVE TypeInv
    OBVIOUS
  <2>1. 0 \in 0..MaxRooms /\ maxParticipants \in Capacities
    BY LimitAssumption DEF Init
  <2>2. bound \in [Conn -> BOOLEAN] /\ hostStarted \in BOOLEAN /\ locked \in BOOLEAN
    BY DEF Init
  <2>3. todo \in [Conn -> SUBSET Conn] /\ roomOf \in [Conn -> 0..MaxRooms]
    BY <2>1 DEF Init
  <2> QED
    BY <2>1, <2>2, <2>3 DEF Init, TypeInv, TypeOK, Targeted, PcStates
<1>2. TypeInv /\ [Next]_vars => TypeInv'
  <2> SUFFICES ASSUME TypeInv, [Next]_vars PROVE TypeInv'
    OBVIOUS
  <2> USE DEF TypeInv, TypeOK, Targeted, roomVars, settingVars, timerVars, sockVars, handlerVars
  <2>1. CASE UNCHANGED vars
    BY <2>1 DEF vars
  <2>2. CASE EmptyTimer
    BY <2>2, LimitAssumption DEF EmptyTimer
  <2>3. ASSUME NEW c \in Conn, ReleaseAwaitingHost(c) PROVE TypeInv'
    BY <2>3 DEF ReleaseAwaitingHost, WaitStates
  <2>4. ASSUME NEW c \in Conn, Answers(c) PROVE TypeInv'
    <3>1. CASE JoinRefused(c)
      BY <3>1 DEF JoinRefused, PcStates
    <3>2. CASE PolicyLoaded(c)
      <4>1. room' \in 0..MaxRooms /\ created' \in 0..MaxRooms
        BY <3>2, LimitAssumption DEF PolicyLoaded
      <4>2. maxParticipants' \in Capacities /\ hostPeerId' \in Conn \cup {None}
            /\ hostStarted' \in BOOLEAN /\ locked' \in BOOLEAN
        BY <3>2, LimitAssumption DEF PolicyLoaded
      <4>3. roomOf' \in [Conn -> 0..MaxRooms] /\ pc' \in [Conn -> PcStates]
        BY <3>2, <4>1 DEF PolicyLoaded, PcStates, JoinSteps
      <4> QED
        BY <3>2, <4>1, <4>2, <4>3 DEF PolicyLoaded
    <3>3. CASE AccessVerified(c)
      <4>1. ASSUME NEW status \in WaitStates, EnterQueue(c, status)
            PROVE  /\ waiting' \in [Conn -> WaitStates \cup {"none"}]
                   /\ bound' \in [Conn -> BOOLEAN] /\ pc' \in [Conn -> PcStates]
        BY <4>1 DEF EnterQueue, PcStates
      <4>2. CASE \E status \in WaitStates : EnterQueue(c, status)
        <5>1. PICK status \in WaitStates : EnterQueue(c, status)
          BY <4>2
        <5>2. UNCHANGED <<room, created, role, hostPeerId, hostStarted, sock, roomOf, closeHandler,
                          settingVars, timerVars, target, newRole, todo, admitting>>
          BY <3>3, <5>1 DEF AccessVerified, EnterQueue
        <5> QED
          BY <4>1, <5>1, <5>2 DEF EnterQueue
      <4>3. CASE UNCHANGED <<roomVars, sockVars>> /\ \E l \in {"refused", "sfu"} : Goto(c, l)
        BY <3>3, <4>3 DEF AccessVerified, PcStates, JoinSteps
      <4> QED
        BY <3>3, <4>2, <4>3 DEF AccessVerified, WaitStates
    <3>4. CASE DirectJoin(c)
      <4>1. RoomTypes'
        BY <3>4, AddPeerTypes DEF DirectJoin, RoomTypes, RoomUnchanged
      <4>2. bound' \in [Conn -> BOOLEAN]
        BY <3>4 DEF DirectJoin
      <4>4. releaseTimers' \in SUBSET Conn
        BY <3>4 DEF DirectJoin
      <4>3. pc' \in [Conn -> PcStates]
        BY <3>4 DEF DirectJoin, PcStates
      <4> QED
        BY <3>4, <4>1, <4>2, <4>3, <4>4 DEF DirectJoin, RoomTypes
    <3>5. CASE AdmitAnswered(c)
      <4>1. RoomTypes'
        <5>1. ASSUME AddPeer(target[c], IF target[c] \in GuestConn THEN "guest" ELSE "none"),
                     StillWaiting(target[c])
              PROVE  RoomTypes'
          <6>1. target[c] \in Conn
            BY <3>5 DEF AdmitAnswered
          <6> QED
            BY <5>1, <6>1, AddPeerTypes DEF RoomTypes
        <5> QED
          BY <3>5, <5>1 DEF AdmitAnswered, RoomTypes, RoomUnchanged
      <4>2. /\ pc' \in [Conn -> PcStates] /\ target' \in [Conn -> Conn \cup {None}]
            /\ todo' \in [Conn -> SUBSET Conn] /\ admitting' \in SUBSET Conn
            /\ Targeted'
        <5>1. todo[c] \in SUBSET Conn /\ admitting \ {target[c]} \in SUBSET Conn
          OBVIOUS
        <5>2. AdmitFrom(c, todo[c], admitting \ {target[c]})
          BY <3>5 DEF AdmitAnswered
        <5> QED
          BY <5>1, <5>2, AdmitFromTypes
      <4> QED
        BY <3>5, <4>1, <4>2 DEF AdmitAnswered, RoomTypes
    <3>6. CASE KickAnswered(c)
      <4>1. RoomTypes' /\ emptyTimers' \in Nat
        BY <3>6, RemovePeerTypes DEF KickAnswered, RoomTypes, RoomUnchanged
      <4> QED
        BY <3>6, <4>1 DEF KickAnswered, Resume, RoomTypes, PcStates
    <3>7. CASE ChangeRoleAnswered(c)
      <4>1. role' \in [Conn -> Roles \cup {"none"}]
        BY <3>7, ChangePeerRoleTypes DEF ChangeRoleAnswered
      <4> QED
        BY <3>7, <4>1 DEF ChangeRoleAnswered, Resume, PcStates
    <3>8. CASE EndNext(c)
      <4>1. sock' \in [Conn -> {"open", "closing", "closed"}]
        BY <3>8 DEF EndNext
      <4>2. RoomTypes'
        <5>1. CASE RoomUnchanged
          BY <5>1 DEF RoomUnchanged, RoomTypes
        <5>2. CASE /\ role' = [p \in Conn |-> "none"] /\ waiting' = [p \in Conn |-> "none"]
                   /\ hostPeerId' = None /\ hostStarted' = FALSE
          BY <5>2 DEF RoomTypes
        <5> QED
          BY <3>8, <5>1, <5>2 DEF EndNext, RoomUnchanged
      <4>3. todo' \in [Conn -> SUBSET Conn]
        BY <3>8 DEF EndNext
      <4>4. target' \in [Conn -> Conn \cup {None}]
        BY <3>8 DEF EndNext, Peers
      <4>5. pc' \in [Conn -> PcStates] /\ Targeted'
        BY <3>8 DEF EndNext, PcStates
      <4>6. UNCHANGED <<room, created, settingVars, timerVars, bound, roomOf, closeHandler,
                        newRole, admitting>>
        BY <3>8 DEF EndNext
      <4> QED
        BY <4>1, <4>2, <4>3, <4>4, <4>5, <4>6 DEF RoomTypes
    <3>9. CASE LeaveAnswered(c)
      <4>1. RoomTypes' /\ emptyTimers' \in Nat
        BY <3>9, RemovePeerTypes DEF LeaveAnswered, Disconnect, RoomTypes, RoomUnchanged
      <4> QED
        BY <3>9, <4>1 DEF LeaveAnswered, Disconnect, RoomTypes, PcStates
    <3>10. CASE CloseEvent(c)
      BY <3>10 DEF CloseEvent
    <3>11. CASE CloseAnswered(c)
      <4>1. RoomTypes' /\ emptyTimers' \in Nat
        BY <3>11, RemovePeerTypes DEF CloseAnswered, Disconnect, RoomTypes, RoomUnchanged
      <4> QED
        BY <3>11, <4>1 DEF CloseAnswered, Disconnect, RoomTypes
    <3> QED
      BY <2>4, <3>1, <3>2, <3>3, <3>4, <3>5, <3>6, <3>7, <3>8, <3>9, <3>10, <3>11 DEF Answers
  <2>5. ASSUME NEW c \in Conn, Requests(c) PROVE TypeInv'
    <3>1. CASE JoinRoom(c)
      BY <3>1 DEF JoinRoom, PcStates, JoinSteps
    <3>2. ASSUME NEW targets \in SUBSET Conn, Admit(c, targets) PROVE TypeInv'
      BY <3>2, AdmitFromTypes DEF Admit
    <3>3. CASE AdmitPeer(c) \/ AdmitAll(c)
      BY <3>2, <3>3 DEF AdmitPeer, AdmitAll, Queue
    <3>4. CASE UpdateSettings(c)
      BY <3>4 DEF UpdateSettings
    <3>5. CASE EndMeeting(c)
      BY <3>5 DEF EndMeeting, Suspend, PcStates
    <3>6. CASE LeaveRoom(c)
      BY <3>6 DEF LeaveRoom, PcStates
    <3>7. CASE SocketCloses(c)
      BY <3>7 DEF SocketCloses
    <3>8. ASSUME NEW t \in Conn, RejectPeer(c, t) PROVE TypeInv'
      BY <3>8 DEF RejectPeer
    <3>9. ASSUME NEW t \in Conn, KickPeer(c, t) PROVE TypeInv'
      BY <3>9, ConnAssumption DEF KickPeer, Suspend, PcStates
    <3>10. ASSUME NEW t \in Conn, NEW r \in Roles \ {"host"}, ChangeRole(c, t, r) PROVE TypeInv'
      <4>1. role' \in [Conn -> Roles \cup {"none"}]
        BY <3>10, ChangePeerRoleTypes DEF ChangeRole
      <4> QED
        BY <3>10, <4>1 DEF ChangeRole
    <3>11. ASSUME NEW t \in Conn, NEW r \in Roles \ {"host"}, ChangeRoleAwaits(c, t, r) PROVE TypeInv'
      BY <3>11, ConnAssumption DEF ChangeRoleAwaits, Suspend, PcStates
    <3> QED
      BY <2>5, <3>1, <3>3, <3>4, <3>5, <3>6, <3>7, <3>8, <3>9, <3>10, <3>11 DEF Requests
  <2> QED
    BY <2>1, <2>2, <2>3, <2>4, <2>5 DEF Next, Timers
<1> QED
  BY <1>1, <1>2, PTL DEF Spec

\* The type invariant: every field of the room, every timer, socket and handler
\* keeps its domain, whatever interleaving of requests, answers and closes.
THEOREM TypeCorrect == Spec => []TypeOK
<1>1. TypeInv => TypeOK
  BY DEF TypeInv
<1> QED
  BY <1>1, TypeInvHolds, PTL

-----------------------------------------------------------------------------
(* What RoomManager's mutators do to the seat of the host and to the room *)

\* addPeer: a new host comes in only when the seat is free or takes it from the
\* covering host; everybody who was inside stays.
LEMMA AddPeerSeat ==
    ASSUME TypeOK, Seat, NEW c \in Conn, NEW initial, AddPeer(c, initial)
    PROVE  /\ Seat' /\ Peers' = Peers \cup {c} /\ Queue' = Queue \ {c}
           /\ hostStarted' => hostStarted \/ Peers' # {}
<1> DEFINE r == JoinRole(c, initial)
<1>1. r \in Roles
  BY JoinRoleIsRole
<1>2. r = "host" <=> BecomesHost(c)
  BY DEF JoinRole
<1>3. \A p \in Conn \ {c} : role'[p] = "none" <=> role[p] = "none"
  BY <1>1 DEF AddPeer, TypeOK
<1>4. role'[c] = r /\ hostPeerId' = (IF r = "host" THEN c ELSE hostPeerId)
  BY DEF AddPeer
<1>5. Peers' = Peers \cup {c} /\ Queue' = Queue \ {c}
  BY <1>1, <1>3, <1>4 DEF Peers, Queue, AddPeer, TypeOK, Roles
<1>6. OneHost'
  <2>1. CASE r = "host" /\ c \in OwnerConn
    BY <1>4, <2>1 DEF AddPeer, OneHost
  <2>2. CASE r = "host" /\ c \notin OwnerConn
    <3>1. hostPeerId = None
      BY <1>2, <2>2 DEF BecomesHost, OwnerReturns
    <3>2. \A p \in Conn : role[p] # "host"
      BY <3>1, ConnAssumption DEF Seat, OneHost
    <3> QED
      BY <1>4, <2>2, <3>2 DEF AddPeer, OneHost
  <2>3. CASE r # "host"
    BY <1>4, <2>3 DEF AddPeer, OneHost, Seat
  <2> QED
    BY <2>1, <2>2, <2>3
<1>7. HostIsInside'
  BY <1>4, <1>5 DEF HostIsInside, Seat
<1>8. AdHocSeatTaken'
  BY <1>2, <1>4, <1>5, ConnAssumption DEF AdHocSeatTaken, Seat, BecomesHost
<1> QED
  BY <1>5, <1>6, <1>7, <1>8 DEF Seat

\* removePeer: the seat passes on, stays with the host who is not the one to go,
\* or is vacated; an owned meeting that empties closes its doors.
LEMMA RemovePeerSeat ==
    ASSUME TypeOK, Seat, NEW c \in Conn, RemovePeer(c)
    PROVE  /\ Seat' /\ Peers' = Peers \ {c} /\ Queue' = Queue \ {c}
           /\ hostStarted' => hostStarted /\ (Owned => Peers' # {})
<1>1. PICK next \in Successors(c) :
         /\ role' = [p \in Conn |-> IF p = c THEN "none"
                                    ELSE IF p = next THEN "host" ELSE role[p]]
         /\ hostPeerId' = HostAfter(c, next)
  BY DEF RemovePeer
<1>2. next = None \/ next \in Peers \ {c}
  BY SuccessorIsInside
<1>3. \A p \in Conn : role'[p] # "none" <=> p # c /\ role[p] # "none"
  BY <1>1, <1>2, ConnAssumption DEF Peers
<1>4. Peers' = Peers \ {c}
  BY <1>3 DEF Peers
<1>5. Queue' = Queue \ {c}
  BY DEF RemovePeer, Queue
<1>6. OneHost'
  <2> SUFFICES ASSUME NEW p \in Conn, role'[p] = "host" PROVE hostPeerId' = p
    BY DEF OneHost
  <2>1. p \in Peers \ {c}
    BY <1>3 DEF Peers
  <2>2. CASE p = next
    <3>1. hostPeerId = c
      BY <2>2, ConnAssumption DEF Successors
    <3> QED
      BY <1>1, <2>1, <2>2, <3>1 DEF HostAfter
  <2>3. CASE p # next
    <3>1. role[p] = "host"
      BY <1>1, <2>1, <2>3
    <3>2. hostPeerId = p
      BY <3>1 DEF Seat, OneHost
    <3> QED
      BY <1>1, <2>1, <3>2 DEF HostAfter
  <2> QED
    BY <2>2, <2>3
<1>7. HostIsInside'
  BY <1>1, <1>2, <1>4 DEF HostIsInside, Seat, HostAfter
<1>8. AdHocSeatTaken'
  <2> SUFFICES ASSUME ~Owned, Peers \ {c} # {} PROVE hostPeerId' # None
    BY <1>4 DEF AdHocSeatTaken
  <2>1. hostPeerId # None
    BY DEF AdHocSeatTaken, Seat
  <2>2. hostPeerId = c => next # None
    BY ConnAssumption, UserAssumption DEF Successors, Peers, CoHosts
  <2> QED
    BY <1>1, <2>1, <2>2 DEF HostAfter
<1>9. hostStarted' => hostStarted /\ (Owned => Peers' # {})
  BY <1>4 DEF RemovePeer, DoorsClose, TypeOK
<1> QED
  BY <1>4, <1>5, <1>6, <1>7, <1>8, <1>9 DEF Seat

\* changePeerRole to a role other than host moves nobody in or out.
LEMMA ChangePeerRoleSeat ==
    ASSUME TypeOK, Seat, NEW t \in Conn, NEW r \in Roles \ {"host"}, ChangePeerRole(t, r),
           UNCHANGED <<hostPeerId, waiting>>
    PROVE  Seat' /\ Peers' = Peers /\ Queue' = Queue
<1>1. \A p \in Conn : (role'[p] = "none" <=> role[p] = "none") /\ (role'[p] = "host" => role[p] = "host")
  BY DEF ChangePeerRole, TypeOK, Roles
<1>2. Peers' = Peers /\ Queue' = Queue
  BY <1>1 DEF Peers, Queue
<1> QED
  BY <1>1, <1>2 DEF Seat, OneHost, HostIsInside, AdHocSeatTaken

-----------------------------------------------------------------------------
(* The invariant is inductive *)

\* The parts of IInv that only look at who is inside, who waits and whose
\* connection is bound.
Settled == Presence /\ Seat /\ InsideOrWaiting /\ NoGhostPeers

\* A step that touches neither the room nor a connection.
LEMMA QuietStep ==
    ASSUME IInv, TypeInv', UNCHANGED <<roomVars, sockVars>>
    PROVE  Settled' /\ Closing'
BY DEF IInv, Settled, Presence, Seat, OneHost, HostIsInside, AdHocSeatTaken, InsideOrWaiting,
       NoGhostPeers, Closing, Peers, Queue, roomVars, sockVars

\* A request that only starts to wait: neither a join nor a change of what the
\* handlers of other connections rely on.
LEMMA RequestStep ==
    ASSUME IInv, TypeInv', UNCHANGED <<roomVars, sockVars>>, NEW c \in Conn,
           NEW l \in PcStates \ {"left", "policy", "access", "sfu", "changingRole"}, Goto(c, l),
           UNCHANGED newRole
    PROVE  IInv'
<1>1. Settled' /\ Closing'
  BY QuietStep
<1>2. Joining' /\ Gone' /\ Demotion' /\ Doors'
  BY DEF IInv, Joining, Gone, Demotion, Doors, JoinSteps, Peers, roomVars, sockVars, TypeOK
<1> QED
  BY <1>1, <1>2 DEF IInv, Settled, TypeInv

\* handlePeerDisconnect leaves the connection outside and unbound.
LEMMA DisconnectStep ==
    ASSUME IInv, TypeInv', NEW c \in Conn, Disconnect(c),
           \A p \in Conn \ {c} : sock'[p] = sock[p] /\ closeHandler'[p] = closeHandler[p]
    PROVE  /\ Presence' /\ Seat' /\ InsideOrWaiting' /\ NoGhostPeers'
           /\ hostStarted' => hostStarted /\ (Owned => Peers' # {})
           /\ c \notin Peers' \cup Queue'
<1>1. /\ Seat' /\ Peers' = Peers \ {c} /\ Queue' = Queue \ {c}
      /\ hostStarted' => hostStarted /\ (Owned => Peers' # {})
  <2>1. CASE roomOf[c] = room
    BY <2>1, RemovePeerSeat DEF Disconnect, IInv
  <2>2. CASE roomOf[c] # room
    <3>1. c \notin Peers \cup Queue
      BY <2>2 DEF IInv, Presence
    <3>2. Peers' = Peers /\ Queue' = Queue
      BY <2>2 DEF Disconnect, RoomUnchanged, Peers, Queue
    <3> QED
      BY <2>2, <3>1, <3>2 DEF Disconnect, RoomUnchanged, IInv, Seat, OneHost, HostIsInside,
                              AdHocSeatTaken, Doors
  <2> QED
    BY <2>1, <2>2
<1>2. Presence'
  BY <1>1 DEF IInv, Presence, Disconnect, Peers, Queue, TypeOK
<1>3. InsideOrWaiting' /\ NoGhostPeers'
  BY <1>1 DEF IInv, InsideOrWaiting, NoGhostPeers, Peers
<1> QED
  BY <1>1, <1>2, <1>3

\* What a connection that is let in finds: an open socket, and its entry in the
\* waiting room unless its own join brought it in.
LEMMA EntryStep ==
    ASSUME IInv, TypeInv', NEW c \in Conn, NEW initial, AddPeer(c, initial),
           sock[c] = "open", roomOf[c] = room, roomOf[c] # 0, bound'[c],
           \A p \in Conn \ {c} : bound'[p] = bound[p],
           UNCHANGED <<room, roomOf, sock, closeHandler>>
    PROVE  Settled' /\ Closing' /\ (Owned /\ hostStarted' => Peers' # {})
<1>1. Seat' /\ Peers' = Peers \cup {c} /\ Queue' = Queue \ {c}
  BY AddPeerSeat DEF IInv
<1>2. Presence'
  BY <1>1 DEF IInv, Presence, Peers, Queue
<1>3. InsideOrWaiting' /\ NoGhostPeers' /\ Closing'
  BY <1>1 DEF IInv, InsideOrWaiting, NoGhostPeers, Closing, Peers
<1> QED
  BY <1>1, <1>2, <1>3 DEF Settled

\* Every step keeps the invariant.
LEMMA Inductive == IInv /\ TypeInv' /\ [Next]_vars => IInv'
<1> SUFFICES ASSUME IInv, TypeInv', [Next]_vars PROVE IInv'
  OBVIOUS
<1> USE DEF roomVars, settingVars, timerVars, sockVars, handlerVars
<1> DEFINE Handlers == Joining /\ Gone /\ Demotion /\ Doors
<1>0. Settled' /\ Closing' /\ Handlers' => IInv'
  BY DEF Settled, IInv, TypeInv
<1>1. CASE UNCHANGED vars
  <2>1. Settled' /\ Closing'
    BY <1>1, QuietStep DEF vars
  <2>2. Handlers'
    BY <1>1 DEF vars, IInv, Joining, Gone, Demotion, Doors, Peers
  <2> QED
    BY <1>0, <2>1, <2>2
<1>2. CASE EmptyTimer
  <2>1. Settled' /\ Closing'
    BY <1>2 DEF EmptyTimer, IInv, Settled, Presence, Seat, OneHost, HostIsInside,
                AdHocSeatTaken, InsideOrWaiting, NoGhostPeers, Closing, Peers, Queue
  <2>2. Handlers'
    BY <1>2 DEF EmptyTimer, IInv, Joining, Gone, Demotion, Doors, Peers
  <2> QED
    BY <1>0, <2>1, <2>2
<1>3. ASSUME NEW c \in Conn, ReleaseAwaitingHost(c) PROVE IInv'
  <2>1. Queue' = Queue /\ Peers' = Peers
    BY <1>3 DEF ReleaseAwaitingHost, Queue, Peers, IInv, TypeOK, WaitStates
  <2>2. Settled' /\ Closing'
    BY <1>3, <2>1 DEF ReleaseAwaitingHost, IInv, Settled, Presence, Seat, OneHost, HostIsInside,
                AdHocSeatTaken, InsideOrWaiting, NoGhostPeers, Closing
  <2>3. Handlers'
    BY <1>3, <2>1 DEF ReleaseAwaitingHost, IInv, Joining, Gone, Demotion, Doors
  <2> QED
    BY <1>0, <2>2, <2>3
<1>4. ASSUME NEW c \in Conn, Answers(c) PROVE IInv'
  <2>1. CASE JoinRefused(c)
    BY <2>1, RequestStep DEF JoinRefused, PcStates
  <2>2. CASE PolicyLoaded(c)
    <3>1. Settled' /\ Closing'
      BY <2>2 DEF PolicyLoaded, IInv, Settled, Presence, Joining, Seat, OneHost, HostIsInside,
                  AdHocSeatTaken, InsideOrWaiting, NoGhostPeers, Closing, Peers, Queue, TypeOK, JoinSteps
    <3>2. Handlers'
      BY <2>2 DEF PolicyLoaded, IInv, Joining, Gone, Demotion, Doors, Peers, TypeOK, JoinSteps, Presence
    <3> QED
      BY <1>0, <3>1, <3>2
  <2>3. CASE AccessVerified(c)
    <3>1. ASSUME NEW status \in WaitStates, EnterQueue(c, status), roomOf[c] = room PROVE Settled'
      <4>1. roomOf[c] # 0 /\ c \notin Peers /\ Queue' = Queue \cup {c} /\ Peers' = Peers
        BY <2>3, <3>1 DEF AccessVerified, EnterQueue, IInv, Joining, JoinSteps, Presence, Queue,
                          Peers, TypeOK, WaitStates
      <4> QED
        BY <2>3, <3>1, <4>1 DEF AccessVerified, EnterQueue, IInv, Settled, Presence, Seat, OneHost,
                  HostIsInside, AdHocSeatTaken, InsideOrWaiting, NoGhostPeers, TypeOK
    <3>2. Settled' /\ Closing'
      BY <2>3, <3>1, QuietStep DEF AccessVerified, WaitStates, IInv, Closing, EnterQueue
    <3>3. Joining' /\ Gone' /\ Demotion'
      BY <2>3 DEF AccessVerified, EnterQueue, IInv, Joining, Gone, Demotion, TypeOK, JoinSteps
    <3>4. Doors'
      BY <2>3 DEF AccessVerified, EnterQueue, IInv, Doors, MustWaitForHost, MustKnock, Peers, TypeOK
    <3> QED
      BY <1>0, <3>2, <3>3, <3>4
  <2>4. CASE DirectJoin(c)
    <3>1. roomOf[c] # 0
      BY <2>4 DEF DirectJoin, IInv, Joining, JoinSteps
    <3>2. CASE UNCHANGED <<roomVars, sockVars>>
      BY <2>4, <3>2, RequestStep DEF DirectJoin, PcStates, IInv, Demotion
    <3>3. CASE /\ SocketAlive(c) /\ roomOf[c] = room /\ AddPeer(c, GrantedRole(c))
               /\ bound' = [bound EXCEPT ![c] = TRUE] /\ Goto(c, "idle")
      <4>1. Settled' /\ Closing' /\ (Owned /\ hostStarted' => Peers' # {})
        BY <2>4, <3>1, <3>3, EntryStep DEF DirectJoin, SocketAlive, IInv, TypeOK
      <4>2. Handlers'
        BY <2>4, <3>3, <4>1 DEF DirectJoin, IInv, Joining, Gone, Demotion, Doors, TypeOK, JoinSteps
      <4> QED
        BY <1>0, <4>1, <4>2
    <3> QED
      BY <2>4, <3>2, <3>3 DEF DirectJoin, RoomUnchanged
  <2>5. CASE AdmitAnswered(c)
    <3>1. target[c] \in Conn
      BY <2>5 DEF AdmitAnswered, IInv, TypeOK, Targeted
    <3>2. Settled' /\ Closing' /\ (Owned /\ hostStarted' => Peers' # {})
      <4>1. CASE RoomUnchanged
        <5>1. UNCHANGED <<roomVars, sockVars>>
          BY <2>5, <4>1 DEF AdmitAnswered, RoomUnchanged
        <5> QED
          BY <4>1, <5>1, QuietStep DEF IInv, Doors, RoomUnchanged, Peers
      <4>2. CASE /\ StillWaiting(target[c])
                 /\ AddPeer(target[c], IF target[c] \in GuestConn THEN "guest" ELSE "none")
        <5>1. target[c] \in Queue /\ sock[target[c]] = "open"
          BY <3>1, <4>2 DEF StillWaiting, SocketAlive, Queue
        <5> QED
          BY <2>5, <3>1, <4>2, <5>1, EntryStep DEF AdmitAnswered, IInv, Presence
      <4> QED
        BY <2>5, <4>1, <4>2 DEF AdmitAnswered
    <3>3. Joining' /\ Gone' /\ Demotion'
      BY <2>5 DEF AdmitAnswered, AdmitFrom, IInv, Joining, Gone, Demotion, TypeOK, JoinSteps
    <3>4. Doors'
      BY <2>5, <3>2 DEF AdmitAnswered, AdmitFrom, IInv, Doors, TypeOK
    <3> QED
      BY <1>0, <3>2, <3>3, <3>4
  <2>6. CASE KickAnswered(c)
    <3>1. target[c] \in Conn
      BY <2>6 DEF KickAnswered, IInv, TypeOK, Targeted
    <3>2. /\ Seat' /\ Peers' \subseteq Peers /\ Queue' \subseteq Queue
          /\ Owned /\ hostStarted' => Peers' # {}
      <4>1. CASE RemovePeer(target[c])
        BY <3>1, <4>1, RemovePeerSeat DEF IInv
      <4>2. CASE RoomUnchanged
        BY <4>2 DEF RoomUnchanged, IInv, Seat, OneHost, HostIsInside, AdHocSeatTaken, Peers, Queue,
                    Doors
      <4> QED
        BY <2>6, <4>1, <4>2 DEF KickAnswered
    <3>3. Presence' /\ InsideOrWaiting' /\ NoGhostPeers' /\ Closing'
      BY <2>6, <3>2 DEF KickAnswered, IInv, Presence, InsideOrWaiting, NoGhostPeers, Closing, TypeOK,
                        Peers, Queue
    <3>4. Handlers'
      BY <2>6, <3>2 DEF KickAnswered, Resume, IInv, Joining, Gone, Demotion, Doors, TypeOK, JoinSteps
    <3> QED
      BY <1>0, <3>2, <3>3, <3>4 DEF Settled
  <2>7. CASE ChangeRoleAnswered(c)
    <3>1. target[c] \in Conn /\ newRole[c] \in Roles \ {"host"}
      BY <2>7 DEF ChangeRoleAnswered, IInv, TypeOK, Targeted, Demotion
    <3>2. Seat' /\ Peers' = Peers /\ Queue' = Queue
      <4>1. CASE ChangePeerRole(target[c], newRole[c])
        BY <2>7, <3>1, <4>1, ChangePeerRoleSeat DEF ChangeRoleAnswered, IInv
      <4>2. CASE UNCHANGED role
        BY <2>7, <4>2 DEF ChangeRoleAnswered, IInv, Seat, OneHost, HostIsInside, AdHocSeatTaken,
                          Peers, Queue
      <4> QED
        BY <2>7, <4>1, <4>2 DEF ChangeRoleAnswered
    <3>3. Presence' /\ InsideOrWaiting' /\ NoGhostPeers' /\ Closing'
      BY <2>7, <3>2 DEF ChangeRoleAnswered, IInv, Presence, InsideOrWaiting, NoGhostPeers, Closing
    <3>4. Handlers'
      BY <2>7, <3>2 DEF ChangeRoleAnswered, Resume, IInv, Joining, Gone, Demotion, Doors, TypeOK,
                        JoinSteps
    <3> QED
      BY <1>0, <3>2, <3>3, <3>4 DEF Settled
  <2>8. CASE EndNext(c)
    <3>1. \A p \in Conn : sock'[p] = "open" => sock[p] = "open"
      BY <2>8 DEF EndNext, IInv, TypeOK
    <3>2. \A p \in Conn : sock'[p] = "closed" => sock[p] = "closed"
      BY <2>8 DEF EndNext, IInv, TypeOK
    <3>3. UNCHANGED <<room, bound, roomOf, closeHandler, newRole>> /\ Closing'
      BY <2>8, <3>1 DEF EndNext, IInv, Closing
    <3>4. \A p \in Conn : pc'[p] \in {pc[p], "idle"}
      BY <2>8 DEF EndNext, IInv, TypeOK
    <3>5. Joining' /\ Gone' /\ Demotion'
      BY <3>3, <3>4 DEF IInv, Joining, Gone, Demotion, JoinSteps
    <3>6. CASE RoomUnchanged
      <4>1. Peers' = Peers /\ Queue' = Queue
        BY <3>6 DEF RoomUnchanged, Peers, Queue
      <4>2. Settled'
        <5>1. Presence' /\ InsideOrWaiting' /\ NoGhostPeers'
          BY <3>2, <3>3, <4>1 DEF IInv, Presence, InsideOrWaiting, NoGhostPeers, Peers
        <5>2. Seat'
          BY <3>6, <4>1 DEF RoomUnchanged, IInv, Seat, OneHost, HostIsInside, AdHocSeatTaken
        <5> QED
          BY <5>1, <5>2 DEF Settled
      <4>3. Doors'
        BY <3>4, <3>6, <4>1 DEF RoomUnchanged, IInv, Doors
      <4> QED
        BY <1>0, <3>3, <3>5, <4>2, <4>3
    <3>7. CASE /\ role' = [p \in Conn |-> "none"] /\ waiting' = [p \in Conn |-> "none"]
               /\ hostPeerId' = None /\ hostStarted' = FALSE
      <4>1. Peers' = {} /\ Queue' = {}
        BY <3>7 DEF Peers, Queue
      <4>2. Settled'
        BY <3>7, <4>1 DEF Settled, Presence, Seat, OneHost, HostIsInside, AdHocSeatTaken,
                          InsideOrWaiting, NoGhostPeers
      <4>3. Doors'
        BY <3>4, <3>7 DEF IInv, Doors
      <4> QED
        BY <1>0, <3>3, <3>5, <4>2, <4>3
    <3> QED
      BY <2>8, <3>6, <3>7 DEF EndNext, RoomUnchanged
  <2>9. CASE LeaveAnswered(c)
    <3>1. /\ Presence' /\ Seat' /\ InsideOrWaiting' /\ NoGhostPeers'
          /\ hostStarted' => hostStarted /\ (Owned => Peers' # {})
      BY <2>9, DisconnectStep DEF LeaveAnswered
    <3>2. Closing'
      BY <2>9 DEF LeaveAnswered, Disconnect, IInv, Closing
    <3>3. Handlers'
      BY <2>9, <3>1 DEF LeaveAnswered, Disconnect, IInv, Joining, Gone, Demotion, Doors, TypeOK,
                        JoinSteps
    <3> QED
      BY <1>0, <3>1, <3>2, <3>3 DEF Settled
  <2>10. CASE CloseEvent(c)
    <3>1. Settled' /\ Closing'
      BY <2>10 DEF CloseEvent, IInv, Settled, Presence, Seat, OneHost, HostIsInside, AdHocSeatTaken,
                   InsideOrWaiting, NoGhostPeers, Closing, Peers, Queue, TypeOK
    <3>2. Handlers'
      BY <2>10 DEF CloseEvent, IInv, Joining, Gone, Demotion, Doors, Peers
    <3> QED
      BY <1>0, <3>1, <3>2
  <2>11. CASE CloseAnswered(c)
    <3>1. /\ Presence' /\ Seat' /\ InsideOrWaiting' /\ NoGhostPeers'
          /\ hostStarted' => hostStarted /\ (Owned => Peers' # {})
      BY <2>11, DisconnectStep DEF CloseAnswered, IInv, TypeOK
    <3>2. Closing'
      BY <2>11 DEF CloseAnswered, Disconnect, IInv, Closing, TypeOK
    <3>3. Handlers'
      BY <2>11, <3>1 DEF CloseAnswered, Disconnect, IInv, Joining, Gone, Demotion, Doors, TypeOK
    <3> QED
      BY <1>0, <3>1, <3>2, <3>3 DEF Settled
  <2> QED
    BY <1>4, <2>1, <2>2, <2>3, <2>4, <2>5, <2>6, <2>7, <2>8, <2>9, <2>10, <2>11 DEF Answers
<1>5. ASSUME NEW c \in Conn, Requests(c) PROVE IInv'
  <2>1. CASE JoinRoom(c)
    <3>1. Settled' /\ Closing'
      BY <2>1, QuietStep DEF JoinRoom
    <3>2. Handlers'
      BY <2>1 DEF JoinRoom, IInv, Joining, Gone, Demotion, Doors, Peers, TypeOK
    <3> QED
      BY <1>0, <3>1, <3>2
  <2>2. CASE AdmitPeer(c) \/ AdmitAll(c)
    <3>1. PICK targets, busy : AdmitFrom(c, targets, busy)
      BY <2>2 DEF AdmitPeer, AdmitAll, Admit
    <3>2. UNCHANGED <<roomVars, sockVars, newRole>>
      BY <2>2 DEF AdmitPeer, AdmitAll, Admit
    <3>3. PICK l \in {"idle", "admitting"} : Goto(c, l)
      BY <3>1 DEF AdmitFrom
    <3> QED
      BY <3>2, <3>3, RequestStep DEF PcStates
  <2>3. CASE UpdateSettings(c)
    <3>1. Settled' /\ Closing'
      BY <2>3, QuietStep DEF UpdateSettings
    <3>2. Handlers'
      BY <2>3 DEF UpdateSettings, IInv, Joining, Gone, Demotion, Doors, Peers
    <3> QED
      BY <1>0, <3>1, <3>2
  <2>4. CASE EndMeeting(c)
    BY <2>4, RequestStep DEF EndMeeting, Suspend, PcStates
  <2>5. CASE LeaveRoom(c)
    BY <2>5, RequestStep DEF LeaveRoom, PcStates
  <2>6. CASE SocketCloses(c)
    <3>1. Settled' /\ Closing'
      BY <2>6 DEF SocketCloses, IInv, Settled, Presence, Seat, OneHost, HostIsInside, AdHocSeatTaken,
                  InsideOrWaiting, NoGhostPeers, Closing, Peers, Queue, TypeOK
    <3>2. Handlers'
      BY <2>6 DEF SocketCloses, IInv, Joining, Gone, Demotion, Doors, Peers
    <3> QED
      BY <1>0, <3>1, <3>2
  <2>7. ASSUME NEW t \in Conn, RejectPeer(c, t) PROVE IInv'
    <3>1. Peers' = Peers /\ Queue' \subseteq Queue
      BY <2>7 DEF RejectPeer, Peers, Queue, IInv, TypeOK
    <3>2. Settled' /\ Closing'
      BY <2>7, <3>1 DEF RejectPeer, IInv, Settled, Presence, Seat, OneHost, HostIsInside,
                  AdHocSeatTaken, InsideOrWaiting, NoGhostPeers, Closing
    <3>3. Handlers'
      BY <2>7, <3>1 DEF RejectPeer, IInv, Joining, Gone, Demotion, Doors
    <3> QED
      BY <1>0, <3>2, <3>3
  <2>8. ASSUME NEW t \in Conn, KickPeer(c, t) PROVE IInv'
    BY <2>8, RequestStep DEF KickPeer, Suspend, PcStates
  <2>9. ASSUME NEW t \in Conn, NEW r \in Roles \ {"host"}, ChangeRole(c, t, r) PROVE IInv'
    <3>1. Seat' /\ Peers' = Peers /\ Queue' = Queue
      BY <2>9, ChangePeerRoleSeat DEF ChangeRole, IInv
    <3>2. Presence' /\ InsideOrWaiting' /\ NoGhostPeers' /\ Closing'
      BY <2>9, <3>1 DEF ChangeRole, IInv, Presence, InsideOrWaiting, NoGhostPeers, Closing
    <3>3. Handlers'
      BY <2>9, <3>1 DEF ChangeRole, IInv, Joining, Gone, Demotion, Doors
    <3> QED
      BY <1>0, <3>1, <3>2, <3>3 DEF Settled
  <2>10. ASSUME NEW t \in Conn, NEW r \in Roles \ {"host"}, ChangeRoleAwaits(c, t, r) PROVE IInv'
    <3>1. Settled' /\ Closing'
      BY <2>10, QuietStep DEF ChangeRoleAwaits
    <3>2. Handlers'
      BY <2>10 DEF ChangeRoleAwaits, Suspend, IInv, Joining, Gone, Demotion, Doors, Peers, TypeOK,
                   JoinSteps, Roles
    <3> QED
      BY <1>0, <3>1, <3>2
  <2> QED
    BY <1>5, <2>1, <2>2, <2>3, <2>4, <2>5, <2>6, <2>7, <2>8, <2>9, <2>10 DEF Requests
<1> QED
  BY <1>1, <1>2, <1>3, <1>4, <1>5 DEF Next, Timers

\* The invariant with everything it rests on holds in every reachable state.
THEOREM InvariantHolds == Spec => []IInv
<1>1. Init /\ TypeInv => IInv
  <2> SUFFICES ASSUME Init, TypeInv PROVE IInv
    OBVIOUS
  <2>1. Peers = {} /\ Queue = {}
    BY DEF Init, Peers, Queue
  <2>2. Seat /\ Presence /\ InsideOrWaiting /\ NoGhostPeers
    BY <2>1 DEF Init, Seat, OneHost, HostIsInside, AdHocSeatTaken, Presence, InsideOrWaiting, NoGhostPeers
  <2>3. Joining /\ Gone /\ Closing /\ Demotion /\ Doors
    BY DEF Init, Joining, Gone, Closing, Demotion, Doors, JoinSteps
  <2> QED
    BY <2>2, <2>3 DEF IInv, TypeInv
<1>2. IInv /\ TypeInv' /\ [Next]_vars => IInv'
  BY Inductive
<1> QED
  BY <1>1, <1>2, TypeInvHolds, PTL DEF Spec

\* At most one host, and it is the one hostPeerId names, whatever mix of owners,
\* admins, hand-overs and role changes in flight.
THEOREM OneHostAlways == Spec => []OneHost
<1>1. IInv => OneHost
  BY DEF IInv, Seat
<1> QED
  BY <1>1, InvariantHolds, PTL

\* hostPeerId never names somebody who has left.
THEOREM HostIsInsideAlways == Spec => []HostIsInside
<1>1. IInv => HostIsInside
  BY DEF IInv, Seat
<1> QED
  BY <1>1, InvariantHolds, PTL

\* The seat of an ad-hoc room with people in it is never vacant.
THEOREM AdHocSeatTakenAlways == Spec => []AdHocSeatTaken
<1>1. IInv => AdHocSeatTaken
  BY DEF IInv, Seat
<1> QED
  BY <1>1, InvariantHolds, PTL

\* Nobody is inside and in the waiting room at once.
THEOREM InsideOrWaitingAlways == Spec => []InsideOrWaiting
<1>1. IInv => InsideOrWaiting
  BY DEF IInv
<1> QED
  BY <1>1, InvariantHolds, PTL

\* No peer stays behind its closed socket.
THEOREM NoGhostPeersAlways == Spec => []NoGhostPeers
<1>1. IInv => NoGhostPeers
  BY DEF IInv
<1> QED
  BY <1>1, InvariantHolds, PTL

-----------------------------------------------------------------------------
(* What a single step may do to the roles *)

\* The two ways in: the end of one's own join, and an admission of somebody who
\* still waits on an open socket.
EntersByJoin(c) ==
    /\ pc[c] = "sfu" /\ sock[c] = "open" /\ MayRegister(c)
    /\ \E initial \in Roles \cup {"none"} : AddPeer(c, initial)
EntersByAdmission(c) ==
    /\ \E m \in Conn : pc[m] = "admitting" /\ target[m] = c
    /\ sock[c] = "open" /\ c \in Queue /\ MayRegister(c)
    /\ \E initial \in Roles \cup {"none"} : AddPeer(c, initial)

\* Every step leaves the roles alone, lets one peer in, removes one, changes the
\* role of one or, at the end of a meeting, removes all.
LEMMA RoleStep ==
    ASSUME IInv, Next
    PROVE  \/ UNCHANGED role
           \/ \E c \in Conn : EntersByJoin(c) \/ EntersByAdmission(c)
           \/ \E c \in Conn : RemovePeer(c)
           \/ \E t \in Conn, r \in Roles \ {"host"} : ChangePeerRole(t, r)
           \/ role' = [p \in Conn |-> "none"]
<1> DEFINE Goal == \/ UNCHANGED role
                   \/ \E c \in Conn : EntersByJoin(c) \/ EntersByAdmission(c)
                   \/ \E c \in Conn : RemovePeer(c)
                   \/ \E t \in Conn, r \in Roles \ {"host"} : ChangePeerRole(t, r)
                   \/ role' = [p \in Conn |-> "none"]
<1> SUFFICES Goal
  OBVIOUS
<1> USE DEF roomVars
<1>1. CASE Timers
  BY <1>1 DEF Timers, EmptyTimer, ReleaseAwaitingHost
<1>2. ASSUME NEW c \in Conn, Answers(c) PROVE Goal
  <2>1. CASE JoinRefused(c) \/ PolicyLoaded(c) \/ AccessVerified(c) \/ CloseEvent(c)
    BY <2>1 DEF JoinRefused, PolicyLoaded, AccessVerified, EnterQueue, CloseEvent
  <2>2. CASE DirectJoin(c)
    <3>1. GrantedRole(c) \in Roles \cup {"none"}
      BY DEF GrantedRole, Roles
    <3> QED
      BY <2>2, <3>1 DEF DirectJoin, RoomUnchanged, EntersByJoin, SocketAlive
  <2>3. CASE AdmitAnswered(c)
    <3> DEFINE initial == IF target[c] \in GuestConn THEN "guest" ELSE "none"
    <3>1. target[c] \in Conn /\ initial \in Roles \cup {"none"}
      BY <2>3 DEF AdmitAnswered, IInv, TypeOK, Targeted, Roles
    <3>2. CASE StillWaiting(target[c]) /\ MayRegister(target[c]) /\ AddPeer(target[c], initial)
      BY <2>3, <3>1, <3>2 DEF AdmitAnswered, EntersByAdmission, StillWaiting, SocketAlive, Queue
    <3> QED
      BY <2>3, <3>2 DEF AdmitAnswered, RoomUnchanged
  <2>4. CASE KickAnswered(c)
    BY <2>4 DEF KickAnswered, RoomUnchanged, IInv, TypeOK, Targeted
  <2>5. CASE ChangeRoleAnswered(c)
    BY <2>5 DEF ChangeRoleAnswered, IInv, TypeOK, Targeted, Demotion
  <2>6. CASE EndNext(c)
    BY <2>6 DEF EndNext, RoomUnchanged
  <2>7. CASE LeaveAnswered(c) \/ CloseAnswered(c)
    BY <2>7 DEF LeaveAnswered, CloseAnswered, Disconnect, RoomUnchanged
  <2> QED
    BY <1>2, <2>1, <2>2, <2>3, <2>4, <2>5, <2>6, <2>7 DEF Answers
<1>3. ASSUME NEW c \in Conn, Requests(c) PROVE Goal
  <2>1. CASE \E t \in Conn, r \in Roles \ {"host"} : ChangeRole(c, t, r)
    BY <2>1 DEF ChangeRole
  <2>2. CASE ~ \E t \in Conn, r \in Roles \ {"host"} : ChangeRole(c, t, r)
    BY <1>3, <2>2 DEF Requests, JoinRoom, AdmitPeer, AdmitAll, Admit, UpdateSettings, EndMeeting,
                      LeaveRoom, SocketCloses, RejectPeer, KickPeer, ChangeRoleAwaits
  <2> QED
    BY <2>1, <2>2
<1> QED
  BY <1>1, <1>2, <1>3 DEF Next

\* Nobody enters but by one of the two ways in.
LEMMA OnlyWaysIn ==
    ASSUME IInv, Next, NEW c \in Conn, Enters(c)
    PROVE  EntersByJoin(c) \/ EntersByAdmission(c)
<1>1. c \notin Peers /\ c \in Peers'
  BY DEF Enters, Peers
<1>2. CASE UNCHANGED role \/ role' = [p \in Conn |-> "none"]
  BY <1>1, <1>2 DEF Peers
<1>3. ASSUME NEW d \in Conn, EntersByJoin(d) \/ EntersByAdmission(d)
      PROVE  d = c
  <2>1. Peers' = Peers \cup {d}
    BY <1>3, AddPeerSeat DEF EntersByJoin, EntersByAdmission, IInv
  <2> QED
    BY <1>1, <2>1
<1>4. ASSUME NEW d \in Conn, RemovePeer(d) PROVE FALSE
  BY <1>1, <1>4, RemovePeerSeat DEF IInv
<1>5. ASSUME NEW t \in Conn, NEW r \in Roles \ {"host"}, ChangePeerRole(t, r) PROVE FALSE
  BY <1>1, <1>5 DEF ChangePeerRole, Peers, IInv, TypeOK
<1> QED
  BY <1>2, <1>3, <1>4, <1>5, RoleStep

\* A lock or a smaller capacity set meanwhile holds off every entry in flight.
THEOREM EntryRespectsSettingsAlways == Spec => EntryRespectsSettings
<1>1. IInv /\ [Next]_vars =>
        [\A c \in Conn : Enters(c) => /\ locked => IsOwner(c)
                                      /\ c \in AdminConn \/ Cardinality(Peers) < maxParticipants]_vars
  BY OnlyWaysIn DEF EntersByJoin, EntersByAdmission, MayRegister
<1> QED
  BY <1>1, InvariantHolds, PTL DEF Spec, EntryRespectsSettings

\* No admission in flight lets in somebody who was rejected, left or hung up.
THEOREM NoEntryAfterGoodbyeAlways == Spec => NoEntryAfterGoodbye
<1>1. ASSUME IInv, Next, NEW c \in Conn, Enters(c)
      PROVE  /\ sock[c] = "open" /\ closeHandler[c] = "none" /\ pc[c] # "left"
             /\ bound[c] => waiting[c] # "none"
  <2>1. CASE EntersByJoin(c)
    <3>1. pc[c] = "sfu" /\ sock[c] = "open"
      BY <2>1 DEF EntersByJoin
    <3>2. ~bound[c]
      BY <1>1, <3>1 DEF IInv, Joining, JoinSteps
    <3>3. closeHandler[c] = "none"
      BY <1>1, <3>1 DEF IInv, Closing
    <3> QED
      BY <3>1, <3>2, <3>3
  <2>2. CASE EntersByAdmission(c)
    <3>1. c \in Queue /\ waiting[c] # "none" /\ sock[c] = "open"
      BY <2>2 DEF EntersByAdmission, Queue
    <3>2. bound[c]
      BY <1>1, <3>1 DEF IInv, Presence
    <3>3. pc[c] # "left"
      BY <1>1, <3>2 DEF IInv, Gone
    <3>4. closeHandler[c] = "none"
      BY <1>1, <3>1 DEF IInv, Closing
    <3> QED
      BY <3>1, <3>3, <3>4
  <2> QED
    BY <1>1, <2>1, <2>2, OnlyWaysIn
<1>2. IInv /\ [Next]_vars =>
        [\A c \in Conn : Enters(c) => /\ sock[c] = "open" /\ closeHandler[c] = "none" /\ pc[c] # "left"
                                      /\ bound[c] => waiting[c] # "none"]_vars
  BY <1>1
<1> QED
  BY <1>2, InvariantHolds, PTL DEF Spec, NoEntryAfterGoodbye

\* In a meeting that has an owner, whoever gets in without being owner or admin
\* was admitted.  (Without an owner, the entry of two first joiners is not.)
THEOREM OwnedEntryIsApproved == ASSUME Owned PROVE Spec => EntryIsApproved
<1>1. ASSUME IInv, Next, NEW c \in Conn, Enters(c), ~IsOwner(c)
      PROVE  \E m \in Conn : pc[m] = "admitting" /\ target[m] = c
  BY <1>1, OnlyWaysIn DEF EntersByJoin, EntersByAdmission, IInv, Doors
<1>2. IInv /\ [Next]_vars =>
        [\A c \in Conn : Enters(c) /\ ~IsOwner(c) =>
            \/ \E m \in Conn : pc[m] = "admitting" /\ target[m] = c
            \/ ~Owned /\ Peers = {}]_vars
  BY <1>1
<1> QED
  BY <1>2, InvariantHolds, PTL DEF Spec, EntryIsApproved

\* In an owned meeting the host is the owner, a platform admin or promoted from
\* co-host, never anybody else.
THEOREM HostSuccessionAlways == Spec => HostSuccession
<1>1. ASSUME IInv, Next, Owned, NEW c \in Conn, role[c] # "host", role'[c] = "host"
      PROVE  IsOwner(c) \/ role[c] = "co-host"
  <2>1. CASE UNCHANGED role \/ role' = [p \in Conn |-> "none"]
    BY <1>1, <2>1
  <2>2. ASSUME NEW d \in Conn, NEW initial, AddPeer(d, initial) PROVE IsOwner(c)
    <3>1. d = c /\ BecomesHost(c)
      BY <1>1, <2>2 DEF AddPeer, JoinRole
    <3> QED
      BY <1>1, <3>1 DEF BecomesHost, OwnerReturns, IsOwner
  <2>3. ASSUME NEW d \in Conn, RemovePeer(d) PROVE role[c] = "co-host"
    <3>1. PICK next \in Successors(d) :
             role' = [p \in Conn |-> IF p = d THEN "none"
                                    ELSE IF p = next THEN "host" ELSE role[p]]
      BY <2>3 DEF RemovePeer
    <3>2. c = next
      BY <1>1, <3>1
    <3> QED
      BY <1>1, <3>1, <3>2, ConnAssumption DEF Successors, CoHosts
  <2>4. ASSUME NEW t \in Conn, NEW r \in Roles \ {"host"}, ChangePeerRole(t, r) PROVE FALSE
    BY <1>1, <2>4 DEF ChangePeerRole, IInv, TypeOK
  <2> QED
    BY <1>1, <2>1, <2>2, <2>3, <2>4, RoleStep DEF EntersByJoin, EntersByAdmission
<1>2. IInv /\ [Next]_vars =>
        [Owned => \A c \in Conn : role[c] # "host" /\ role'[c] = "host" =>
            IsOwner(c) \/ role[c] = "co-host"]_vars
  BY <1>1
<1> QED
  BY <1>2, InvariantHolds, PTL DEF Spec, HostSuccession

\* One more co-host than fewer than the limit is within it.
LEMMA OneMoreCoHost ==
    ASSUME NEW S \in SUBSET Conn, NEW t, NEW T \in SUBSET Conn, T \subseteq S \cup {t},
           Cardinality(S) < MaxCoHosts
    PROVE  Cardinality(T) <= MaxCoHosts
<1>1. IsFiniteSet(S)
  BY ConnAssumption, FS_Subset
<1>2. IsFiniteSet(S \cup {t}) /\ Cardinality(S \cup {t}) <= Cardinality(S) + 1
  <2>1. /\ IsFiniteSet(S \cup {t})
        /\ Cardinality(S \cup {t}) = IF t \in S THEN Cardinality(S) ELSE Cardinality(S) + 1
    BY <1>1, FS_AddElement
  <2>2. Cardinality(S) \in Nat
    BY <1>1, FS_CardinalityType
  <2> QED
    BY <2>1, <2>2
<1>3. Cardinality(T) <= Cardinality(S \cup {t})
  BY <1>2, FS_Subset
<1>4. Cardinality(S) \in Nat /\ Cardinality(T) \in Nat /\ Cardinality(S \cup {t}) \in Nat
  BY <1>1, <1>2, FS_CardinalityType, FS_Subset
<1> QED
  BY <1>2, <1>3, <1>4, LimitAssumption

\* Fewer co-hosts stay within the limit.
LEMMA NoMoreCoHosts ==
    ASSUME NEW S \in SUBSET Conn, NEW T \in SUBSET S, Cardinality(S) <= MaxCoHosts
    PROVE  Cardinality(T) <= MaxCoHosts
<1>1. IsFiniteSet(S)
  BY ConnAssumption, FS_Subset
<1>2. Cardinality(T) <= Cardinality(S) /\ IsFiniteSet(T)
  BY <1>1, FS_Subset
<1> QED
  BY <1>1, <1>2, FS_CardinalityType, LimitAssumption

\* The co-hosts of a room never exceed the limit, however joins, hand-backs of
\* the host role and promotions interleave.
THEOREM CoHostLimitAlways == Spec => []CoHostLimit
<1>1. Init => CoHostLimit
  <2> SUFFICES ASSUME Init PROVE CoHostLimit
    OBVIOUS
  <2>1. CoHosts = {}
    BY DEF Init, CoHosts
  <2> QED
    BY <2>1, FS_EmptySet, LimitAssumption DEF CoHostLimit
<1>2. CoHostLimit /\ IInv /\ [Next]_vars => CoHostLimit'
  <2> SUFFICES ASSUME CoHostLimit, IInv, [Next]_vars PROVE CoHostLimit'
    OBVIOUS
  <2> USE DEF CoHostLimit
  <2>1. CoHosts \in SUBSET Conn /\ CoHosts' \in SUBSET Conn
    BY DEF CoHosts
  <2>2. CoHosts' \subseteq CoHosts => CoHostLimit'
    BY <2>1, NoMoreCoHosts
  <2>3. CASE UNCHANGED role \/ role' = [p \in Conn |-> "none"]
    <3>1. CoHosts' \subseteq CoHosts
      BY <2>3 DEF CoHosts
    <3> QED
      BY <2>2, <3>1
  <2>4. ASSUME NEW c \in Conn, NEW initial, AddPeer(c, initial) PROVE CoHostLimit'
    <3>1. CASE Cardinality(CoHosts) < MaxCoHosts
      <4>1. CASE JoinRole(c, initial) = "host"
        <5>1. PICK h \in Conn \cup {None} : \A p \in Conn : role[p] = "host" => p = h
          BY DEF IInv, Seat, OneHost, TypeOK
        <5>2. CoHosts' \subseteq CoHosts \cup {h}
          BY <2>4, <4>1, <5>1 DEF AddPeer, CoHosts
        <5> QED
          BY <2>1, <3>1, <5>2, OneMoreCoHost
      <4>2. CASE JoinRole(c, initial) # "host"
        <5>1. CoHosts' \subseteq CoHosts \cup {c}
          BY <2>4, <4>2 DEF AddPeer, CoHosts
        <5> QED
          BY <2>1, <3>1, <5>1, OneMoreCoHost
      <4> QED
        BY <4>1, <4>2
    <3>2. CASE ~(Cardinality(CoHosts) < MaxCoHosts)
      <4>1. JoinRole(c, initial) # "co-host"
        BY <3>2 DEF JoinRole
      <4>2. CoHosts' \subseteq CoHosts
        BY <2>4, <3>2, <4>1 DEF AddPeer, CoHosts
      <4> QED
        BY <2>2, <4>2
    <3> QED
      BY <3>1, <3>2
  <2>5. ASSUME NEW c \in Conn, RemovePeer(c) PROVE CoHostLimit'
    <3>1. CoHosts' \subseteq CoHosts
      BY <2>5 DEF RemovePeer, CoHosts
    <3> QED
      BY <2>2, <3>1
  <2>6. ASSUME NEW t \in Conn, NEW r \in Roles \ {"host"}, ChangePeerRole(t, r) PROVE CoHostLimit'
    <3>1. CASE Cardinality(CoHosts) < MaxCoHosts
      <4>1. CoHosts' \subseteq CoHosts \cup {t}
        BY <2>6 DEF ChangePeerRole, CoHosts
      <4> QED
        BY <2>1, <3>1, <4>1, OneMoreCoHost
    <3>2. CASE ~(Cardinality(CoHosts) < MaxCoHosts)
      <4>1. Cardinality(CoHosts) >= MaxCoHosts
        BY <2>1, <3>2, ConnAssumption, FS_Subset, FS_CardinalityType, LimitAssumption
      <4>2. CoHosts' \subseteq CoHosts
        BY <2>6, <4>1 DEF ChangePeerRole, CoHosts
      <4> QED
        BY <2>2, <4>2
    <3> QED
      BY <3>1, <3>2
  <2>7. CASE Next
    BY <2>3, <2>4, <2>5, <2>6, <2>7, RoleStep DEF EntersByJoin, EntersByAdmission
  <2>8. CASE UNCHANGED vars
    BY <2>3, <2>8 DEF vars, roomVars
  <2> QED
    BY <2>7, <2>8
<1> QED
  BY <1>1, <1>2, InvariantHolds, PTL DEF Spec

=============================================================================
