---------------------------- MODULE MeetingRoom ----------------------------
(***************************************************************************)
(* The room of one meeting code in the signaling service: who is inside,   *)
(* who waits outside, who is host, and how long the room lives.            *)
(*                                                                         *)
(* Source: services/signaling/src/room-manager.ts, rpc/handler.ts and      *)
(* ws-attach.ts.  The service is one Node process: a handler runs          *)
(* undisturbed up to its next `await`, so each action below is the code    *)
(* between two awaits.  The requests of one socket are handled one after   *)
(* the other (messageChain), those of different sockets interleave at the  *)
(* awaits, and the close event of a socket interleaves even with the       *)
(* request of that same socket.                                            *)
(*                                                                         *)
(* A peer id is drawn anew for every join, so a connection that joined     *)
(* once stands for its peer id; a client that comes back is another        *)
(* connection of the same user.                                            *)
(***************************************************************************)
EXTENDS Naturals, FiniteSets

CONSTANTS
    Conn,           \* signaling connections
    None,           \* "no peer" (null)
    Owned,          \* the meeting has an owner in the database (policy.hostId)
    OwnerConn,      \* connections signed in as that owner
    AdminConn,      \* connections signed in as a platform admin
    SignedInConn,   \* connections with a user id
    GuestConn,      \* connections whose access is that of a guest
    CoHostConn,     \* connections whose verified role is co-host
    MaxCoHosts,     \* MAX_CO_HOSTS, 5 in the code
    Capacities,     \* values settings.maxParticipants takes
    Locks,          \* values settings.locked takes
    GivenRoles,     \* roles changeRole is asked for
    OpeningCapacity,\* the one a room opens with
    MaxRooms        \* bound: rooms created for the code during a behaviour

Roles == {"host", "co-host", "member", "guest"}

ASSUME ConnAssumption ==
    /\ IsFiniteSet(Conn)
    /\ None \notin Conn
ASSUME UserAssumption ==
    /\ Owned \in BOOLEAN
    /\ OwnerConn \subseteq SignedInConn /\ AdminConn \subseteq SignedInConn
    /\ SignedInConn \subseteq Conn /\ GuestConn \subseteq Conn /\ CoHostConn \subseteq Conn
    /\ ~Owned => OwnerConn = {}
ASSUME LimitAssumption ==
    /\ MaxCoHosts \in Nat /\ MaxRooms \in Nat
    /\ Capacities \subseteq Nat \ {0} /\ OpeningCapacity \in Capacities
    /\ Locks \subseteq BOOLEAN
    /\ GivenRoles \subseteq Roles \ {"host"}

VARIABLES
    \* the RoomState the meeting code leads to
    room,             \* its id, 0 when codeToRoomId has no entry
    created,          \* how many rooms were created so far (ids are never reused)
    role,             \* room.peers: role of each peer, "none" for a connection not in it
    waiting,          \* room.waitingRoom: state of each waiting entry, "none" when absent
    hostPeerId, hostStarted,
    locked, maxParticipants,          \* room.settings
    \* timers
    emptyTimers,      \* pending 60 s timers that delete the room if it is empty
    releaseTimers,    \* connections whose 250 ms releaseAwaitingHost timer is pending
    \* sockets and their connectionState
    sock,             \* readyState: "open", "closing" (close event due), "closed"
    bound,            \* connectionState.peerId and .roomId are set
    roomOf,           \* the room id a connection's handlers work on, 0 before it has one
    \* request handlers in flight, at most one per connection
    pc, target, newRole, todo,
    admitting,        \* admittingPeers
    closeHandler      \* the close event's handlePeerDisconnect: "none", "removing", "done"

roomVars    == <<room, created, role, waiting, hostPeerId, hostStarted>>
settingVars == <<locked, maxParticipants>>
timerVars   == <<emptyTimers, releaseTimers>>
sockVars    == <<sock, bound, roomOf, closeHandler>>
handlerVars == <<pc, target, newRole, todo, admitting>>
vars == <<roomVars, settingVars, timerVars, sockVars, handlerVars>>

WaitStates  == {"awaitingHost", "knocking"}
JoinSteps   == {"policy", "access", "sfu"}
PcStates    == JoinSteps \cup {"idle", "refused", "left", "leaving", "admitting",
                               "kicking", "changingRole", "ending"}

Peers     == {c \in Conn : role[c] # "none"}
Queue     == {c \in Conn : waiting[c] # "none"}
Managers  == {c \in Conn : role[c] \in {"host", "co-host"}}
CoHosts   == {c \in Conn : role[c] = "co-host"}
IsOwner(c) == c \in OwnerConn \/ c \in AdminConn

TypeOK ==
    /\ room \in 0..MaxRooms /\ created \in 0..MaxRooms
    /\ role \in [Conn -> Roles \cup {"none"}]
    /\ waiting \in [Conn -> WaitStates \cup {"none"}]
    /\ hostPeerId \in Conn \cup {None} /\ hostStarted \in BOOLEAN
    /\ locked \in BOOLEAN /\ maxParticipants \in Capacities
    /\ emptyTimers \in Nat /\ releaseTimers \in SUBSET Conn
    /\ sock \in [Conn -> {"open", "closing", "closed"}]
    /\ bound \in [Conn -> BOOLEAN] /\ roomOf \in [Conn -> 0..MaxRooms]
    /\ closeHandler \in [Conn -> {"none", "removing", "done"}]
    /\ pc \in [Conn -> PcStates]
    /\ target \in [Conn -> Conn \cup {None}]
    /\ newRole \in [Conn -> Roles \cup {"none"}]
    /\ todo \in [Conn -> SUBSET Conn]
    /\ admitting \in SUBSET Conn

(***************************************************************************)
(* A room as getOrCreateRoom makes it.                                     *)
(***************************************************************************)
Init ==
    /\ room = 0 /\ created = 0
    /\ role = [c \in Conn |-> "none"] /\ waiting = [c \in Conn |-> "none"]
    /\ hostPeerId = None /\ hostStarted = FALSE
    /\ locked = FALSE /\ maxParticipants = OpeningCapacity
    /\ emptyTimers = 0 /\ releaseTimers = {}
    /\ sock = [c \in Conn |-> "open"] /\ bound = [c \in Conn |-> FALSE]
    /\ roomOf = [c \in Conn |-> 0] /\ closeHandler = [c \in Conn |-> "none"]
    /\ pc = [c \in Conn |-> "idle"] /\ target = [c \in Conn |-> None]
    /\ newRole = [c \in Conn |-> "none"] /\ todo = [c \in Conn |-> {}]
    /\ admitting = {}

-----------------------------------------------------------------------------
(* What RoomManager's mutators do to the room. *)

Goto(c, label) == pc' = [pc EXCEPT ![c] = label]

\* addPeer's refusals, re-checked at the moment of registration.
MayRegister_NoLock(c) == c \in AdminConn \/ Cardinality(Peers) < maxParticipants   \* mutant
MayRegister(c) ==
    /\ c \in AdminConn \/ Cardinality(Peers) < maxParticipants
    /\ locked => IsOwner(c)

\* addPeer: the first one into an ad-hoc room, the owner unless another of
\* their connections is host, a platform admin when nobody is.
OwnerReturns(c) == c \in OwnerConn /\ ~ \E p \in OwnerConn : role[p] = "host"
BecomesHost_AnyAdmin(c) == c \in AdminConn \/ OwnerReturns(c)                      \* mutant
BecomesHost(c) == \/ OwnerReturns(c)
                  \/ hostPeerId = None /\ (~Owned \/ c \in AdminConn)

\* addPeer's role assignment for a peer that was given an initial role.
JoinRole(c, initial) ==
    LET seatFree == Cardinality(CoHosts) < MaxCoHosts
    IN  IF BecomesHost(c) THEN "host"
        ELSE IF c \in AdminConn /\ seatFree THEN "co-host"
        ELSE IF initial = "guest" THEN "guest"
        ELSE IF initial = "co-host" /\ seatFree THEN "co-host" ELSE "member"

\* addPeer: the owner coming back as host sends a covering host back to co-host.
\* An admission also takes the peer out of the waiting room.
AddPeer(c, initial) ==
    LET r         == JoinRole(c, initial)
        takesOver == r = "host" /\ c \in OwnerConn
        demoted   == IF Cardinality(CoHosts) < MaxCoHosts THEN "co-host" ELSE "member"
    IN  /\ role' = [p \in Conn |->
                       IF p = c THEN r
                       ELSE IF takesOver /\ role[p] = "host" THEN demoted ELSE role[p]]
        /\ hostPeerId' = IF r = "host" THEN c ELSE hostPeerId
        /\ hostStarted' = (hostStarted \/ r = "host")
        /\ waiting' = [waiting EXCEPT ![c] = "none"]

\* Who may take over when the host c leaves the others behind.
Successors_Anyone(c) ==                                                            \* mutant
    IF hostPeerId # c \/ Peers \ {c} = {} THEN {None} ELSE Peers \ {c}
Successors(c) ==
    LET rest  == Peers \ {c}
        hosts == {p \in rest : role[p] = "host"}
    IN  IF hostPeerId # c \/ rest = {} THEN {None}
        ELSE IF hosts # {} THEN hosts
        ELSE IF CoHosts \ {c} # {} THEN CoHosts \ {c}
        ELSE IF Owned THEN {None}
        ELSE IF rest \cap SignedInConn # {} THEN rest \cap SignedInConn ELSE rest

\* removePeer's consequences when c goes: who is host, whether an owned meeting
\* closes its doors until the host is back, whether the room's timer is armed.
HostAfter(c, next) == IF Peers \ {c} = {} THEN None
                      ELSE IF hostPeerId = c THEN next ELSE hostPeerId
DoorsClose_Never(c) == FALSE                                                       \* mutant
DoorsClose(c) == Peers \ {c} = {} /\ Owned
LastOut_TooEarly(c) == Peers \ {c} = {} /\ Queue = {}                              \* mutant
LastOut(c) == Peers \ {c} = {} /\ Queue \ {c} = {}

RemovePeer(c) ==
    /\ \E next \in Successors(c) :
         /\ role' = [p \in Conn |-> IF p = c THEN "none"
                                    ELSE IF p = next THEN "host" ELSE role[p]]
         /\ hostPeerId' = HostAfter(c, next)
    /\ waiting' = [p \in Conn |-> IF p = c THEN "none"
                                  ELSE IF DoorsClose(c) /\ waiting[p] # "none" THEN "awaitingHost"
                                  ELSE waiting[p]]
    /\ hostStarted' = (hostStarted /\ ~DoorsClose(c))
    /\ emptyTimers' = IF LastOut(c) THEN emptyTimers + 1 ELSE emptyTimers

RoomUnchanged == UNCHANGED <<role, waiting, hostPeerId, hostStarted>>

\* handlePeerDisconnect after its awaits; a room that is gone is left alone.
Disconnect(c) ==
    /\ IF roomOf[c] = room THEN RemovePeer(c)
       ELSE RoomUnchanged /\ UNCHANGED emptyTimers
    /\ bound' = [bound EXCEPT ![c] = FALSE]
    /\ UNCHANGED <<room, created, settingVars, releaseTimers, roomOf>>

-----------------------------------------------------------------------------
(* joinRoom *)

JoinRoom(c) ==
    /\ pc[c] = "idle" /\ sock[c] = "open" /\ ~bound[c] /\ roomOf[c] = 0
    /\ Goto(c, "policy")
    /\ UNCHANGED <<roomVars, settingVars, timerVars, sockVars, target, newRole, todo, admitting>>

\* loadMeetingPolicy, verifySignalingAccess or the password refuses; the room,
\* if the join already made one, stays.
JoinRefused(c) ==
    /\ pc[c] \in {"policy", "access"}
    /\ Goto(c, "refused")
    /\ UNCHANGED <<roomVars, settingVars, timerVars, sockVars, target, newRole, todo, admitting>>

\* loadMeetingPolicy answered: getOrCreateRoom.
PolicyLoaded(c) ==
    /\ pc[c] = "policy"
    /\ IF room # 0
       THEN UNCHANGED <<roomVars, settingVars, timerVars>>
       ELSE /\ created < MaxRooms
            /\ room' = created + 1 /\ created' = created + 1
            /\ hostStarted' = FALSE /\ hostPeerId' = None
            /\ locked' = FALSE /\ maxParticipants' = OpeningCapacity
            /\ UNCHANGED <<role, waiting, timerVars>>
    /\ roomOf' = [roomOf EXCEPT ![c] = room']
    /\ Goto(c, "access")
    /\ UNCHANGED <<sock, bound, closeHandler, target, newRole, todo, admitting>>

\* What decides a join once verifySignalingAccess answered.  The checks run
\* without a break on the room object taken before the await.
MustWaitForHost(c) == Owned /\ ~hostStarted /\ ~IsOwner(c)
TurnedAway(c) == \/ ~IsOwner(c) /\ locked /\ Peers # {}
                 \/ c \notin AdminConn /\ Cardinality(Peers) >= maxParticipants
MustKnock(c)  == ~IsOwner(c) /\ Peers # {}

EnterQueue_Unbound(c, status) ==                                                   \* mutant
    /\ waiting' = [waiting EXCEPT ![c] = status]
    /\ Goto(c, "idle")
    /\ UNCHANGED <<room, created, role, hostPeerId, hostStarted, sockVars>>
EnterQueue(c, status) ==
    /\ waiting' = [waiting EXCEPT ![c] = status]
    /\ bound' = [bound EXCEPT ![c] = TRUE]
    /\ Goto(c, "idle")
    /\ UNCHANGED <<room, created, role, hostPeerId, hostStarted, sock, roomOf, closeHandler>>

AccessVerified(c) ==
    /\ pc[c] = "access"
    /\ \/ /\ roomOf[c] # room \/ (~MustWaitForHost(c) /\ TurnedAway(c))
          /\ Goto(c, "refused")
          /\ UNCHANGED <<roomVars, sockVars>>
       \/ /\ roomOf[c] = room /\ MustWaitForHost(c)
          /\ EnterQueue(c, "awaitingHost")
       \/ /\ roomOf[c] = room /\ ~MustWaitForHost(c) /\ ~TurnedAway(c) /\ MustKnock(c)
          /\ EnterQueue(c, "knocking")
       \/ /\ roomOf[c] = room /\ ~MustWaitForHost(c) /\ ~TurnedAway(c) /\ ~MustKnock(c)
          /\ Goto(c, "sfu")
          /\ UNCHANGED <<roomVars, sockVars>>
    /\ UNCHANGED <<settingVars, timerVars, target, newRole, todo, admitting>>

\* joinPeerToRoom's last look at the socket.
SocketAlive_Unchecked(c) == TRUE                                                   \* mutant
SocketAlive(c) == sock[c] = "open"

GrantedRole(c) == IF c \in GuestConn THEN "guest"
                  ELSE IF c \in CoHostConn THEN "co-host" ELSE "none"

\* joinPeerToRoom after its SFU calls, for a connection that joins directly.
DirectJoin(c) ==
    /\ pc[c] = "sfu"
    /\ IF SocketAlive(c) /\ roomOf[c] = room /\ MayRegister(c)
       THEN /\ AddPeer(c, GrantedRole(c))
            /\ bound' = [bound EXCEPT ![c] = TRUE]
            /\ releaseTimers' = IF role'[c] = "host" THEN releaseTimers \cup {c} ELSE releaseTimers
            /\ Goto(c, "idle")
       ELSE /\ Goto(c, "refused")
            /\ RoomUnchanged
            /\ UNCHANGED <<bound, releaseTimers>>
    /\ UNCHANGED <<room, created, settingVars, emptyTimers, sock, roomOf, closeHandler,
                   target, newRole, todo, admitting>>

\* releaseAwaitingHost, 250 ms after the join of a host.
ReleaseAwaitingHost_SkipsWaiters(c) ==                                             \* mutant
    /\ c \in releaseTimers
    /\ releaseTimers' = releaseTimers \ {c}
    /\ UNCHANGED <<roomVars, settingVars, emptyTimers, sockVars, handlerVars>>
ReleaseAwaitingHost(c) ==
    /\ c \in releaseTimers
    /\ releaseTimers' = releaseTimers \ {c}
    /\ waiting' = [p \in Conn |-> IF waiting[p] = "awaitingHost" THEN "knocking" ELSE waiting[p]]
    /\ UNCHANGED <<room, created, role, hostPeerId, hostStarted, settingVars, emptyTimers,
                   sockVars, handlerVars>>

-----------------------------------------------------------------------------
(* Requests of members.  A manager's role is checked when its request arrives. *)

Ready(m)   == pc[m] = "idle" /\ sock[m] = "open" /\ bound[m] /\ role[m] # "none"
Manages(m) == Ready(m) /\ m \in Managers
CanManage(m, t) ==
    /\ m # t /\ role[t] \notin {"none", "host"}
    /\ role[m] = "host" \/ (role[m] = "co-host" /\ role[t] # "co-host")

\* The admissions a handler still has to make: it starts the next one that can
\* start, or ends.
AdmitFrom(m, targets, busy) ==
    LET startable == {t \in targets : waiting'[t] # "none" /\ t \notin busy}
    IN  IF startable = {}
        THEN /\ Goto(m, "idle")
             /\ target' = [target EXCEPT ![m] = None]
             /\ todo' = [todo EXCEPT ![m] = {}]
             /\ admitting' = busy
        ELSE \E t \in startable :
             /\ Goto(m, "admitting")
             /\ target' = [target EXCEPT ![m] = t]
             /\ todo' = [todo EXCEPT ![m] = targets \ {t}]
             /\ admitting' = busy \cup {t}

\* admitPeer and admitAll up to the first SFU call of joinPeerToRoom.
Admit(m, targets) ==
    /\ Manages(m)
    /\ UNCHANGED <<roomVars, settingVars, timerVars, sockVars, newRole>>
    /\ \E t \in targets : waiting[t] # "none" /\ t \notin admitting
    /\ AdmitFrom(m, targets, admitting)
AdmitPeer(m) == \E t \in Queue : Admit(m, {t})
AdmitAll(m)  == Admit(m, {t \in Queue : waiting[t] = "knocking"})

\* admitWaitingPeer's beforeRegister and joinPeerToRoom's check of the socket.
StillWaiting_NoEntryCheck(t) == SocketAlive(t)                                     \* mutant
StillWaiting(t) == SocketAlive(t) /\ waiting[t] # "none"

\* The SFU answered for the peer being admitted.
AdmitAnswered(m) ==
    /\ pc[m] = "admitting"
    /\ LET t == target[m]
       IN  /\ IF StillWaiting(t) /\ MayRegister(t)
              THEN AddPeer(t, IF t \in GuestConn THEN "guest" ELSE "none")
              ELSE RoomUnchanged
           /\ AdmitFrom(m, todo[m], admitting \ {t})
    /\ UNCHANGED <<room, created, settingVars, timerVars, sockVars, newRole>>

RejectPeer(m, t) ==
    /\ Manages(m) /\ waiting[t] # "none"
    /\ waiting' = [waiting EXCEPT ![t] = "none"]
    /\ UNCHANGED <<room, created, role, hostPeerId, hostStarted, settingVars, timerVars,
                   sockVars, handlerVars>>

Suspend(m, label, t) ==
    /\ Goto(m, label)
    /\ target' = [target EXCEPT ![m] = t]
    /\ UNCHANGED <<todo, admitting>>

Resume(m) ==
    /\ Goto(m, "idle")
    /\ target' = [target EXCEPT ![m] = None]
    /\ newRole' = [newRole EXCEPT ![m] = "none"]
    /\ UNCHANGED <<todo, admitting>>

KickPeer(m, t) ==
    /\ Manages(m) /\ CanManage(m, t)
    /\ Suspend(m, "kicking", t)
    /\ UNCHANGED <<roomVars, settingVars, timerVars, sockVars, newRole>>

\* kickPeer after its awaits: the target leaves and, if it was still in the
\* room, its socket is closed.
KickAnswered(m) ==
    /\ pc[m] = "kicking"
    /\ LET t == target[m]
       IN  /\ IF roomOf[m] = room THEN RemovePeer(t) ELSE RoomUnchanged /\ UNCHANGED emptyTimers
           /\ sock' = IF roomOf[m] = room /\ role[t] # "none" /\ sock[t] = "open"
                      THEN [sock EXCEPT ![t] = "closing"] ELSE sock
    /\ Resume(m)
    /\ UNCHANGED <<room, created, settingVars, releaseTimers, bound, roomOf, closeHandler>>

\* lockMeeting and the maxParticipants of updateSettings.
UpdateSettings(m) ==
    /\ Manages(m)
    /\ \/ locked' \in Locks /\ UNCHANGED maxParticipants
       \/ maxParticipants' \in Capacities /\ UNCHANGED locked
    /\ UNCHANGED <<roomVars, timerVars, sockVars, handlerVars>>

\* changePeerRole: no effect on an absent peer or past the co-host limit.
ChangePeerRole(t, r) ==
    role' = IF \/ role[t] = "none"
               \/ r = "co-host" /\ role[t] # "co-host" /\ Cardinality(CoHosts) >= MaxCoHosts
            THEN role ELSE [role EXCEPT ![t] = r]

\* changeRole.  A demotion first finishes, with awaits, the private
\* conversations its target has started; only who is signed in can have, as the
\* manager it was then.
ChangeRole(m, t, r) ==
    /\ Ready(m) /\ hostPeerId = m /\ t # m /\ role[t] # "none"
    /\ ChangePeerRole(t, r)
    /\ UNCHANGED <<room, created, waiting, hostPeerId, hostStarted, settingVars, timerVars,
                   sockVars, handlerVars>>
ChangeRoleAwaits(m, t, r) ==
    /\ Ready(m) /\ hostPeerId = m /\ t # m /\ r # "co-host"
    /\ role[t] # "none" /\ t \in SignedInConn
    /\ Suspend(m, "changingRole", t)
    /\ newRole' = [newRole EXCEPT ![m] = r]
    /\ UNCHANGED <<roomVars, settingVars, timerVars, sockVars>>
ChangeRoleAnswered(m) ==
    /\ pc[m] = "changingRole"
    /\ IF roomOf[m] = room THEN ChangePeerRole(target[m], newRole[m]) ELSE UNCHANGED role
    /\ Resume(m)
    /\ UNCHANGED <<room, created, waiting, hostPeerId, hostStarted, settingVars, timerVars, sockVars>>

-----------------------------------------------------------------------------
(* endMeeting: every peer, those that come in meanwhile too, is taken from  *)
(* the SFU (an await each) and its socket closed; then the room is cleared. *)

EndMeeting(m) ==
    /\ Ready(m) /\ role[m] = "host"
    /\ Suspend(m, "ending", None)
    /\ UNCHANGED <<roomVars, settingVars, timerVars, sockVars, newRole>>

\* Hang up the peer whose SFU removal answered, go on with the next or finish.
EndNext(m) ==
    /\ pc[m] = "ending"
    /\ LET seen == todo[m] \cup ({target[m]} \ {None})
           left == Peers \ seen
           hang(S) == [p \in Conn |-> IF p \in S /\ sock[p] = "open" THEN "closing" ELSE sock[p]]
       IN  \/ /\ left # {} /\ roomOf[m] = room
              /\ \E t \in left : target' = [target EXCEPT ![m] = t]
              /\ todo' = [todo EXCEPT ![m] = seen]
              /\ sock' = hang({target[m]})
              /\ UNCHANGED <<pc, newRole, admitting, role, waiting, hostPeerId, hostStarted>>
           \/ /\ left = {} /\ roomOf[m] = room
              /\ sock' = hang({target[m]} \cup Queue)
              /\ role' = [p \in Conn |-> "none"] /\ waiting' = [p \in Conn |-> "none"]
              /\ hostPeerId' = None /\ hostStarted' = FALSE
              /\ Goto(m, "idle")
              /\ target' = [target EXCEPT ![m] = None] /\ todo' = [todo EXCEPT ![m] = {}]
              /\ UNCHANGED <<newRole, admitting>>
           \/ /\ roomOf[m] # room
              /\ sock' = hang({target[m]}) /\ RoomUnchanged
              /\ Goto(m, "idle")
              /\ target' = [target EXCEPT ![m] = None] /\ todo' = [todo EXCEPT ![m] = {}]
              /\ UNCHANGED <<newRole, admitting>>
    /\ UNCHANGED <<room, created, settingVars, timerVars, bound, roomOf, closeHandler>>

-----------------------------------------------------------------------------
(* Leaving, by request or by losing the socket. *)

LeaveRoom(c) ==
    /\ pc[c] = "idle" /\ sock[c] = "open" /\ bound[c]
    /\ Goto(c, "leaving")
    /\ UNCHANGED <<roomVars, settingVars, timerVars, sockVars, target, newRole, todo, admitting>>
LeaveAnswered(c) ==
    /\ pc[c] = "leaving"
    /\ Disconnect(c)
    /\ Goto(c, "left")
    /\ UNCHANGED <<sock, closeHandler, target, newRole, todo, admitting>>

\* The client goes away, or the heartbeat or a limit of ws-attach ends the
\* socket.  A connection that never asks to join is of no interest.
SocketCloses(c) ==
    /\ sock[c] = "open" /\ (pc[c] # "idle" \/ roomOf[c] # 0)
    /\ sock' = [sock EXCEPT ![c] = "closing"]
    /\ UNCHANGED <<roomVars, settingVars, timerVars, bound, roomOf, closeHandler, handlerVars>>

\* The close event: handlePeerDisconnect, nothing to do when the socket is unbound.
CloseEvent(c) ==
    /\ sock[c] = "closing"
    /\ sock' = [sock EXCEPT ![c] = "closed"]
    /\ closeHandler' = [closeHandler EXCEPT ![c] = IF bound[c] THEN "removing" ELSE "done"]
    /\ UNCHANGED <<roomVars, settingVars, timerVars, bound, roomOf, handlerVars>>
CloseAnswered(c) ==
    /\ closeHandler[c] = "removing"
    /\ Disconnect(c)
    /\ closeHandler' = [closeHandler EXCEPT ![c] = "done"]
    /\ UNCHANGED <<sock, handlerVars>>

\* The 60 s timer of removePeer.
EmptyTimer ==
    /\ emptyTimers > 0
    /\ IF Peers = {} /\ Queue = {}
       THEN room' = 0 /\ emptyTimers' = 0 /\ releaseTimers' = {}
       ELSE emptyTimers' = emptyTimers - 1 /\ UNCHANGED <<room, releaseTimers>>
    /\ UNCHANGED <<created, role, waiting, hostPeerId, hostStarted, settingVars, sockVars,
                   handlerVars>>

-----------------------------------------------------------------------------
Answers(c) ==
    \/ JoinRefused(c) \/ PolicyLoaded(c) \/ AccessVerified(c) \/ DirectJoin(c)
    \/ AdmitAnswered(c) \/ KickAnswered(c) \/ ChangeRoleAnswered(c) \/ EndNext(c)
    \/ LeaveAnswered(c) \/ CloseEvent(c) \/ CloseAnswered(c)

Requests(c) ==
    \/ JoinRoom(c) \/ AdmitPeer(c) \/ AdmitAll(c) \/ UpdateSettings(c) \/ EndMeeting(c)
    \/ LeaveRoom(c) \/ SocketCloses(c)
    \/ \E t \in Conn : RejectPeer(c, t) \/ KickPeer(c, t)
    \/ \E t \in Conn, r \in GivenRoles : ChangeRole(c, t, r) \/ ChangeRoleAwaits(c, t, r)

Timers == EmptyTimer \/ \E c \in Conn : ReleaseAwaitingHost(c)

Next == Timers \/ \E c \in Conn : Answers(c) \/ Requests(c)

Spec == Init /\ [][Next]_vars

\* SFU and database calls answer or time out, timers fire, a closing socket
\* delivers its close event; what users do is up to them.
Fairness ==
    /\ WF_vars(EmptyTimer)
    /\ \A c \in Conn : WF_vars(ReleaseAwaitingHost(c)) /\ WF_vars(Answers(c))
                       /\ WF_vars(CloseEvent(c)) /\ WF_vars(CloseAnswered(c))

FairSpec == Spec /\ Fairness

-----------------------------------------------------------------------------
(* Invariants *)

\* There is never a second host: whoever has the host role is the one
\* room.hostPeerId names, whatever mix of owners returning, platform admins
\* arriving, hosts leaving and role changes in flight led here.
OneHost == \A p \in Conn : role[p] = "host" => hostPeerId = p

\* room.hostPeerId, which changeRole trusts, never names somebody who left.
HostIsInside == hostPeerId # None => hostPeerId \in Peers

\* An ad-hoc room (no owner) with people in it always has a hostPeerId: the
\* next one to join does not become host by finding the seat vacant.
AdHocSeatTaken == ~Owned /\ Peers # {} => hostPeerId # None

\* MAX_CO_HOSTS holds through joins, demotions of a covering host and
\* promotions requested at the same time.
CoHostLimit == Cardinality(CoHosts) <= MaxCoHosts

\* Nobody is inside and in the waiting room at once, so no one can be rejected
\* or sent back to wait after having been let in.
InsideOrWaiting == Peers \cap Queue = {}

\* A peer whose socket has closed is on its way out: no peer stays behind a
\* close event that came before it was registered.
NoGhostPeers == \A c \in Peers : sock[c] = "closed" => closeHandler[c] = "removing"

-----------------------------------------------------------------------------
(* Action properties *)

Enters(c) == role[c] = "none" /\ role'[c] # "none"

\* Host approval: whoever comes in without being owner or admin was let in by
\* an admission in flight, or opened an empty ad-hoc room.
EntryIsApproved ==
    [][\A c \in Conn : Enters(c) /\ ~IsOwner(c) =>
          \/ \E m \in Conn : pc[m] = "admitting" /\ target[m] = c
          \/ ~Owned /\ Peers = {}]_vars

\* A lock or a smaller capacity set while a join or an admission waits for the
\* SFU still holds it off.
EntryRespectsSettings ==
    [][\A c \in Conn : Enters(c) => /\ locked => IsOwner(c)
                                    /\ c \in AdminConn \/ Cardinality(Peers) < maxParticipants]_vars

\* In an owned meeting nobody is promoted to host but the owner, a platform
\* admin or a co-host.
HostSuccession ==
    [][Owned => \A c \in Conn : role[c] # "host" /\ role'[c] = "host" =>
          IsOwner(c) \/ role[c] = "co-host"]_vars

\* Who was rejected, left or lost the connection is not let in by an admission
\* still in flight.
NoEntryAfterGoodbye ==
    [][\A c \in Conn : Enters(c) => /\ sock[c] = "open" /\ closeHandler[c] = "none" /\ pc[c] # "left"
                                    /\ bound[c] => waiting[c] # "none"]_vars

-----------------------------------------------------------------------------
(* Liveness *)

\* A peer whose connection ends disappears from the meeting.
GonePeersRemoved == \A c \in Conn : (role[c] # "none" /\ sock[c] # "open") ~> role[c] = "none"

\* Those who came before the host get into the approval queue once the host is
\* there.
WaitersReleased ==
    \A c \in Conn : (waiting[c] = "awaitingHost" /\ hostStarted)
                        ~> (waiting[c] # "awaitingHost" \/ ~hostStarted)

\* A room that somebody left, and that is empty, is removed or used again.
LeftRoomRemoved ==
    \A g \in 1..MaxRooms :
        (/\ room = g /\ Peers = {} /\ Queue = {}
         /\ \E c \in Conn : roomOf[c] = g /\ pc[c] = "left")
            ~> (room # g \/ Peers # {} \/ Queue # {})

=============================================================================
