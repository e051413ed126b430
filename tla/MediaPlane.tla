----------------------------- MODULE MediaPlane -----------------------------
(***************************************************************************)
(* The media room of one meeting in the SFU, and the calls the signaling   *)
(* service makes to it over HTTP.                                          *)
(*                                                                         *)
(* Source: services/sfu/src/index.ts, room-creation.ts, mediasoup/room.ts  *)
(* and peer.ts, services/signaling/src/sfu-client.ts and joinPeerToRoom of *)
(* rpc/handler.ts.  A request of the signaling service times out while the *)
(* SFU goes on with it, so what it does comes late: after the peer was     *)
(* given up, left, or was removed.  The SFU is one Node process; a handler *)
(* runs undisturbed up to the answer of a mediasoup worker.                *)
(*                                                                         *)
(* mediasoup itself is external: closing a transport closes the producers  *)
(* and consumers on it, closing a router closes its transports, closing a  *)
(* producer closes its consumers.  A peer publishes one producer here and  *)
(* its transports are told apart by direction.                             *)
(***************************************************************************)
EXTENDS Naturals, FiniteSets

CONSTANTS
    Peer,       \* peers the signaling service brings into the meeting
    MaxRooms,   \* bound: media rooms made for the meeting
    MaxCrashes  \* bound: restarts of the SFU process

ASSUME PeerAssumption == IsFiniteSet(Peer)
ASSUME BoundAssumption == MaxRooms \in Nat /\ MaxCrashes \in Nat

VARIABLES
    \* SFU: the registry
    registered,  \* rooms.get(roomId), 0 for none
    creating,    \* routers being created for the room (coalesceRoomCreation)
    made,        \* rooms made so far
    open,        \* rooms not closed
    \* SFU: the rooms
    members,     \* for each room its peers
    timers,      \* for each room the pending 60 s timers
    transports,  \* open transports
    producers,   \* open producers
    consumers,   \* open consumers
    calls,       \* requests of the signaling service the SFU has not finished
    \* signaling
    phase,       \* where joinPeerToRoom or handlePeerDisconnect of a peer is
    published,   \* peers that asked to publish
    \* failures
    dying,       \* a worker died, the process exits in 2 s
    crashes,     \* restarts so far
    cut          \* peers that were in the meeting during one

registry == <<registered, creating, made, open>>
media    == <<members, transports, producers, consumers>>
signal   == <<phase, published>>
failures == <<dying, crashes, cut>>
vars == <<registry, media, timers, calls, signal, failures>>

Room == 1..MaxRooms
Direction == {"send", "recv"}
Joining == {"caps"} \cup Direction                       \* the calls of joinPeerToRoom, in order
Phase == Joining \cup {"out", "in", "mediaLess", "removing", "gone"}
Calls ==
    [peer : Peer, op : Joining \cup {"produce", "remove"}, at : {"sent", "router", "worker"},
     room : Room \cup {0}, orphan : BOOLEAN]
    \cup [peer : Peer, from : Peer, op : {"consume"}, at : {"worker"}, room : Room, orphan : BOOLEAN]
Transports == [peer : Peer, dir : Direction, room : Room, orphan : BOOLEAN]

TypeOK ==
    /\ registered \in 0..MaxRooms /\ creating \in 0..1 /\ made \in 0..MaxRooms /\ open \subseteq 1..made
    /\ members \in [Room -> SUBSET Peer] /\ timers \in [Room -> Nat]
    /\ transports \subseteq Transports
    /\ producers \subseteq [peer : Peer, room : Room]
    /\ consumers \subseteq [peer : Peer, from : Peer, room : Room]
    /\ calls \subseteq Calls
    /\ phase \in [Peer -> Phase] /\ published \subseteq Peer
    /\ dying \in BOOLEAN /\ crashes \in 0..MaxCrashes /\ cut \subseteq Peer

Init ==
    /\ registered = 0 /\ creating = 0 /\ made = 0 /\ open = {}
    /\ members = [r \in Room |-> {}] /\ timers = [r \in Room |-> 0]
    /\ transports = {} /\ producers = {} /\ consumers = {} /\ calls = {}
    /\ phase = [p \in Peer |-> "out"] /\ published = {}
    /\ dying = FALSE /\ crashes = 0 /\ cut = {}

-----------------------------------------------------------------------------
(* The signaling service: one call at a time for a joining or leaving peer. *)

Call(p, op, at, r) == [peer |-> p, op |-> op, at |-> at, room |-> r, orphan |-> FALSE]
After(op) == CASE op = "caps" -> "send" [] op = "send" -> "recv" [] op = "recv" -> "in"

\* A call in progress comes to nothing for its caller: joinPeerToRoom goes on
\* without media, handlePeerDisconnect as if the peer had been removed.
GivenUp(p) == [phase EXCEPT ![p] = CASE @ \in Joining -> "mediaLess" [] @ = "removing" -> "gone" [] OTHER -> @]

\* The caller of call c, unless it gave up, hears that it succeeded (or failed).
Waited(c) == phase[c.peer] = IF c.op = "remove" THEN "removing" ELSE c.op
Succeeds(c) ==
    IF Waited(c)
    THEN phase' = [phase EXCEPT ![c.peer] = IF c.op = "remove" THEN "gone" ELSE After(c.op)]
    ELSE UNCHANGED phase
Fails(c) == IF Waited(c) THEN phase' = GivenUp(c.peer) ELSE UNCHANGED phase

StartJoin(p) ==
    /\ phase[p] = "out" /\ phase' = [phase EXCEPT ![p] = "caps"]
    /\ calls' = calls \cup {Call(p, "caps", "sent", 0)}
    /\ UNCHANGED <<registry, media, timers, published, failures>>

\* The next transport is asked for once the one before is there.
AskTransport(p) ==
    /\ phase[p] \in Direction /\ ~ \E c \in calls : c.peer = p /\ c.op = phase[p]
    /\ ~ \E t \in transports : t.peer = p /\ t.dir = phase[p]
    /\ calls' = calls \cup {Call(p, phase[p], "sent", 0)}
    /\ UNCHANGED <<registry, media, timers, signal, failures>>

\* AbortController: 2.5 s for the calls of a join, 8 s for the others.
TimeOut(p) ==
    /\ \E c \in calls : c.peer = p /\ c.op \in Joining \cup {"remove"} /\ Waited(c)
    /\ phase' = GivenUp(p)
    /\ UNCHANGED <<registry, media, timers, calls, published, failures>>

\* A request that never reaches the SFU, or is refused by it for its own reasons.
CallLost(c) ==
    /\ c.at = "sent" /\ calls' = calls \ {c} /\ Fails(c)
    /\ UNCHANGED <<registry, media, timers, published, failures>>

Produce(p) ==
    /\ phase[p] = "in" /\ p \notin published
    /\ published' = published \cup {p} /\ calls' = calls \cup {Call(p, "produce", "sent", 0)}
    /\ UNCHANGED <<registry, media, timers, phase, failures>>

\* handlePeerDisconnect, kickPeer, endMeeting and a join that fails at addPeer.
Remove(p) ==
    /\ phase[p] \in {"in", "mediaLess"} /\ phase' = [phase EXCEPT ![p] = "removing"]
    /\ calls' = calls \cup {Call(p, "remove", "sent", 0)}
    /\ UNCHANGED <<registry, media, timers, published, failures>>

-----------------------------------------------------------------------------
(* The SFU: rooms. *)

\* Room.addPeer for a transport request that finds no peer, in room r.  The
\* import of peer.js that it awaits, local to the process, is taken as immediate.
WithPeer(p, r) == [members EXCEPT ![r] = @ \cup {p}]

\* getOrCreateRoom: the live room, or one creation shared by all who wait.
NeedsRouter_Always == registered = 0                                         \* mutant
NeedsRouter == registered = 0 /\ creating = 0
GetOrCreateRoom(c) ==
    /\ c.at = "sent" /\ c.op \in Joining
    /\ IF registered # 0
       THEN IF c.op = "caps"
            THEN calls' = calls \ {c} /\ Succeeds(c) /\ UNCHANGED <<members, creating>>
            ELSE /\ calls' = (calls \ {c}) \cup {[c EXCEPT !.at = "worker", !.room = registered]}
                 /\ members' = WithPeer(c.peer, registered)
                 /\ UNCHANGED <<creating, phase>>
       ELSE /\ calls' = (calls \ {c}) \cup {[c EXCEPT !.at = "router"]}
            /\ creating' = IF NeedsRouter THEN creating + 1 ELSE creating
            /\ UNCHANGED <<members, phase>>
    /\ UNCHANGED <<registered, made, open, transports, producers, consumers, timers, published, failures>>

\* The router is there: the room is registered and all who waited go on.
Waiting == {c \in calls : c.at = "router"}
RouterCreated ==
    /\ creating > 0 /\ made < MaxRooms
    /\ creating' = creating - 1 /\ made' = made + 1 /\ registered' = made + 1 /\ open' = open \cup {made + 1}
    /\ calls' = (calls \ Waiting) \cup {[c EXCEPT !.at = "worker", !.room = made + 1] : c \in {d \in Waiting : d.op # "caps"}}
    /\ members' = [members EXCEPT ![made + 1] = {c.peer : c \in {d \in Waiting : d.op # "caps"}}]
    /\ phase' = [p \in Peer |-> IF phase[p] = "caps" /\ Call(p, "caps", "router", 0) \in calls THEN "send" ELSE phase[p]]
    /\ UNCHANGED <<transports, producers, consumers, timers, published, failures>>
RouterFailed ==
    /\ creating > 0 /\ creating' = creating - 1
    /\ calls' = calls \ Waiting
    /\ phase' = [p \in Peer |-> IF \E c \in Waiting : c.peer = p /\ c.op = phase[p] THEN "mediaLess" ELSE phase[p]]
    /\ UNCHANGED <<registered, made, open, media, timers, published, failures>>

\* Room.close: every peer, then the router with all it carries.
Close(r) ==
    /\ open' = open \ {r} /\ registered' = IF registered = r THEN 0 ELSE registered
    /\ members' = [members EXCEPT ![r] = {}]
    /\ transports' = {t \in transports : t.room # r}
    /\ producers' = {x \in producers : x.room # r}
    /\ consumers' = {x \in consumers : x.room # r}

\* The 60 s timer of a room that emptied.
Abandoned_Unchecked(r) == r \in open                                          \* mutant
Abandoned(r) == r \in open /\ members[r] = {}
TimerDue(r) == timers[r] > 0
TimerFires(r) ==
    /\ TimerDue(r) /\ timers' = [timers EXCEPT ![r] = @ - 1]
    /\ IF Abandoned(r) THEN Close(r) ELSE UNCHANGED <<open, registered, media>>
    /\ UNCHANGED <<creating, made, calls, signal, failures>>

-----------------------------------------------------------------------------
(* The SFU: peers and their media. *)

\* createWebRtcTransport: the transport goes to the peer found before the
\* worker was asked, which may have been closed meanwhile.
TransportCreated(c) ==
    /\ c.at = "worker" /\ c.op \in Direction /\ calls' = calls \ {c}
    /\ IF c.room \in open
       THEN /\ Succeeds(c)
            /\ transports' = transports \cup {[peer |-> c.peer, dir |-> c.op, room |-> c.room, orphan |-> c.orphan]}
       ELSE Fails(c) /\ UNCHANGED transports
    /\ UNCHANGED <<registry, members, producers, consumers, timers, published, failures>>

\* peer.getTransport: of the peer object that is in the room now.
Has(p, r, dir) == [peer |-> p, dir |-> dir, room |-> r, orphan |-> FALSE] \in transports

\* createProducer: refused without the peer or its transport; the worker
\* answers later, and with an error once the transport is closed.
CreateProducer(c) ==
    /\ c.at = "sent" /\ c.op = "produce"
    /\ IF registered # 0 /\ c.peer \in members[registered] /\ Has(c.peer, registered, "send")
       THEN calls' = (calls \ {c}) \cup {[c EXCEPT !.at = "worker", !.room = registered]}
       ELSE calls' = calls \ {c}
    /\ UNCHANGED <<registry, media, timers, signal, failures>>
OnOpenTransport_Unchecked(c, dir) == c.room \in open                           \* mutant
OnOpenTransport(c, dir) == ~c.orphan /\ Has(c.peer, c.room, dir)
ProducerCreated(c) ==
    /\ c.at = "worker" /\ c.op = "produce" /\ calls' = calls \ {c}
    /\ producers' = IF OnOpenTransport(c, "send") THEN producers \cup {[peer |-> c.peer, room |-> c.room]}
                    ELSE producers
    /\ UNCHANGED <<registry, members, transports, consumers, timers, signal, failures>>

\* closeProducer, and the closing of what it fed.
CloseProducer(x) ==
    /\ x \in producers /\ x.peer \in members[x.room] /\ registered = x.room
    /\ producers' = producers \ {x}
    /\ consumers' = {y \in consumers : y.from # x.peer \/ y.room # x.room}
    /\ UNCHANGED <<registry, members, transports, timers, calls, signal, failures>>

\* createConsumer: canConsume looks for the producer in the router.
Consume(p, x) ==
    /\ phase[p] = "in" /\ x \in producers /\ x.peer # p /\ registered = x.room
    /\ p \in members[x.room] /\ Has(p, x.room, "recv")
    /\ [peer |-> p, from |-> x.peer, room |-> x.room] \notin consumers
    /\ calls' = calls \cup {[peer |-> p, from |-> x.peer, op |-> "consume", at |-> "worker",
                             room |-> x.room, orphan |-> FALSE]}
    /\ UNCHANGED <<registry, media, timers, signal, failures>>
ConsumerCreated(c) ==
    /\ c.op = "consume" /\ calls' = calls \ {c}
    /\ consumers' = IF OnOpenTransport(c, "recv") /\ [peer |-> c.from, room |-> c.room] \in producers
                    THEN consumers \cup {[peer |-> c.peer, from |-> c.from, room |-> c.room]} ELSE consumers
    /\ UNCHANGED <<registry, members, transports, producers, timers, signal, failures>>

\* Room.removePeer: Peer.close, and a timer when it was the last one.
LastOut_SizeBefore(p, r) == members[r] = {}                                    \* mutant
LastOut(p, r) == members[r] \ {p} = {}
RemovePeer(c) ==
    /\ c.at = "sent" /\ c.op = "remove" /\ Succeeds(c)
    /\ LET r == registered p == c.peer IN
       IF r # 0 /\ p \in members[r]
       THEN /\ members' = [members EXCEPT ![r] = @ \ {p}]
            /\ consumers' = {x \in consumers : x.room # r \/ p \notin {x.peer, x.from}}
            /\ producers' = producers \ {[peer |-> p, room |-> r]}
            /\ transports' = {t \in transports : t.peer # p \/ t.room # r \/ t.orphan}
            /\ calls' = {IF d.peer = p /\ d.at = "worker" /\ d.room = r THEN [d EXCEPT !.orphan = TRUE] ELSE d
                           : d \in calls \ {c}}
            /\ timers' = IF LastOut(p, r) THEN [timers EXCEPT ![r] = @ + 1] ELSE timers
       ELSE calls' = calls \ {c} /\ UNCHANGED <<media, timers>>
    /\ UNCHANGED <<registry, published, failures>>

-----------------------------------------------------------------------------
(* A worker dies: its router closes the room, and the process exits 2 s     *)
(* later and is started again, with nothing.                                *)

WorkerDied ==
    /\ ~dying /\ crashes < MaxCrashes /\ registered # 0
    /\ dying' = TRUE /\ Close(registered)
    /\ cut' = cut \cup {p \in Peer : phase[p] \notin {"out", "gone"}}
    /\ UNCHANGED <<creating, made, timers, calls, signal, crashes>>
Restart ==
    /\ dying /\ dying' = FALSE /\ crashes' = crashes + 1
    /\ cut' = cut \cup {p \in Peer : phase[p] \notin {"out", "gone"}}
    /\ registered' = 0 /\ creating' = 0 /\ open' = {} /\ members' = [r \in Room |-> {}]
    /\ transports' = {} /\ producers' = {} /\ consumers' = {}
    /\ timers' = [r \in Room |-> 0] /\ calls' = {}
    /\ phase' = [p \in Peer |-> IF \E c \in calls : c.peer = p /\ Waited(c) THEN GivenUp(p)[p] ELSE phase[p]]
    /\ UNCHANGED <<made, published>>

-----------------------------------------------------------------------------
Answer == \/ RouterCreated \/ RouterFailed
          \/ \E c \in calls : TransportCreated(c) \/ ProducerCreated(c) \/ ConsumerCreated(c)
Next ==
    \/ Answer \/ WorkerDied \/ Restart
    \/ \E p \in Peer : StartJoin(p) \/ AskTransport(p) \/ TimeOut(p) \/ Produce(p) \/ Remove(p)
    \/ \E c \in calls : CallLost(c) \/ GetOrCreateRoom(c) \/ CreateProducer(c) \/ RemovePeer(c)
    \/ \E r \in Room : TimerFires(r)
    \/ \E x \in producers : CloseProducer(x) \/ \E p \in Peer : Consume(p, x)

Spec == Init /\ [][Next]_vars
\* A timer that is armed fires.
FairSpec == Spec /\ \A r \in Room : WF_vars(TimerFires(r))

-----------------------------------------------------------------------------
(* Properties. *)

\* At most one room of the meeting is open, and it is the registered one, so
\* that everybody who joins meets on one router: however requests overlap with
\* the creation, the closing and the death of rooms.
OneLiveRoom == open = IF registered = 0 THEN {} ELSE {registered}

\* Media flows only for peers that are in the room: no producer or consumer
\* outlives its transport, its peer, or what it consumes, although workers
\* answer after removals and closings.
NoOrphanMedia ==
    /\ \A x \in producers : x.peer \in members[x.room] /\ Has(x.peer, x.room, "send")
    /\ \A x \in consumers : /\ x.peer \in members[x.room] /\ Has(x.peer, x.room, "recv")
                            /\ [peer |-> x.from, room |-> x.room] \in producers

\* A peer that joined with media has both its transports in the live room until
\* it leaves, unless the SFU failed in between: no stale closing timer takes
\* the room from under it.
JoinedOnOneRouter ==
    \A p \in Peer \ cut : phase[p] = "in" =>
        registered # 0 /\ p \in members[registered] /\ \A d \in Direction : Has(p, registered, d)

\* A room whose peers are removed for good is closed.
EmptiedRoomCloses ==
    \A r \in Room : <>(members[r] # {}) /\ <>[](members[r] = {}) => <>[](r \notin open)
=============================================================================
