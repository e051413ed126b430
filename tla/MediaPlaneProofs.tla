-------------------------- MODULE MediaPlaneProofs --------------------------
(***************************************************************************)
(* Proofs about MediaPlane, for any number of peers, rooms and restarts:   *)
(* its type invariant, that there is one live room, that no media outlives *)
(* its owner, and that who joined keeps its place on the one router.       *)
(***************************************************************************)
EXTENDS MediaPlane, TLAPS

USE PeerAssumption, BoundAssumption

\* A router is made only while no room is registered.
OneCreation == creating > 0 => registered = 0

\* Transports are in the open room.
InOpenRoom == \A t \in transports : t.room \in open

\* A transport whose peer object was not removed belongs to a peer in the room,
\* and so will the one a worker is still making.
Owned ==
    /\ \A t \in transports : ~t.orphan => t.peer \in members[t.room]
    /\ \A c \in calls : c.at = "worker" => c.room \in 1..made
    /\ \A c \in calls : c.at = "worker" /\ c.op \in Direction /\ ~c.orphan /\ c.room \in open
                            => c.peer \in members[c.room]

\* A process that is about to exit has a restart left.
MayRestart == dying => crashes < MaxCrashes

Inv == OneLiveRoom /\ OneCreation /\ InOpenRoom /\ Owned /\ NoOrphanMedia

-----------------------------------------------------------------------------
(* The type invariant. *)

LEMMA PhaseStep ==
  ASSUME TypeOK, NEW p \in Peer
  PROVE  GivenUp(p) \in [Peer -> Phase]
<1>1. phase \in [Peer -> Phase]
  BY DEF TypeOK
<1>2. {"mediaLess", "gone"} \subseteq Phase
  BY DEF Phase
<1> QED BY <1>1, <1>2 DEF GivenUp

LEMMA OutcomeStep ==
  ASSUME TypeOK, NEW c \in calls, c.op \in Joining \cup {"remove"}, Succeeds(c) \/ Fails(c)
  PROVE  phase' \in [Peer -> Phase]
<1>1. phase \in [Peer -> Phase] /\ c.peer \in Peer
  BY DEF TypeOK, Calls
<1>2. CASE Fails(c)
  BY <1>1, <1>2, PhaseStep DEF Fails
<1>3. CASE Succeeds(c)
  <2>1. c.op # "remove" => After(c.op) \in Phase
    BY DEF After, Phase, Joining, Direction
  <2>2. "gone" \in Phase
    BY DEF Phase
  <2>3. (IF c.op = "remove" THEN "gone" ELSE After(c.op)) \in Phase
    BY <2>1, <2>2
  <2>4. phase' = phase \/ phase' = [phase EXCEPT ![c.peer] = IF c.op = "remove" THEN "gone" ELSE After(c.op)]
    BY <1>3 DEF Succeeds
  <2> HIDE DEF After, Phase
  <2> QED BY <1>1, <2>3, <2>4
<1> QED BY <1>2, <1>3

\* A call of a joining, publishing or leaving peer may be moved on.
LEMMA CallStep ==
  ASSUME TypeOK, NEW c \in calls, c.at \in {"sent", "router"}
  PROVE  /\ c.peer \in Peer /\ c.op \in Joining \cup {"produce", "remove"}
         /\ [c EXCEPT !.at = "router"] \in Calls
         /\ \A r \in Room : [c EXCEPT !.at = "worker", !.room = r] \in Calls
<1>1. c \in [peer : Peer, op : Joining \cup {"produce", "remove"}, at : {"sent", "router", "worker"},
             room : Room \cup {0}, orphan : BOOLEAN]
  BY DEF TypeOK, Calls
<1> QED BY <1>1 DEF Calls

LEMMA TypeInit == Init => TypeOK
<1> SUFFICES ASSUME Init PROVE TypeOK
  OBVIOUS
<1>1. 0 \in 0..MaxRooms /\ 0 \in 0..MaxCrashes /\ "out" \in Phase
  BY DEF Phase
<1>2. phase \in [Peer -> Phase] /\ members \in [Room -> SUBSET Peer] /\ timers \in [Room -> Nat]
  BY <1>1 DEF Init
<1>3. made \in 0..MaxRooms /\ registered \in 0..MaxRooms /\ creating \in 0..1 /\ open \subseteq 1..made
  BY <1>1 DEF Init
<1> QED BY <1>1, <1>2, <1>3 DEF Init, TypeOK

LEMMA CallMade ==
  ASSUME NEW p \in Peer, NEW op \in Joining \cup {"produce", "remove"}
  PROVE  Call(p, op, "sent", 0) \in Calls
BY DEF Call, Calls

LEMMA CloseStep ==
  ASSUME TypeOK, NEW r, Close(r)
  PROVE  /\ open' \subseteq open /\ registered' \in 0..MaxRooms /\ members' \in [Room -> SUBSET Peer]
         /\ transports' \subseteq transports /\ producers' \subseteq producers /\ consumers' \subseteq consumers
<1>1. members' \in [Room -> SUBSET Peer]
  BY DEF TypeOK, Close
<1> QED BY <1>1 DEF TypeOK, Close

LEMMA TypeStep == TypeOK /\ MayRestart /\ [Next]_vars => TypeOK'
<1> SUFFICES ASSUME TypeOK, MayRestart, [Next]_vars PROVE TypeOK'
  OBVIOUS
<1> USE DEF registry, media, signal, failures
<1>0. dying => crashes + 1 \in 0..MaxCrashes
  BY DEF MayRestart, TypeOK
<1>1. CASE UNCHANGED vars
  BY <1>1 DEF vars, TypeOK
<1>2. ASSUME NEW p \in Peer, StartJoin(p) \/ AskTransport(p) \/ Produce(p) \/ Remove(p) PROVE TypeOK'
  <2>1. PICK op \in Joining \cup {"produce", "remove"} : calls' = calls \cup {Call(p, op, "sent", 0)}
    BY <1>2 DEF StartJoin, AskTransport, Produce, Remove, Joining
  <2>2. calls' \subseteq Calls
    BY <2>1, CallMade DEF TypeOK
  <2>3. phase' \in [Peer -> Phase]
    BY <1>2 DEF StartJoin, AskTransport, Produce, Remove, TypeOK, Phase, Joining
  <2>4. published' \subseteq Peer
    BY <1>2 DEF StartJoin, AskTransport, Produce, Remove, TypeOK
  <2>5. UNCHANGED <<registry, media, timers, failures>>
    BY <1>2 DEF StartJoin, AskTransport, Produce, Remove
  <2> QED BY <2>2, <2>3, <2>4, <2>5 DEF TypeOK
<1>3. ASSUME NEW p \in Peer, TimeOut(p) PROVE TypeOK'
  BY <1>3, PhaseStep DEF TimeOut, TypeOK
<1>4. ASSUME NEW c \in calls, CallLost(c) PROVE TypeOK'
  <2>1. phase' \in [Peer -> Phase]
    BY <1>4, PhaseStep, CallStep DEF CallLost, Fails, TypeOK
  <2> QED BY <1>4, <2>1 DEF CallLost, TypeOK
<1>5. ASSUME NEW c \in calls, GetOrCreateRoom(c) PROVE TypeOK'
  <2>1. /\ c.at = "sent" /\ c.op \in Joining
        /\ UNCHANGED <<registered, made, open, transports, producers, consumers, timers, published, failures>>
    BY <1>5 DEF GetOrCreateRoom
  <2>2. /\ c.peer \in Peer /\ [c EXCEPT !.at = "router"] \in Calls
        /\ \A r \in Room : [c EXCEPT !.at = "worker", !.room = r] \in Calls
    BY <2>1, CallStep
  <2>3. CASE registered # 0 /\ c.op = "caps"
    <3>1. calls' = calls \ {c} /\ Succeeds(c) /\ UNCHANGED <<members, creating>>
      BY <1>5, <2>3 DEF GetOrCreateRoom
    <3>2. phase' \in [Peer -> Phase]
      BY <2>1, <3>1, OutcomeStep
    <3> QED BY <2>1, <3>1, <3>2 DEF TypeOK
  <2>4. CASE registered # 0 /\ c.op # "caps"
    <3>1. /\ calls' = (calls \ {c}) \cup {[c EXCEPT !.at = "worker", !.room = registered]}
          /\ members' = WithPeer(c.peer, registered) /\ UNCHANGED <<creating, phase>>
      BY <1>5, <2>4 DEF GetOrCreateRoom
    <3>2. registered \in Room
      BY <2>4 DEF TypeOK, Room
    <3>3. calls' \subseteq Calls
      BY <2>2, <3>1, <3>2 DEF TypeOK
    <3>4. members' \in [Room -> SUBSET Peer]
      BY <2>2, <3>1, <3>2 DEF TypeOK, WithPeer
    <3> QED BY <2>1, <3>1, <3>3, <3>4 DEF TypeOK
  <2>5. CASE registered = 0
    <3>1. /\ calls' = (calls \ {c}) \cup {[c EXCEPT !.at = "router"]}
          /\ creating' = IF NeedsRouter THEN creating + 1 ELSE creating
          /\ UNCHANGED <<members, phase>>
      BY <1>5, <2>5 DEF GetOrCreateRoom
    <3>2. creating' \in 0..1
      BY <3>1 DEF NeedsRouter, TypeOK
    <3>3. calls' \subseteq Calls
      BY <2>2, <3>1 DEF TypeOK
    <3> QED BY <2>1, <3>1, <3>2, <3>3 DEF TypeOK
  <2> QED BY <2>3, <2>4, <2>5
<1>6. CASE RouterCreated
  <2>0. /\ creating > 0 /\ made < MaxRooms
        /\ creating \in 0..1 /\ made \in 0..MaxRooms /\ MaxRooms \in Nat
    BY <1>6 DEF RouterCreated, TypeOK
  <2>1. made + 1 \in Room /\ made + 1 \in 0..MaxRooms /\ creating - 1 \in 0..1
    BY <2>0 DEF Room
  <2>2. \A c \in Waiting : c \in calls /\ c.at = "router"
    BY DEF Waiting
  <2>3. {[c EXCEPT !.at = "worker", !.room = made + 1] : c \in {d \in Waiting : d.op # "caps"}} \subseteq Calls
    <3>1. ASSUME NEW c \in Waiting PROVE [c EXCEPT !.at = "worker", !.room = made + 1] \in Calls
      <4>1. \A r \in Room : [c EXCEPT !.at = "worker", !.room = r] \in Calls
        BY <2>2, CallStep
      <4> QED BY <2>1, <4>1
    <3> QED BY <3>1
  <2>4. calls' \subseteq Calls
    BY <1>6, <2>3 DEF RouterCreated, TypeOK
  <2>5. {c.peer : c \in {d \in Waiting : d.op # "caps"}} \subseteq Peer
    BY <2>2, CallStep
  <2>6. members' \in [Room -> SUBSET Peer]
    BY <1>6, <2>5 DEF RouterCreated, TypeOK
  <2>7. phase' \in [Peer -> Phase]
    <3>1. "send" \in Phase /\ phase \in [Peer -> Phase]
      BY DEF Phase, Joining, Direction, TypeOK
    <3>2. phase' = [p \in Peer |-> IF phase[p] = "caps" /\ Call(p, "caps", "router", 0) \in calls THEN "send" ELSE phase[p]]
      BY <1>6 DEF RouterCreated
    <3> HIDE DEF Phase
    <3> QED BY <3>1, <3>2
  <2>8. open' \subseteq 1..made'
    <3>1. open \subseteq 1..made /\ open' = open \cup {made + 1} /\ made' = made + 1
      BY <1>6 DEF RouterCreated, TypeOK
    <3> QED BY <2>0, <3>1
  <2>9. creating' \in 0..1 /\ made' \in 0..MaxRooms /\ registered' \in 0..MaxRooms
    BY <1>6, <2>1 DEF RouterCreated
  <2> QED BY <1>6, <2>4, <2>6, <2>7, <2>8, <2>9 DEF RouterCreated, TypeOK
<1>7. CASE RouterFailed
  <2>1. phase' \in [Peer -> Phase]
    BY <1>7 DEF RouterFailed, TypeOK, Phase
  <2>2. creating' \in 0..1 /\ calls' \subseteq Calls
    BY <1>7 DEF RouterFailed, TypeOK
  <2> QED BY <1>7, <2>1, <2>2 DEF RouterFailed, TypeOK
<1>8. ASSUME NEW r \in Room, TimerFires(r) PROVE TypeOK'
  <2>1. timers' \in [Room -> Nat]
    <3>1. timers \in [Room -> Nat] /\ timers[r] - 1 \in Nat
      BY <1>8 DEF TimerFires, TimerDue, TypeOK
    <3> QED BY <1>8, <3>1 DEF TimerFires
  <2>2. CASE Abandoned(r)
    <3>1. Close(r)
      BY <1>8, <2>2 DEF TimerFires
    <3> QED BY <1>8, <2>1, <3>1, CloseStep DEF TimerFires, TypeOK
  <2>3. CASE ~Abandoned(r)
    BY <1>8, <2>1, <2>3 DEF TimerFires, TypeOK
  <2> QED BY <2>2, <2>3
<1>9. ASSUME NEW c \in calls, TransportCreated(c) PROVE TypeOK'
  <2>1. c.at = "worker" /\ c.op \in Direction /\ c.op \in Joining
    BY <1>9 DEF TransportCreated, Joining
  <2>2. phase' \in [Peer -> Phase]
    BY <1>9, <2>1, OutcomeStep DEF TransportCreated
  <2>3. c.room \in open => [peer |-> c.peer, dir |-> c.op, room |-> c.room, orphan |-> c.orphan] \in Transports
    <3>1. c \in [peer : Peer, op : Joining \cup {"produce", "remove"}, at : {"sent", "router", "worker"},
                 room : Room \cup {0}, orphan : BOOLEAN]
      BY <2>1 DEF TypeOK, Calls, Joining, Direction
    <3>2. c.peer \in Peer /\ c.room \in Room \cup {0} /\ c.orphan \in BOOLEAN
      BY <3>1
    <3>3. c.room \in open => c.room \in Room
      BY <3>2 DEF TypeOK
    <3> QED BY <2>1, <3>2, <3>3 DEF Transports
  <2>4. transports' \subseteq Transports
    BY <1>9, <2>3 DEF TransportCreated, TypeOK
  <2> QED BY <1>9, <2>2, <2>4 DEF TransportCreated, TypeOK
<1>10. ASSUME NEW c \in calls, CreateProducer(c) PROVE TypeOK'
  <2>1. c.at = "sent" /\ \A r \in Room : [c EXCEPT !.at = "worker", !.room = r] \in Calls
    BY <1>10, CallStep DEF CreateProducer
  <2>2. registered # 0 => registered \in Room
    BY DEF TypeOK, Room
  <2>3. calls' \subseteq Calls
    BY <1>10, <2>1, <2>2 DEF CreateProducer, TypeOK
  <2> QED BY <1>10, <2>3 DEF CreateProducer, TypeOK
<1>11. ASSUME NEW c \in calls, ProducerCreated(c) PROVE TypeOK'
  <2>1. OnOpenTransport(c, "send") => c.peer \in Peer /\ c.room \in Room
    BY DEF OnOpenTransport, Has, TypeOK, Transports
  <2>2. producers' \subseteq [peer : Peer, room : Room]
    BY <1>11, <2>1 DEF ProducerCreated, TypeOK
  <2> QED BY <1>11, <2>2 DEF ProducerCreated, TypeOK
<1>12. ASSUME NEW x \in producers, CloseProducer(x) PROVE TypeOK'
  BY <1>12 DEF CloseProducer, TypeOK
<1>13. ASSUME NEW x \in producers, NEW p \in Peer, Consume(p, x) PROVE TypeOK'
  <2>1. [peer |-> p, from |-> x.peer, op |-> "consume", at |-> "worker", room |-> x.room, orphan |-> FALSE] \in Calls
    BY DEF TypeOK, Calls
  <2> QED BY <1>13, <2>1 DEF Consume, TypeOK
<1>14. ASSUME NEW c \in calls, ConsumerCreated(c) PROVE TypeOK'
  <2>1. c.op = "consume"
    BY <1>14 DEF ConsumerCreated
  <2>2. c.peer \in Peer /\ c.from \in Peer /\ c.room \in Room
    BY <2>1 DEF TypeOK, Calls, Joining, Direction
  <2>3. consumers' \subseteq [peer : Peer, from : Peer, room : Room]
    BY <1>14, <2>2 DEF ConsumerCreated, TypeOK
  <2> QED BY <1>14, <2>3 DEF ConsumerCreated, TypeOK
<1>15. ASSUME NEW c \in calls, RemovePeer(c) PROVE TypeOK'
  <2>0. c.op = "remove" /\ Succeeds(c) /\ UNCHANGED <<registry, published, failures>>
    BY <1>15 DEF RemovePeer
  <2>1. phase' \in [Peer -> Phase]
    BY <2>0, OutcomeStep
  <2>2. CASE registered # 0 /\ c.peer \in members[registered]
    <3>1. /\ members' = [members EXCEPT ![registered] = @ \ {c.peer}]
          /\ consumers' \subseteq consumers /\ producers' \subseteq producers /\ transports' \subseteq transports
          /\ calls' = {IF d.peer = c.peer /\ d.at = "worker" /\ d.room = registered THEN [d EXCEPT !.orphan = TRUE] ELSE d
                         : d \in calls \ {c}}
          /\ timers' = timers \/ timers' = [timers EXCEPT ![registered] = @ + 1]
      BY <1>15, <2>2 DEF RemovePeer
    <3>2. \A d \in Calls : [d EXCEPT !.orphan = TRUE] \in Calls
      BY DEF Calls
    <3>3. calls' \subseteq Calls
      BY <3>1, <3>2 DEF TypeOK
    <3>4. members' \in [Room -> SUBSET Peer]
      BY <3>1 DEF TypeOK
    <3>5. timers' \in [Room -> Nat]
      <4>1. timers \in [Room -> Nat] /\ registered \in Room
        BY <2>2 DEF TypeOK, Room
      <4>2. CASE timers' = timers
        BY <4>1, <4>2
      <4>3. CASE timers' = [timers EXCEPT ![registered] = @ + 1]
        <5>1. timers[registered] + 1 \in Nat
          BY <4>1
        <5> QED BY <4>1, <4>3, <5>1
      <4> QED BY <3>1, <4>2, <4>3
    <3> QED BY <2>0, <2>1, <3>1, <3>3, <3>4, <3>5 DEF TypeOK
  <2>3. CASE ~(registered # 0 /\ c.peer \in members[registered])
    <3>1. calls' = calls \ {c} /\ UNCHANGED <<media, timers>>
      BY <1>15, <2>3 DEF RemovePeer
    <3> QED BY <2>0, <2>1, <3>1 DEF TypeOK
  <2> QED BY <2>2, <2>3
<1>16. CASE WorkerDied
  <2>1. Close(registered)
    BY <1>16 DEF WorkerDied
  <2>2. dying' \in BOOLEAN /\ cut' \subseteq Peer
    BY <1>16 DEF WorkerDied, TypeOK
  <2> QED BY <1>16, <2>1, <2>2, CloseStep DEF WorkerDied, TypeOK
<1>17. CASE Restart
  <2>1. phase' \in [Peer -> Phase]
    <3>1. \A p \in Peer : GivenUp(p)[p] \in Phase /\ phase[p] \in Phase
      BY PhaseStep DEF TypeOK
    <3> QED BY <1>17, <3>1 DEF Restart
  <2>2. crashes' \in 0..MaxCrashes /\ dying' \in BOOLEAN /\ cut' \subseteq Peer
    BY <1>17, <1>0 DEF Restart, TypeOK
  <2>3. members' \in [Room -> SUBSET Peer] /\ timers' \in [Room -> Nat]
    BY <1>17 DEF Restart
  <2>4. registered' \in 0..MaxRooms /\ creating' \in 0..1 /\ open' \subseteq 1..made'
    BY <1>17 DEF Restart
  <2> QED BY <1>17, <2>1, <2>2, <2>3, <2>4 DEF Restart, TypeOK
<1> QED BY <1>1, <1>2, <1>3, <1>4, <1>5, <1>6, <1>7, <1>8, <1>9, <1>10, <1>11, <1>12, <1>13, <1>14, <1>15,
           <1>16, <1>17 DEF Next, Answer

LEMMA RestartStep == TypeOK /\ MayRestart /\ [Next]_vars => MayRestart'
<1> SUFFICES ASSUME TypeOK, MayRestart, [Next]_vars PROVE MayRestart'
  OBVIOUS
<1>1. CASE WorkerDied
  BY <1>1 DEF WorkerDied, MayRestart
<1>2. CASE Restart
  BY <1>2 DEF Restart, MayRestart
<1>3. ~WorkerDied /\ ~Restart => UNCHANGED failures
  <2> SUFFICES ASSUME ~WorkerDied, ~Restart, Next PROVE UNCHANGED failures
    BY DEF vars
  <2>1. Answer => UNCHANGED failures
    BY DEF Answer, RouterCreated, RouterFailed, TransportCreated, ProducerCreated, ConsumerCreated, signal
  <2>2. ASSUME NEW p \in Peer, StartJoin(p) \/ AskTransport(p) \/ TimeOut(p) \/ Produce(p) \/ Remove(p)
        PROVE UNCHANGED failures
    BY <2>2 DEF StartJoin, AskTransport, TimeOut, Produce, Remove, signal
  <2>3. ASSUME NEW c \in calls, CallLost(c) \/ GetOrCreateRoom(c) \/ CreateProducer(c) \/ RemovePeer(c)
        PROVE UNCHANGED failures
    BY <2>3 DEF CallLost, GetOrCreateRoom, CreateProducer, RemovePeer
  <2>4. ASSUME NEW r \in Room, TimerFires(r) PROVE UNCHANGED failures
    BY <2>4 DEF TimerFires
  <2>5. ASSUME NEW x \in producers, CloseProducer(x) \/ \E p \in Peer : Consume(p, x) PROVE UNCHANGED failures
    BY <2>5 DEF CloseProducer, Consume
  <2> HIDE DEF failures
  <2> QED BY <2>1, <2>2, <2>3, <2>4, <2>5 DEF Next
<1> QED BY <1>1, <1>2, <1>3 DEF failures, MayRestart

-----------------------------------------------------------------------------
(* The room and its media. *)

LEMMA InvInit == Init => Inv
BY DEF Init, Inv, OneLiveRoom, OneCreation, InOpenRoom, Owned, NoOrphanMedia

LEMMA InvStep == TypeOK /\ Inv /\ [Next]_vars => Inv'
<1> SUFFICES ASSUME TypeOK, Inv, [Next]_vars PROVE Inv'
  OBVIOUS
<1> USE DEF registry, media, signal, failures
<1>0. OneLiveRoom /\ OneCreation /\ InOpenRoom /\ Owned /\ NoOrphanMedia
  BY DEF Inv
<1>1. CASE UNCHANGED vars
  BY <1>1 DEF vars, Inv, OneLiveRoom, OneCreation, InOpenRoom, Owned, NoOrphanMedia, Has
\* A step that adds calls which no worker has, and touches neither rooms nor media.
<1>a. ASSUME UNCHANGED <<registry, media>>,
             \A c \in calls' : c \in calls \/ c.at # "worker" \/ (c.op \notin Direction /\ c.room \in 1..made)
      PROVE Inv'
  <2>1. OneLiveRoom' /\ OneCreation' /\ InOpenRoom' /\ NoOrphanMedia'
    BY <1>0, <1>a DEF OneLiveRoom, OneCreation, InOpenRoom, NoOrphanMedia, Has
  <2>2. Owned'
    BY <1>0, <1>a DEF Owned
  <2> QED BY <2>1, <2>2 DEF Inv
<1>2. ASSUME NEW p \in Peer, StartJoin(p) \/ AskTransport(p) \/ Produce(p) \/ Remove(p) \/ TimeOut(p) PROVE Inv'
  <2>1. \A op : Call(p, op, "sent", 0).at = "sent"
    BY DEF Call
  <2> QED BY <1>2, <1>a, <2>1 DEF StartJoin, AskTransport, Produce, Remove, TimeOut
<1>3. ASSUME NEW c \in calls, CallLost(c) PROVE Inv'
  BY <1>3, <1>a DEF CallLost
<1>4. ASSUME NEW c \in calls, CreateProducer(c) PROVE Inv'
  <2>1. c.op = "produce" /\ c.at = "sent" /\ c \in [peer : Peer, op : Joining \cup {"produce", "remove"},
             at : {"sent", "router", "worker"}, room : Room \cup {0}, orphan : BOOLEAN]
    BY <1>4 DEF CreateProducer, TypeOK, Calls
  <2> DEFINE d == [c EXCEPT !.at = "worker", !.room = registered]
  <2>2. d.op = "produce" /\ d.room = registered
    BY <2>1
  <2>3. registered \in open => registered \in 1..made
    BY DEF TypeOK
  <2>4. registered # 0 => registered \in 1..made
    BY <1>0, <2>3 DEF OneLiveRoom
  <2> HIDE DEF d
  <2>5. \A e \in calls' : e \in calls \/ (registered # 0 /\ e = d)
    BY <1>4 DEF CreateProducer, d
  <2>6. UNCHANGED <<registry, media>>
    BY <1>4 DEF CreateProducer
  <2> QED BY <1>a, <2>2, <2>4, <2>5, <2>6 DEF Direction
<1>5. ASSUME NEW c \in calls, GetOrCreateRoom(c) PROVE Inv'
  <2>1. /\ c.at = "sent" /\ c.op \in Joining
        /\ UNCHANGED <<registered, made, open, transports, producers, consumers>>
        /\ c \in [peer : Peer, op : Joining \cup {"produce", "remove"},
             at : {"sent", "router", "worker"}, room : Room \cup {0}, orphan : BOOLEAN]
    BY <1>5 DEF GetOrCreateRoom, TypeOK, Calls
  <2>2. CASE registered # 0 /\ c.op = "caps"
    BY <1>5, <1>a, <2>1, <2>2 DEF GetOrCreateRoom
  <2>3. CASE registered # 0 /\ c.op # "caps"
    <3> DEFINE d == [c EXCEPT !.at = "worker", !.room = registered]
    <3>1. calls' = (calls \ {c}) \cup {d} /\ members' = [members EXCEPT ![registered] = @ \cup {c.peer}] /\ creating' = creating
      BY <1>5, <2>3 DEF GetOrCreateRoom, WithPeer
    <3>2. d.peer = c.peer /\ d.room = registered
      BY <2>1
    <3>3. registered \in Room /\ registered \in 1..made /\ members \in [Room -> SUBSET Peer]
      BY <1>0, <2>3 DEF OneLiveRoom, TypeOK, Room
    <3>4. /\ c.peer \in members'[registered]
          /\ \A r \in Room : members[r] \subseteq members'[r]
      BY <3>1, <3>3
    <3>5. (\A t \in transports : t.room \in Room) /\ (\A x \in producers : x.room \in Room)
          /\ (\A x \in consumers : x.room \in Room) /\ open \subseteq Room
      BY DEF TypeOK, Transports, Room
    <3> HIDE DEF d
    <3>6. Owned'
      <4>1. \A t \in transports' : ~t.orphan => t.peer \in members'[t.room]
        BY <1>0, <2>1, <3>4, <3>5 DEF Owned
      <4>2. \A e \in calls' : e.at = "worker" => e.room \in 1..made'
        BY <1>0, <2>1, <3>1, <3>2, <3>3 DEF Owned
      <4>3. \A e \in calls' : e.at = "worker" /\ e.op \in Direction /\ ~e.orphan /\ e.room \in open'
                                => e.peer \in members'[e.room]
        BY <1>0, <2>1, <3>1, <3>2, <3>4, <3>5 DEF Owned
      <4> QED BY <4>1, <4>2, <4>3 DEF Owned
    <3>7. NoOrphanMedia'
      BY <1>0, <2>1, <3>4, <3>5 DEF NoOrphanMedia, Has
    <3> QED BY <1>0, <2>1, <3>1, <3>6, <3>7 DEF Inv, OneLiveRoom, OneCreation, InOpenRoom
  <2>4. CASE registered = 0
    <3> DEFINE d == [c EXCEPT !.at = "router"]
    <3>1. /\ calls' = (calls \ {c}) \cup {d} /\ members' = members
      BY <1>5, <2>4 DEF GetOrCreateRoom
    <3>2. d.at = "router"
      BY <2>1
    <3> HIDE DEF d
    <3>3. Owned'
      BY <1>0, <2>1, <3>1, <3>2 DEF Owned
    <3> QED BY <1>0, <2>1, <2>4, <3>1, <3>3 DEF Inv, OneLiveRoom, OneCreation, InOpenRoom, NoOrphanMedia, Has
  <2> QED BY <2>2, <2>3, <2>4
<1>6. CASE RouterCreated
  <2> DEFINE asked == {d \in Waiting : d.op # "caps"}
             moved == {[c EXCEPT !.at = "worker", !.room = made + 1] : c \in asked}
  <2>1. /\ creating > 0 /\ registered = 0 /\ open = {} /\ transports = {} /\ producers = {} /\ consumers = {}
    BY <1>0, <1>6 DEF RouterCreated, OneLiveRoom, OneCreation, InOpenRoom, NoOrphanMedia, Has
  <2>2. /\ creating' = creating - 1 /\ made' = made + 1 /\ registered' = made + 1 /\ open' = open \cup {made + 1}
        /\ calls' = (calls \ Waiting) \cup moved
        /\ members' = [members EXCEPT ![made + 1] = {c.peer : c \in asked}]
        /\ UNCHANGED <<transports, producers, consumers>>
    BY <1>6 DEF RouterCreated
  <2>3. made \in Nat /\ made + 1 \in Room /\ made + 1 # 0 /\ creating \in 0..1 /\ members \in [Room -> SUBSET Peer]
    <3>1. made < MaxRooms /\ creating \in 0..1 /\ made \in 0..MaxRooms /\ members \in [Room -> SUBSET Peer]
      BY <1>6 DEF RouterCreated, TypeOK
    <3> QED BY <3>1 DEF Room
  <2>4. ASSUME NEW e \in moved PROVE e.room = made + 1 /\ e.peer \in members'[made + 1]
    <3>1. PICK c \in asked : e = [c EXCEPT !.at = "worker", !.room = made + 1]
      OBVIOUS
    <3>2. c \in calls /\ c.at = "router"
      BY DEF Waiting
    <3>3. c \in [peer : Peer, op : Joining \cup {"produce", "remove"},
             at : {"sent", "router", "worker"}, room : Room \cup {0}, orphan : BOOLEAN]
      BY <3>2 DEF TypeOK, Calls
    <3>4. e.room = made + 1 /\ e.peer = c.peer
      BY <3>1, <3>3
    <3>5. members'[made + 1] = {b.peer : b \in asked}
      BY <2>2, <2>3
    <3> QED BY <3>4, <3>5
  <2> HIDE DEF moved
  <2>5. Owned'
    <3>1. \A e \in calls' : e.at = "worker" => e.room \in 1..made'
      BY <1>0, <2>2, <2>3, <2>4 DEF Owned
    <3>2. \A e \in calls' : e.at = "worker" /\ e.op \in Direction /\ ~e.orphan /\ e.room \in open'
                              => e.peer \in members'[e.room]
      <4>1. \A e \in calls \ Waiting : e.at = "worker" => e.room \in 1..made
        BY <1>0 DEF Owned
      <4>2. \A e \in calls \ Waiting : e.at = "worker" => e.room \notin open'
        BY <2>1, <2>2, <2>3, <4>1
      <4> QED BY <2>1, <2>2, <2>4, <4>2
    <3> QED BY <2>1, <2>2, <3>1, <3>2 DEF Owned
  <2>6. OneLiveRoom' /\ OneCreation'
    BY <2>1, <2>2, <2>3 DEF OneLiveRoom, OneCreation
  <2> QED BY <2>1, <2>2, <2>5, <2>6 DEF Inv, InOpenRoom, NoOrphanMedia
<1>7. CASE RouterFailed
  <2>1. Owned'
    BY <1>0, <1>7 DEF RouterFailed, Owned
  <2>2. OneCreation'
    BY <1>0, <1>7 DEF RouterFailed, OneCreation, TypeOK
  <2> QED BY <1>0, <1>7, <2>1, <2>2 DEF RouterFailed, Inv, OneLiveRoom, InOpenRoom, NoOrphanMedia, Has
\* Closing the live room leaves nothing behind.
<1>b. ASSUME NEW r, r \in open \/ r = registered, Close(r), UNCHANGED <<creating, made, calls>> PROVE Inv'
  <2>1. registered' = 0 /\ open' = {} /\ r = registered
    BY <1>0, <1>b DEF Close, OneLiveRoom
  <2>2. transports' = {} /\ producers' = {} /\ consumers' = {}
    <3>1. \A t \in transports : t.room = r
      BY <1>0, <1>b, <2>1 DEF InOpenRoom, OneLiveRoom
    <3>2. (\A x \in producers : x.room = r) /\ (\A x \in consumers : x.room = r)
      BY <1>0, <3>1 DEF NoOrphanMedia, Has
    <3> QED BY <1>b, <3>1, <3>2 DEF Close
  <2>3. Owned'
    BY <1>0, <1>b, <2>1, <2>2 DEF Owned
  <2> QED BY <1>0, <1>b, <2>1, <2>2, <2>3 DEF Inv, OneLiveRoom, OneCreation, InOpenRoom, NoOrphanMedia
<1>8. ASSUME NEW r \in Room, TimerFires(r) PROVE Inv'
  <2>1. CASE Abandoned(r)
    BY <1>8, <1>b, <2>1 DEF TimerFires, Abandoned
  <2>2. CASE ~Abandoned(r)
    BY <1>8, <1>a, <2>2 DEF TimerFires
  <2> QED BY <2>1, <2>2
<1>9. ASSUME NEW c \in calls, TransportCreated(c) PROVE Inv'
  <2> DEFINE t0 == [peer |-> c.peer, dir |-> c.op, room |-> c.room, orphan |-> c.orphan]
  <2>1. /\ c.at = "worker" /\ c.op \in Direction /\ calls' = calls \ {c}
        /\ transports' = IF c.room \in open THEN transports \cup {t0} ELSE transports
        /\ UNCHANGED <<registry, members, producers, consumers>>
    BY <1>9 DEF TransportCreated
  <2>2. ~c.orphan /\ c.room \in open => c.peer \in members[c.room]
    BY <1>0, <2>1 DEF Owned
  <2>3. t0.peer = c.peer /\ t0.room = c.room /\ t0.orphan = c.orphan
    OBVIOUS
  <2> HIDE DEF t0
  <2>4. Owned'
    BY <1>0, <2>1, <2>2, <2>3 DEF Owned
  <2>5. InOpenRoom'
    BY <1>0, <2>1, <2>3 DEF InOpenRoom
  <2>6. NoOrphanMedia'
    BY <1>0, <2>1 DEF NoOrphanMedia, Has
  <2> QED BY <1>0, <2>1, <2>4, <2>5, <2>6 DEF Inv, OneLiveRoom, OneCreation
<1>10. ASSUME NEW c \in calls, ProducerCreated(c) PROVE Inv'
  <2>1. /\ calls' = calls \ {c} /\ UNCHANGED <<registry, members, transports, consumers>>
        /\ producers' = IF OnOpenTransport(c, "send") THEN producers \cup {[peer |-> c.peer, room |-> c.room]} ELSE producers
    BY <1>10 DEF ProducerCreated
  <2>2. OnOpenTransport(c, "send") => Has(c.peer, c.room, "send") /\ c.peer \in members[c.room]
    BY <1>0 DEF OnOpenTransport, Has, Owned
  <2> DEFINE x0 == [peer |-> c.peer, room |-> c.room]
  <2>3. NoOrphanMedia'
    <3>0. x0.peer = c.peer /\ x0.room = c.room
      OBVIOUS
    <3> HIDE DEF x0
    <3>1. \A x \in producers' : x \in producers \/ (x = x0 /\ OnOpenTransport(c, "send"))
      BY <2>1 DEF x0
    <3>2. \A x \in producers' : x.peer \in members[x.room] /\ Has(x.peer, x.room, "send")
      BY <1>0, <2>2, <3>0, <3>1 DEF NoOrphanMedia
    <3>3. \A x \in consumers : /\ x.peer \in members[x.room] /\ Has(x.peer, x.room, "recv")
                               /\ [peer |-> x.from, room |-> x.room] \in producers'
      BY <1>0, <2>1 DEF NoOrphanMedia
    <3> QED BY <2>1, <3>2, <3>3 DEF NoOrphanMedia, Has
  <2>4. Owned'
    BY <1>0, <2>1 DEF Owned
  <2> QED BY <1>0, <2>1, <2>3, <2>4 DEF Inv, OneLiveRoom, OneCreation, InOpenRoom
<1>11. ASSUME NEW x \in producers, CloseProducer(x) PROVE Inv'
  <2>1. /\ producers' = producers \ {x}
        /\ consumers' = {y \in consumers : y.from # x.peer \/ y.room # x.room}
        /\ UNCHANGED <<registry, members, transports, calls>>
    BY <1>11 DEF CloseProducer
  <2>2. x = [peer |-> x.peer, room |-> x.room]
    BY DEF TypeOK
  <2>3. \A y \in consumers' : [peer |-> y.from, room |-> y.room] \in producers'
    <3>1. ASSUME NEW y \in consumers' PROVE [peer |-> y.from, room |-> y.room] \in producers'
      <4>1. y \in consumers /\ (y.from # x.peer \/ y.room # x.room)
        BY <2>1
      <4>2. [peer |-> y.from, room |-> y.room] \in producers
        BY <1>0, <4>1 DEF NoOrphanMedia
      <4>3. [peer |-> y.from, room |-> y.room] # [peer |-> x.peer, room |-> x.room]
        BY <4>1
      <4> QED BY <2>1, <2>2, <4>2, <4>3
    <3> QED BY <3>1
  <2>4. NoOrphanMedia'
    BY <1>0, <2>1, <2>3 DEF NoOrphanMedia, Has
  <2> QED BY <1>0, <2>1, <2>4 DEF Inv, OneLiveRoom, OneCreation, InOpenRoom, Owned
<1>12. ASSUME NEW x \in producers, NEW p \in Peer, Consume(p, x) PROVE Inv'
  <2> DEFINE d == [peer |-> p, from |-> x.peer, op |-> "consume", at |-> "worker", room |-> x.room, orphan |-> FALSE]
  <2>1. calls' = calls \cup {d} /\ UNCHANGED <<registry, media>> /\ registered = x.room /\ x.room \in Room
    BY <1>12 DEF Consume, TypeOK
  <2>2. d.op = "consume" /\ d.room = x.room
    OBVIOUS
  <2>3. x.room \in 1..made
    BY <1>0, <2>1 DEF OneLiveRoom, TypeOK, Room
  <2> HIDE DEF d
  <2> QED BY <1>a, <2>1, <2>2, <2>3 DEF Direction
<1>13. ASSUME NEW c \in calls, ConsumerCreated(c) PROVE Inv'
  <2> DEFINE y == [peer |-> c.peer, from |-> c.from, room |-> c.room]
  <2>1. /\ calls' = calls \ {c} /\ UNCHANGED <<registry, members, transports, producers>>
        /\ consumers' = IF OnOpenTransport(c, "recv") /\ [peer |-> c.from, room |-> c.room] \in producers
                        THEN consumers \cup {y} ELSE consumers
    BY <1>13 DEF ConsumerCreated
  <2>2. OnOpenTransport(c, "recv") => Has(c.peer, c.room, "recv") /\ c.peer \in members[c.room]
    BY <1>0 DEF OnOpenTransport, Has, Owned
  <2>3. NoOrphanMedia'
    <3>0. y.peer = c.peer /\ y.from = c.from /\ y.room = c.room
      OBVIOUS
    <3> HIDE DEF y
    <3>1. \A x \in consumers' : x \in consumers
              \/ (x = y /\ OnOpenTransport(c, "recv") /\ [peer |-> c.from, room |-> c.room] \in producers)
      BY <2>1
    <3>2. \A x \in consumers' : /\ x.peer \in members[x.room] /\ Has(x.peer, x.room, "recv")
                               /\ [peer |-> x.from, room |-> x.room] \in producers
      BY <1>0, <2>2, <3>0, <3>1 DEF NoOrphanMedia
    <3> QED BY <1>0, <2>1, <3>2 DEF NoOrphanMedia, Has
  <2>4. Owned'
    BY <1>0, <2>1 DEF Owned
  <2> QED BY <1>0, <2>1, <2>3, <2>4 DEF Inv, OneLiveRoom, OneCreation, InOpenRoom
<1>14. ASSUME NEW c \in calls, RemovePeer(c) PROVE Inv'
  <2> DEFINE r == registered
             p == c.peer
  <2>1. CASE r # 0 /\ p \in members[r]
    <3>1. /\ members' = [members EXCEPT ![r] = @ \ {p}]
          /\ consumers' = {x \in consumers : x.room # r \/ p \notin {x.peer, x.from}}
          /\ producers' = producers \ {[peer |-> p, room |-> r]}
          /\ transports' = {t \in transports : t.peer # p \/ t.room # r \/ t.orphan}
          /\ calls' = {IF d.peer = p /\ d.at = "worker" /\ d.room = r THEN [d EXCEPT !.orphan = TRUE] ELSE d
                         : d \in calls \ {c}}
          /\ UNCHANGED registry
      BY <1>14, <2>1 DEF RemovePeer
    <3>2. r \in Room /\ members \in [Room -> SUBSET Peer] /\ open = {r} /\ made \in Nat
      BY <1>0, <2>1 DEF TypeOK, Room, OneLiveRoom
    <3>3. members'[r] = members[r] \ {p}
      BY <3>1, <3>2
    <3>4. (\A t \in transports : t.room = r) /\ (\A x \in producers : x.room = r) /\ (\A x \in consumers : x.room = r)
      BY <1>0, <3>2 DEF InOpenRoom, NoOrphanMedia, Has
    <3>5. \A t \in transports' : ~t.orphan => t.peer \in members'[t.room]
      BY <1>0, <3>1, <3>3, <3>4 DEF Owned
    <3>6. ASSUME NEW e \in calls', e.at = "worker"
          PROVE  e.room \in 1..made' /\ (e.op \in Direction /\ ~e.orphan /\ e.room \in open' => e.peer \in members'[e.room])
      <4>1. PICK d \in calls : e = IF d.peer = p /\ d.at = "worker" /\ d.room = r THEN [d EXCEPT !.orphan = TRUE] ELSE d
        BY <3>1
      <4>2. CASE d.peer = p /\ d.at = "worker" /\ d.room = r
        <5>1. d \in Calls
          BY DEF TypeOK
        <5>2. e.room = d.room /\ e.orphan = TRUE
          BY <4>1, <4>2, <5>1 DEF Calls
        <5> QED BY <1>0, <3>1, <4>2, <5>2 DEF Owned
      <4>3. CASE ~(d.peer = p /\ d.at = "worker" /\ d.room = r)
        <5>1. e = d
          BY <4>1, <4>3
        <5> QED BY <1>0, <3>1, <3>2, <3>3, <3>6, <4>3, <5>1 DEF Owned
      <4> QED BY <4>2, <4>3
    <3>7. Owned'
      BY <3>1, <3>5, <3>6 DEF Owned
    <3>8. NoOrphanMedia'
      <4>1. ASSUME NEW x \in producers' PROVE x.peer \in members'[x.room] /\ Has(x.peer, x.room, "send")'
        <5>1. x \in producers /\ x.room = r /\ x = [peer |-> x.peer, room |-> x.room] /\ x.peer # p
          BY <3>1, <3>4 DEF TypeOK
        <5>2. x.peer \in members[r] /\ Has(x.peer, r, "send")
          BY <1>0, <5>1 DEF NoOrphanMedia
        <5>3. Has(x.peer, x.room, "send")'
          BY <3>1, <5>1, <5>2 DEF Has
        <5>4. x.peer \in members'[x.room]
          BY <3>3, <5>1, <5>2
        <5> QED BY <5>3, <5>4
      <4>2. ASSUME NEW x \in consumers'
            PROVE  /\ x.peer \in members'[x.room] /\ Has(x.peer, x.room, "recv")'
                   /\ [peer |-> x.from, room |-> x.room] \in producers'
        <5>1. x \in consumers /\ x.room = r /\ x.peer # p /\ x.from # p
          BY <3>1, <3>4
        <5>2. x.peer \in members[r] /\ Has(x.peer, r, "recv") /\ [peer |-> x.from, room |-> r] \in producers
          BY <1>0, <5>1 DEF NoOrphanMedia
        <5>3. Has(x.peer, r, "recv")'
          BY <3>1, <5>1, <5>2 DEF Has
        <5>4. [peer |-> x.from, room |-> r] # [peer |-> p, room |-> r]
          BY <5>1
        <5> QED BY <3>1, <3>3, <5>1, <5>2, <5>3, <5>4
      <4> QED BY <4>1, <4>2 DEF NoOrphanMedia
    <3>9. InOpenRoom'
      BY <1>0, <3>1 DEF InOpenRoom
    <3> QED BY <1>0, <3>1, <3>7, <3>8, <3>9 DEF Inv, OneLiveRoom, OneCreation
  <2>2. CASE ~(r # 0 /\ p \in members[r])
    BY <1>14, <1>a, <2>2 DEF RemovePeer
  <2> QED BY <2>1, <2>2
<1>15. CASE WorkerDied
  BY <1>15, <1>b DEF WorkerDied
<1>16. CASE Restart
  BY <1>16 DEF Restart, Inv, OneLiveRoom, OneCreation, InOpenRoom, Owned, NoOrphanMedia
<1> QED BY <1>1, <1>2, <1>3, <1>4, <1>5, <1>6, <1>7, <1>8, <1>9, <1>10, <1>11, <1>12, <1>13, <1>14, <1>15,
           <1>16 DEF Next, Answer

-----------------------------------------------------------------------------
(* Joined peers stay seated. *)

\* Only who leaves is removed, and only a removal orphans a call.  Who has its
\* first transport is in the live room with it, and so is the second.
Leaving == {"removing", "gone"}
Removals == \A c \in calls : c.op = "remove" \/ c.orphan => phase[c.peer] \in Leaving
SeatOf(p) ==
    phase[p] \in {"recv", "in"} =>
        /\ registered # 0 /\ p \in members[registered] /\ Has(p, registered, "send")
        /\ phase[p] = "in" => Has(p, registered, "recv")
Seated == Removals /\ \A p \in Peer \ cut : SeatOf(p)

\* A peer keeps its place in joinPeerToRoom or gives up, and who leaves goes on to.
Outward(p) ==
    phase'[p] = phase[p] \/ (phase'[p] \notin {"recv", "in"} /\ (phase[p] \in Leaving => phase'[p] \in Leaving))

LEMMA GivenUpOutward ==
  ASSUME TypeOK, NEW q \in Peer, phase' = GivenUp(q), NEW p \in Peer
  PROVE  Outward(p)
<1>1. phase' = [phase EXCEPT ![q] = CASE phase[q] \in Joining -> "mediaLess" [] phase[q] = "removing" -> "gone"
                                      [] OTHER -> phase[q]]
  BY DEF GivenUp
<1>2. phase \in [Peer -> Phase]
  BY DEF TypeOK
<1>3. CASE phase[q] \in Joining
  <2>1. phase[q] \notin Leaving /\ phase' = [phase EXCEPT ![q] = "mediaLess"]
    BY <1>1, <1>3 DEF Leaving, Joining, Direction
  <2> QED BY <1>2, <2>1 DEF Outward
<1>4. CASE phase[q] = "removing"
  <2>1. phase' = [phase EXCEPT ![q] = "gone"]
    BY <1>1, <1>4 DEF Joining, Direction
  <2> QED BY <1>2, <2>1 DEF Outward, Leaving
<1>5. CASE phase[q] \notin Joining /\ phase[q] # "removing"
  <2>1. phase' = [phase EXCEPT ![q] = phase[q]]
    BY <1>1, <1>5
  <2> QED BY <1>2, <2>1 DEF Outward
<1> QED BY <1>3, <1>4, <1>5

LEMMA FailsOutward ==
  ASSUME TypeOK, NEW c \in calls, Fails(c), NEW p \in Peer
  PROVE  Outward(p)
<1>1. c.peer \in Peer
  BY DEF TypeOK, Calls
<1>2. CASE UNCHANGED phase
  BY <1>2 DEF Outward
<1> QED BY <1>1, <1>2, GivenUpOutward DEF Fails

\* The room keeps its members and transports, and no peer goes further into it.
LEMMA SeatKept ==
  ASSUME TypeOK, Seated, registered' = registered, cut' = cut,
         registered # 0 => members[registered] \subseteq members'[registered], transports \subseteq transports',
         \A p \in Peer : Outward(p),
         \A c \in calls' : \/ (c.op # "remove" /\ ~c.orphan) \/ phase'[c.peer] \in Leaving
                           \/ \E d \in calls : c.op = d.op /\ c.peer = d.peer /\ c.orphan = d.orphan
  PROVE  Seated'
<1>1. \A c \in calls : c.peer \in Peer
  BY DEF TypeOK, Calls
<1>2. Removals'
  BY <1>1 DEF Seated, Removals, Outward
<1>3. ASSUME NEW p \in Peer \ cut PROVE SeatOf(p)'
  <2>1. Outward(p) /\ SeatOf(p)
    BY DEF Seated
  <2> QED BY <2>1 DEF Outward, SeatOf, Has
<1> QED BY <1>2, <1>3 DEF Seated

LEMMA SeatedInit == Init => Seated
  BY DEF Init, Seated, Removals, SeatOf

\* The signaling service begins, gives up, publishes or removes.
LEMMA SeatedCalls ==
  ASSUME TypeOK, Seated, NEW p \in Peer,
         StartJoin(p) \/ AskTransport(p) \/ TimeOut(p) \/ Produce(p) \/ Remove(p)
  PROVE  Seated'
<1> USE DEF registry, media, signal, failures
<1>0. phase \in [Peer -> Phase]
  BY DEF TypeOK
<1>1. \A op \in Joining \cup {"produce"} : /\ Call(p, op, "sent", 0).op # "remove" /\ ~Call(p, op, "sent", 0).orphan
  BY DEF Call, Joining, Direction
<1>2. UNCHANGED <<registry, media, failures>>
  BY DEF StartJoin, AskTransport, TimeOut, Produce, Remove
<1>3. \A q \in Peer : Outward(q)
  <2>1. CASE UNCHANGED phase
    BY <2>1 DEF Outward
  <2>2. CASE TimeOut(p)
    BY <2>2, GivenUpOutward DEF TimeOut
  <2>3. CASE StartJoin(p)
    BY <1>0, <2>3 DEF StartJoin, Outward, Leaving
  <2>4. CASE Remove(p)
    BY <1>0, <2>4 DEF Remove, Outward, Leaving
  <2> QED BY <2>1, <2>2, <2>3, <2>4 DEF AskTransport, Produce
<1>4. ASSUME NEW c \in calls', c \notin calls
      PROVE  (c.op # "remove" /\ ~c.orphan) \/ phase'[c.peer] \in Leaving
  <2>1. CASE Remove(p)
    <3>1. c = Call(p, "remove", "sent", 0) /\ phase'[p] = "removing"
      BY <1>0, <1>4, <2>1 DEF Remove
    <3> QED BY <3>1 DEF Call, Leaving
  <2>2. CASE ~Remove(p)
    <3>1. PICK op \in Joining \cup {"produce"} : c = Call(p, op, "sent", 0)
      BY <1>4, <2>2 DEF StartJoin, AskTransport, TimeOut, Produce, Joining
    <3> QED BY <1>1, <3>1
  <2> QED BY <2>1, <2>2
<1> QED BY <1>2, <1>3, <1>4, SeatKept

\* A call is moved on, answered without media, or lost.
LEMMA SeatedMoves ==
  ASSUME TypeOK, Seated, NEW c \in calls,
         CallLost(c) \/ GetOrCreateRoom(c) \/ CreateProducer(c) \/ ProducerCreated(c) \/ ConsumerCreated(c)
  PROVE  Seated'
<1> USE DEF registry, media, signal, failures
<1>0. phase \in [Peer -> Phase] /\ c.peer \in Peer /\ c \in Calls /\ registered \in 0..MaxRooms
      /\ members \in [Room -> SUBSET Peer]
  BY DEF TypeOK, Calls
<1>1. /\ UNCHANGED <<registered, transports, cut>>
      /\ members' = members \/ (registered # 0 /\ members' = WithPeer(c.peer, registered))
  BY DEF CallLost, GetOrCreateRoom, CreateProducer, ProducerCreated, ConsumerCreated
<1>2. registered # 0 => members[registered] \subseteq members'[registered]
  BY <1>0, <1>1 DEF WithPeer, Room
<1>3. \A q \in Peer : Outward(q)
  <2>1. CASE UNCHANGED phase
    BY <2>1 DEF Outward
  <2>2. CASE CallLost(c)
    BY <2>2, FailsOutward DEF CallLost
  <2>3. CASE GetOrCreateRoom(c) /\ c.op = "caps" /\ Succeeds(c)
    <3>1. phase' = phase \/ (phase[c.peer] = "caps" /\ phase' = [phase EXCEPT ![c.peer] = "send"])
      BY <2>3 DEF Succeeds, Waited, After
    <3> QED BY <1>0, <3>1 DEF Outward, Leaving
  <2> QED BY <2>1, <2>2, <2>3 DEF GetOrCreateRoom, CreateProducer, ProducerCreated, ConsumerCreated
<1>4. \A d \in calls' : d \in calls \/ (d.op = c.op /\ d.peer = c.peer /\ d.orphan = c.orphan)
  <2>1. CASE calls' = calls \ {c}
    BY <2>1
  <2>2. CASE c.at = "sent" /\ \/ calls' = (calls \ {c}) \cup {[c EXCEPT !.at = "router"]}
                              \/ calls' = (calls \ {c}) \cup {[c EXCEPT !.at = "worker", !.room = registered]}
    <3>1. c \in [peer : Peer, op : Joining \cup {"produce", "remove"}, at : {"sent", "router", "worker"},
                 room : Room \cup {0}, orphan : BOOLEAN]
      BY <1>0, <2>2 DEF Calls
    <3>2. \A e \in {[c EXCEPT !.at = "router"], [c EXCEPT !.at = "worker", !.room = registered]} :
             e.op = c.op /\ e.peer = c.peer /\ e.orphan = c.orphan
      BY <3>1
    <3>3. \A d \in calls' :
             d \in calls \/ d \in {[c EXCEPT !.at = "router"], [c EXCEPT !.at = "worker", !.room = registered]}
      BY <2>2
    <3> QED BY <3>2, <3>3
  <2> QED BY <2>1, <2>2 DEF CallLost, GetOrCreateRoom, CreateProducer, ProducerCreated, ConsumerCreated
<1> QED BY <1>1, <1>2, <1>3, <1>4, SeatKept

\* A worker makes the transport a joining peer waits for, in the live room.
LEMMA SeatedTransport ==
  ASSUME TypeOK, Inv, Seated, NEW c \in calls, TransportCreated(c)
  PROVE  Seated'
<1> USE DEF registry, media, signal, failures
<1>0. phase \in [Peer -> Phase] /\ c.peer \in Peer /\ registered \in 0..MaxRooms
  BY DEF TypeOK, Calls
<1>1. /\ c.at = "worker" /\ c.op \in Direction /\ calls' = calls \ {c}
      /\ UNCHANGED <<registered, members, cut>> /\ transports \subseteq transports'
  BY DEF TransportCreated
<1>2. CASE c.room \notin open
  <2>1. \A q \in Peer : Outward(q)
    BY <1>2, FailsOutward DEF TransportCreated
  <2> QED BY <1>1, <2>1, SeatKept
<1>3. CASE c.room \in open
  <2>1. /\ Succeeds(c)
        /\ [peer |-> c.peer, dir |-> c.op, room |-> c.room, orphan |-> c.orphan] \in transports'
    BY <1>3 DEF TransportCreated
  <2>2. CASE UNCHANGED phase
    <3>1. \A q \in Peer : Outward(q)
      BY <2>2 DEF Outward
    <3> QED BY <1>1, <3>1, SeatKept
  <2>3. CASE phase[c.peer] = c.op /\ phase' = [phase EXCEPT ![c.peer] = After(c.op)]
    <3>1. c.room = registered /\ registered # 0
      BY <1>3 DEF Inv, OneLiveRoom
    <3>2. c.orphan = FALSE
      <4>1. c.orphan \in BOOLEAN
        BY DEF TypeOK, Calls
      <4>2. phase[c.peer] \notin Leaving
        BY <1>1, <2>3 DEF Direction, Leaving
      <4> QED BY <4>1, <4>2 DEF Seated, Removals
    <3>3. c.peer \in members[registered]
      BY <1>1, <1>3, <3>1, <3>2 DEF Inv, Owned
    <3>4. Has(c.peer, registered, c.op)'
      BY <1>1, <2>1, <3>1, <3>2 DEF Has
    <3>5. ASSUME NEW d \in calls', d.op = "remove" \/ d.orphan PROVE phase'[d.peer] \in Leaving
      <4>1. d \in calls /\ phase[d.peer] \in Leaving /\ d.peer \in Peer
        BY <1>1, <3>5 DEF Seated, Removals, TypeOK, Calls
      <4>2. d.peer # c.peer
        BY <1>1, <2>3, <4>1 DEF Direction, Leaving
      <4> QED BY <1>0, <2>3, <4>1, <4>2
    <3>6. ASSUME NEW q \in Peer \ cut PROVE SeatOf(q)'
      <4>0. SeatOf(q) /\ q \in Peer
        BY DEF Seated
      <4>1. CASE q # c.peer
        BY <1>0, <1>1, <2>3, <4>0, <4>1 DEF SeatOf, Has
      <4>2. CASE q = c.peer /\ c.op = "send"
        <5>1. phase'[q] = "recv"
          BY <1>0, <2>3, <4>2 DEF After
        <5> QED BY <1>1, <3>1, <3>3, <3>4, <4>2, <5>1 DEF SeatOf
      <4>3. CASE q = c.peer /\ c.op = "recv"
        <5>1. phase'[q] = "in" /\ Has(q, registered, "send")
          BY <1>0, <2>3, <4>0, <4>3 DEF After, SeatOf
        <5>2. Has(q, registered, "send")'
          BY <1>1, <5>1 DEF Has
        <5> QED BY <1>1, <3>1, <3>3, <3>4, <4>3, <5>1, <5>2 DEF SeatOf
      <4> QED BY <1>1, <4>1, <4>2, <4>3 DEF Direction
    <3> QED BY <1>1, <3>5, <3>6 DEF Seated, Removals
  <2> QED BY <1>1, <2>1, <2>2, <2>3 DEF Succeeds, Waited, Direction
<1> QED BY <1>2, <1>3

\* A room is made only while nobody is seated.
LEMMA SeatedRouter ==
  ASSUME TypeOK, Inv, Seated, RouterCreated \/ RouterFailed
  PROVE  Seated'
<1> USE DEF registry, media, signal, failures
<1>0. phase \in [Peer -> Phase]
  BY DEF TypeOK
<1>1. /\ registered = 0 /\ cut' = cut
      /\ \A c \in calls' : \E d \in calls : c.op = d.op /\ c.peer = d.peer /\ c.orphan = d.orphan
  <2>1. CASE RouterFailed
    BY <2>1 DEF RouterFailed, Inv, OneCreation
  <2>2. CASE RouterCreated
    <3>1. \A d \in Waiting : LET c == [d EXCEPT !.at = "worker", !.room = made + 1]
                             IN  c.op = d.op /\ c.peer = d.peer /\ c.orphan = d.orphan
      BY DEF Waiting, TypeOK, Calls
    <3>2. \A c \in calls' : c \in calls \/ \E d \in Waiting : c = [d EXCEPT !.at = "worker", !.room = made + 1]
      BY <2>2 DEF RouterCreated
    <3>3. Waiting \subseteq calls
      BY DEF Waiting
    <3>4. registered = 0 /\ cut' = cut
      BY <2>2 DEF RouterCreated, Inv, OneCreation
    <3>5. ASSUME NEW c \in calls' PROVE \E d \in calls : c.op = d.op /\ c.peer = d.peer /\ c.orphan = d.orphan
      <4>1. CASE c \in calls
        BY <4>1
      <4>2. ASSUME NEW d \in Waiting, c = [d EXCEPT !.at = "worker", !.room = made + 1]
            PROVE  d \in calls /\ c.op = d.op /\ c.peer = d.peer /\ c.orphan = d.orphan
        BY <3>1, <3>3, <4>2
      <4> QED BY <3>2, <4>1, <4>2
    <3> QED BY <3>4, <3>5
  <2> QED BY <2>1, <2>2
<1>2. \A q \in Peer : phase'[q] \in {"recv", "in"} \/ phase[q] \in Leaving => phase'[q] = phase[q]
  <2>1. CASE RouterFailed
    <3>1. \A c \in Waiting : c.op \notin Leaving
      BY DEF Waiting, TypeOK, Calls, Joining, Direction, Leaving
    <3> QED BY <2>1, <3>1 DEF RouterFailed
  <2>2. CASE RouterCreated
    BY <2>2 DEF RouterCreated, Leaving
  <2> QED BY <2>1, <2>2
<1>3. \A q \in Peer \ cut : phase[q] \notin {"recv", "in"}
  BY <1>1 DEF Seated, SeatOf
<1>4. Removals'
  BY <1>1, <1>2 DEF Seated, Removals, TypeOK, Calls
<1>5. \A q \in Peer \ cut : SeatOf(q)'
  BY <1>2, <1>3 DEF SeatOf
<1> QED BY <1>1, <1>4, <1>5 DEF Seated

\* Who is removed was leaving.
LEMMA SeatedRemoval ==
  ASSUME TypeOK, Seated, NEW c \in calls, RemovePeer(c)
  PROVE  Seated'
<1> USE DEF registry, media, signal, failures
<1> DEFINE Mark(d) == IF d.peer = c.peer /\ d.at = "worker" /\ d.room = registered THEN [d EXCEPT !.orphan = TRUE] ELSE d
<1>0. phase \in [Peer -> Phase] /\ c.peer \in Peer /\ c.op = "remove" /\ phase[c.peer] \in Leaving
      /\ registered \in 0..MaxRooms /\ members \in [Room -> SUBSET Peer] /\ UNCHANGED <<registered, cut>>
  BY DEF TypeOK, Calls, RemovePeer, Seated, Removals
<1>1. phase'[c.peer] \in Leaving /\ \A q \in Peer : Outward(q)
  <2>1. phase' = phase \/ phase' = [phase EXCEPT ![c.peer] = "gone"]
    BY <1>0 DEF RemovePeer, Succeeds
  <2> QED BY <1>0, <2>1 DEF Outward, Leaving
<1>2. \A d \in calls' : d \in calls \/ \E e \in calls : d = Mark(e)
  BY DEF RemovePeer
<1>3. ASSUME NEW d \in calls', d.op = "remove" \/ d.orphan PROVE phase'[d.peer] \in Leaving
  <2>1. CASE d \in calls
    BY <1>1, <1>3, <2>1 DEF Seated, Removals, TypeOK, Calls, Outward
  <2>2. ASSUME NEW e \in calls, d = Mark(e), d \notin calls PROVE phase'[d.peer] \in Leaving
    <3>1. d = [e EXCEPT !.orphan = TRUE] /\ e.peer = c.peer
      BY <2>2
    <3>2. d.peer = c.peer
      BY <3>1 DEF TypeOK, Calls
    <3> QED BY <1>1, <3>2
  <2> QED BY <1>2, <2>1, <2>2
<1>4. ASSUME NEW q \in Peer \ cut PROVE SeatOf(q)'
  <2>0. SeatOf(q) /\ Outward(q)
    BY <1>1 DEF Seated
  <2>1. CASE q = c.peer
    BY <1>1, <2>1 DEF SeatOf, Leaving
  <2>2. CASE q # c.peer
    <3>1. registered # 0 /\ q \in members[registered] => q \in members'[registered]
      BY <1>0, <2>2 DEF RemovePeer
    <3>2. \A d \in Direction : Has(q, registered, d) => Has(q, registered, d)'
      BY <1>0, <2>2 DEF RemovePeer, Has
    <3> QED BY <1>0, <2>0, <3>1, <3>2 DEF SeatOf, Outward, Direction
  <2> QED BY <2>1, <2>2
<1> QED BY <1>0, <1>3, <1>4 DEF Seated, Removals

\* A timer closes only the room nobody is in, and a failure of the SFU cuts off
\* whoever was in the meeting.
LEMMA SeatedClosings ==
  ASSUME TypeOK, Inv, Seated, WorkerDied \/ Restart \/ \E r \in Room : TimerFires(r)
  PROVE  Seated'
<1> USE DEF registry, media, signal, failures
<1>0. phase \in [Peer -> Phase]
  BY DEF TypeOK
<1>1. ASSUME NEW r \in Room, TimerFires(r) PROVE Seated'
  <2>1. UNCHANGED <<phase, calls, cut>>
    BY <1>1 DEF TimerFires
  <2>2. CASE ~Abandoned(r)
    <3>1. \A q \in Peer : Outward(q)
      BY <2>1 DEF Outward
    <3> QED BY <1>1, <2>1, <2>2, <3>1, SeatKept DEF TimerFires
  <2>3. CASE Abandoned(r)
    <3>1. registered = r /\ members[registered] = {}
      BY <2>3 DEF Abandoned, Inv, OneLiveRoom
    <3>2. \A q \in Peer \ cut : phase[q] \notin {"recv", "in"}
      BY <3>1 DEF Seated, SeatOf
    <3> QED BY <2>1, <3>2 DEF Seated, Removals, SeatOf
  <2> QED BY <2>2, <2>3
<1>2. CASE WorkerDied
  <2>1. /\ UNCHANGED <<phase, calls>> /\ \A q \in Peer \ cut' : q \notin cut /\ phase[q] \in {"out", "gone"}
    BY <1>2 DEF WorkerDied
  <2> QED BY <2>1 DEF Seated, Removals, SeatOf
<1>3. CASE Restart
  <2>1. calls' = {} /\ \A q \in Peer \ cut' : phase[q] \in {"out", "gone"}
    BY <1>3 DEF Restart
  <2>2. ASSUME NEW q \in Peer, phase[q] \in {"out", "gone"} PROVE phase'[q] \in {"out", "gone"}
    <3>1. GivenUp(q)[q] = phase[q]
      BY <1>0, <2>2 DEF GivenUp, Joining, Direction
    <3> QED BY <1>3, <2>2, <3>1 DEF Restart
  <2> QED BY <2>1, <2>2 DEF Seated, Removals, SeatOf
<1> QED BY <1>1, <1>2, <1>3

LEMMA SeatedStep == TypeOK /\ Inv /\ Seated /\ [Next]_vars => Seated'
<1> SUFFICES ASSUME TypeOK, Inv, Seated, [Next]_vars PROVE Seated'
  OBVIOUS
<1>1. ASSUME NEW x \in producers, CloseProducer(x) PROVE Seated'
  BY <1>1 DEF CloseProducer, registry, signal, failures, Seated, Removals, SeatOf, Has
<1>2. ASSUME NEW x \in producers, NEW p \in Peer, Consume(p, x) PROVE Seated'
  <2>1. /\ UNCHANGED <<registered, members, transports, cut, phase>>
        /\ calls' = calls \cup {[peer |-> p, from |-> x.peer, op |-> "consume", at |-> "worker",
                                 room |-> x.room, orphan |-> FALSE]}
    BY <1>2 DEF Consume, registry, media, signal, failures
  <2> QED BY <2>1 DEF Seated, Removals, SeatOf, Has
<1>3. CASE UNCHANGED vars
  BY <1>3 DEF vars, registry, media, signal, failures, Seated, Removals, SeatOf, Has
<1> QED
  BY <1>1, <1>2, <1>3, SeatedCalls, SeatedMoves, SeatedTransport, SeatedRouter, SeatedRemoval, SeatedClosings
     DEF Next, Answer

-----------------------------------------------------------------------------
(* The theorems. *)

\* MediaPlane, any number of peers and restarts: every state has its type and
\* satisfies the invariant.
THEOREM Invariance == Spec => [](TypeOK /\ MayRestart /\ Inv)
<1>1. Init => MayRestart
  BY DEF Init, MayRestart
<1> QED BY <1>1, TypeInit, InvInit, TypeStep, RestartStep, InvStep, PTL DEF Spec

\* Every variable of the SFU and of its callers keeps its type, within the
\* bounds on rooms and restarts.
THEOREM TypeCorrect == Spec => []TypeOK
BY Invariance, PTL

\* At most one room of a meeting is open, and it is the registered one, however
\* creations, closings, deaths and requests overlap.
THEOREM OneLiveRoomAlways == Spec => []OneLiveRoom
<1>1. Inv => OneLiveRoom
  BY DEF Inv
<1> QED BY <1>1, Invariance, PTL

\* No producer or consumer outlives its transport, its peer or what it consumes,
\* although the workers answer after removals and closings.
THEOREM NoOrphanMediaAlways == Spec => []NoOrphanMedia
<1>1. Inv => NoOrphanMedia
  BY DEF Inv
<1> QED BY <1>1, Invariance, PTL

\* Who joined with media keeps its place and both transports in the live room
\* until it leaves, unless the SFU failed: no closing timer, late answer or
\* removal of another takes them away.
THEOREM JoinedOnOneRouterAlways == Spec => []JoinedOnOneRouter
<1>1. Seated => JoinedOnOneRouter
  BY DEF Seated, SeatOf, JoinedOnOneRouter, Direction
<1> QED BY <1>1, SeatedInit, SeatedStep, Invariance, PTL DEF Spec
=============================================================================
