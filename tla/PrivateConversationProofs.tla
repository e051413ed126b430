--------------------- MODULE PrivateConversationProofs ---------------------
(***************************************************************************)
(* What holds of private conversations for any number of peers,            *)
(* conversations and departures, whether or not calls to the SFU fail.     *)
(***************************************************************************)
EXTENDS PrivateConversation, TLAPS

-----------------------------------------------------------------------------
(* The inductive invariant *)

\* A handler that waits on behalf of a conversation has one, and where it goes
\* through the two microphones it stands at one of them.
AtWork == \A p \in Peer :
    /\ pc[p] \in {"accepting", "undoing", "producing", "mutingNew", "muting", "closing", "consuming"}
          => work[p].talk # 0
    /\ pc[p] \in {"accepting", "undoing"} => work[p].step \in {1, 2}
    /\ pc[p] = "undoing" => work[p].last \in {1, 2}

\* A conversation in the map was started.
Started == \A t \in open : talk[t].status # "new"

TalkType == [status : Statuses, from : Peer \cup {None}, to : Peer \cup {None},
             wasMuted : [Peer -> BOOLEAN], privateMuted : [Peer -> BOOLEAN]]
WorkType == [talk : 0..MaxTalks, step : 0..3, last : 0..2, of : Peer \cup {None}]
CallType == [kind : CallKinds, by : Peer \cup {None}, of : Peer \cup {None}, todo : SUBSET Talk]

\* TypeOK in parts, one for each group of variables.
RoomTypes == /\ role \in [Peer -> Roles \cup {"none"}] /\ recording \in Peer \cup {None}
             /\ audioMuted \in [Peer -> BOOLEAN] /\ mic \in [Peer -> AudioStates]
TalkTypes == /\ open \subseteq Talk /\ talk \in [Talk -> TalkType]
             /\ ending \in [Talk -> 0..5] /\ caller \in [Talk -> CallType]
AudioTypes == /\ privateAudio \in [Peer -> [Talk -> AudioStates]]
              /\ listeners \in [Peer -> [Talk -> SUBSET Peer]]
Handlers == pc \in [Peer -> PcStates] /\ work \in [Peer -> WorkType] /\ AtWork
Departures == departure \in [Peer -> {"none", "ending", "removing", "done"}]

TypeInv == RoomTypes /\ TalkTypes /\ AudioTypes /\ Handlers /\ Departures
IInv == TypeInv /\ Started /\ OneTalkEach

\* The parts together are TypeOK.
LEMMA TypesFollow == TypeInv => TypeOK
BY DEF TypeInv, TypeOK, RoomTypes, TalkTypes, AudioTypes, Handlers, Departures,
       TalkType, WorkType, CallType

-----------------------------------------------------------------------------
(* Operators *)

\* Least finds an element of a set of small numbers.
LEMMA LeastIsIn ==
    ASSUME NEW S \in SUBSET (1..5), NEW d
    PROVE  /\ S = {} => Least(S, d) = d
           /\ S # {} => Least(S, d) \in S
<1>1. ASSUME S # {} PROVE \E x \in S : \A y \in S : x <= y
  <2>1. \A y \in S : y \in {1, 2, 3, 4, 5}
    OBVIOUS
  <2>2. CASE 1 \in S
    BY <2>1, <2>2
  <2>3. CASE 1 \notin S /\ 2 \in S
    BY <2>1, <2>3
  <2>4. CASE 1 \notin S /\ 2 \notin S /\ 3 \in S
    BY <2>1, <2>4
  <2>5. CASE 1 \notin S /\ 2 \notin S /\ 3 \notin S
    <3>1. 4 \in S \/ S = {5}
      BY <1>1, <2>1, <2>5
    <3> QED
      BY <2>1, <2>5, <3>1
  <2> QED
    BY <2>2, <2>3, <2>4, <2>5
<1> QED
  BY <1>1 DEF Least

\* The next microphone to wait for is one of those asked for, or past the last.
LEMMA NextMicIsNext ==
    ASSUME NEW t, NEW k \in {1, 2, 3}, NEW n \in {0, 1, 2}
    PROVE  NextMic(t, k, n) \in (k..n) \cup {n + 1}
<1> DEFINE S == {j \in k..n : mic[Side(t, j)] # "none"}
<1>1. S \in SUBSET (1..5) /\ S \subseteq k..n
  OBVIOUS
<1> QED
  BY <1>1, LeastIsIn DEF NextMic

\* An idle handler works on nothing.
LEMMA NoWorkTypes == NoWork \in WorkType
BY PeerAssumption DEF NoWork, Work, WorkType

\* A handler that waits with what its label calls for keeps the types.
LEMMA AwaitStep ==
    ASSUME Handlers, NEW p, NEW label \in PcStates, NEW w \in WorkType, Await(p, label, w),
           label \in {"accepting", "undoing", "producing", "mutingNew", "muting", "closing",
                      "consuming"} => w.talk # 0,
           label \in {"accepting", "undoing"} => w.step \in {1, 2},
           label = "undoing" => w.last \in {1, 2}
    PROVE  Handlers'
BY DEF Await, Handlers, AtWork

\* So does a handler that is through,
LEMMA ReturnStep ==
    ASSUME Handlers, NEW p, Return(p)
    PROVE  Handlers'
<1>1. Await(p, "idle", NoWork)
  BY DEF Return
<1> QED
  BY <1>1, AwaitStep, NoWorkTypes DEF PcStates

\* Waiting for something that is not about a conversation.
LEMMA WaitStep ==
    ASSUME Handlers, NEW p, NEW q \in Peer \cup {None},
           NEW label \in {"ending", "publishing", "unpublishing", "kicking", "clearing"},
           Await(p, label, Work(0, 0, 0, q))
    PROVE  Handlers'
<1>1. Work(0, 0, 0, q) \in WorkType
  BY PeerAssumption DEF Work, WorkType
<1> QED
  BY <1>1, AwaitStep DEF PcStates

\* Waiting for something that is about nobody in particular.
LEMMA PlainWaitStep ==
    ASSUME Handlers, NEW p,
           NEW label \in {"ending", "publishing", "unpublishing", "kicking", "clearing"},
           Await(p, label, NoWork)
    PROVE  Handlers'
BY AwaitStep, NoWorkTypes DEF PcStates

\* Waiting for something about conversation t.
LEMMA TalkWaitStep ==
    ASSUME Handlers, NEW p, NEW t \in Talk, NEW q \in Peer \cup {None},
           NEW label \in {"producing", "mutingNew", "muting", "closing", "consuming"},
           Await(p, label, Work(t, 0, 0, q))
    PROVE  Handlers'
<1>1. t # 0 /\ t \in 0..MaxTalks
  BY PeerAssumption DEF Talk
<1>2. Work(t, 0, 0, q) \in WorkType /\ Work(t, 0, 0, q).talk # 0
  BY <1>1 DEF Work, WorkType
<1> QED
  BY <1>2, AwaitStep DEF PcStates

\* Going on with the end of a conversation keeps the types, wherever it stands,
LEMMA GoOnEndingTypes ==
    ASSUME RoomTypes, TalkTypes, NEW t \in Talk, NEW i \in 1..5, GoOnEnding(t, i)
    PROVE  ending' \in [Talk -> 0..5] /\ audioMuted' \in [Peer -> BOOLEAN]
<1> DEFINE S == {k \in i..4 : Called(t, k)}
           j == Least(S, 5)
<1>1. S \in SUBSET (1..5)
  OBVIOUS
<1>2. j \in 0..5
  BY <1>1, LeastIsIn
<1>3. ending' \in [Talk -> 0..5]
  BY <1>2 DEF GoOnEnding, TalkTypes
<1>4. talk[t].wasMuted \in [Peer -> BOOLEAN]
  BY DEF TalkTypes, TalkType
<1>5. audioMuted' \in [Peer -> BOOLEAN]
  BY <1>4 DEF GoOnEnding, RoomTypes
<1> QED
  BY <1>3, <1>5

\* and so does taking a conversation out of the map.
LEMMA BeginEndingTypes ==
    ASSUME RoomTypes, TalkTypes, AudioTypes, NEW t \in open, NEW c \in CallType, BeginEnding(t, c),
           role' \in [Peer -> Roles \cup {"none"}], recording' \in Peer \cup {None}
    PROVE  RoomTypes' /\ TalkTypes' /\ AudioTypes'
<1>1. t \in Talk
  BY DEF TalkTypes
<1>2. GoOnEnding(t, 1)
  BY DEF BeginEnding
<1>3. ending' \in [Talk -> 0..5] /\ audioMuted' \in [Peer -> BOOLEAN]
  BY <1>1, <1>2, GoOnEndingTypes
<1> QED
  BY <1>1, <1>3 DEF BeginEnding, RoomTypes, TalkTypes, AudioTypes

\* Whoever waits for the end of a conversation is recorded as a call.
LEMMA CallIsCall ==
    ASSUME NEW kind \in CallKinds, NEW p \in Peer \cup {None}, NEW q \in Peer \cup {None}
    PROVE  Call(kind, p, q) \in CallType
BY DEF Call, CallType

\* removePeer keeps the types.
LEMMA RemovePeerTypes ==
    ASSUME RoomTypes, AudioTypes, NEW q, RemovePeer(q)
    PROVE  RoomTypes' /\ AudioTypes'
<1>1. role' \in [Peer -> Roles \cup {"none"}]
  BY DEF RemovePeer, RoomTypes, Roles
<1>2. audioMuted' \in [Peer -> BOOLEAN] /\ mic' \in [Peer -> AudioStates]
      /\ recording' \in Peer \cup {None}
  BY DEF RemovePeer, RoomTypes, AudioStates
<1>3. privateAudio' \in [Peer -> [Talk -> AudioStates]]
  BY DEF RemovePeer, AudioTypes, AudioStates
<1>4. listeners' \in [Peer -> [Talk -> SUBSET Peer]]
  BY DEF RemovePeer, AudioTypes
<1> QED
  BY <1>1, <1>2, <1>3, <1>4 DEF RoomTypes, AudioTypes

\* changePeerRole keeps the types.
LEMMA ChangePeerRoleTypes ==
    ASSUME RoomTypes, NEW q, NEW r \in Roles, ChangePeerRole(q, r), UNCHANGED <<audioMuted, mic>>
    PROVE  RoomTypes'
BY DEF ChangePeerRole, RoomTypes

\* A conversation with another status is a conversation.
LEMMA WithStatusTypes ==
    ASSUME NEW c \in TalkType, NEW s \in Statuses
    PROVE  [c EXCEPT !.status = s] \in TalkType
BY DEF TalkType

\* Waiting for the microphone of one side.
LEMMA MicWaitStep ==
    ASSUME Handlers, NEW p, NEW t \in Talk, NEW j \in {1, 2}, NEW n \in {0, 1, 2},
           NEW label \in {"accepting", "undoing"}, label = "undoing" => n # 0,
           Await(p, label, Work(t, j, n, None))
    PROVE  Handlers'
<1> DEFINE w == Work(t, j, n, None)
<1>1. t # 0 /\ t \in 0..MaxTalks
  BY PeerAssumption DEF Talk
<1>2. /\ w \in WorkType /\ w.talk # 0 /\ w.step \in {1, 2}
      /\ label = "undoing" => w.last \in {1, 2}
  BY <1>1 DEF Work, WorkType
<1>3. Await(p, label, w) /\ label \in PcStates
  BY DEF PcStates
<1> HIDE DEF w
<1> QED
  BY <1>2, <1>3, AwaitStep

\* Undoing an acceptance keeps the types.
LEMMA UndoFromTypes ==
    ASSUME RoomTypes, TalkTypes, Handlers, NEW p \in Peer, NEW t \in Talk,
           NEW k \in {1, 2, 3}, NEW n \in {0, 1, 2}, NEW muted \in [Peer -> BOOLEAN],
           UndoFrom(p, t, k, n, muted)
    PROVE  audioMuted' \in [Peer -> BOOLEAN] /\ talk' \in [Talk -> TalkType] /\ Handlers'
<1> DEFINE j == NextMic(t, k, n)
<1>1. j \in (k..n) \cup {n + 1}
  BY NextMicIsNext
<1>2. talk[t].wasMuted \in [Peer -> BOOLEAN]
  BY DEF TalkTypes, TalkType
<1>3. audioMuted' \in [Peer -> BOOLEAN]
  BY <1>2 DEF UndoFrom
<1>4. talk' \in [Talk -> TalkType]
  <2>1. talk' = talk \/ talk' = [talk EXCEPT ![t].status = "invited"]
    BY DEF UndoFrom
  <2>2. [talk[t] EXCEPT !.status = "invited"] \in TalkType
    BY WithStatusTypes DEF TalkTypes, Statuses
  <2> QED
    BY <2>1, <2>2 DEF TalkTypes
<1>5. CASE j <= n
  <2>1. Await(p, "undoing", Work(t, j, n, None))
    BY <1>1, <1>5 DEF UndoFrom
  <2>2. j \in {1, 2} /\ n \in {1, 2} /\ t # 0 /\ t \in 0..MaxTalks
    BY <1>1, <1>5, PeerAssumption DEF Talk
  <2>4. Handlers'
    BY <2>1, <2>2, MicWaitStep
  <2> QED
    BY <1>3, <1>4, <2>4
<1>6. CASE ~(j <= n)
  <2>1. Return(p)
    BY <1>1, <1>6 DEF UndoFrom
  <2> QED
    BY <1>3, <1>4, <2>1, ReturnStep
<1> QED
  BY <1>5, <1>6

\* Pausing the microphones of both keeps the types.
LEMMA PauseFromTypes ==
    ASSUME RoomTypes, TalkTypes, Handlers, NEW p \in Peer, NEW t \in Talk,
           NEW k \in {1, 2, 3}, NEW muted \in [Peer -> BOOLEAN], PauseFrom(p, t, k, muted)
    PROVE  audioMuted' \in [Peer -> BOOLEAN] /\ talk' \in [Talk -> TalkType] /\ Handlers'
<1> DEFINE j == NextMic(t, k, 2)
           now == [q \in Peer |-> muted[q] \/ (Here(q) /\ q \in Sides(t, k, j - 1))]
<1>1. j \in {1, 2, 3}
  BY NextMicIsNext
<1>2. now \in [Peer -> BOOLEAN]
  OBVIOUS
<1>3. CASE /\ j <= 2 /\ UNCHANGED talk
           /\ audioMuted' = now
           /\ Await(p, "accepting", Work(t, j, 0, None))
  <2>1. j \in {1, 2}
    BY <1>1, <1>3
  <2> HIDE DEF j, now
  <2>2. Handlers'
    BY <1>3, <2>1, MicWaitStep
  <2> QED
    BY <1>2, <1>3, <2>2 DEF TalkTypes
<1>4. CASE /\ j = 3 /\ t \in open
           /\ audioMuted' = now
           /\ talk' = [talk EXCEPT ![t].status = "active"]
           /\ Return(p)
  <2>1. [talk[t] EXCEPT !.status = "active"] \in TalkType
    BY WithStatusTypes DEF TalkTypes, Statuses
  <2> HIDE DEF j, now
  <2>2. talk' \in [Talk -> TalkType]
    BY <1>4, <2>1 DEF TalkTypes
  <2> QED
    BY <1>2, <1>4, <2>2, ReturnStep
<1>5. CASE j = 3 /\ t \notin open /\ UndoFrom(p, t, 1, 2, now)
  <2> HIDE DEF j, now
  <2> QED
    BY <1>2, <1>5, UndoFromTypes
<1> QED
  BY <1>3, <1>4, <1>5 DEF PauseFrom

-----------------------------------------------------------------------------
(* Type correctness *)

\* The types hold of a room whose peers have done nothing yet.
LEMMA InitTypes == Init => TypeInv
<1> SUFFICES ASSUME Init PROVE TypeInv
  OBVIOUS
<1>1. RoomTypes
  BY PeerAssumption DEF Init, RoomTypes, AudioStates
<1>2. NewTalk \in TalkType /\ NoCall \in CallType
  BY DEF NewTalk, TalkType, Statuses, NoCall, CallType, CallKinds
<1>3. TalkTypes
  BY <1>2 DEF Init, TalkTypes
<1>4. AudioTypes /\ Departures
  BY DEF Init, AudioTypes, AudioStates, Departures
<1>5. Handlers
  BY NoWorkTypes DEF Init, Handlers, AtWork, PcStates
<1> QED
  BY <1>1, <1>3, <1>4, <1>5 DEF TypeInv

\* Other consumers of one producer.
LEMMA ListenersTypes ==
    ASSUME listeners \in [Peer -> [Talk -> SUBSET Peer]], NEW p, NEW t, NEW S \in SUBSET Peer
    PROVE  [listeners EXCEPT ![p][t] = S] \in [Peer -> [Talk -> SUBSET Peer]]
<1>1. ASSUME NEW f \in [Talk -> SUBSET Peer] PROVE [f EXCEPT ![t] = S] \in [Talk -> SUBSET Peer]
  OBVIOUS
<1> QED
  BY <1>1

\* privateAudio keeps its domain when a private producer is taken off it.
LEMMA PrivateAudioCleared ==
    ASSUME privateAudio \in [Peer -> [Talk -> AudioStates]], NEW p, NEW t
    PROVE  [privateAudio EXCEPT ![p][t] = "none"] \in [Peer -> [Talk -> AudioStates]]
<1>1. ASSUME NEW f \in [Talk -> AudioStates] PROVE [f EXCEPT ![t] = "none"] \in [Talk -> AudioStates]
  BY DEF AudioStates
<1> QED
  BY <1>1

\* The end of a conversation and what its callers do afterwards.
LEMMA EndingTypes ==
    ASSUME TypeInv, NEW t \in Talk, EndingAnswered(t) \/ Resume(t) \/ EndNextTalk(t) \/ TimeLimit(t)
    PROVE  TypeInv'
<1> USE DEF TypeInv
<1>1. CASE EndingAnswered(t)
  <2>1. PICK i \in Calls : i = ending[t]
    BY <1>1 DEF EndingAnswered
  <2>2. GoOnEnding(t, i + 1) /\ i + 1 \in 1..5
    BY <1>1, <2>1 DEF EndingAnswered, Calls
  <2>3. ending' \in [Talk -> 0..5] /\ audioMuted' \in [Peer -> BOOLEAN]
    BY <2>2, GoOnEndingTypes
  <2>4. AudioTypes'
    <3>1. PICK p : /\ \/ UNCHANGED privateAudio
                      \/ privateAudio' = [privateAudio EXCEPT ![p][t] = "none"]
                   /\ \/ UNCHANGED listeners
                      \/ listeners' = [listeners EXCEPT ![p][t] = {}]
      BY <1>1 DEF EndingAnswered, Outcome
    <3>2. privateAudio' \in [Peer -> [Talk -> AudioStates]]
      <4>1. [privateAudio EXCEPT ![p][t] = "none"] \in [Peer -> [Talk -> AudioStates]]
        BY PrivateAudioCleared DEF AudioTypes
      <4> QED
        BY <3>1, <4>1 DEF AudioTypes
    <3>3. listeners' \in [Peer -> [Talk -> SUBSET Peer]]
      <4>1. [listeners EXCEPT ![p][t] = {}] \in [Peer -> [Talk -> SUBSET Peer]]
        BY ListenersTypes DEF AudioTypes
      <4> QED
        BY <3>1, <4>1 DEF AudioTypes
    <3> QED
      BY <3>2, <3>3 DEF AudioTypes
  <2>5. mic' \in [Peer -> AudioStates]
    BY <1>1 DEF EndingAnswered, RoomTypes, AudioStates, Outcome, RestoredMic
  <2>6. RoomTypes' /\ TalkTypes'
    BY <1>1, <2>3, <2>5 DEF EndingAnswered, RoomTypes, TalkTypes
  <2>7. Handlers' /\ Departures'
    BY <1>1 DEF EndingAnswered, Handlers, AtWork, Departures
  <2> QED
    BY <2>4, <2>6, <2>7
<1>2. CASE Resume(t)
  <2> DEFINE by == caller[t].by
             of == caller[t].of
  <2>1. by \in Peer \cup {None} /\ of \in Peer \cup {None} /\ NoCall \in CallType
    BY DEF TalkTypes, CallType, NoCall, CallKinds
  <2>2. RoomTypes'
    BY <1>2, ChangePeerRoleTypes DEF Resume, RoomTypes, Roles
  <2>3. TalkTypes' /\ AudioTypes'
    BY <1>2, <2>1 DEF Resume, TalkTypes, audioVars, AudioTypes
  <2>4. Handlers'
    <3>1. \/ Return(by) \/ UNCHANGED <<pc, work>> \/ Await(by, "kicking", Work(0, 0, 0, of))
          \/ Await(by, "clearing", NoWork)
      BY <1>2 DEF Resume
    <3>2. UNCHANGED <<pc, work>> => Handlers'
      BY DEF Handlers, AtWork
    <3> QED
      BY <2>1, <3>1, <3>2, ReturnStep, WaitStep, PlainWaitStep
  <2>5. Departures'
    BY <1>2 DEF Resume, Departures
  <2> QED
    BY <2>2, <2>3, <2>4, <2>5
<1>3. CASE EndNextTalk(t)
  <2>1. PICK u \in LeftToEnd(t) :
          /\ open' = open \ {u}
          /\ caller' = [caller EXCEPT ![t] = NoCall,
                                      ![u] = [caller[t] EXCEPT !.todo = LeftToEnd(t) \ {u}]]
          /\ GoOnEnding(u, 1)
    BY <1>3 DEF EndNextTalk
  <2>2. u \in Talk /\ LeftToEnd(t) \subseteq Talk
    BY DEF LeftToEnd, TalkTypes
  <2>3. ending' \in [Talk -> 0..5] /\ audioMuted' \in [Peer -> BOOLEAN]
    BY <2>1, <2>2, GoOnEndingTypes
  <2>4. NoCall \in CallType /\ [caller[t] EXCEPT !.todo = LeftToEnd(t) \ {u}] \in CallType
    BY <2>2 DEF NoCall, CallType, CallKinds, TalkTypes
  <2>5. caller' \in [Talk -> CallType]
    BY <2>1, <2>4 DEF TalkTypes
  <2>6. RoomTypes' /\ TalkTypes'
    BY <1>3, <2>1, <2>3, <2>5 DEF EndNextTalk, RoomTypes, TalkTypes
  <2>7. AudioTypes' /\ Handlers' /\ Departures'
    BY <1>3 DEF EndNextTalk, audioVars, AudioTypes, Handlers, AtWork, Departures
  <2> QED
    BY <2>6, <2>7
<1>4. CASE TimeLimit(t)
  <2>1. t \in open /\ BeginEnding(t, Call("timer", None, None))
    BY <1>4 DEF TimeLimit, IsActive
  <2>2. RoomTypes' /\ TalkTypes' /\ AudioTypes'
    BY <1>4, <2>1, BeginEndingTypes, CallIsCall DEF TimeLimit, RoomTypes, CallKinds
  <2> QED
    BY <1>4, <2>2 DEF TimeLimit, Handlers, AtWork, Departures
<1> QED
  BY <1>1, <1>2, <1>3, <1>4

\* Requests and answers that change the room's peers.
LEMMA PeopleTypes ==
    ASSUME TypeInv, NEW p \in Peer,
           \/ \E q \in Peer : KickPeer(p, q)
           \/ \E q \in Peer : \E r \in {"co-host", "member"} : ChangeRole(p, q, r)
           \/ KickAnswered(p) \/ EndMeeting(p) \/ ClearAnswered(p)
           \/ Depart(p) \/ DepartAnswered(p)
    PROVE  TypeInv'
<1> USE DEF TypeInv
<1>1. ASSUME NEW q \in Peer, KickPeer(p, q) PROVE TypeInv'
  <2>1. CASE Await(p, "kicking", Work(0, 0, 0, q)) /\ UNCHANGED <<audioMuted, mic, talkVars, audioVars>>
    <3>1. Handlers'
      BY <2>1, WaitStep
    <3> QED
      BY <1>1, <2>1, <3>1 DEF KickPeer, RoomTypes, TalkTypes, AudioTypes, Departures, talkVars, audioVars
  <2>2. CASE /\ \E t \in open : BeginEnding(t, Call("kick", p, q))
             /\ Await(p, "ending", NoWork)
    <3>1. RoomTypes' /\ TalkTypes' /\ AudioTypes'
      BY <1>1, <2>2, BeginEndingTypes, CallIsCall DEF KickPeer, RoomTypes, CallKinds
    <3> QED
      BY <1>1, <2>2, <3>1, PlainWaitStep DEF KickPeer, Departures
  <2> QED
    BY <1>1, <2>1, <2>2 DEF KickPeer
<1>2. ASSUME NEW q \in Peer, NEW r \in {"co-host", "member"}, ChangeRole(p, q, r) PROVE TypeInv'
  <2>1. CASE ChangePeerRole(q, r) /\ UNCHANGED <<audioMuted, mic, talkVars, audioVars, pc, work>>
    <3>1. RoomTypes'
      BY <2>1, ChangePeerRoleTypes DEF Roles
    <3> QED
      BY <1>2, <2>1, <3>1 DEF ChangeRole, TalkTypes, AudioTypes, Handlers, AtWork, Departures,
                              talkVars, audioVars
  <2>2. CASE /\ \E t \in open : BeginEnding(t, Call("demote", p, q))
             /\ Await(p, "ending", NoWork) /\ UNCHANGED <<role, recording>>
    <3>1. RoomTypes' /\ TalkTypes' /\ AudioTypes'
      BY <2>2, BeginEndingTypes, CallIsCall DEF RoomTypes, CallKinds
    <3> QED
      BY <1>2, <2>2, <3>1, PlainWaitStep DEF ChangeRole, Departures
  <2> QED
    BY <1>2, <2>1, <2>2 DEF ChangeRole
<1>3. CASE KickAnswered(p)
  <2>1. RoomTypes' /\ AudioTypes' /\ Handlers'
    BY <1>3, RemovePeerTypes, ReturnStep DEF KickAnswered
  <2> QED
    BY <1>3, <2>1 DEF KickAnswered, TalkTypes, Departures, talkVars
<1>4. CASE EndMeeting(p)
  <2>1. CASE Await(p, "clearing", NoWork) /\ UNCHANGED <<audioMuted, mic, talkVars, audioVars>>
    <3>1. Handlers'
      BY <2>1, PlainWaitStep
    <3> QED
      BY <1>4, <2>1, <3>1 DEF EndMeeting, RoomTypes, TalkTypes, AudioTypes, Departures, talkVars, audioVars
  <2>2. CASE /\ \E t \in open : BeginEnding(t, [Call("endMeeting", p, None) EXCEPT !.todo = open \ {t}])
             /\ Await(p, "ending", NoWork)
    <3>1. ASSUME NEW t \in open
          PROVE  [Call("endMeeting", p, None) EXCEPT !.todo = open \ {t}] \in CallType
      BY CallIsCall DEF CallKinds, CallType, TalkTypes
    <3>2. RoomTypes' /\ TalkTypes' /\ AudioTypes'
      BY <1>4, <2>2, <3>1, BeginEndingTypes DEF EndMeeting, RoomTypes
    <3> QED
      BY <1>4, <2>2, <3>2, PlainWaitStep DEF EndMeeting, Departures
  <2> QED
    BY <1>4, <2>1, <2>2 DEF EndMeeting
<1>5. CASE ClearAnswered(p)
  <2>1. Handlers'
    BY <1>5, ReturnStep DEF ClearAnswered
  <2> QED
    BY <1>5, <2>1 DEF ClearAnswered, RoomTypes, TalkTypes, AudioTypes, AudioStates, Departures, talkVars
<1>6. CASE Depart(p)
  <2>1. Handlers' /\ Departures'
    BY <1>6 DEF Depart, Handlers, AtWork, Departures
  <2>2. CASE UNCHANGED <<audioMuted, mic, talkVars, audioVars>>
    BY <1>6, <2>1, <2>2 DEF Depart, RoomTypes, TalkTypes, AudioTypes, talkVars, audioVars
  <2>3. CASE \E t \in open : BeginEnding(t, Call("departure", p, None))
    <3>1. RoomTypes' /\ TalkTypes' /\ AudioTypes'
      BY <1>6, <2>3, BeginEndingTypes, CallIsCall DEF Depart, RoomTypes, CallKinds
    <3> QED
      BY <2>1, <3>1
  <2> QED
    BY <1>6, <2>2, <2>3 DEF Depart
<1>7. CASE DepartAnswered(p)
  <2>1. RoomTypes' /\ AudioTypes'
    BY <1>7, RemovePeerTypes DEF DepartAnswered
  <2> QED
    BY <1>7, <2>1 DEF DepartAnswered, TalkTypes, Handlers, AtWork, Departures, talkVars
<1> QED
  BY <1>1, <1>2, <1>3, <1>4, <1>5, <1>6, <1>7

\* Inviting, accepting and ending.
LEMMA TalkingTypes ==
    ASSUME TypeInv, NEW p \in Peer,
           \/ \E q \in Peer : StartTalk(p, q)
           \/ \E t \in Talk : AcceptTalk(p, t) \/ EndTalk(p, t)
           \/ AcceptAnswered(p) \/ UndoAnswered(p)
    PROVE  TypeInv'
<1> USE DEF TypeInv
<1>1. ASSUME NEW q \in Peer, StartTalk(p, q) PROVE TypeInv'
  <2>1. PICK t \in Fresh :
          /\ talk' = [talk EXCEPT ![t] = [NewTalk EXCEPT !.status = "invited", !.from = p, !.to = q]]
          /\ open' = open \cup {t}
    BY <1>1 DEF StartTalk
  <2>2. [NewTalk EXCEPT !.status = "invited", !.from = p, !.to = q] \in TalkType
    BY DEF NewTalk, TalkType, Statuses
  <2>3. TalkTypes'
    BY <1>1, <2>1, <2>2 DEF StartTalk, TalkTypes, Fresh
  <2> QED
    BY <1>1, <2>3 DEF StartTalk, roomVars, audioVars, RoomTypes, AudioTypes, Handlers, AtWork, Departures
<1>2. ASSUME NEW t \in Talk, EndTalk(p, t) PROVE TypeInv'
  <2>1. t \in open /\ BeginEnding(t, Call("request", p, None))
    BY <1>2 DEF EndTalk
  <2>2. RoomTypes' /\ TalkTypes' /\ AudioTypes'
    BY <1>2, <2>1, BeginEndingTypes, CallIsCall DEF EndTalk, RoomTypes, CallKinds
  <2> QED
    BY <1>2, <2>2, PlainWaitStep DEF EndTalk, Departures
<1>3. ASSUME NEW t \in Talk, AcceptTalk(p, t) PROVE TypeInv'
  <2>1. CASE BeginEnding(t, Call("request", p, None)) /\ Await(p, "ending", NoWork)
    <3>1. RoomTypes' /\ TalkTypes' /\ AudioTypes'
      BY <1>3, <2>1, BeginEndingTypes, CallIsCall DEF AcceptTalk, RoomTypes, CallKinds
    <3> QED
      BY <1>3, <2>1, <3>1, PlainWaitStep DEF AcceptTalk, Departures
  <2>2. CASE ~(BeginEnding(t, Call("request", p, None)) /\ Await(p, "ending", NoWork))
    <3> DEFINE was  == [q \in Peer |-> ConversationHasPeer(t, q) /\ audioMuted[q]]
               mine == [talk[t] EXCEPT !.wasMuted = was, !.privateMuted = was]
               j    == NextMic(t, 1, 2)
               status == IF j <= 2 THEN "activating" ELSE "active"
    <3>1. /\ audioMuted' = [q \in Peer |-> audioMuted[q] \/ (Here(q) /\ q \in Sides(t, 1, j - 1))]
          /\ talk' = [talk EXCEPT ![t] = [mine EXCEPT !.status = status]]
          /\ IF j <= 2 THEN Await(p, "accepting", Work(t, j, 0, None)) ELSE UNCHANGED <<pc, work>>
          /\ UNCHANGED <<mic, open, ending, caller, audioVars>>
      BY <1>3, <2>2 DEF AcceptTalk
    <3>2. j \in {1, 2, 3}
      BY NextMicIsNext
    <3>3. was \in [Peer -> BOOLEAN]
      BY DEF RoomTypes, ConversationHasPeer
    <3> HIDE DEF j, was
    <3>4. mine \in TalkType
      BY <3>3 DEF TalkTypes, TalkType
    <3> HIDE DEF mine
    <3>5. [mine EXCEPT !.status = status] \in TalkType
      BY <3>4, WithStatusTypes DEF Statuses
    <3> HIDE DEF status
    <3>6. TalkTypes'
      BY <3>1, <3>5 DEF TalkTypes
    <3>7. Handlers'
      <4>1. CASE j <= 2
        BY <3>1, <3>2, <4>1, MicWaitStep
      <4>2. CASE ~(j <= 2)
        BY <3>1, <4>2 DEF Handlers, AtWork
      <4> QED
        BY <4>1, <4>2
    <3>8. RoomTypes' /\ AudioTypes' /\ Departures'
      BY <1>3, <3>1 DEF AcceptTalk, audioVars, RoomTypes, AudioTypes, Departures
    <3> QED
      BY <3>6, <3>7, <3>8
  <2> QED
    BY <2>1, <2>2
<1>4. CASE AcceptAnswered(p)
  <2> DEFINE t == work[p].talk
             k == work[p].step
             q == Side(t, k)
  <2>1. t \in Talk /\ k \in {1, 2}
    BY <1>4 DEF AcceptAnswered, Handlers, AtWork, WorkType, Talk
  <2>2. k + 1 \in {1, 2, 3} /\ k - 1 \in {0, 1, 2}
    BY <2>1
  <2>3. [audioMuted EXCEPT ![q] = TRUE] \in [Peer -> BOOLEAN] /\ audioMuted \in [Peer -> BOOLEAN]
    BY DEF RoomTypes
  <2>4. \/ PauseFrom(p, t, k + 1, [audioMuted EXCEPT ![q] = TRUE])
        \/ UndoFrom(p, t, 1, k - 1, audioMuted)
    BY <1>4 DEF AcceptAnswered
  <2>5. mic' = mic \/ mic' = [mic EXCEPT ![q] = "paused"]
    BY <1>4 DEF AcceptAnswered
  <2> HIDE DEF t, k, q
  <2>6. audioMuted' \in [Peer -> BOOLEAN] /\ talk' \in [Talk -> TalkType] /\ Handlers'
    <3>1. CASE PauseFrom(p, t, k + 1, [audioMuted EXCEPT ![q] = TRUE])
      BY <2>1, <2>2, <2>3, <3>1, PauseFromTypes
    <3>2. CASE UndoFrom(p, t, 1, k - 1, audioMuted)
      BY <2>1, <2>2, <2>3, <3>2, UndoFromTypes
    <3> QED
      BY <2>4, <3>1, <3>2
  <2>7. mic' \in [Peer -> AudioStates]
    BY <2>5 DEF RoomTypes, AudioStates
  <2> QED
    BY <1>4, <2>6, <2>7 DEF AcceptAnswered, audioVars, RoomTypes, TalkTypes, AudioTypes, Departures
<1>5. CASE UndoAnswered(p)
  <2> DEFINE t == work[p].talk
             k == work[p].step
             q == Side(t, k)
  <2>1. t \in Talk /\ k \in {1, 2} /\ work[p].last \in {0, 1, 2}
    BY <1>5 DEF UndoAnswered, Handlers, AtWork, WorkType, Talk
  <2>2. k + 1 \in {1, 2, 3} /\ audioMuted \in [Peer -> BOOLEAN]
    BY <2>1 DEF RoomTypes
  <2>3. UndoFrom(p, t, k + 1, work[p].last, audioMuted)
    BY <1>5 DEF UndoAnswered
  <2>4. mic' = mic \/ mic' = RestoredMic(t, q)
    BY <1>5 DEF UndoAnswered, Outcome
  <2> HIDE DEF t, k, q
  <2>5. audioMuted' \in [Peer -> BOOLEAN] /\ talk' \in [Talk -> TalkType] /\ Handlers'
    BY <2>1, <2>2, <2>3, UndoFromTypes
  <2>6. mic' \in [Peer -> AudioStates]
    BY <2>4 DEF RestoredMic, RoomTypes, AudioStates
  <2> QED
    BY <1>5, <2>5, <2>6 DEF UndoAnswered, audioVars, RoomTypes, TalkTypes, AudioTypes, Departures
<1> QED
  BY <1>1, <1>2, <1>3, <1>4, <1>5

\* The public microphones and the recording.
LEMMA MicTypes ==
    ASSUME TypeInv, NEW p \in Peer,
           \/ PublishMic(p) \/ PublishAnswered(p) \/ UnpublishMic(p) \/ UnpublishAnswered(p)
           \/ \E muted \in BOOLEAN : MuteStateChanged(p, muted)
           \/ \E q \in Peer : HostMutePeer(p, q)
           \/ SetRecording(p) \/ ForbidRecording(p)
    PROVE  TypeInv'
<1> USE DEF TypeInv
<1>1. CASE PublishMic(p) \/ UnpublishMic(p)
  <2>1. Handlers'
    BY <1>1, PlainWaitStep DEF PublishMic, UnpublishMic
  <2> QED
    BY <1>1, <2>1 DEF PublishMic, UnpublishMic, roomVars, talkVars, audioVars,
                      RoomTypes, TalkTypes, AudioTypes, Departures
<1>2. CASE PublishAnswered(p) \/ UnpublishAnswered(p)
  <2>1. Handlers'
    BY <1>2, ReturnStep DEF PublishAnswered, UnpublishAnswered
  <2>2. mic' \in [Peer -> AudioStates]
    BY <1>2 DEF PublishAnswered, UnpublishAnswered, Outcome, RoomTypes, AudioStates
  <2> QED
    BY <1>2, <2>1, <2>2 DEF PublishAnswered, UnpublishAnswered, talkVars, audioVars,
                            RoomTypes, TalkTypes, AudioTypes, Departures
<1>3. ASSUME \/ \E muted \in BOOLEAN : MuteStateChanged(p, muted)
             \/ \E q \in Peer : HostMutePeer(p, q)
      PROVE  TypeInv'
  <2>1. audioMuted' \in [Peer -> BOOLEAN]
    BY <1>3 DEF MuteStateChanged, HostMutePeer, RoomTypes
  <2> QED
    BY <1>3, <2>1 DEF MuteStateChanged, HostMutePeer, talkVars, audioVars,
                      RoomTypes, TalkTypes, AudioTypes, Handlers, AtWork, Departures
<1>4. CASE SetRecording(p) \/ ForbidRecording(p)
  BY <1>4 DEF SetRecording, ForbidRecording, talkVars, audioVars,
              RoomTypes, TalkTypes, AudioTypes, Handlers, AtWork, Departures
<1> QED
  BY <1>1, <1>2, <1>3, <1>4

\* Registering a producer keeps the types.
LEMMA RegisterTypes ==
    ASSUME AudioTypes, NEW p, NEW t, NEW state \in AudioStates, Register(p, t, state)
    PROVE  privateAudio' \in [Peer -> [Talk -> AudioStates]]
BY DEF Register, AudioTypes

\* Muting a peer in a conversation keeps its type.
LEMMA PrivateMutedTypes ==
    ASSUME NEW c \in TalkType, NEW p, NEW muted \in BOOLEAN
    PROVE  [c EXCEPT !.privateMuted[p] = muted] \in TalkType
BY DEF TalkType

\* A handler waiting on behalf of a conversation has one.
LEMMA AtWorkOnTalk ==
    ASSUME Handlers, NEW p \in Peer,
           pc[p] \in {"producing", "mutingNew", "muting", "closing", "consuming"}
    PROVE  work[p].talk \in Talk
BY PeerAssumption DEF Handlers, AtWork, WorkType, Talk

\* Publishing, muting and closing private audio, and listening to it.
LEMMA PrivateAudioTypes ==
    ASSUME TypeInv, NEW p \in Peer,
           \/ \E t \in Talk : ProducePrivate(p, t) \/ ClosePrivate(p, t)
           \/ \E q \in Peer : \E t \in Talk : ConsumePrivate(p, q, t)
           \/ \E t \in Talk : \E muted \in BOOLEAN : SetPrivateMuted(p, t, muted)
           \/ ProduceAnswered(p) \/ MutingNewAnswered(p) \/ MutingAnswered(p)
           \/ CloseAnswered(p) \/ ConsumeAnswered(p)
    PROVE  TypeInv'
<1> USE DEF TypeInv
<1> DEFINE u == work[p].talk
<1>1. ASSUME NEW t \in Talk, ProducePrivate(p, t) \/ ClosePrivate(p, t) PROVE TypeInv'
  <2>1. Handlers'
    BY <1>1, TalkWaitStep DEF ProducePrivate, ClosePrivate
  <2> QED
    BY <1>1, <2>1 DEF ProducePrivate, ClosePrivate, roomVars, talkVars, audioVars,
                      RoomTypes, TalkTypes, AudioTypes, Departures
<1>2. ASSUME NEW q \in Peer, NEW t \in Talk, ConsumePrivate(p, q, t) PROVE TypeInv'
  <2>1. Handlers'
    BY <1>2, TalkWaitStep DEF ConsumePrivate
  <2> QED
    BY <1>2, <2>1 DEF ConsumePrivate, roomVars, talkVars, audioVars,
                      RoomTypes, TalkTypes, AudioTypes, Departures
<1>3. ASSUME NEW t \in Talk, NEW muted \in BOOLEAN, SetPrivateMuted(p, t, muted) PROVE TypeInv'
  <2>1. CASE BeginEnding(t, Call("request", p, None)) /\ Await(p, "ending", NoWork)
    <3>1. RoomTypes' /\ TalkTypes' /\ AudioTypes'
      BY <1>3, <2>1, BeginEndingTypes, CallIsCall DEF SetPrivateMuted, IsActive, RoomTypes, CallKinds
    <3> QED
      BY <1>3, <2>1, <3>1, PlainWaitStep DEF SetPrivateMuted, Departures
  <2>2. CASE /\ talk' = [talk EXCEPT ![t].privateMuted[p] = muted]
             /\ IF privateAudio[p][t] = "none" THEN UNCHANGED <<pc, work>>
                ELSE Await(p, "muting", Work(t, 0, 0, None))
             /\ UNCHANGED <<audioMuted, mic, open, ending, caller, audioVars>>
    <3>1. [talk[t] EXCEPT !.privateMuted[p] = muted] \in TalkType
      BY PrivateMutedTypes DEF TalkTypes
    <3>2. TalkTypes'
      BY <2>2, <3>1 DEF TalkTypes
    <3>3. Handlers'
      <4>1. UNCHANGED <<pc, work>> => Handlers'
        BY DEF Handlers, AtWork
      <4> QED
        BY <2>2, <4>1, TalkWaitStep
    <3> QED
      BY <1>3, <2>2, <3>2, <3>3 DEF SetPrivateMuted, audioVars, RoomTypes, AudioTypes, Departures
  <2> QED
    BY <1>3, <2>1, <2>2 DEF SetPrivateMuted
<1>4. CASE ProduceAnswered(p)
  <2>1. u \in Talk
    BY <1>4, AtWorkOnTalk DEF ProduceAnswered
  <2>2. privateAudio' \in [Peer -> [Talk -> AudioStates]]
    BY <1>4, RegisterTypes DEF ProduceAnswered, AudioTypes, AudioStates
  <2>3. Handlers'
    <3>1. work[p] \in WorkType /\ work[p].talk # 0
      BY <1>4 DEF ProduceAnswered, Handlers, AtWork
    <3>2. Return(p) \/ Await(p, "mutingNew", work[p])
      BY <1>4 DEF ProduceAnswered
    <3> QED
      BY <3>1, <3>2, ReturnStep, AwaitStep DEF PcStates
  <2> QED
    BY <1>4, <2>2, <2>3 DEF ProduceAnswered, roomVars, talkVars,
                            RoomTypes, TalkTypes, AudioTypes, Departures
<1>5. CASE MutingNewAnswered(p)
  <2>1. privateAudio' \in [Peer -> [Talk -> AudioStates]]
    BY <1>5, RegisterTypes DEF MutingNewAnswered, AudioTypes, AudioStates
  <2> QED
    BY <1>5, <2>1, ReturnStep DEF MutingNewAnswered, roomVars, talkVars,
                                  RoomTypes, TalkTypes, AudioTypes, Departures
<1>6. CASE MutingAnswered(p)
  <2>1. privateAudio' \in [Peer -> [Talk -> AudioStates]]
    BY <1>6 DEF MutingAnswered, Outcome, AudioTypes, AudioStates
  <2> QED
    BY <1>6, <2>1, ReturnStep DEF MutingAnswered, roomVars, talkVars,
                                  RoomTypes, TalkTypes, AudioTypes, Departures
<1>7. CASE CloseAnswered(p)
  <2>1. [listeners EXCEPT ![p][u] = {}] \in [Peer -> [Talk -> SUBSET Peer]]
    BY ListenersTypes DEF AudioTypes
  <2>2. [privateAudio EXCEPT ![p][u] = "none"] \in [Peer -> [Talk -> AudioStates]]
    BY DEF AudioTypes, AudioStates
  <2>3. AudioTypes'
    BY <1>7, <2>1, <2>2 DEF CloseAnswered, audioVars, AudioTypes
  <2> QED
    BY <1>7, <2>3, ReturnStep DEF CloseAnswered, roomVars, talkVars, RoomTypes, TalkTypes, Departures
<1>8. CASE ConsumeAnswered(p)
  <2> DEFINE q == work[p].of
             more == [listeners EXCEPT ![q][u] = @ \cup {p}]
  <2>1. more \in [Peer -> [Talk -> SUBSET Peer]]
    <3>1. CASE q \in Peer /\ u \in Talk
      <4>1. listeners[q][u] \cup {p} \in SUBSET Peer
        BY <3>1 DEF AudioTypes
      <4>2. more = [listeners EXCEPT ![q][u] = listeners[q][u] \cup {p}]
        OBVIOUS
      <4> QED
        BY <4>1, <4>2, ListenersTypes DEF AudioTypes
    <3>2. CASE q \notin Peer
      BY <3>2 DEF AudioTypes
    <3>3. u \in Talk
      BY <1>8, AtWorkOnTalk DEF ConsumeAnswered
    <3> QED
      BY <3>1, <3>2, <3>3
  <2>2. listeners' = listeners \/ listeners' = more
    BY <1>8 DEF ConsumeAnswered, Outcome
  <2> HIDE DEF more
  <2>3. AudioTypes'
    BY <1>8, <2>1, <2>2 DEF ConsumeAnswered, AudioTypes
  <2> QED
    BY <1>8, <2>3, ReturnStep DEF ConsumeAnswered, roomVars, talkVars, RoomTypes, TalkTypes, Departures
<1> QED
  BY <1>1, <1>2, <1>3, <1>4, <1>5, <1>6, <1>7, <1>8

\* Every step keeps the types.
LEMMA TypeStep == TypeInv /\ [Next]_vars => TypeInv'
<1> SUFFICES ASSUME TypeInv, [Next]_vars PROVE TypeInv'
  OBVIOUS
<1>1. CASE UNCHANGED vars
  BY <1>1 DEF vars, roomVars, talkVars, audioVars, TypeInv,
              RoomTypes, TalkTypes, AudioTypes, Handlers, AtWork, Departures
<1>2. CASE \E t \in Talk : Continue(t) \/ EndingAnswered(t) \/ TimeLimit(t)
  BY <1>2, EndingTypes DEF Continue
<1>3. ASSUME NEW p \in Peer, Answers(p) PROVE TypeInv'
  BY <1>3, PeopleTypes, TalkingTypes, MicTypes, PrivateAudioTypes DEF Answers
<1>4. ASSUME NEW p \in Peer, Requests(p) PROVE TypeInv'
  BY <1>4, PeopleTypes, TalkingTypes, MicTypes, PrivateAudioTypes DEF Requests
<1> QED
  BY <1>1, <1>2, <1>3, <1>4 DEF Next

\* Every variable of the conversation handlers keeps its type, whatever calls
\* fail and whoever leaves while they are out.
THEOREM TypeCorrect == Spec => []TypeOK
<1>1. TypeInv /\ [][Next]_vars => []TypeInv
  BY TypeStep, PTL
<1> QED
  BY <1>1, InitTypes, TypesFollow, PTL DEF Spec

-----------------------------------------------------------------------------
(* One conversation for each peer *)

\* A step that starts no conversation: conversations only leave the map, their
\* pair stays, and none becomes one that was never started.
SameTalks ==
    /\ open' \subseteq open
    /\ \A t \in open : /\ talk'[t].from = talk[t].from /\ talk'[t].to = talk[t].to
                       /\ talk[t].status # "new" => talk'[t].status # "new"

\* Such a step keeps pairs apart that were apart.
LEMMA SameTalksStep ==
    ASSUME Started, OneTalkEach, SameTalks
    PROVE  Started' /\ OneTalkEach'
BY DEF Started, OneTalkEach, SameTalks

\* Ending a conversation takes one out and touches no other.
LEMMA BeginEndingSame ==
    ASSUME NEW t, NEW c, BeginEnding(t, c)
    PROVE  SameTalks
BY DEF BeginEnding, SameTalks

\* A step that touches no conversation starts none.
LEMMA UnchangedSame ==
    ASSUME UNCHANGED <<open, talk>>
    PROVE  SameTalks
BY DEF SameTalks

\* Setting the status of a conversation, to anything but "new".
LEMMA StatusSame ==
    ASSUME TypeInv, NEW t, NEW s \in Statuses \ {"new"}, open' \subseteq open,
           talk' = [talk EXCEPT ![t].status = s]
    PROVE  SameTalks
BY DEF SameTalks, TypeInv, TalkTypes, TalkType

\* Undoing an acceptance at most makes the conversation an invitation again.
LEMMA UndoFromSame ==
    ASSUME TypeInv, NEW p, NEW t, NEW k, NEW n, NEW muted, UndoFrom(p, t, k, n, muted),
           UNCHANGED open
    PROVE  SameTalks
<1>1. UNCHANGED talk \/ talk' = [talk EXCEPT ![t].status = "invited"]
  BY DEF UndoFrom
<1> QED
  BY <1>1, UnchangedSame, StatusSame DEF Statuses

\* Going on with an acceptance at most makes the conversation active.
LEMMA PauseFromSame ==
    ASSUME TypeInv, NEW p, NEW t, NEW k, NEW muted, PauseFrom(p, t, k, muted), UNCHANGED open
    PROVE  SameTalks
<1>1. \/ UNCHANGED talk \/ talk' = [talk EXCEPT ![t].status = "active"]
      \/ \E now : UndoFrom(p, t, 1, 2, now)
  BY DEF PauseFrom
<1> QED
  BY <1>1, UnchangedSame, StatusSame, UndoFromSame DEF Statuses

\* Accepting an invitation starts no conversation.
LEMMA AcceptTalkSame ==
    ASSUME TypeInv, NEW p \in Peer, NEW t \in Talk, AcceptTalk(p, t)
    PROVE  SameTalks
<1>1. CASE BeginEnding(t, Call("request", p, None))
  BY <1>1, BeginEndingSame
<1>2. CASE ~BeginEnding(t, Call("request", p, None))
  <2> DEFINE was  == [q \in Peer |-> ConversationHasPeer(t, q) /\ audioMuted[q]]
             mine == [talk[t] EXCEPT !.wasMuted = was, !.privateMuted = was]
             s    == IF NextMic(t, 1, 2) <= 2 THEN "activating" ELSE "active"
  <2>1. UNCHANGED open /\ talk' = [talk EXCEPT ![t] = [mine EXCEPT !.status = s]]
    BY <1>2 DEF AcceptTalk
  <2>2. s # "new"
    OBVIOUS
  <2> HIDE DEF was, s
  <2> QED
    BY <2>1, <2>2 DEF SameTalks, TypeInv, TalkTypes, TalkType
<1> QED
  BY <1>1, <1>2

\* Only starting a conversation adds one.
LEMMA OthersSame ==
    ASSUME TypeInv, Next
    PROVE  SameTalks \/ \E p, q \in Peer : StartTalk(p, q)
<1>1. ASSUME NEW t \in Talk, Continue(t) \/ EndingAnswered(t) \/ TimeLimit(t)
      PROVE  SameTalks
  BY <1>1, BeginEndingSame, UnchangedSame
     DEF Continue, Resume, EndNextTalk, EndingAnswered, TimeLimit, SameTalks
<1>2. ASSUME NEW p \in Peer,
             \/ \E q \in Peer : KickPeer(p, q)
             \/ \E q \in Peer : \E r \in {"co-host", "member"} : ChangeRole(p, q, r)
             \/ EndMeeting(p) \/ Depart(p)
             \/ \E t \in Talk : EndTalk(p, t)
      PROVE  SameTalks
  BY <1>2, BeginEndingSame, UnchangedSame DEF KickPeer, ChangeRole, EndMeeting, Depart, EndTalk, talkVars
<1>3. ASSUME NEW p \in Peer, NEW t \in Talk, NEW muted \in BOOLEAN, SetPrivateMuted(p, t, muted)
      PROVE  SameTalks
  <2>1. CASE BeginEnding(t, Call("request", p, None))
    BY <2>1, BeginEndingSame
  <2>2. CASE UNCHANGED open /\ talk' = [talk EXCEPT ![t].privateMuted[p] = muted]
    BY <2>2 DEF SameTalks, TypeInv, TalkTypes, TalkType
  <2> QED
    BY <1>3, <2>1, <2>2 DEF SetPrivateMuted
<1>4. ASSUME NEW p \in Peer, AcceptAnswered(p) \/ UndoAnswered(p)
      PROVE  SameTalks
  BY <1>4, PauseFromSame, UndoFromSame DEF AcceptAnswered, UndoAnswered
<1>5. ASSUME NEW p \in Peer,
             \/ KickAnswered(p) \/ ClearAnswered(p) \/ DepartAnswered(p)
             \/ PublishMic(p) \/ PublishAnswered(p) \/ UnpublishMic(p) \/ UnpublishAnswered(p)
             \/ \E muted \in BOOLEAN : MuteStateChanged(p, muted)
             \/ \E q \in Peer : HostMutePeer(p, q)
             \/ SetRecording(p) \/ ForbidRecording(p)
      PROVE  SameTalks
  BY <1>5, UnchangedSame
     DEF KickAnswered, ClearAnswered, DepartAnswered, PublishMic, PublishAnswered, UnpublishMic,
         UnpublishAnswered, MuteStateChanged, HostMutePeer, SetRecording, ForbidRecording, talkVars
<1>6. ASSUME NEW p \in Peer,
             \/ \E t \in Talk : ProducePrivate(p, t) \/ ClosePrivate(p, t)
             \/ \E q \in Peer : \E t \in Talk : ConsumePrivate(p, q, t)
             \/ ProduceAnswered(p) \/ MutingNewAnswered(p) \/ MutingAnswered(p)
             \/ CloseAnswered(p) \/ ConsumeAnswered(p)
      PROVE  SameTalks
  BY <1>6, UnchangedSame
     DEF ProducePrivate, ClosePrivate, ConsumePrivate, ProduceAnswered, MutingNewAnswered,
         MutingAnswered, CloseAnswered, ConsumeAnswered, talkVars
<1> QED
  BY <1>1, <1>2, <1>3, <1>4, <1>5, <1>6, AcceptTalkSame DEF Next, Answers, Requests

\* A conversation that starts has a pair that is in none, and one that starts
\* was not in the map before.
LEMMA StartTalkStep ==
    ASSUME IInv, NEW p \in Peer, NEW q \in Peer, StartTalk(p, q)
    PROVE  Started' /\ OneTalkEach'
<1>1. PICK t \in Fresh :
        /\ talk' = [talk EXCEPT ![t] = [NewTalk EXCEPT !.status = "invited", !.from = p, !.to = q]]
        /\ open' = open \cup {t}
  BY DEF StartTalk
<1>2. t \in Talk /\ t \notin open
  BY DEF Fresh, IInv, Started
<1>3. /\ talk'[t].status = "invited" /\ talk'[t].from = p /\ talk'[t].to = q
      /\ \A u \in open : talk'[u] = talk[u]
  BY <1>1, <1>2 DEF NewTalk, IInv, TypeInv, TalkTypes
<1>4. \A u \in open : {talk[u].from, talk[u].to} \cap {p, q} = {}
  BY DEF StartTalk, MayStart, ConversationHasPeer
<1>5. Started'
  BY <1>1, <1>3 DEF Started, IInv
<1>6. OneTalkEach'
  BY <1>1, <1>2, <1>3, <1>4 DEF OneTalkEach, IInv
<1> QED
  BY <1>5, <1>6

\* No conversation was started initially.
LEMMA InvInit == Init => IInv
BY InitTypes DEF Init, IInv, Started, OneTalkEach

\* Every step keeps the types and the pairs apart.
LEMMA InvStep == IInv /\ [Next]_vars => IInv'
<1> SUFFICES ASSUME IInv, [Next]_vars PROVE IInv'
  OBVIOUS
<1>1. TypeInv'
  BY TypeStep DEF IInv
<1>2. Started' /\ OneTalkEach'
  <2>1. CASE UNCHANGED vars
    BY <2>1, UnchangedSame, SameTalksStep DEF vars, talkVars, IInv
  <2>2. CASE Next
    BY <2>2, OthersSame, SameTalksStep, StartTalkStep DEF IInv
  <2> QED
    BY <2>1, <2>2
<1> QED
  BY <1>1, <1>2 DEF IInv

\* Nobody is in two private conversations, for any number of peers and
\* conversations and every order of invitations, acceptances and departures.
THEOREM OneTalkEachAlways == Spec => []OneTalkEach
<1>1. IInv => OneTalkEach
  BY DEF IInv
<1>2. IInv /\ [][Next]_vars => []IInv
  BY InvStep, PTL
<1> QED
  BY <1>1, <1>2, InvInit, PTL DEF Spec

-----------------------------------------------------------------------------
(* Private audio *)

\* A conversation that was started is between two peers; one that was not is
\* between nobody, and nothing ends it.
Pairs == \A t \in Talk :
    /\ talk[t].status = "new" => talk[t].from = None /\ talk[t].to = None /\ ending[t] = 0
    /\ talk[t].status # "new" => talk[t].from # talk[t].to

\* Whoever waits to publish or mute private audio belongs to its conversation,
\* and whoever waits to listen is the other one of the pair.
AudioWork == {"producing", "mutingNew", "muting", "consuming"}
OnItsTalk(p) ==
    /\ pc[p] \in {"producing", "mutingNew", "muting"}
          => talk[work[p].talk].status # "new" /\ ConversationHasPeer(work[p].talk, p)
    /\ pc[p] = "consuming"
          => /\ talk[work[p].talk].status # "new" /\ p # work[p].of
             /\ {p, work[p].of} = {talk[work[p].talk].from, talk[work[p].talk].to}
OnTalk == \A p \in Peer : OnItsTalk(p)

\* Private audio that is live, or that a request under way may make live.
Audible(p, t) == \/ privateAudio[p][t] = "live"
                 \/ pc[p] = "muting" /\ work[p].talk = t /\ privateAudio[p][t] # "none"

\* The end of the conversation has not yet passed the private audio of p.
StillToClose(p, t) == ending[t] \in Calls /\ \E k \in {1, 3} : ending[t] <= k /\ Side(t, SideOf(k)) = p

\* Such audio is of a peer in the room, in a conversation of theirs that is on,
\* or whose end will close it.
Reached == \A p \in Peer, t \in Talk :
    Audible(p, t) => Here(p) /\ ConversationHasPeer(t, p) /\ (t \in open \/ StillToClose(p, t))

SoundInv == Pairs /\ OnTalk /\ Reached /\ OnlyPairListens

\* Least finds the least element.
LEMMA LeastIsLeast ==
    ASSUME NEW S \in SUBSET (1..4), NEW x \in S
    PROVE  Least(S, 5) \in S /\ Least(S, 5) <= x
<1>1. \E m \in S : \A y \in S : m <= y
  <2>1. \A y \in S : y \in {1, 2, 3, 4}
    OBVIOUS
  <2>2. CASE 1 \in S
    BY <2>1, <2>2
  <2>3. CASE 1 \notin S /\ 2 \in S
    BY <2>1, <2>3
  <2>4. CASE 1 \notin S /\ 2 \notin S /\ 3 \in S
    BY <2>1, <2>4
  <2>5. CASE 1 \notin S /\ 2 \notin S /\ 3 \notin S
    BY <2>1, <2>5
  <2> QED
    BY <2>2, <2>3, <2>4, <2>5
<1>2. Least(S, 5) = CHOOSE m \in S : \A y \in S : m <= y
  BY DEF Least
<1> QED
  BY <1>1, <1>2

\* Going on with an end never passes private audio that is there.
LEMMA NotPassed ==
    ASSUME TypeInv, NEW t \in Talk, NEW i \in 1..5, GoOnEnding(t, i),
           NEW p \in Peer, NEW k \in {1, 3}, i <= k, Side(t, SideOf(k)) = p,
           Here(p), privateAudio[p][t] # "none"
    PROVE  ending'[t] \in Calls /\ ending'[t] <= k
<1> DEFINE S == {n \in i..4 : Called(t, n)}
<1>1. Called(t, k)
  BY DEF Called
<1>2. k \in S /\ S \in SUBSET (1..4)
  BY <1>1
<1>3. ending'[t] = Least(S, 5)
  BY DEF GoOnEnding, TypeInv, TalkTypes
<1> HIDE DEF S
<1>4. Least(S, 5) \in S /\ Least(S, 5) <= k
  BY <1>2, LeastIsLeast
<1> QED
  BY <1>2, <1>3, <1>4 DEF Calls

\* A step that leaves pairs alone,
SamePairs == \A t \in Talk :
    /\ talk'[t].from = talk[t].from /\ talk'[t].to = talk[t].to
    /\ talk'[t].status = "new" <=> talk[t].status = "new"
\* and one after which nobody newly waits for private audio.
SameWork == \A p \in Peer : pc'[p] \in AudioWork => pc'[p] = pc[p] /\ work'[p] = work[p]

\* Conversations nobody touches keep their pairs.
LEMMA TalkUnchanged == UNCHANGED talk => SamePairs
BY DEF SamePairs

\* Waiting for something that is not about private audio.
LEMMA OtherWait ==
    ASSUME TypeInv, NEW p, NEW label, label \notin AudioWork, NEW w, Await(p, label, w)
    PROVE  SameWork
BY DEF TypeInv, Handlers, Await, SameWork

\* A handler that is through waits for none,
LEMMA ReturnWork == ASSUME TypeInv, NEW p, Return(p) PROVE SameWork
BY OtherWait DEF Return, AudioWork

\* and where no handler moves none waits for more.
LEMMA WorkUnchanged == UNCHANGED <<pc, work>> => SameWork
BY DEF SameWork

\* Who waits on behalf of a conversation goes on doing so.
LEMMA OnTalkKept ==
    ASSUME TypeInv, OnTalk, SamePairs, NEW p \in Peer, pc'[p] = pc[p], work'[p] = work[p]
    PROVE  OnItsTalk(p)'
<1>1. pc[p] \in AudioWork => work[p].talk \in Talk
  BY AtWorkOnTalk DEF TypeInv, AudioWork
<1>2. pc[p] \in AudioWork => /\ talk'[work[p].talk].from = talk[work[p].talk].from
                             /\ talk'[work[p].talk].to = talk[work[p].talk].to
                             /\ talk'[work[p].talk].status = "new" <=> talk[work[p].talk].status = "new"
  BY <1>1 DEF SamePairs
<1> QED
  BY <1>2 DEF OnTalk, OnItsTalk, ConversationHasPeer, AudioWork

\* So who waits for private audio still belongs to its conversation.
LEMMA SameWorkOnTalk ==
    ASSUME TypeInv, OnTalk, SamePairs, SameWork
    PROVE  OnTalk'
BY OnTalkKept DEF OnTalk, OnItsTalk, SameWork, AudioWork

\* Fewer listeners are still the pair's.
LEMMA FewerListeners ==
    ASSUME Pairs, OnlyPairListens, SamePairs,
           \A p \in Peer, t \in Talk : listeners'[p][t] \subseteq listeners[p][t]
    PROVE  OnlyPairListens'
<1> SUFFICES ASSUME NEW p \in Peer, NEW t \in Talk, listeners'[p][t] # {}
             PROVE  /\ p \in {talk[t].from, talk[t].to}
                    /\ listeners'[p][t] = {talk[t].from, talk[t].to} \ {p}
  BY DEF OnlyPairListens, ConversationHasPeer, SamePairs
<1>1. /\ p \in {talk[t].from, talk[t].to}
      /\ listeners[p][t] = {talk[t].from, talk[t].to} \ {p}
  BY DEF OnlyPairListens, ConversationHasPeer
<1>2. talk[t].from # talk[t].to
  BY <1>1, PeerAssumption DEF Pairs
<1> QED
  BY <1>1, <1>2

\* A step that ends nothing, and after which there is no more audio than before.
Quieter ==
    /\ SamePairs /\ SameWork /\ UNCHANGED <<open, ending>>
    /\ \A p \in Peer, t \in Talk : /\ listeners'[p][t] \subseteq listeners[p][t]
                                   /\ privateAudio'[p][t] \in {privateAudio[p][t], "none"}
    /\ \A p \in Peer : Here(p) => role'[p] # "none" \/ \A t \in Talk : privateAudio'[p][t] = "none"

\* Less audio in the same conversations is in order when more was.
LEMMA QuieterStep ==
    ASSUME IInv, SoundInv, Quieter
    PROVE  SoundInv'
<1> USE DEF SoundInv
<1>1. Pairs'
  BY DEF Pairs, Quieter, SamePairs
<1>2. OnTalk'
  BY SameWorkOnTalk DEF IInv, Quieter
<1>3. OnlyPairListens'
  BY FewerListeners DEF Quieter
<1>4. ASSUME NEW p \in Peer, NEW t \in Talk, Audible(p, t)'
      PROVE  Here(p)' /\ ConversationHasPeer(t, p)' /\ (t \in open' \/ StillToClose(p, t)')
  <2>1. Audible(p, t)
    BY <1>4 DEF Quieter, Audible, SameWork, AudioWork
  <2>2. Here(p) /\ ConversationHasPeer(t, p) /\ (t \in open \/ StillToClose(p, t))
    BY <2>1 DEF Reached
  <2>3. Here(p)'
    BY <1>4, <2>2 DEF Quieter, Audible, Here
  <2> QED
    BY <2>2, <2>3 DEF Quieter, SamePairs, ConversationHasPeer, StillToClose, Side
<1> QED
  BY <1>1, <1>2, <1>3, <1>4 DEF Reached

\* Ending a conversation: what is audible in it is closed by one of the calls
\* to come.
EndsOne(t) ==
    /\ t \in open /\ open' = open \ {t} /\ GoOnEnding(t, 1)
    /\ SameWork /\ UNCHANGED <<role, talk, audioVars>>

\* The calls that lie ahead close what is audible.
LEMMA EndsOneStep ==
    ASSUME IInv, SoundInv, NEW t \in Talk, EndsOne(t)
    PROVE  SoundInv'
<1> USE DEF SoundInv
<1>1. /\ UNCHANGED <<role, talk, privateAudio, listeners>> /\ GoOnEnding(t, 1)
      /\ talk[t].status # "new" /\ \A u \in Talk \ {t} : ending'[u] = ending[u]
  BY DEF EndsOne, audioVars, GoOnEnding, IInv, Started, TypeInv, TalkTypes
<1>2. Pairs'
  BY <1>1 DEF Pairs
<1>3. OnTalk'
  BY <1>1, TalkUnchanged, SameWorkOnTalk DEF IInv, EndsOne
<1>4. OnlyPairListens'
  BY <1>1 DEF OnlyPairListens, ConversationHasPeer
<1>5. ASSUME NEW p \in Peer, NEW u \in Talk, Audible(p, u)'
      PROVE  Here(p)' /\ ConversationHasPeer(u, p)' /\ (u \in open' \/ StillToClose(p, u)')
  <2>1. Audible(p, u)
    BY <1>1, <1>5 DEF EndsOne, Audible, SameWork, AudioWork
  <2>2. Here(p) /\ ConversationHasPeer(u, p) /\ (u \in open \/ StillToClose(p, u))
    BY <2>1 DEF Reached
  <2>3. Here(p)' /\ ConversationHasPeer(u, p)'
    BY <1>1, <2>2 DEF Here, ConversationHasPeer
  <2>4. CASE u # t
    BY <1>1, <2>2, <2>3, <2>4 DEF EndsOne, StillToClose, Side
  <2>5. CASE u = t
    <3>1. PICK k \in {1, 3} : Side(t, SideOf(k)) = p
      BY <2>2, <2>5 DEF ConversationHasPeer, Side, SideOf
    <3>2. privateAudio[p][t] # "none"
      BY <2>1, <2>5 DEF Audible
    <3>3. ending'[t] \in Calls /\ ending'[t] <= k
      BY <1>1, <2>2, <3>1, <3>2, NotPassed DEF IInv
    <3>4. Side(t, SideOf(k))' = p
      BY <1>1, <3>1 DEF Side
    <3> QED
      BY <2>3, <2>5, <3>3, <3>4 DEF StillToClose
  <2> QED
    BY <2>4, <2>5
<1> QED
  BY <1>2, <1>3, <1>4, <1>5 DEF Reached

\* An end goes on: its call closed one side's audio, or was about a microphone.
LEMMA EndingAnsweredStep ==
    ASSUME IInv, SoundInv, NEW t \in Talk, EndingAnswered(t)
    PROVE  SoundInv'
<1> USE DEF SoundInv
<1> DEFINE i == ending[t]
           s == Side(t, SideOf(i))
<1>1. /\ i \in Calls /\ GoOnEnding(t, i + 1) /\ i + 1 \in 1..5
      /\ UNCHANGED <<role, open, talk, pc, work>> /\ \A u \in Talk \ {t} : ending'[u] = ending[u]
  BY DEF EndingAnswered, Calls, GoOnEnding, IInv, TypeInv, TalkTypes
<1>2. /\ privateAudio' = IF i \in {1, 3} THEN [privateAudio EXCEPT ![s][t] = "none"] ELSE privateAudio
      /\ listeners' = listeners \/ listeners' = [listeners EXCEPT ![s][t] = {}]
  BY DEF EndingAnswered, Outcome
<1>3. Pairs'
  BY <1>1 DEF Pairs, Calls
<1>4. OnTalk'
  BY <1>1, TalkUnchanged, WorkUnchanged, SameWorkOnTalk DEF IInv
<1>5. OnlyPairListens'
  <2>1. \A p \in Peer, u \in Talk : listeners'[p][u] \subseteq listeners[p][u]
    BY <1>2 DEF IInv, TypeInv, AudioTypes
  <2> QED
    BY <1>1, <2>1, TalkUnchanged, FewerListeners
<1>6. ASSUME NEW p \in Peer, NEW u \in Talk, Audible(p, u)'
      PROVE  Here(p)' /\ ConversationHasPeer(u, p)' /\ (u \in open' \/ StillToClose(p, u)')
  <2>0. privateAudio'[p][u] # "none"
    BY <1>6 DEF Audible
  <2>1. privateAudio'[p][u] = privateAudio[p][u] /\ ~(i \in {1, 3} /\ p = s /\ u = t)
    BY <1>2, <2>0 DEF IInv, TypeInv, AudioTypes
  <2>2. Audible(p, u)
    BY <1>1, <1>6, <2>1 DEF Audible
  <2>3. Here(p) /\ ConversationHasPeer(u, p) /\ (u \in open \/ StillToClose(p, u))
    BY <2>2 DEF Reached
  <2>4. Here(p)' /\ ConversationHasPeer(u, p)'
    BY <1>1, <2>3 DEF Here, ConversationHasPeer
  <2>5. CASE u # t \/ u \in open
    BY <1>1, <2>3, <2>4, <2>5 DEF StillToClose, Side
  <2>6. CASE u = t /\ u \notin open
    <3>1. PICK k \in {1, 3} : i <= k /\ Side(t, SideOf(k)) = p
      BY <2>3, <2>6 DEF StillToClose
    <3>2. i + 1 <= k
      BY <1>1, <2>1, <2>6, <3>1 DEF Calls
    <3>3. ending'[t] \in Calls /\ ending'[t] <= k
      BY <1>1, <2>0, <2>1, <2>3, <2>6, <3>1, <3>2, NotPassed DEF IInv
    <3>4. Side(t, SideOf(k))' = p
      BY <1>1, <3>1 DEF Side
    <3> QED
      BY <2>4, <2>6, <3>3, <3>4 DEF StillToClose
  <2> QED
    BY <2>5, <2>6
<1> QED
  BY <1>3, <1>4, <1>5, <1>6 DEF Reached

\* A step that touches neither the private audio nor who is in the room.
LEMMA AudioSame ==
    ASSUME SamePairs, SameWork, UNCHANGED <<open, ending, audioVars>>,
           \A p \in Peer : Here(p) => role'[p] # "none"
    PROVE  Quieter
BY DEF Quieter, audioVars

\* Who keeps its role stays.
LEMMA RoleSame == UNCHANGED role => \A p \in Peer : Here(p) => role'[p] # "none"
BY DEF Here

\* Beginning the end of a conversation, whoever asks for it.
LEMMA BeginEndingSound ==
    ASSUME IInv, SoundInv, NEW t \in open, NEW c, BeginEnding(t, c), SameWork, UNCHANGED role
    PROVE  SoundInv'
<1>1. EndsOne(t)
  BY DEF BeginEnding, EndsOne, audioVars
<1> QED
  BY <1>1, EndsOneStep DEF IInv, TypeInv, TalkTypes

\* Waiting for what is not about private audio.
LEMMA WaitWork ==
    ASSUME TypeInv, NEW p, NEW w,
           NEW label \in {"idle", "ending", "accepting", "undoing", "publishing", "unpublishing",
                          "closing", "kicking", "clearing"},
           Await(p, label, w)
    PROVE  SameWork
BY OtherWait DEF AudioWork

\* removePeer takes the private audio of who leaves.
LEMMA RemovePeerQuieter ==
    ASSUME TypeInv, NEW q, RemovePeer(q), SameWork, UNCHANGED <<open, talk, ending>>
    PROVE  Quieter
<1>1. \A p \in Peer, t \in Talk : /\ listeners'[p][t] \subseteq listeners[p][t]
                                  /\ privateAudio'[p][t] \in {privateAudio[p][t], "none"}
  BY DEF RemovePeer, TypeInv, AudioTypes
<1>2. ASSUME NEW p \in Peer, Here(p) PROVE role'[p] # "none" \/ \A t \in Talk : privateAudio'[p][t] = "none"
  <2>1. CASE p = q
    BY <2>1 DEF RemovePeer, TypeInv, AudioTypes
  <2>2. CASE p # q
    BY <1>2, <2>2 DEF RemovePeer, TypeInv, RoomTypes, Here
  <2> QED
    BY <2>1, <2>2
<1> QED
  BY <1>1, <1>2, TalkUnchanged DEF Quieter

\* The callers of an end go on.
LEMMA ContinueSound ==
    ASSUME IInv, SoundInv, NEW t \in Talk, Continue(t)
    PROVE  SoundInv'
<1> DEFINE by == caller[t].by
           of == caller[t].of
<1>1. CASE Resume(t)
  <2>1. SamePairs /\ UNCHANGED <<open, ending, audioVars>>
    BY <1>1, TalkUnchanged DEF Resume
  <2>2. SameWork
    <3>1. \/ Return(by) \/ UNCHANGED <<pc, work>> \/ Await(by, "kicking", Work(0, 0, 0, of))
          \/ Await(by, "clearing", NoWork)
      BY <1>1 DEF Resume
    <3> QED
      BY <3>1, ReturnWork, WorkUnchanged, WaitWork DEF IInv
  <2>3. \A p \in Peer : Here(p) => role'[p] # "none"
    <3>1. UNCHANGED role \/ role' = [role EXCEPT ![of] = "member"]
      BY <1>1 DEF Resume, ChangePeerRole
    <3> QED
      BY <3>1 DEF Here, IInv, TypeInv, RoomTypes
  <2> QED
    BY <2>1, <2>2, <2>3, AudioSame, QuieterStep
<1>2. CASE EndNextTalk(t)
  <2>1. PICK u \in LeftToEnd(t) : open' = open \ {u} /\ GoOnEnding(u, 1)
    BY <1>2 DEF EndNextTalk
  <2>2. u \in Talk /\ EndsOne(u)
    BY <1>2, <2>1, WorkUnchanged DEF EndNextTalk, LeftToEnd, EndsOne, IInv, TypeInv, TalkTypes
  <2> QED
    BY <2>2, EndsOneStep
<1> QED
  BY <1>1, <1>2 DEF Continue

\* Kicks, roles, the end of the meeting and departures.
LEMMA PeopleSound ==
    ASSUME IInv, SoundInv, NEW p \in Peer,
           \/ \E q \in Peer : \/ KickPeer(p, q)
                              \/ \E r \in {"co-host", "member"} : ChangeRole(p, q, r)
           \/ KickAnswered(p) \/ EndMeeting(p) \/ ClearAnswered(p)
           \/ Depart(p) \/ DepartAnswered(p)
    PROVE  SoundInv'
<1> USE DEF IInv
<1>1. ASSUME NEW q \in Peer, KickPeer(p, q) PROVE SoundInv'
  <2>1. SameWork
    BY <1>1, WaitWork DEF KickPeer
  <2>2. CASE \E t \in open : BeginEnding(t, Call("kick", p, q))
    BY <1>1, <2>1, <2>2, BeginEndingSound DEF KickPeer
  <2>3. CASE UNCHANGED <<talkVars, audioVars>>
    BY <1>1, <2>1, <2>3, TalkUnchanged, RoleSame, AudioSame, QuieterStep DEF KickPeer, talkVars
  <2> QED
    BY <1>1, <2>2, <2>3 DEF KickPeer
<1>2. ASSUME NEW q \in Peer, NEW r \in {"co-host", "member"}, ChangeRole(p, q, r) PROVE SoundInv'
  <2>1. CASE \E t \in open : /\ BeginEnding(t, Call("demote", p, q)) /\ Await(p, "ending", NoWork)
                             /\ UNCHANGED <<role, recording>>
    BY <2>1, WaitWork, BeginEndingSound
  <2>2. CASE ChangePeerRole(q, r) /\ UNCHANGED <<talkVars, audioVars, pc, work>>
    <3>1. \A n \in Peer : Here(n) => role'[n] # "none"
      BY <2>2 DEF ChangePeerRole, Here, TypeInv, RoomTypes
    <3> QED
      BY <2>2, <3>1, TalkUnchanged, WorkUnchanged, AudioSame, QuieterStep DEF talkVars
  <2> QED
    BY <1>2, <2>1, <2>2 DEF ChangeRole
<1>3. CASE KickAnswered(p)
  BY <1>3, ReturnWork, RemovePeerQuieter, QuieterStep DEF KickAnswered, talkVars
<1>4. CASE EndMeeting(p)
  <2>1. SameWork
    BY <1>4, WaitWork DEF EndMeeting
  <2>2. CASE \E t \in open, c \in {[Call("endMeeting", p, None) EXCEPT !.todo = S] : S \in SUBSET Talk} :
                BeginEnding(t, c)
    BY <1>4, <2>1, <2>2, BeginEndingSound DEF EndMeeting
  <2>3. CASE UNCHANGED <<talkVars, audioVars>>
    BY <1>4, <2>1, <2>3, TalkUnchanged, RoleSame, AudioSame, QuieterStep DEF EndMeeting, talkVars
  <2> QED
    BY <1>4, <2>2, <2>3 DEF EndMeeting, TypeInv, TalkTypes
<1>5. CASE ClearAnswered(p)
  <2>1. SameWork /\ SamePairs
    BY <1>5, ReturnWork, TalkUnchanged DEF ClearAnswered, talkVars
  <2>2. \A q \in Peer, t \in Talk : listeners'[q][t] = {} /\ privateAudio'[q][t] = "none"
    BY <1>5 DEF ClearAnswered
  <2> QED
    BY <1>5, <2>1, <2>2, QuieterStep DEF ClearAnswered, talkVars, Quieter
<1>6. CASE Depart(p)
  <2>1. SameWork
    BY <1>6, WorkUnchanged DEF Depart
  <2>2. CASE \E t \in open : BeginEnding(t, Call("departure", p, None))
    BY <1>6, <2>1, <2>2, BeginEndingSound DEF Depart
  <2>3. CASE UNCHANGED <<talkVars, audioVars>>
    BY <1>6, <2>1, <2>3, TalkUnchanged, RoleSame, AudioSame, QuieterStep DEF Depart, talkVars
  <2> QED
    BY <1>6, <2>2, <2>3 DEF Depart
<1>7. CASE DepartAnswered(p)
  BY <1>7, WorkUnchanged, RemovePeerQuieter, QuieterStep DEF DepartAnswered, talkVars
<1> QED
  BY <1>1, <1>2, <1>3, <1>4, <1>5, <1>6, <1>7

\* A new status other than "new", of a conversation that had one.
LEMMA StatusPairs ==
    ASSUME IInv, NEW t \in open, NEW s \in Statuses \ {"new"},
           talk' = [talk EXCEPT ![t].status = s]
    PROVE  SamePairs
<1>1. t \in Talk /\ talk[t] \in TalkType /\ talk[t].status # "new"
  BY DEF IInv, TypeInv, TalkTypes, Started
<1>2. talk'[t].from = talk[t].from /\ talk'[t].to = talk[t].to /\ talk'[t].status = s
  BY <1>1 DEF TalkType, IInv, TypeInv, TalkTypes
<1>3. \A u \in Talk \ {t} : talk'[u] = talk[u]
  BY DEF IInv, TypeInv, TalkTypes
<1> QED
  BY <1>1, <1>2, <1>3 DEF SamePairs

\* Undoing an acceptance is not about private audio,
LEMMA UndoFromPairs ==
    ASSUME IInv, NEW p, NEW t, NEW k, NEW n, NEW muted, UndoFrom(p, t, k, n, muted)
    PROVE  SamePairs /\ SameWork
<1>1. UNCHANGED talk \/ (t \in open /\ talk' = [talk EXCEPT ![t].status = "invited"])
  BY DEF UndoFrom
<1>2. Return(p) \/ \E w : Await(p, "undoing", w)
  BY DEF UndoFrom
<1> QED
  BY <1>1, <1>2, TalkUnchanged, StatusPairs, ReturnWork, WaitWork DEF Statuses, IInv

\* and neither is going on with one.
LEMMA PauseFromPairs ==
    ASSUME IInv, NEW p, NEW t, NEW k, NEW muted, PauseFrom(p, t, k, muted)
    PROVE  SamePairs /\ SameWork
<1>1. CASE UNCHANGED talk /\ \E w : Await(p, "accepting", w)
  BY <1>1, TalkUnchanged, WaitWork DEF IInv
<1>2. CASE t \in open /\ talk' = [talk EXCEPT ![t].status = "active"] /\ Return(p)
  BY <1>2, StatusPairs, ReturnWork DEF Statuses, IInv
<1>3. CASE \E now : UndoFrom(p, t, 1, 2, now)
  BY <1>3, UndoFromPairs
<1> QED
  BY <1>1, <1>2, <1>3 DEF PauseFrom

\* Accepting an invitation ends it or keeps its pair.
LEMMA AcceptTalkSound ==
    ASSUME IInv, SoundInv, NEW p \in Peer, NEW t \in Talk, AcceptTalk(p, t)
    PROVE  SoundInv'
<1>1. t \in open /\ UNCHANGED role
  BY DEF AcceptTalk
<1>2. CASE BeginEnding(t, Call("request", p, None)) /\ Await(p, "ending", NoWork)
  BY <1>1, <1>2, WaitWork, BeginEndingSound DEF IInv
<1>3. CASE ~(BeginEnding(t, Call("request", p, None)) /\ Await(p, "ending", NoWork))
  <2> DEFINE was  == [q \in Peer |-> ConversationHasPeer(t, q) /\ audioMuted[q]]
             mine == [talk[t] EXCEPT !.wasMuted = was, !.privateMuted = was]
             s    == IF NextMic(t, 1, 2) <= 2 THEN "activating" ELSE "active"
  <2>1. /\ UNCHANGED <<open, ending, audioVars>>
        /\ talk' = [talk EXCEPT ![t] = [mine EXCEPT !.status = s]]
    BY <1>3 DEF AcceptTalk
  <2>2. UNCHANGED <<pc, work>> \/ \E w : Await(p, "accepting", w)
    BY <1>3 DEF AcceptTalk
  <2>3. s # "new"
    OBVIOUS
  <2> HIDE DEF was, s
  <2>4. t \in open /\ talk[t].status # "new"
    BY <1>1 DEF IInv, Started
  <2>5. SamePairs
    BY <2>1, <2>3, <2>4 DEF SamePairs, IInv, TypeInv, TalkTypes, TalkType
  <2>6. SameWork
    BY <2>2, WorkUnchanged, WaitWork DEF IInv
  <2> QED
    BY <1>1, <2>1, <2>5, <2>6, RoleSame, AudioSame, QuieterStep
<1> QED
  BY <1>2, <1>3

\* Accepting and ending conversations.
LEMMA TalkingSound ==
    ASSUME IInv, SoundInv, NEW p \in Peer,
           \/ \E t \in Talk : AcceptTalk(p, t) \/ EndTalk(p, t) \/ TimeLimit(t)
           \/ AcceptAnswered(p) \/ UndoAnswered(p)
    PROVE  SoundInv'
<1> USE DEF IInv
<1>1. ASSUME NEW t \in Talk, AcceptTalk(p, t) PROVE SoundInv'
  BY <1>1, AcceptTalkSound
<1>2. ASSUME NEW t \in Talk, EndTalk(p, t) PROVE SoundInv'
  BY <1>2, WaitWork, BeginEndingSound DEF EndTalk
<1>3. ASSUME NEW t \in Talk, TimeLimit(t) PROVE SoundInv'
  BY <1>3, WorkUnchanged, BeginEndingSound DEF TimeLimit, IsActive
<1>4. CASE AcceptAnswered(p)
  <2>1. SamePairs /\ SameWork
    BY <1>4, PauseFromPairs, UndoFromPairs DEF AcceptAnswered
  <2> QED
    BY <1>4, <2>1, RoleSame, AudioSame, QuieterStep DEF AcceptAnswered
<1>5. CASE UndoAnswered(p)
  <2>1. SamePairs /\ SameWork
    BY <1>5, UndoFromPairs DEF UndoAnswered
  <2> QED
    BY <1>5, <2>1, RoleSame, AudioSame, QuieterStep DEF UndoAnswered
<1> QED
  BY <1>1, <1>2, <1>3, <1>4, <1>5

\* A conversation that starts had no audio and nobody in it.
LEMMA StartTalkSound ==
    ASSUME IInv, SoundInv, NEW p \in Peer, NEW q \in Peer, StartTalk(p, q)
    PROVE  SoundInv'
<1> USE DEF SoundInv
<1>1. PICK t \in Fresh :
        /\ talk' = [talk EXCEPT ![t] = [NewTalk EXCEPT !.status = "invited", !.from = p, !.to = q]]
        /\ open' = open \cup {t}
  BY DEF StartTalk
<1>2. t \in Talk /\ talk[t].from = None /\ talk[t].to = None /\ talk[t].status = "new"
  BY DEF Fresh, Pairs
<1>3. /\ talk'[t].status = "invited" /\ talk'[t].from = p /\ talk'[t].to = q
      /\ \A u \in Talk \ {t} : talk'[u] = talk[u]
  BY <1>1, <1>2 DEF NewTalk, IInv, TypeInv, TalkTypes
<1>4. p # q /\ UNCHANGED <<role, ending, privateAudio, listeners, pc, work>>
  BY DEF StartTalk, MayStart, roomVars, audioVars
<1>5. \A n \in Peer : ~ConversationHasPeer(t, n)
  BY <1>2, PeerAssumption DEF ConversationHasPeer
<1>6. Pairs'
  BY <1>3, <1>4 DEF Pairs
<1>7. OnTalk'
  <2>1. \A n \in Peer : pc[n] \in AudioWork => work[n].talk \in Talk \ {t}
    BY <1>2, AtWorkOnTalk DEF IInv, TypeInv, AudioWork, OnTalk, OnItsTalk
  <2> QED
    BY <1>3, <1>4, <2>1 DEF OnTalk, OnItsTalk, AudioWork, ConversationHasPeer
<1>8. OnlyPairListens'
  BY <1>3, <1>4, <1>5 DEF OnlyPairListens, ConversationHasPeer
<1>9. Reached'
  <2>1. ASSUME NEW n \in Peer, NEW u \in Talk, Audible(n, u)'
        PROVE  Here(n)' /\ ConversationHasPeer(u, n)' /\ (u \in open' \/ StillToClose(n, u)')
    <3>1. Audible(n, u)
      BY <1>4, <2>1 DEF Audible
    <3>2. Here(n) /\ ConversationHasPeer(u, n) /\ (u \in open \/ StillToClose(n, u)) /\ u # t
      BY <1>5, <3>1 DEF Reached
    <3> QED
      BY <1>1, <1>3, <1>4, <3>2 DEF Here, ConversationHasPeer, StillToClose, Side
  <2> QED
    BY <2>1 DEF Reached
<1> QED
  BY <1>6, <1>7, <1>8, <1>9

\* Public microphones and the recording.
LEMMA MicSound ==
    ASSUME IInv, SoundInv, NEW p \in Peer,
           \/ PublishMic(p) \/ PublishAnswered(p) \/ UnpublishMic(p) \/ UnpublishAnswered(p)
           \/ \E muted \in BOOLEAN : MuteStateChanged(p, muted)
           \/ \E q \in Peer : HostMutePeer(p, q)
           \/ SetRecording(p) \/ ForbidRecording(p)
    PROVE  SoundInv'
<1>1. SamePairs /\ UNCHANGED <<role, open, ending, audioVars>>
  BY TalkUnchanged
     DEF PublishMic, PublishAnswered, UnpublishMic, UnpublishAnswered, MuteStateChanged,
         HostMutePeer, SetRecording, ForbidRecording, roomVars, talkVars
<1>2. \/ UNCHANGED <<pc, work>> \/ Return(p)
      \/ Await(p, "publishing", NoWork) \/ Await(p, "unpublishing", NoWork)
  BY DEF PublishMic, PublishAnswered, UnpublishMic, UnpublishAnswered, MuteStateChanged,
         HostMutePeer, SetRecording, ForbidRecording
<1>3. SameWork
  BY <1>2, WorkUnchanged, ReturnWork, WaitWork DEF IInv
<1> QED
  BY <1>1, <1>3, RoleSame, AudioSame, QuieterStep

\* A step of p that moves nobody and ends nothing, where what becomes audible is
\* p's, and p is in a conversation that is on.
LEMMA HeardStep ==
    ASSUME IInv, SoundInv, NEW p \in Peer, SamePairs, UNCHANGED <<role, open, ending>>,
           OnTalk', OnlyPairListens',
           \A n \in Peer, u \in Talk : Audible(n, u)' =>
               \/ Audible(n, u)
               \/ n = p /\ Here(p) /\ ConversationHasPeer(u, p) /\ u \in open
    PROVE  SoundInv'
<1> USE DEF SoundInv
<1>1. Pairs'
  BY DEF Pairs, SamePairs
<1>2. ASSUME NEW n \in Peer, NEW u \in Talk, Audible(n, u)'
      PROVE  Here(n)' /\ ConversationHasPeer(u, n)' /\ (u \in open' \/ StillToClose(n, u)')
  <2>1. Here(n) /\ ConversationHasPeer(u, n) /\ (u \in open \/ StillToClose(n, u))
    BY <1>2 DEF Reached
  <2> QED
    BY <2>1 DEF SamePairs, Here, ConversationHasPeer, StillToClose, Side
<1> QED
  BY <1>1, <1>2 DEF Reached

\* Who begins to wait for private audio belongs to the conversation.
LEMMA BeginWork ==
    ASSUME IInv, SoundInv, SamePairs, NEW p \in Peer, NEW t \in Talk, NEW q, NEW label,
           Await(p, label, Work(t, 0, 0, q)), talk[t].status # "new",
           \/ label \in {"producing", "mutingNew", "muting"} /\ ConversationHasPeer(t, p)
           \/ label = "consuming" /\ p # q /\ {p, q} = {talk[t].from, talk[t].to}
    PROVE  OnTalk'
<1>1. pc'[p] = label /\ work'[p].talk = t /\ work'[p].of = q
  BY DEF Await, Work, IInv, TypeInv, Handlers
<1>2. \A n \in Peer \ {p} : pc'[n] = pc[n] /\ work'[n] = work[n]
  BY DEF Await, IInv, TypeInv, Handlers
<1>3. talk'[t].from = talk[t].from /\ talk'[t].to = talk[t].to /\ talk'[t].status # "new"
  BY DEF SamePairs
<1>4. OnItsTalk(p)'
  <2>1. CASE label \in {"producing", "mutingNew", "muting"} /\ ConversationHasPeer(t, p)
    BY <1>1, <1>3, <2>1 DEF OnItsTalk, ConversationHasPeer
  <2>2. CASE label = "consuming" /\ p # q /\ {p, q} = {talk[t].from, talk[t].to}
    BY <1>1, <1>3, <2>2 DEF OnItsTalk
  <2> QED
    BY <2>1, <2>2
<1>5. ASSUME NEW n \in Peer \ {p} PROVE OnItsTalk(n)'
  BY <1>2, OnTalkKept DEF SoundInv, IInv
<1> QED
  BY <1>4, <1>5 DEF OnTalk

\* Nobody waits for other audio than p, who waits for none now.
LEMMA ReturnAudible ==
    ASSUME TypeInv, NEW p \in Peer, Return(p), NEW n \in Peer, NEW u \in Talk,
           privateAudio'[n][u] = privateAudio[n][u], Audible(n, u)'
    PROVE  Audible(n, u)
BY DEF TypeInv, Handlers, Return, Await, Audible

\* Publishing private audio, and listening to it, begins in a conversation of
\* one's own that is on.
LEMMA AskingSound ==
    ASSUME IInv, SoundInv, NEW p \in Peer, NEW t \in Talk,
           ProducePrivate(p, t) \/ ClosePrivate(p, t) \/ \E q \in Peer : ConsumePrivate(p, q, t)
    PROVE  SoundInv'
<1>1. UNCHANGED <<role, open, talk, ending, privateAudio, listeners>> /\ SamePairs
  BY TalkUnchanged DEF ProducePrivate, ClosePrivate, ConsumePrivate, roomVars, talkVars, audioVars
<1>2. CASE ClosePrivate(p, t)
  BY <1>1, <1>2, WaitWork, RoleSame, AudioSame, QuieterStep DEF ClosePrivate, IInv, audioVars
<1>3. CASE ProducePrivate(p, t) \/ \E q \in Peer : ConsumePrivate(p, q, t)
  <2>1. talk[t].status # "new"
    BY <1>3 DEF ProducePrivate, ConsumePrivate, IsPair, IsActive
  <2>2. \/ Await(p, "producing", Work(t, 0, 0, None)) /\ ConversationHasPeer(t, p)
        \/ \E q \in Peer : /\ Await(p, "consuming", Work(t, 0, 0, q)) /\ p # q
                           /\ {p, q} = {talk[t].from, talk[t].to}
    BY <1>3 DEF ProducePrivate, ConsumePrivate, IsPair
  <2>3. OnTalk'
    BY <1>1, <2>1, <2>2, BeginWork
  <2>4. OnlyPairListens'
    BY <1>1 DEF SoundInv, OnlyPairListens, ConversationHasPeer
  <2>5. ASSUME NEW n \in Peer, NEW u \in Talk, Audible(n, u)' PROVE Audible(n, u)
    BY <1>1, <2>2, <2>5 DEF Audible, Await, IInv, TypeInv, Handlers
  <2> QED
    BY <1>1, <2>3, <2>4, <2>5, HeardStep
<1> QED
  BY <1>2, <1>3

\* A peer mutes or unmutes in a conversation that is on.
LEMMA SetPrivateMutedSound ==
    ASSUME IInv, SoundInv, NEW p \in Peer, NEW t \in Talk, NEW muted \in BOOLEAN,
           SetPrivateMuted(p, t, muted)
    PROVE  SoundInv'
<1>1. t \in open /\ talk[t].status = "active" /\ Here(p) /\ ConversationHasPeer(t, p) /\ UNCHANGED role
  BY DEF SetPrivateMuted, Ready, IsActive
<1>2. CASE BeginEnding(t, Call("request", p, None)) /\ Await(p, "ending", NoWork)
  BY <1>1, <1>2, WaitWork, BeginEndingSound DEF IInv
<1>3. CASE /\ talk' = [talk EXCEPT ![t].privateMuted[p] = muted]
           /\ \/ UNCHANGED <<pc, work>>
              \/ Await(p, "muting", Work(t, 0, 0, None))
           /\ UNCHANGED <<open, ending, audioVars>>
  <2>1. SamePairs
    BY <1>3 DEF SamePairs, IInv, TypeInv, TalkTypes, TalkType
  <2>2. OnTalk'
    BY <1>1, <1>3, <2>1, WorkUnchanged, SameWorkOnTalk, BeginWork DEF IInv, SoundInv
  <2>3. OnlyPairListens'
    BY <1>3, <2>1, FewerListeners DEF SoundInv, audioVars
  <2>4. ASSUME NEW n \in Peer, NEW u \in Talk, Audible(n, u)'
        PROVE  Audible(n, u) \/ (n = p /\ u = t)
    BY <1>3, <2>4 DEF Audible, Await, Work, IInv, TypeInv, Handlers, audioVars
  <2> QED
    BY <1>1, <1>3, <2>1, <2>2, <2>3, <2>4, HeardStep
<1> QED
  BY <1>2, <1>3 DEF SetPrivateMuted

\* The private audio of p in the conversation it works on.
LEMMA RegisterOnly ==
    ASSUME TypeInv, NEW p \in Peer, NEW t, NEW s, Register(p, t, s)
    PROVE  /\ \A n \in Peer, u \in Talk : n # p \/ u # t => privateAudio'[n][u] = privateAudio[n][u]
           /\ privateAudio'[p][t] # privateAudio[p][t] => Here(p)
BY DEF Register, TypeInv, AudioTypes

\* The answers about private audio: what becomes live is of a peer in a
\* conversation that is on, or was about to be live.
LEMMA ProducedSound ==
    ASSUME IInv, SoundInv, NEW p \in Peer, ProduceAnswered(p)
    PROVE  SoundInv'
<1> DEFINE t == work[p].talk
<1>1. /\ pc[p] = "producing" /\ t \in Talk /\ talk[t].status # "new" /\ ConversationHasPeer(t, p)
      /\ UNCHANGED <<role, open, talk, ending, listeners>>
  BY AtWorkOnTalk DEF ProduceAnswered, roomVars, talkVars, IInv, TypeInv, SoundInv, OnTalk, OnItsTalk
<1>2. SamePairs
  BY <1>1, TalkUnchanged
<1>3. OnlyPairListens'
  BY <1>1 DEF SoundInv, OnlyPairListens, ConversationHasPeer
<1>4. CASE UNCHANGED privateAudio /\ Return(p)
  BY <1>1, <1>2, <1>4, ReturnWork, RoleSame, AudioSame, QuieterStep DEF IInv, audioVars
<1>5. CASE Await(p, "mutingNew", work[p]) /\ UNCHANGED privateAudio
  <2>1. OnTalk'
    <3>1. \A n \in Peer \ {p} : pc'[n] = pc[n] /\ work'[n] = work[n]
      BY <1>5 DEF Await, IInv, TypeInv, Handlers
    <3>2. pc'[p] = "mutingNew" /\ work'[p] = work[p]
      BY <1>5 DEF Await, IInv, TypeInv, Handlers
    <3> QED
      BY <1>1, <3>1, <3>2 DEF SoundInv, OnTalk, OnItsTalk, ConversationHasPeer
  <2>2. ASSUME NEW n \in Peer, NEW u \in Talk, Audible(n, u)' PROVE Audible(n, u)
    BY <1>5, <2>2 DEF Audible, Await, IInv, TypeInv, Handlers
  <2> QED
    BY <1>1, <1>2, <1>3, <2>1, <2>2, HeardStep
<1>6. CASE t \in open /\ Register(p, t, "live") /\ Return(p)
  <2>1. OnTalk'
    BY <1>2, <1>6, ReturnWork, SameWorkOnTalk DEF IInv, SoundInv
  <2>2. ASSUME NEW n \in Peer, NEW u \in Talk, Audible(n, u)'
        PROVE  Audible(n, u) \/ (n = p /\ u = t /\ Here(p))
    <3>1. privateAudio'[n][u] = privateAudio[n][u] \/ (n = p /\ u = t /\ Here(p))
      BY <1>6, RegisterOnly DEF IInv
    <3> QED
      BY <1>6, <2>2, <3>1, ReturnAudible DEF IInv
  <2> QED
    BY <1>1, <1>2, <1>3, <1>6, <2>1, <2>2, HeardStep
<1> QED
  BY <1>4, <1>5, <1>6 DEF ProduceAnswered, StillOn

\* A producer that was muted or unmuted was audible before, or is paused.
LEMMA MutedSound ==
    ASSUME IInv, SoundInv, NEW p \in Peer, MutingNewAnswered(p) \/ MutingAnswered(p)
    PROVE  SoundInv'
<1> DEFINE t == work[p].talk
<1>1. /\ pc[p] \in {"mutingNew", "muting"} /\ t \in Talk /\ Return(p)
      /\ UNCHANGED <<role, open, talk, ending, listeners>>
  BY AtWorkOnTalk DEF MutingNewAnswered, MutingAnswered, roomVars, talkVars, IInv, TypeInv
<1>2. SamePairs /\ OnTalk'
  BY <1>1, TalkUnchanged, ReturnWork, SameWorkOnTalk DEF IInv, SoundInv
<1>3. OnlyPairListens'
  BY <1>1 DEF SoundInv, OnlyPairListens, ConversationHasPeer
<1>4. pc'[p] = "idle"
  BY <1>1 DEF Return, Await, IInv, TypeInv, Handlers
<1>5. CASE MutingNewAnswered(p)
  <2>1. \/ UNCHANGED privateAudio
        \/ UNCHANGED privateAudio \/ privateAudio' = [privateAudio EXCEPT ![p][t] = "paused"]
    BY <1>5 DEF MutingNewAnswered, Register
  <2>2. ASSUME NEW n \in Peer, NEW u \in Talk, Audible(n, u)' PROVE Audible(n, u)
    <3>1. CASE n = p /\ u = t
      BY <1>1, <1>4, <2>1, <2>2, <3>1 DEF Audible, IInv, TypeInv, AudioTypes
    <3>2. CASE ~(n = p /\ u = t)
      <4>1. privateAudio'[n][u] = privateAudio[n][u]
        BY <2>1, <3>2 DEF IInv, TypeInv, AudioTypes
      <4> QED
        BY <1>1, <2>2, <4>1, ReturnAudible DEF IInv
    <3> QED
      BY <3>1, <3>2
  <2> QED
    BY <1>1, <1>2, <1>3, <2>2, HeardStep
<1>6. CASE MutingAnswered(p)
  <2>1. \/ UNCHANGED privateAudio
        \/ privateAudio[p][t] # "none" /\ \E s \in AudioStates : privateAudio' = [privateAudio EXCEPT ![p][t] = s]
    BY <1>6 DEF MutingAnswered, Outcome, AudioStates
  <2>2. ASSUME NEW n \in Peer, NEW u \in Talk, Audible(n, u)' PROVE Audible(n, u)
    <3>1. CASE privateAudio'[n][u] = privateAudio[n][u]
      BY <1>1, <2>2, <3>1, ReturnAudible DEF IInv
    <3>2. CASE privateAudio'[n][u] # privateAudio[n][u]
      <4>1. n = p /\ u = t /\ privateAudio[p][t] # "none" /\ pc[p] = "muting"
        BY <1>6, <2>1, <3>2 DEF MutingAnswered, IInv, TypeInv, AudioTypes
      <4> QED
        BY <4>1 DEF Audible
    <3> QED
      BY <3>1, <3>2
  <2> QED
    BY <1>1, <1>2, <1>3, <2>2, HeardStep
<1> QED
  BY <1>1, <1>5, <1>6

\* Closing a producer takes it and its consumers away.
LEMMA ClosedSound ==
    ASSUME IInv, SoundInv, NEW p \in Peer, CloseAnswered(p)
    PROVE  SoundInv'
<1> DEFINE t == work[p].talk
<1>1. SamePairs /\ SameWork /\ UNCHANGED <<role, open, ending>>
  BY TalkUnchanged, ReturnWork DEF CloseAnswered, roomVars, talkVars, IInv
<1>2. \/ UNCHANGED <<privateAudio, listeners>>
      \/ /\ privateAudio' = [privateAudio EXCEPT ![p][t] = "none"]
         /\ listeners' = [listeners EXCEPT ![p][t] = {}]
  BY DEF CloseAnswered, audioVars
<1>0. t \in Talk
  BY AtWorkOnTalk DEF CloseAnswered, IInv, TypeInv
<1> HIDE DEF t
<1>3. ASSUME NEW n \in Peer, NEW u \in Talk
      PROVE  listeners'[n][u] = listeners[n][u] \/ listeners'[n][u] = {}
  <2>1. CASE n = p
    BY <1>0, <1>2, <2>1 DEF IInv, TypeInv, AudioTypes
  <2>2. CASE n # p
    BY <1>2, <2>2 DEF IInv, TypeInv, AudioTypes
  <2> QED
    BY <2>1, <2>2
<1>4. ASSUME NEW n \in Peer, NEW u \in Talk
      PROVE  privateAudio'[n][u] = privateAudio[n][u] \/ privateAudio'[n][u] = "none"
  <2>1. CASE n = p
    BY <1>0, <1>2, <2>1 DEF IInv, TypeInv, AudioTypes
  <2>2. CASE n # p
    BY <1>2, <2>2 DEF IInv, TypeInv, AudioTypes
  <2> QED
    BY <2>1, <2>2
<1> QED
  BY <1>1, <1>3, <1>4, RoleSame, QuieterStep DEF Quieter

\* A consumer that comes is the other one of the pair.
LEMMA ConsumedSound ==
    ASSUME IInv, SoundInv, NEW p \in Peer, ConsumeAnswered(p)
    PROVE  SoundInv'
<1> DEFINE t == work[p].talk
           q == work[p].of
<1>1. /\ t \in Talk /\ p # q /\ {p, q} = {talk[t].from, talk[t].to} /\ Return(p)
      /\ UNCHANGED <<role, open, talk, ending, privateAudio>>
  BY AtWorkOnTalk DEF ConsumeAnswered, roomVars, talkVars, IInv, TypeInv, SoundInv, OnTalk, OnItsTalk
<1>2. SamePairs /\ OnTalk'
  BY <1>1, TalkUnchanged, ReturnWork, SameWorkOnTalk DEF IInv, SoundInv
<1>3. listeners' = listeners \/ listeners' = [listeners EXCEPT ![q][t] = @ \cup {p}]
  BY DEF ConsumeAnswered, Outcome
<1>4. ASSUME NEW n \in Peer, NEW u \in Talk, listeners'[n][u] # {}
      PROVE  n \in {talk[u].from, talk[u].to} /\ listeners'[n][u] = {talk[u].from, talk[u].to} \ {n}
  <2>1. listeners[n][u] # {} => /\ n \in {talk[u].from, talk[u].to}
                                /\ listeners[n][u] = {talk[u].from, talk[u].to} \ {n}
    BY DEF SoundInv, OnlyPairListens, ConversationHasPeer
  <2>2. CASE n = q /\ u = t
    <3>1. listeners'[n][u] \in {listeners[n][u], listeners[n][u] \cup {p}}
      BY <1>3, <2>2 DEF IInv, TypeInv, AudioTypes
    <3>2. {talk[u].from, talk[u].to} \ {n} = {p}
      BY <1>1, <2>2
    <3> QED
      BY <1>1, <1>4, <2>1, <2>2, <3>1, <3>2
  <2>3. CASE ~(n = q /\ u = t)
    <3>1. listeners'[n][u] = listeners[n][u]
      BY <1>3, <2>3 DEF IInv, TypeInv, AudioTypes
    <3> QED
      BY <1>4, <2>1, <3>1
  <2> QED
    BY <2>2, <2>3
<1>5. OnlyPairListens'
  BY <1>1, <1>4 DEF OnlyPairListens, ConversationHasPeer
<1>6. ASSUME NEW n \in Peer, NEW u \in Talk, Audible(n, u)' PROVE Audible(n, u)
  BY <1>1, <1>6, ReturnAudible DEF IInv
<1> QED
  BY <1>1, <1>2, <1>5, <1>6, HeardStep

-----------------------------------------------------------------------------
\* There is no private audio initially.
LEMMA SoundInit == Init => SoundInv
<1> SUFFICES ASSUME Init PROVE SoundInv
  OBVIOUS
<1>1. Pairs
  BY DEF Init, Pairs, NewTalk
<1>2. OnTalk
  BY DEF Init, OnTalk, OnItsTalk
<1>3. Reached /\ OnlyPairListens
  BY DEF Init, Reached, OnlyPairListens, Audible
<1> QED
  BY <1>1, <1>2, <1>3 DEF SoundInv

\* Every step keeps the private audio within reach of its conversation.
LEMMA SoundStep == IInv /\ SoundInv /\ [Next]_vars => SoundInv'
<1> SUFFICES ASSUME IInv, SoundInv, [Next]_vars PROVE SoundInv'
  OBVIOUS
<1>1. CASE UNCHANGED vars
  BY <1>1, TalkUnchanged, WorkUnchanged, RoleSame, AudioSame, QuieterStep
     DEF vars, roomVars, talkVars, audioVars
<1>2. CASE \E t \in Talk : Continue(t) \/ EndingAnswered(t)
  BY <1>2, ContinueSound, EndingAnsweredStep
<1>3. CASE \E t \in Talk : TimeLimit(t)
  BY <1>3, WorkUnchanged, BeginEndingSound DEF TimeLimit, IsActive
<1>4. ASSUME NEW p \in Peer, Answers(p) PROVE SoundInv'
  BY <1>4, PeopleSound, TalkingSound, MicSound, ProducedSound, MutedSound, ClosedSound,
     ConsumedSound DEF Answers
<1>5. ASSUME NEW p \in Peer, Requests(p) PROVE SoundInv'
  BY <1>5, PeopleSound, TalkingSound, MicSound, StartTalkSound, AskingSound,
     SetPrivateMutedSound DEF Requests
<1> QED
  BY <1>1, <1>2, <1>3, <1>4, <1>5 DEF Next

\* Private audio that is live belongs to a conversation that is on or being
\* ended, for any number of peers and conversations: none survives because it
\* was published, or unmuted, across the awaits of finishPrivateConversation.
THEOREM LivePrivateAudioInTalkAlways == Spec => []LivePrivateAudioInTalk
<1>1. SoundInv => LivePrivateAudioInTalk
  BY DEF SoundInv, Reached, Audible, StillToClose, LivePrivateAudioInTalk
<1>2. Init => IInv /\ SoundInv
  BY InvInit, SoundInit
<1>3. IInv /\ SoundInv /\ [][Next]_vars => [](IInv /\ SoundInv)
  BY InvStep, SoundStep, PTL
<1> QED
  BY <1>1, <1>2, <1>3, PTL DEF Spec

\* Only the other peer of the pair ever gets a consumer of somebody's private
\* audio, although consume registers it long after it checked the pair.
THEOREM OnlyPairListensAlways == Spec => []OnlyPairListens
<1>1. SoundInv => OnlyPairListens
  BY DEF SoundInv
<1>2. Init => IInv /\ SoundInv
  BY InvInit, SoundInit
<1>3. IInv /\ SoundInv /\ [][Next]_vars => [](IInv /\ SoundInv)
  BY InvStep, SoundStep, PTL
<1> QED
  BY <1>1, <1>2, <1>3, PTL DEF Spec

=============================================================================
