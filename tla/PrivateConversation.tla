------------------------ MODULE PrivateConversation ------------------------
(***************************************************************************)
(* Private side conversations of a meeting, and what they do to the public *)
(* microphones, the private audio and the recording.                       *)
(*                                                                         *)
(* Source: services/signaling/src/rpc/handler.ts (produce, consume,        *)
(* closeProducer, the *PrivateConversation requests, setRecordingState,    *)
(* muteStateChanged, hostMutePeer) and the parts of kickPeer, changeRole,  *)
(* endMeeting and handlePeerDisconnect that end conversations.             *)
(*                                                                         *)
(* As in MeetingRoom an action is the code between two awaits, and the     *)
(* requests of one peer are handled one after the other.  The awaits here  *)
(* are calls to the SFU, which take effect when they answer, or fail       *)
(* without effect.  The room is the one that is there: who comes in, and   *)
(* how, is MeetingRoom's subject.                                          *)
(***************************************************************************)
EXTENDS Naturals, FiniteSets

CONSTANTS
    Peer,           \* the peers admitted to the room
    None,           \* "nobody"
    InitialRole,    \* their roles
    SignedIn,       \* peers with a user id
    Unlimited,      \* peers whose plan sets no time limit (durationMs null)
    Publishers,     \* peers that publish a public microphone
    Speakers,       \* peers that publish private audio
    SfuMayFail,     \* calls to the SFU may fail
    Leavers,        \* peers that may leave or be kicked
    MaxTalks        \* bound: conversations started in a behaviour

Roles == {"host", "co-host", "member"}

ASSUME PeerAssumption ==
    /\ IsFiniteSet(Peer) /\ None \notin Peer
    /\ SignedIn \subseteq Peer /\ Unlimited \subseteq Peer
    /\ Publishers \subseteq Peer /\ Speakers \subseteq Peer
    /\ InitialRole \in [Peer -> Roles]
    /\ SfuMayFail \in BOOLEAN /\ Leavers \subseteq Peer /\ MaxTalks \in Nat

Talk == 1..MaxTalks

VARIABLES
    role,           \* role of each peer, "none" once it was removed from the room
    audioMuted,     \* peer.audioMuted, FALSE for who is not in the room
    mic,            \* public microphone producer: "none", "live", or "paused" in the SFU
    recording,      \* room.recording: the recording peer
    open,           \* room.privateConversations: the conversations in the map
    talk,           \* the PrivateConversation objects, also those no longer in the map
    privateAudio,   \* registered private-audio producer of each peer for each conversation
    listeners,      \* peers with a consumer of that producer
    ending,         \* progress of finishPrivateConversation, see Calls below
    caller,         \* who awaits it
    pc, work,       \* request handler of each peer and what it works on
    departure       \* handlePeerDisconnect of each peer: "none", "ending", "removing", "done"

roomVars  == <<role, audioMuted, mic, recording>>
talkVars  == <<open, talk, ending, caller>>
audioVars == <<privateAudio, listeners>>
vars == <<roomVars, talkVars, audioVars, pc, work, departure>>

Statuses == {"new", "invited", "activating", "active"}
AudioStates == {"none", "live", "paused"}
NoCall == [kind |-> "none", by |-> None, of |-> None, todo |-> {}]
Work(t, step, last, of) == [talk |-> t, step |-> step, last |-> last, of |-> of]
NoWork == Work(0, 0, 0, None)
CallKinds == {"none", "request", "kick", "demote", "departure", "timer", "endMeeting"}
PcStates == {"idle", "ending", "accepting", "undoing", "publishing", "unpublishing", "producing",
             "mutingNew", "muting", "closing", "consuming", "kicking", "clearing"}

TypeOK ==
    /\ role \in [Peer -> Roles \cup {"none"}]
    /\ audioMuted \in [Peer -> BOOLEAN] /\ mic \in [Peer -> AudioStates]
    /\ recording \in Peer \cup {None}
    /\ open \subseteq Talk
    /\ talk \in [Talk -> [status : Statuses, from : Peer \cup {None}, to : Peer \cup {None},
                          wasMuted : [Peer -> BOOLEAN], privateMuted : [Peer -> BOOLEAN]]]
    /\ privateAudio \in [Peer -> [Talk -> AudioStates]]
    /\ listeners \in [Peer -> [Talk -> SUBSET Peer]]
    /\ ending \in [Talk -> 0..5]
    /\ caller \in [Talk -> [kind : CallKinds, by : Peer \cup {None}, of : Peer \cup {None},
                            todo : SUBSET Talk]]
    /\ pc \in [Peer -> PcStates]
    /\ work \in [Peer -> [talk : 0..MaxTalks, step : 0..3, last : 0..2, of : Peer \cup {None}]]
    /\ departure \in [Peer -> {"none", "ending", "removing", "done"}]

NewTalk == [status |-> "new", from |-> None, to |-> None,
            wasMuted |-> [p \in Peer |-> FALSE], privateMuted |-> [p \in Peer |-> FALSE]]

\* Everybody is inside and has not published a microphone yet.
Init ==
    /\ role = InitialRole
    /\ audioMuted = [p \in Peer |-> FALSE] /\ mic = [p \in Peer |-> "none"]
    /\ recording = None
    /\ open = {} /\ talk = [t \in Talk |-> NewTalk]
    /\ privateAudio = [p \in Peer |-> [t \in Talk |-> "none"]]
    /\ listeners = [p \in Peer |-> [t \in Talk |-> {}]]
    /\ ending = [t \in Talk |-> 0] /\ caller = [t \in Talk |-> NoCall]
    /\ pc = [p \in Peer |-> "idle"] /\ work = [p \in Peer |-> NoWork]
    /\ departure = [p \in Peer |-> "none"]

-----------------------------------------------------------------------------
Here(p)      == role[p] # "none"
IsManager(p) == role[p] \in {"host", "co-host"}
CanManage(p, q) == /\ p # q /\ Here(q) /\ role[q] # "host"
                   /\ role[p] = "host" \/ (role[p] = "co-host" /\ role[q] # "co-host")

ConversationHasPeer(t, p) == p \in {talk[t].from, talk[t].to}
IsActive(t)  == t \in open /\ talk[t].status = "active"
InActive(p)  == \E t \in Talk : IsActive(t) /\ ConversationHasPeer(t, p)

\* A request reaches its handler when the handler before it is through.
Ready(p) == pc[p] = "idle" /\ Here(p) /\ departure[p] = "none"

Await(p, label, w) ==
    /\ pc' = [pc EXCEPT ![p] = label]
    /\ work' = [work EXCEPT ![p] = w]
Return(p) == Await(p, "idle", NoWork)

\* What a variable becomes when a call answers: a failed call leaves it alone.
Outcome(done, before) == IF SfuMayFail THEN {done, before} ELSE {done}

\* The two peers of a conversation, in the order the code goes through them.
Side(t, k) == IF k = 1 THEN talk[t].from ELSE talk[t].to

Least(S, default) == IF S = {} THEN default ELSE CHOOSE x \in S : \A y \in S : x <= y

-----------------------------------------------------------------------------
(* finishPrivateConversation.  Its calls to the SFU are numbered: 1 closes  *)
(* the private audio of the initiator and 2 sets its microphone as it was,  *)
(* 3 and 4 do the same for the target; 5 is the end.  A call there is no    *)
(* producer for is not made, and without a call there is no pause.          *)

Calls == 1..4
SideOf(i) == IF i <= 2 THEN 1 ELSE 2

Called(t, i) ==
    LET p == Side(t, SideOf(i))
    IN  /\ Here(p)
        /\ IF i \in {1, 3} THEN privateAudio[p][t] # "none"
           ELSE talk[t].status = "active" /\ mic[p] # "none"

\* Go on from call i to the next that is made; a peer's audioMuted is set right
\* before its call 2 or 4.
GoOnEnding(t, i) ==
    LET j == Least({k \in i..4 : Called(t, k)}, 5)
    IN  /\ ending' = [ending EXCEPT ![t] = j]
        /\ audioMuted' = [p \in Peer |->
              IF /\ talk[t].status = "active" /\ Here(p)
                 /\ \E k \in {2, 4} : k \in i..j /\ Side(t, SideOf(k)) = p
              THEN talk[t].wasMuted[p] ELSE audioMuted[p]]

\* The conversation leaves the map at once, so it ends only once.
BeginEnding(t, call) ==
    /\ open' = open \ {t}
    /\ caller' = [caller EXCEPT ![t] = call]
    /\ GoOnEnding(t, 1)
    /\ UNCHANGED <<talk, mic, privateAudio, listeners>>

\* setPublicMicPaused(..., wasMuted), for a microphone that is still published.
RestoredMic(t, p) ==
    IF mic[p] = "none" THEN mic
    ELSE [mic EXCEPT ![p] = IF talk[t].wasMuted[p] THEN "paused" ELSE "live"]

EndingAnswered(t) ==
    /\ ending[t] \in Calls
    /\ LET i == ending[t]
           p == Side(t, SideOf(i))
       IN  /\ IF i \in {1, 3}
              THEN /\ privateAudio' = [privateAudio EXCEPT ![p][t] = "none"]
                   /\ listeners' \in Outcome([listeners EXCEPT ![p][t] = {}], listeners)
                   /\ UNCHANGED mic
              ELSE /\ mic' \in Outcome(RestoredMic(t, p), mic)
                   /\ UNCHANGED <<privateAudio, listeners>>
           /\ GoOnEnding(t, i + 1)
    /\ UNCHANGED <<role, recording, open, talk, caller, pc, work, departure>>

-----------------------------------------------------------------------------
(* What other handlers do to the room. *)

\* changePeerRole
ChangePeerRole(q, r) ==
    /\ role' = IF Here(q) THEN [role EXCEPT ![q] = r] ELSE role
    /\ recording' = IF recording = q /\ Here(q) THEN None ELSE recording

\* removePeer in the SFU and in the room.  A co-host takes the host's place.
RemovePeer(q) ==
    /\ \/ /\ role[q] = "host"
          /\ \E n \in Peer : role[n] = "co-host" /\ role' = [role EXCEPT ![q] = "none", ![n] = "host"]
       \/ /\ role[q] # "host" \/ ~ \E n \in Peer : role[n] = "co-host"
          /\ role' = [role EXCEPT ![q] = "none"]
    /\ recording' = IF recording = q THEN None ELSE recording
    /\ audioMuted' = [audioMuted EXCEPT ![q] = FALSE]
    /\ mic' = [mic EXCEPT ![q] = "none"]
    /\ privateAudio' = [privateAudio EXCEPT ![q] = [t \in Talk |-> "none"]]
    /\ listeners' = [p \in Peer |-> [t \in Talk |-> IF p = q THEN {} ELSE listeners[p][t] \ {q}]]

\* Whoever awaited the end of conversation t goes on at once; endMeeting with
\* the next conversation it found, the others with what they were called for.
Ended(t) == ending[t] = 5 /\ caller[t].kind # "none"
LeftToEnd(t) == caller[t].todo \cap open

Resume(t) ==
    LET by == caller[t].by
        of == caller[t].of
    IN  /\ Ended(t) /\ LeftToEnd(t) = {}
        /\ \/ /\ caller[t].kind = "request" /\ Return(by)
              /\ UNCHANGED <<role, recording, departure>>
           \/ /\ caller[t].kind = "timer"
              /\ UNCHANGED <<role, recording, pc, work, departure>>
           \/ /\ caller[t].kind = "kick" /\ Await(by, "kicking", Work(0, 0, 0, of))
              /\ UNCHANGED <<role, recording, departure>>
           \/ /\ caller[t].kind = "demote" /\ Return(by) /\ ChangePeerRole(of, "member")
              /\ UNCHANGED departure
           \/ /\ caller[t].kind = "departure"
              /\ departure' = [departure EXCEPT ![by] = "removing"]
              /\ UNCHANGED <<role, recording, pc, work>>
           \/ /\ caller[t].kind = "endMeeting" /\ Await(by, "clearing", NoWork)
              /\ UNCHANGED <<role, recording, departure>>
        /\ caller' = [caller EXCEPT ![t] = NoCall]
        /\ UNCHANGED <<audioMuted, mic, open, talk, ending, audioVars>>
EndNextTalk(t) ==
    /\ Ended(t)
    /\ \E u \in LeftToEnd(t) :
         /\ open' = open \ {u}
         /\ caller' = [caller EXCEPT ![t] = NoCall, ![u] = [caller[t] EXCEPT !.todo = LeftToEnd(t) \ {u}]]
         /\ GoOnEnding(u, 1)
    /\ UNCHANGED <<role, mic, recording, talk, audioVars, pc, work, departure>>

Call(kind, by, of) == [kind |-> kind, by |-> by, of |-> of, todo |-> {}]

KickPeer(p, q) ==
    /\ Ready(p) /\ IsManager(p) /\ CanManage(p, q) /\ q \in Leavers
    /\ \/ /\ \A t \in open : ~ConversationHasPeer(t, q)
          /\ Await(p, "kicking", Work(0, 0, 0, q))
          /\ UNCHANGED <<audioMuted, mic, talkVars, audioVars>>
       \/ /\ \E t \in open : ConversationHasPeer(t, q) /\ BeginEnding(t, Call("kick", p, q))
          /\ Await(p, "ending", NoWork)
    /\ UNCHANGED <<role, recording, departure>>
KickAnswered(p) ==
    /\ pc[p] = "kicking"
    /\ RemovePeer(work[p].of) /\ Return(p)
    /\ UNCHANGED <<talkVars, departure>>

ChangeRole(p, q, r) ==
    /\ Ready(p) /\ role[p] = "host" /\ q # p /\ Here(q)
    /\ \/ /\ r = "co-host" \/ \A t \in open : talk[t].from # q
          /\ ChangePeerRole(q, r)
          /\ UNCHANGED <<audioMuted, mic, talkVars, audioVars, pc, work>>
       \/ /\ r # "co-host"
          /\ \E t \in open : talk[t].from = q /\ BeginEnding(t, Call("demote", p, q))
          /\ Await(p, "ending", NoWork)
          /\ UNCHANGED <<role, recording>>
    /\ UNCHANGED departure

EndMeeting(p) ==
    /\ Ready(p) /\ role[p] = "host"
    /\ recording' = None
    /\ \/ /\ open = {} /\ Await(p, "clearing", NoWork)
          /\ UNCHANGED <<audioMuted, mic, talkVars, audioVars>>
       \/ /\ \E t \in open :
                BeginEnding(t, [Call("endMeeting", p, None) EXCEPT !.todo = open \ {t}])
          /\ Await(p, "ending", NoWork)
    /\ UNCHANGED <<role, departure>>
\* The peers are taken from the SFU and the room is cleared.
ClearAnswered(p) ==
    /\ pc[p] = "clearing"
    /\ role' = [q \in Peer |-> "none"] /\ mic' = [q \in Peer |-> "none"]
    /\ audioMuted' = [q \in Peer |-> FALSE]
    /\ privateAudio' = [q \in Peer |-> [t \in Talk |-> "none"]]
    /\ listeners' = [q \in Peer |-> [t \in Talk |-> {}]]
    /\ Return(p)
    /\ UNCHANGED <<recording, talkVars, departure>>

\* leaveRoom or the close event: handlePeerDisconnect, also for a peer that was
\* kicked or cleared away before.  It runs beside a request in flight.
Depart(p) ==
    /\ departure[p] = "none" /\ p \in Leavers
    /\ \/ /\ \A t \in open : ~ConversationHasPeer(t, p)
          /\ departure' = [departure EXCEPT ![p] = "removing"]
          /\ UNCHANGED <<audioMuted, mic, talkVars, audioVars>>
       \/ /\ \E t \in open : ConversationHasPeer(t, p) /\ BeginEnding(t, Call("departure", p, None))
          /\ departure' = [departure EXCEPT ![p] = "ending"]
    /\ UNCHANGED <<role, recording, pc, work>>
DepartAnswered(p) ==
    /\ departure[p] = "removing"
    /\ departure' = [departure EXCEPT ![p] = "done"]
    /\ RemovePeer(p)
    /\ UNCHANGED <<talkVars, pc, work>>

-----------------------------------------------------------------------------
(* Starting, accepting and ending a conversation. *)

\* startPrivateConversation
MayStart_TargetUnchecked(p, q) ==                                                  \* mutant
    /\ p \in SignedIn /\ IsManager(p) /\ recording = None /\ q # p /\ Here(q)
    /\ \A t \in open : ~ConversationHasPeer(t, p)
MayStart(p, q) ==
    /\ p \in SignedIn /\ IsManager(p) /\ recording = None /\ q # p /\ Here(q)
    /\ \A t \in open : ~ConversationHasPeer(t, p) /\ ~ConversationHasPeer(t, q)

Fresh == {t \in Talk : talk[t].status = "new" /\ \A u \in Talk : u < t => talk[u].status # "new"}

StartTalk(p, q) ==
    /\ Ready(p) /\ MayStart(p, q)
    /\ \E t \in Fresh :
         /\ talk' = [talk EXCEPT ![t] = [NewTalk EXCEPT !.status = "invited", !.from = p, !.to = q]]
         /\ open' = open \cup {t}
    /\ UNCHANGED <<roomVars, ending, caller, audioVars, pc, work, departure>>

\* setPublicMicPaused is awaited for each of the peers k..n that publishes one.
NextMic(t, k, n) == Least({j \in k..n : mic[Side(t, j)] # "none"}, n + 1)
Sides(t, k, n) == {Side(t, j) : j \in k..n}

\* acceptPrivateConversation gives up: the peers it muted, 1..n, get their
\* microphones back, and a conversation that is still there may be accepted again.
UndoFrom_StaysActivating(p, t, k, n, muted) ==                                     \* mutant
    LET j == NextMic(t, k, n)
    IN  /\ audioMuted' = [q \in Peer |-> IF Here(q) /\ q \in Sides(t, k, j) \cap Sides(t, 1, n)
                                         THEN talk[t].wasMuted[q] ELSE muted[q]]
        /\ IF j <= n THEN Await(p, "undoing", Work(t, j, n, None))
                     ELSE Return(p)
        /\ UNCHANGED talk
UndoFrom(p, t, k, n, muted) ==
    LET j == NextMic(t, k, n)
    IN  /\ audioMuted' = [q \in Peer |-> IF Here(q) /\ q \in Sides(t, k, j) \cap Sides(t, 1, n)
                                         THEN talk[t].wasMuted[q] ELSE muted[q]]
        /\ \/ /\ j <= n /\ UNCHANGED talk
              /\ Await(p, "undoing", Work(t, j, n, None))
           \/ /\ j > n /\ Return(p)
              /\ talk' = IF t \in open THEN [talk EXCEPT ![t].status = "invited"] ELSE talk

\* It pauses the microphones of both, then the conversation is active unless it
\* ended meanwhile.
PauseFrom(p, t, k, muted) ==
    LET j == NextMic(t, k, 2)
        now == [q \in Peer |-> muted[q] \/ (Here(q) /\ q \in Sides(t, k, j - 1))]
    IN  \/ /\ j <= 2 /\ UNCHANGED talk
           /\ audioMuted' = now
           /\ Await(p, "accepting", Work(t, j, 0, None))
        \/ /\ j = 3 /\ t \in open
           /\ audioMuted' = now
           /\ talk' = [talk EXCEPT ![t].status = "active"]
           /\ Return(p)
        \/ /\ j = 3 /\ t \notin open
           /\ UndoFrom(p, t, 1, 2, now)

AcceptTalk(p, t) ==
    /\ Ready(p) /\ t \in open /\ talk[t].to = p /\ talk[t].status = "invited" /\ recording = None
    /\ \/ /\ ~Here(talk[t].from)
          /\ BeginEnding(t, Call("request", p, None))
          /\ Await(p, "ending", NoWork)
       \/ /\ Here(talk[t].from)
          /\ LET was  == [q \in Peer |-> ConversationHasPeer(t, q) /\ audioMuted[q]]
                 mine == [talk[t] EXCEPT !.wasMuted = was, !.privateMuted = was]
                 j    == NextMic(t, 1, 2)
             IN  /\ audioMuted' = [q \in Peer |-> audioMuted[q] \/ (Here(q) /\ q \in Sides(t, 1, j - 1))]
                 /\ talk' = [talk EXCEPT ![t] = [mine EXCEPT !.status = IF j <= 2 THEN "activating" ELSE "active"]]
                 /\ IF j <= 2 THEN Await(p, "accepting", Work(t, j, 0, None))
                    ELSE UNCHANGED <<pc, work>>
          /\ UNCHANGED <<mic, open, ending, caller, audioVars>>
    /\ UNCHANGED <<role, recording, departure>>

AcceptAnswered(p) ==
    /\ pc[p] = "accepting"
    /\ LET t == work[p].talk
           k == work[p].step
           q == Side(t, k)
       IN  \/ /\ mic[q] # "none"
              /\ mic' = [mic EXCEPT ![q] = "paused"]
              /\ PauseFrom(p, t, k + 1, [audioMuted EXCEPT ![q] = TRUE])
           \/ /\ SfuMayFail \/ mic[q] = "none"
              /\ UNCHANGED mic
              /\ UndoFrom(p, t, 1, k - 1, audioMuted)
    /\ UNCHANGED <<role, recording, open, ending, caller, audioVars, departure>>

UndoAnswered(p) ==
    /\ pc[p] = "undoing"
    /\ LET t == work[p].talk
           k == work[p].step
           q == Side(t, k)
       IN  /\ mic' \in Outcome(RestoredMic(t, q), mic)
           /\ UndoFrom(p, t, k + 1, work[p].last, audioMuted)
    /\ UNCHANGED <<role, recording, open, ending, caller, audioVars, departure>>

\* declinePrivateConversation and cancelPrivateConversation for an invitation,
\* endPrivateConversation in any state.
EndTalk(p, t) ==
    /\ Ready(p) /\ t \in open /\ ConversationHasPeer(t, p)
    /\ BeginEnding(t, Call("request", p, None))
    /\ Await(p, "ending", NoWork)
    /\ UNCHANGED <<role, recording, departure>>

\* The conversation's timer.
TimeLimit_AcceptersPlan(t) ==                                                      \* mutant
    /\ IsActive(t) /\ talk[t].to \notin Unlimited
    /\ BeginEnding(t, Call("timer", None, None))
    /\ UNCHANGED <<role, recording, pc, work, departure>>
TimeLimit(t) ==
    /\ IsActive(t) /\ talk[t].from \notin Unlimited
    /\ BeginEnding(t, Call("timer", None, None))
    /\ UNCHANGED <<role, recording, pc, work, departure>>

-----------------------------------------------------------------------------
(* produce and closeProducer for the public microphone, muteStateChanged and *)
(* hostMutePeer for audio.                                                   *)

PublishMic(p) ==
    /\ Ready(p) /\ p \in Publishers /\ mic[p] = "none" /\ ~InActive(p)
    /\ Await(p, "publishing", NoWork)
    /\ UNCHANGED <<roomVars, talkVars, audioVars, departure>>
PublishAnswered(p) ==
    /\ pc[p] = "publishing"
    /\ mic' \in Outcome(IF Here(p) THEN [mic EXCEPT ![p] = "live"] ELSE mic, mic)
    /\ Return(p)
    /\ UNCHANGED <<role, audioMuted, recording, talkVars, audioVars, departure>>
UnpublishMic(p) ==
    /\ Ready(p) /\ mic[p] # "none"
    /\ Await(p, "unpublishing", NoWork)
    /\ UNCHANGED <<roomVars, talkVars, audioVars, departure>>
UnpublishAnswered(p) ==
    /\ pc[p] = "unpublishing"
    /\ mic' \in Outcome([mic EXCEPT ![p] = "none"], mic)
    /\ Return(p)
    /\ UNCHANGED <<role, audioMuted, recording, talkVars, audioVars, departure>>

MuteStateChanged(p, muted) ==
    /\ Ready(p) /\ p \in Publishers \cup Speakers /\ ~InActive(p)
    /\ audioMuted' = [audioMuted EXCEPT ![p] = muted]
    /\ UNCHANGED <<role, mic, recording, talkVars, audioVars, pc, work, departure>>
HostMutePeer(p, q) ==
    /\ Ready(p) /\ q \in Publishers \cup Speakers /\ IsManager(p) /\ CanManage(p, q)
    /\ audioMuted' = [audioMuted EXCEPT ![q] = TRUE]
    /\ UNCHANGED <<role, mic, recording, talkVars, audioVars, pc, work, departure>>

-----------------------------------------------------------------------------
(* produce, setPrivateConversationMuted, closeProducer and consume for the   *)
(* private audio.  A peer has one such producer at a time in a conversation. *)

ProducePrivate(p, t) ==
    /\ Ready(p) /\ p \in Speakers /\ IsActive(t) /\ ConversationHasPeer(t, p) /\ privateAudio[p][t] = "none"
    /\ Await(p, "producing", Work(t, 0, 0, None))
    /\ UNCHANGED <<roomVars, talkVars, audioVars, departure>>

\* "The session can expire or be ended while the SFU request is in flight."
StillOn_Unchecked(t) == TRUE                                                       \* mutant
StillOn(t) == t \in open

Register(p, t, state) ==
    privateAudio' = IF Here(p) THEN [privateAudio EXCEPT ![p][t] = state] ELSE privateAudio

ProduceAnswered(p) ==
    /\ pc[p] = "producing"
    /\ LET t == work[p].talk
       IN  \/ /\ SfuMayFail \/ ~StillOn(t)
              /\ UNCHANGED privateAudio /\ Return(p)
           \/ /\ StillOn(t) /\ talk[t].privateMuted[p]
              /\ Await(p, "mutingNew", work[p])
              /\ UNCHANGED privateAudio
           \/ /\ StillOn(t) /\ ~talk[t].privateMuted[p]
              /\ Register(p, t, "live") /\ Return(p)
    /\ UNCHANGED <<roomVars, talkVars, listeners, departure>>
\* A new producer of a muted peer was paused before it is registered.
MutingNewAnswered(p) ==
    /\ pc[p] = "mutingNew"
    /\ \/ SfuMayFail /\ UNCHANGED privateAudio
       \/ Register(p, work[p].talk, "paused")
    /\ Return(p)
    /\ UNCHANGED <<roomVars, talkVars, listeners, departure>>

SetPrivateMuted(p, t, muted) ==
    /\ Ready(p) /\ IsActive(t) /\ ConversationHasPeer(t, p)
    /\ \/ /\ talk[t].from \notin Unlimited           \* endsAt has passed, its timer is late
          /\ BeginEnding(t, Call("request", p, None))
          /\ Await(p, "ending", NoWork)
       \/ /\ talk' = [talk EXCEPT ![t].privateMuted[p] = muted]
          /\ IF privateAudio[p][t] = "none" THEN UNCHANGED <<pc, work>>
             ELSE Await(p, "muting", Work(t, 0, 0, None))
          /\ UNCHANGED <<audioMuted, mic, open, ending, caller, audioVars>>
    /\ UNCHANGED <<role, recording, departure>>
MutingAnswered(p) ==
    /\ pc[p] = "muting"
    /\ LET t == work[p].talk
           state == IF talk[t].privateMuted[p] THEN "paused" ELSE "live"
       IN  privateAudio' \in Outcome(IF privateAudio[p][t] = "none" THEN privateAudio
                                     ELSE [privateAudio EXCEPT ![p][t] = state], privateAudio)
    /\ Return(p)
    /\ UNCHANGED <<roomVars, talkVars, listeners, departure>>

ClosePrivate(p, t) ==
    /\ Ready(p) /\ privateAudio[p][t] # "none"
    /\ Await(p, "closing", Work(t, 0, 0, None))
    /\ UNCHANGED <<roomVars, talkVars, audioVars, departure>>
CloseAnswered(p) ==
    /\ pc[p] = "closing"
    /\ \/ SfuMayFail /\ UNCHANGED audioVars
       \/ /\ privateAudio' = [privateAudio EXCEPT ![p][work[p].talk] = "none"]
          /\ listeners' = [listeners EXCEPT ![p][work[p].talk] = {}]
    /\ Return(p)
    /\ UNCHANGED <<roomVars, talkVars, departure>>

\* consume's check that p belongs to the pair of q's private producer.
IsPair(p, q, t) == IsActive(t) /\ {p, q} = {talk[t].from, talk[t].to}

ConsumePrivate(p, q, t) ==
    /\ Ready(p) /\ p # q /\ Here(q) /\ privateAudio[q][t] # "none" /\ IsPair(p, q, t)
    /\ Await(p, "consuming", Work(t, 0, 0, q))
    /\ UNCHANGED <<roomVars, talkVars, audioVars, departure>>
ConsumeAnswered(p) ==
    /\ pc[p] = "consuming"
    /\ LET t == work[p].talk
           q == work[p].of
       IN  listeners' \in Outcome(IF Here(p) /\ privateAudio[q][t] # "none"
                                  THEN [listeners EXCEPT ![q][t] = @ \cup {p}] ELSE listeners,
                                  listeners)
    /\ Return(p)
    /\ UNCHANGED <<roomVars, talkVars, privateAudio, departure>>

-----------------------------------------------------------------------------
\* setRecordingState, and updateSettings forbidding recordings.
SetRecording(p) ==
    /\ Ready(p) /\ p \in SignedIn /\ role[p] = "host" /\ recording \in {None, p}
    /\ \/ /\ \A t \in Talk : ~IsActive(t)
          /\ recording' = p
       \/ recording' = None
    /\ UNCHANGED <<role, audioMuted, mic, talkVars, audioVars, pc, work, departure>>
ForbidRecording(p) ==
    /\ Ready(p) /\ IsManager(p)
    /\ recording' = None
    /\ UNCHANGED <<role, audioMuted, mic, talkVars, audioVars, pc, work, departure>>

-----------------------------------------------------------------------------
Answers(p) ==
    \/ KickAnswered(p) \/ ClearAnswered(p) \/ DepartAnswered(p)
    \/ AcceptAnswered(p) \/ UndoAnswered(p)
    \/ PublishAnswered(p) \/ UnpublishAnswered(p)
    \/ ProduceAnswered(p) \/ MutingNewAnswered(p) \/ MutingAnswered(p)
    \/ CloseAnswered(p) \/ ConsumeAnswered(p)

Requests(p) ==
    \/ EndMeeting(p) \/ Depart(p) \/ PublishMic(p) \/ UnpublishMic(p)
    \/ SetRecording(p) \/ ForbidRecording(p)
    \/ \E muted \in BOOLEAN : MuteStateChanged(p, muted)
    \/ \E q \in Peer : \/ KickPeer(p, q) \/ StartTalk(p, q) \/ HostMutePeer(p, q)
                       \/ \E r \in {"co-host", "member"} : ChangeRole(p, q, r)
                       \/ \E t \in Talk : ConsumePrivate(p, q, t)
    \/ \E t \in Talk : \/ AcceptTalk(p, t) \/ EndTalk(p, t)
                       \/ ProducePrivate(p, t) \/ ClosePrivate(p, t)
                       \/ \E muted \in BOOLEAN : SetPrivateMuted(p, t, muted)

Continue(t) == Resume(t) \/ EndNextTalk(t)

Next ==
    \/ \E t \in Talk : Continue(t)
    \/ /\ \A t \in Talk : ~Ended(t)
       /\ \/ \E t \in Talk : EndingAnswered(t) \/ TimeLimit(t)
          \/ \E p \in Peer : Answers(p) \/ Requests(p)

Spec == Init /\ [][Next]_vars

\* SFU calls answer or time out and the conversations' timers fire.
Fairness ==
    /\ \A t \in Talk : /\ WF_vars(Continue(t)) /\ WF_vars(EndingAnswered(t))
                       /\ WF_vars(TimeLimit(t))
    /\ \A p \in Peer : WF_vars(Answers(p)) /\ WF_vars(DepartAnswered(p))
FairSpec == Spec /\ Fairness

-----------------------------------------------------------------------------
(* Properties *)

\* Nobody is in two private conversations, whatever invitations cross.
OneTalkEach ==
    \A t, u \in open : t # u =>
        {talk[t].from, talk[t].to} \cap {talk[u].from, talk[u].to} = {}

\* Live private audio belongs to a conversation that is on, or that is being
\* ended right now: none survives because it was published, or unmuted, while
\* the conversation ended.
LivePrivateAudioInTalk ==
    \A p \in Peer, t \in Talk :
        privateAudio[p][t] = "live" => t \in open \/ ending[t] \in Calls

\* Only the other peer of the pair ever listens to somebody's private audio.
OnlyPairListens ==
    \A p \in Peer, t \in Talk :
        listeners[p][t] # {} => /\ ConversationHasPeer(t, p)
                                /\ listeners[p][t] = {talk[t].from, talk[t].to} \ {p}

\* An acceptance never gets stuck: it ends in an active conversation, in an
\* invitation that can be accepted again, or with the conversation gone.
ActivationResolves ==
    \A t \in Talk : (t \in open /\ talk[t].status = "activating")
                        ~> (t \notin open \/ talk[t].status # "activating")

\* A conversation with a time limit ends, also when its peers have left.
LimitedTalksEnd ==
    \A t \in Talk : (IsActive(t) /\ talk[t].from \notin Unlimited) ~> t \notin open

=============================================================================
