------------------------------ MODULE Captions ------------------------------
(***************************************************************************)
(* The captions of one room: what is said is stored, pushed in every       *)
(* language somebody chose, answered to those who ask for it, and kept     *)
(* for a transcript the host may save.                                     *)
(*                                                                         *)
(* Source: services/signaling/src/captions.ts, asr-relay.ts, their calls   *)
(* in rpc/handler.ts and the language lists of translation.ts.  The        *)
(* caption state of the room may be dropped and made again while           *)
(* translations of the old one are under way, so states are numbered.  A   *)
(* translation runs from one await to the next: the languages of the       *)
(* provider first, then the provider's answer.  A refused request (muted   *)
(* speaker, rate, plan) changes nothing and is not an action, and the      *)
(* limits on what a state keeps (captions, translations, lines) are not    *)
(* reached.                                                                *)
(***************************************************************************)
EXTENDS Integers, FiniteSets

CONSTANTS
    Peer,             \* joins: a connection joins under a fresh id
    Segment,          \* final segments of one speaker
    Language,         \* languages
    Offered,          \* languages listeners choose from
    Speaks,           \* the language of each speaker's segments
    Google,           \* translation goes to Google, with the speaker's consent
    RoomConcurrency,  \* translations of one state at once
    MaxSpeech,        \* sessions with the speech service
    MaxStates         \* bound: caption states made for the room

ASSUME ConstantAssumption ==
    /\ IsFiniteSet(Peer) /\ IsFiniteSet(Segment) /\ IsFiniteSet(Language) /\ Speaks \in [Peer -> Language]
    /\ Offered \subseteq Language
    /\ Google \in BOOLEAN /\ {RoomConcurrency, MaxSpeech, MaxStates} \subseteq Nat \ {0}

VARIABLES
    status,    \* of each peer: new, inside, removed from the room, gone
    speech,    \* peers with a session at the speech service
    current,   \* the number of the room's caption state, 0 for none
    made,      \* states made so far
    captions,  \* final captions of the current state, with the speaker's consent
    choice,    \* languages each listener of the current state chose
    saving,    \* the current state saves a transcript
    lines,     \* its lines
    active,    \* of each state: translations counted as running
    cached,    \* of each state: translations it keeps
    calls,     \* of each state: requests at the provider
    pending,   \* of each state: translations whose answer is shared
    jobs,      \* pushes and pulls under way
    said,      \* history: lines spoken while the transcript was saved
    handed     \* history: how often each line was handed to the store

people == <<status, speech>>
room   == <<current, made, captions, choice, saving, lines>>
work   == <<active, cached, calls, pending, jobs>>
vars   == <<people, room, work, said, handed>>

States  == 1..MaxStates
Caption == Peer \X Segment
Key     == Caption \X Offered
Line    == States \X Caption
Job == [s : States, key : Key, to : SUBSET Peer, pull : BOOLEAN, at : {"languages", "refused", "answer"}]

Inside == {p \in Peer : status[p] = "inside"}
Wanted(c) == {t \in Offered : t # Speaks[c[1]] /\ \E p \in Peer : t \in choice[p]}

TypeOK ==
    /\ status \in [Peer -> {"new", "inside", "removed", "gone"}]
    /\ speech \subseteq Peer /\ made \in 0..MaxStates /\ current \in {0, made}
    /\ captions \subseteq Caption \X BOOLEAN /\ choice \in [Peer -> SUBSET Offered]
    /\ saving \in BOOLEAN /\ lines \subseteq Caption /\ (~saving => lines = {})
    /\ active \in [States -> 0..RoomConcurrency]
    /\ cached \in [States -> SUBSET Key]
    /\ calls \in [States -> [Key -> Nat]] /\ pending \in [States -> SUBSET Key] /\ jobs \subseteq Job
    /\ said \subseteq Line /\ handed \in [Line -> Nat]

Nothing == [p \in Peer |-> {}]
Init ==
    /\ status = [p \in Peer |-> "new"] /\ speech = {}
    /\ current = 0 /\ made = 0 /\ captions = {} /\ choice = Nothing /\ saving = FALSE /\ lines = {}
    /\ active = [s \in States |-> 0] /\ cached = [s \in States |-> {}]
    /\ calls = [s \in States |-> [k \in Key |-> 0]] /\ pending = [s \in States |-> {}] /\ jobs = {}
    /\ said = {} /\ handed = [l \in Line |-> 0]

-----------------------------------------------------------------------------
(* The state of the room's captions. *)

\* roomState: a request finds the current state or makes one.
Usable == current # 0 \/ made < MaxStates
Now    == IF current = 0 THEN made + 1 ELSE current
Opened == current' = Now /\ made' = IF current = 0 THEN made + 1 ELSE made

\* saveTranscript is handed the lines of the current state.
Hand == handed' = [l \in Line |-> IF saving /\ l[1] = current /\ l[2] \in lines THEN handed[l] + 1 ELSE handed[l]]

\* finishRoom: the state is dropped before its transcript is saved, so that
\* nobody finds it twice.
Handed_OnlyWhenSwitchedOff == UNCHANGED handed                                     \* mutant
Handed == Hand
FinishRoom ==
    /\ current' = 0 /\ captions' = {} /\ choice' = Nothing /\ saving' = FALSE /\ lines' = {}
    /\ Handed /\ UNCHANGED made

\* Another room's request sweeps this state after ten quiet minutes.
Sweep ==
    /\ current # 0 /\ active[current] = 0 /\ FinishRoom
    /\ UNCHANGED <<people, work, said>>

-----------------------------------------------------------------------------
(* Coming and going, and the sessions with the speech service. *)

Join(p) ==
    /\ status[p] = "new" /\ status' = [status EXCEPT ![p] = "inside"]
    /\ UNCHANGED <<speech, room, work, said, handed>>

\* kickPeer takes the peer out of the room and closes its socket.
Kick(p) ==
    /\ status[p] = "inside" /\ status' = [status EXCEPT ![p] = "removed"]
    /\ UNCHANGED <<speech, room, work, said, handed>>

\* handlePeerDisconnect, after its awaits.
Silenced(p) == speech \ {p}
Disconnect(p) ==
    /\ status[p] \in {"inside", "removed"} /\ status' = [status EXCEPT ![p] = "gone"]
    /\ speech' = Silenced(p)
    /\ IF current # 0 /\ Inside \ {p} = {} THEN FinishRoom
       ELSE choice' = [choice EXCEPT ![p] = {}] /\ UNCHANGED <<current, made, captions, saving, lines, handed>>
    /\ UNCHANGED <<work, said>>

\* startAsr replaces the peer's session, if the service has room for one.  A
\* stopped session delivers its last results a little longer.
StartSpeech(p) ==
    /\ p \in Inside
    /\ speech' = IF Cardinality(speech \ {p}) < MaxSpeech THEN speech \cup {p} ELSE speech \ {p}
    /\ UNCHANGED <<status, room, work, said, handed>>
\* stopAsr, or the service refuses the session or closes it.
StopSpeech(p) ==
    /\ p \in speech /\ speech' = speech \ {p} /\ UNCHANGED <<status, room, work, said, handed>>

-----------------------------------------------------------------------------
(* Captions, listeners and the transcript. *)

\* fanOut: one job per language, as many as there are slots; the rest are told
\* the room is busy.  Other rooms may hold the slots all rooms share.
PushJob(c, t, allowed) ==
    [s |-> Now, key |-> <<c, t>>, to |-> {p \in Peer : t \in choice[p]}, pull |-> FALSE,
     at |-> IF Google /\ ~allowed THEN "refused" ELSE "languages"]
FanOut(c, allowed) ==
    \E admitted \in SUBSET Wanted(c) :
        /\ active[Now] + Cardinality(admitted) <= RoomConcurrency
        /\ jobs' = jobs \cup {PushJob(c, t, allowed) : t \in admitted}
        /\ active' = [active EXCEPT ![Now] = @ + Cardinality(admitted)]

\* store, for a segment the browser publishes or the speech service found.  A
\* segment that is there already is accepted and not stored again.
Publish(c) ==
    /\ c[1] \in Inside /\ Usable /\ Opened
    /\ IF \E a \in BOOLEAN : <<c, a>> \in captions
       THEN UNCHANGED <<captions, lines, said, jobs, active>>
       ELSE \E allowed \in BOOLEAN :
            /\ captions' = captions \cup {<<c, allowed>>}
            /\ lines' = IF saving THEN lines \cup {c} ELSE lines
            /\ said' = IF saving THEN said \cup {<<Now, c>>} ELSE said
            /\ FanOut(c, allowed)
    /\ UNCHANGED <<people, choice, saving, cached, calls, pending, handed>>
Subscribe(p, targets) ==
    /\ p \in Inside /\ Usable /\ Opened /\ Cardinality(targets) <= 2 /\ choice[p] # targets
    /\ choice' = [choice EXCEPT ![p] = targets]
    /\ UNCHANGED <<people, captions, saving, lines, work, said, handed>>

SetTranscriptSaving(p, enabled) ==
    /\ p \in Inside /\ Usable /\ Opened /\ enabled # saving
    /\ saving' = enabled /\ lines' = {} /\ (IF enabled THEN UNCHANGED handed ELSE Hand)
    /\ UNCHANGED <<people, captions, choice, work, said>>

-----------------------------------------------------------------------------
(* Translations. *)

\* translateCaption: the pull of older clients, one at a time per translation.
Pull(p, c, t) ==
    LET j == [s |-> Now, key |-> <<c, t>>, to |-> {p}, pull |-> TRUE, at |-> "languages"] IN
    /\ p \in Inside /\ current # 0 /\ t # Speaks[c[1]]
    /\ \E a \in BOOLEAN : <<c, a>> \in captions /\ (Google => a)
    /\ \A i \in jobs : ~(i.pull /\ i.key = j.key /\ i.to = j.to)
    /\ active[current] < RoomConcurrency
    /\ jobs' = jobs \cup {j} /\ active' = [active EXCEPT ![current] = @ + 1]
    /\ UNCHANGED <<people, room, cached, calls, pending, said, handed>>

\* Each job gives its slot back to the state it took it from.
Slot_OfTheRoom(j) == IF current = 0 THEN j.s ELSE current                       \* mutant
Slot(j) == j.s
Finish(done) ==
    /\ jobs' = jobs \ done
    /\ active' = [s \in States |-> active[s] - Cardinality({j \in done : Slot(j) = s})]

\* The languages are known: a kept answer is used, a shared one is awaited, or
\* the provider is asked.
IsPending_NotShared(j) == FALSE                                                   \* mutant
IsPending(j) == j.key \in pending[j.s]
LanguagesKnown(j) ==
    /\ j \in jobs /\ j.at = "languages"
    /\ IF j.key \in cached[j.s] THEN Finish({j}) /\ UNCHANGED <<calls, pending>>
       ELSE /\ jobs' = (jobs \ {j}) \cup {[j EXCEPT !.at = "answer"]} /\ UNCHANGED active
            /\ IF IsPending(j) THEN UNCHANGED <<calls, pending>>
               ELSE /\ calls' = [calls EXCEPT ![j.s][j.key] = @ + 1]
                    /\ pending' = [pending EXCEPT ![j.s] = @ \cup {j.key}]
    /\ UNCHANGED <<people, room, cached, said, handed>>

\* The speaker has not agreed, the languages are not to be had or lack the pair.
JobFails(j) ==
    /\ j \in jobs /\ j.at \in {"languages", "refused"} /\ Finish({j})
    /\ UNCHANGED <<people, room, cached, calls, pending, said, handed>>

\* The provider answers or fails, in time or by its timeout, and everyone who
\* waits for that translation goes on.
Answer(s, k, ok) ==
    /\ calls[s][k] > 0 /\ calls' = [calls EXCEPT ![s][k] = @ - 1]
    /\ cached' = IF ok THEN [cached EXCEPT ![s] = @ \cup {k}] ELSE cached
    /\ pending' = [pending EXCEPT ![s] = @ \ {k}]
    /\ Finish({j \in jobs : j.s = s /\ j.key = k /\ j.at = "answer"})
    /\ UNCHANGED <<people, room, said, handed>>

-----------------------------------------------------------------------------
Next ==
    \/ \E p \in Peer :
        \/ Join(p) \/ Kick(p) \/ Disconnect(p) \/ StartSpeech(p) \/ StopSpeech(p)
        \/ \E targets \in SUBSET Offered : Subscribe(p, targets)
        \/ \E enabled \in BOOLEAN : SetTranscriptSaving(p, enabled)
        \/ \E c \in Caption, t \in Offered : Pull(p, c, t)
    \/ \E c \in Caption : Publish(c)
    \/ \E j \in jobs : LanguagesKnown(j) \/ JobFails(j)
    \/ \E s \in States, k \in Key, ok \in BOOLEAN : Answer(s, k, ok)
    \/ Sweep

Spec == Init /\ [][Next]_vars

-----------------------------------------------------------------------------
(* Properties. *)

\* "translated ONCE per language": however many listeners and requests want a
\* translation, at most one request for it is at the provider, and none while
\* the answer is kept.
OnceEach == \A s \in States, k \in Key : calls[s][k] <= 1 /\ (calls[s][k] = 1 => k \notin cached[s])

\* The slots counted as taken are those of the jobs under way, also when the
\* state a job belongs to was dropped and another made in its place: captions
\* neither run out of slots nor exceed them.
SlotsReturned == \A s \in States : active[s] = Cardinality({j \in jobs : j.s = s})

\* What was said while the transcript was saved is in the transcript of the
\* room or was handed to the store once, whichever way the room's state ended.
TranscriptKept ==
    \A l \in Line : handed[l] + (IF l[1] = current /\ l[2] \in lines THEN 1 ELSE 0) = IF l \in said THEN 1 ELSE 0

\* No session at the speech service outlives the connection of its speaker, also
\* when the speaker was removed from the room before the connection closed.
SpeechEnds == \A p \in speech : status[p] \in {"inside", "removed"}

=============================================================================
