-------------------------- MODULE CaptionsProofs --------------------------
(***************************************************************************)
(* Proofs about Captions, for any speakers, languages, limits and number   *)
(* of states: its type invariant and every property its run checks.        *)
(***************************************************************************)
EXTENDS Captions, TLAPS, FiniteSetTheorems, FunctionTheorems

USE ConstantAssumption

Typed ==
    /\ status \in [Peer -> {"new", "inside", "removed", "gone"}]
    /\ speech \subseteq Peer /\ made \in 0..MaxStates /\ current \in {0, made}
    /\ captions \subseteq Caption \X BOOLEAN /\ choice \in [Peer -> SUBSET Offered]
    /\ saving \in BOOLEAN /\ lines \subseteq Caption /\ (~saving => lines = {})
    /\ active \in [States -> Int]
    /\ cached \in [States -> SUBSET Key]
    /\ calls \in [States -> [Key -> Nat]] /\ pending \in [States -> SUBSET Key] /\ jobs \subseteq Job
    /\ said \subseteq Line /\ handed \in [Line -> Nat]

\* The final captions the current state holds.
Held == {c \in Caption : \E a \in BOOLEAN : <<c, a>> \in captions}

\* Jobs belong to states that were made, and those of the current one to its
\* captions; two jobs differ in what they translate or for whom.
Same(i, j) == i.s = j.s /\ i.key = j.key /\ i.pull = j.pull /\ (i.pull => i.to = j.to)
Known ==
    /\ \A j \in jobs : j.s <= made /\ (j.s = current => j.key[1] \in Held)
    /\ \A i, j \in jobs : Same(i, j) => i = j

\* The slots of each state.
Slots ==
    /\ IsFiniteSet(jobs) /\ SlotsReturned
    /\ \A s \in States : active[s] <= RoomConcurrency

\* A room without a state keeps nothing; what was said is among the captions.
Fresh ==
    /\ current = 0 => captions = {} /\ saving = FALSE /\ lines = {}
    /\ \A l \in said : l[1] <= made /\ (l[1] = current => l[2] \in Held)

\* An answer is shared exactly while its request is at the provider.
Shared == \A s \in States, k \in Key :
    /\ calls[s][k] <= 1 /\ (calls[s][k] = 1 <=> k \in pending[s])
    /\ k \in pending[s] => k \notin cached[s]

JobInv == Typed /\ Known /\ Slots

LEMMA Limits == MaxStates \in Nat /\ RoomConcurrency \in Nat /\ MaxSpeech \in Nat
  OBVIOUS

LEMMA TypedInit == Init => Typed
<1> SUFFICES ASSUME Init PROVE Typed
  OBVIOUS
<1>1. /\ status \in [Peer -> {"new", "inside", "removed", "gone"}] /\ choice \in [Peer -> SUBSET Offered]
  BY DEF Init, Nothing
<1>2. active \in [States -> Int] /\ cached \in [States -> SUBSET Key] /\ pending \in [States -> SUBSET Key]
  BY DEF Init
<1>3. calls \in [States -> [Key -> Nat]]
  BY DEF Init
<1>4. handed \in [Line -> Nat]
  BY DEF Init
<1>5. /\ speech = {} /\ current = 0 /\ made = 0 /\ captions = {} /\ saving = FALSE /\ lines = {}
      /\ jobs = {} /\ said = {}
  BY DEF Init
<1>6. 0 \in 0..MaxStates /\ FALSE \in BOOLEAN
  BY Limits
<1> QED BY <1>1, <1>2, <1>3, <1>4, <1>5, <1>6 DEF Typed

LEMMA JobInit == Init => JobInv
<1> SUFFICES ASSUME Init PROVE JobInv
  OBVIOUS
<1>1. jobs = {} /\ \A s \in States : active[s] = 0 /\ {j \in jobs : j.s = s} = {}
  BY DEF Init
<1>2. Known
  BY <1>1 DEF Known
<1>3. Slots
  BY <1>1, FS_EmptySet DEF Slots, SlotsReturned
<1> QED BY TypedInit, <1>2, <1>3 DEF JobInv

-----------------------------------------------------------------------------
(* Steps that leave the jobs alone. *)

\* The room's state may be opened or dropped; no job belongs to a state that is
\* not made yet.
LEMMA JobsAlone ==
  ASSUME JobInv, Typed', UNCHANGED <<jobs, active>>,
         \/ Opened /\ Held \subseteq Held'
         \/ current' = 0 /\ made' = made
         \/ UNCHANGED <<current, made, captions>>
  PROVE  JobInv'
<1>0. Typed /\ Known /\ Slots
  BY DEF JobInv
<1>1. Slots'
  BY <1>0 DEF Slots, SlotsReturned
<1>2. \A j \in jobs : j.s \in States
  BY <1>0 DEF Typed, Job
<1>3. Known'
  <2>1. CASE Opened /\ Held \subseteq Held'
    BY <1>0, <1>2, <2>1 DEF Known, Opened, Now, Typed, States
  <2>2. CASE current' = 0 /\ made' = made
    BY <1>0, <1>2, <2>2 DEF Known, Typed, States
  <2>3. CASE UNCHANGED <<current, made, captions>>
    BY <1>0, <2>3 DEF Known, Held
  <2> QED BY <2>1, <2>2, <2>3
<1> QED BY <1>1, <1>3 DEF JobInv

-----------------------------------------------------------------------------
(* Slots taken and given back. *)

LEMMA FinishStep ==
  ASSUME Typed, Slots, NEW done \in SUBSET jobs, Finish(done)
  PROVE  /\ jobs' = jobs \ done /\ IsFiniteSet(jobs')
         /\ active' \in [States -> Int]
         /\ \A s \in States : /\ active'[s] = Cardinality({j \in jobs' : j.s = s})
                              /\ active'[s] <= RoomConcurrency
<1>1. jobs' = jobs \ done /\ active' = [s \in States |-> active[s] - Cardinality({j \in done : j.s = s})]
  BY DEF Finish, Slot
<1>2. IsFiniteSet(jobs) /\ IsFiniteSet(jobs') /\ IsFiniteSet(done)
  BY <1>1, FS_Subset DEF Slots
<1>3. ASSUME NEW s \in States
      PROVE  /\ active'[s] = Cardinality({j \in jobs' : j.s = s})
             /\ active'[s] <= RoomConcurrency /\ active'[s] \in Int
  <2> DEFINE A == {j \in jobs : j.s = s}
             B == {j \in done : j.s = s}
  <2>1. IsFiniteSet(A) /\ IsFiniteSet(B) /\ Cardinality(B) \in Nat
    BY <1>2, FS_Subset, FS_CardinalityType
  <2>2. A \cap B = B /\ {j \in jobs' : j.s = s} = A \ B
    BY <1>1
  <2>3. Cardinality(A \ B) = Cardinality(A) - Cardinality(B)
    BY <2>1, <2>2, FS_Difference
  <2>4. active[s] = Cardinality(A) /\ active[s] \in Int /\ active[s] <= RoomConcurrency
    BY DEF Slots, SlotsReturned, Typed
  <2>5. active'[s] = active[s] - Cardinality(B)
    BY <1>1
  <2>6. active'[s] = Cardinality({j \in jobs' : j.s = s})
    BY <2>2, <2>3, <2>4, <2>5
  <2> QED BY <2>1, <2>4, <2>5, <2>6
<1> QED BY <1>1, <1>2, <1>3

\* fanOut takes a slot for each job it adds.
LEMMA FanOutStep ==
  ASSUME JobInv, NEW c \in Caption, c[1] \in Peer, NEW allowed \in BOOLEAN, FanOut(c, allowed), Usable,
         current # 0 => c \notin Held
  PROVE  /\ jobs' \subseteq Job /\ IsFiniteSet(jobs') /\ active' \in [States -> Int]
         /\ \A j \in jobs' : j \in jobs \/ (j.s = Now /\ j.key[1] = c)
         /\ \A i, j \in jobs' : Same(i, j) => i = j
         /\ \A s \in States : /\ active'[s] = Cardinality({j \in jobs' : j.s = s})
                              /\ active'[s] <= RoomConcurrency
<1>0. Typed /\ Known /\ Slots
  BY DEF JobInv
<1>1. PICK admitted \in SUBSET Wanted(c) :
        /\ active[Now] + Cardinality(admitted) <= RoomConcurrency
        /\ jobs' = jobs \cup {PushJob(c, t, allowed) : t \in admitted}
        /\ active' = [active EXCEPT ![Now] = @ + Cardinality(admitted)]
  BY DEF FanOut
<1> DEFINE New == {PushJob(c, t, allowed) : t \in admitted}
           job == [t \in admitted |-> PushJob(c, t, allowed)]
<1>2. Now \in States
  BY <1>0 DEF Now, Usable, Typed, States
<1>3. IsFiniteSet(admitted) /\ admitted \subseteq Offered
  BY FS_Subset DEF Wanted
<1>4. \A t \in admitted : /\ PushJob(c, t, allowed) \in Job
                          /\ PushJob(c, t, allowed).s = Now /\ PushJob(c, t, allowed).key = <<c, t>>
                          /\ PushJob(c, t, allowed).pull = FALSE
  BY <1>2, <1>3 DEF PushJob, Job, Key
<1>5. job \in Bijection(admitted, New)
  <2>1. job \in [admitted -> New]
    OBVIOUS
  <2>2. \A a, b \in admitted : job[a] = job[b] => a = b
    BY <1>4
  <2>3. \A j \in New : \E t \in admitted : job[t] = j
    OBVIOUS
  <2> QED BY <2>1, <2>2, <2>3, Fun_IsBij
<1>6. IsFiniteSet(New) /\ Cardinality(New) = Cardinality(admitted)
  BY <1>3, <1>5, FS_Bijection DEF ExistsBijection
<1>7. \A j \in jobs : ~(j.s = Now /\ j.key[1] = c)
  <2>1. CASE current = 0
    BY <1>0, <2>1 DEF Known, Now, Typed
  <2>2. CASE current # 0
    BY <1>0, <2>2 DEF Known, Now
  <2> QED BY <2>1, <2>2
<1>8. \A j \in New : j.s = Now /\ j.key[1] = c /\ j \in Job
  BY <1>4
<1>9. \A i, j \in jobs' : Same(i, j) => i = j
  <2>1. ASSUME NEW i \in New, NEW j \in New, Same(i, j) PROVE i = j
    BY <1>4, <2>1 DEF Same
  <2>2. ASSUME NEW i \in New, NEW j \in jobs PROVE ~Same(i, j) /\ ~Same(j, i)
    BY <1>7, <1>8, <2>2 DEF Same
  <2>3. ASSUME NEW i \in jobs, NEW j \in jobs, Same(i, j) PROVE i = j
    BY <1>0, <2>3 DEF Known
  <2> QED BY <1>1, <2>1, <2>2, <2>3
<1>10. IsFiniteSet(jobs') /\ jobs \cap New = {}
  BY <1>0, <1>1, <1>6, <1>7, <1>8, FS_Union DEF Slots
<1>11. ASSUME NEW s \in States
       PROVE  active'[s] = Cardinality({j \in jobs' : j.s = s}) /\ active'[s] <= RoomConcurrency
  <2>1. active[s] = Cardinality({j \in jobs : j.s = s}) /\ active[s] \in Int /\ active[s] <= RoomConcurrency
    BY <1>0 DEF Slots, SlotsReturned, Typed
  <2>2. CASE s # Now
    <3>1. {j \in jobs' : j.s = s} = {j \in jobs : j.s = s}
      BY <1>1, <1>8, <2>2
    <3>2. active'[s] = active[s]
      BY <1>0, <1>1, <2>2 DEF Typed
    <3> QED BY <2>1, <3>1, <3>2
  <2>3. CASE s = Now
    <3> DEFINE A == {j \in jobs : j.s = s}
    <3>1. {j \in jobs' : j.s = s} = A \cup New /\ A \cap New = {}
      BY <1>1, <1>8, <1>10, <2>3
    <3>2. IsFiniteSet(A) /\ Cardinality(A) \in Nat /\ Cardinality(New) \in Nat
      BY <1>0, <1>6, FS_Subset, FS_CardinalityType DEF Slots
    <3>3. Cardinality(A \cup New) = Cardinality(A) + Cardinality(New)
      <4>1. Cardinality(A \cap New) = 0
        BY <3>1, FS_EmptySet
      <4>2. Cardinality(A \cup New) = Cardinality(A) + Cardinality(New) - Cardinality(A \cap New)
        BY <1>6, <3>2, FS_Union
      <4> QED BY <3>2, <4>1, <4>2
    <3>4. active'[s] = active[s] + Cardinality(admitted)
      BY <1>0, <1>1, <2>3 DEF Typed
    <3>5. active'[s] = Cardinality({j \in jobs' : j.s = s})
      BY <1>6, <2>1, <3>1, <3>3, <3>4
    <3> QED BY <1>1, <2>3, <3>4, <3>5
  <2> QED BY <2>2, <2>3
<1>12. active' \in [States -> Int]
  <2>1. Cardinality(admitted) \in Int
    BY <1>3, FS_CardinalityType
  <2> QED BY <1>0, <1>1, <1>2, <2>1 DEF Typed
<1>13. jobs' \subseteq Job /\ \A j \in jobs' : j \in jobs \/ (j.s = Now /\ j.key[1] = c)
  BY <1>0, <1>1, <1>8 DEF Typed
<1> QED BY <1>9, <1>10, <1>11, <1>12, <1>13

-----------------------------------------------------------------------------
(* The domains and the jobs. *)

LEMMA OpenedStep == ASSUME Typed, Usable, Opened PROVE made' \in 0..MaxStates /\ current' \in {0, made'}
  BY Limits DEF Typed, Usable, Opened, Now

LEMMA FinishRoomStep ==
  ASSUME Typed, FinishRoom
  PROVE  /\ current' = 0 /\ made' = made /\ captions' = {} /\ choice' \in [Peer -> SUBSET Offered]
         /\ saving' = FALSE /\ lines' = {} /\ handed' \in [Line -> Nat]
  BY DEF Typed, FinishRoom, Handed, Hand, Nothing

\* Coming, going and speech: the jobs stay.
LEMMA PeopleJobs ==
  ASSUME JobInv, NEW p \in Peer, Join(p) \/ Kick(p) \/ Disconnect(p) \/ StartSpeech(p) \/ StopSpeech(p)
  PROVE  JobInv'
<1>0. Typed
  BY DEF JobInv
<1>1. CASE Join(p) \/ Kick(p) \/ StartSpeech(p) \/ StopSpeech(p)
  <2>1. Typed'
    BY <1>0, <1>1 DEF Typed, Join, Kick, StartSpeech, StopSpeech, room, work, Inside
  <2>2. UNCHANGED <<jobs, active, current, made, captions>>
    BY <1>1 DEF Join, Kick, StartSpeech, StopSpeech, room, work
  <2> QED BY <2>1, <2>2, JobsAlone
<1>2. CASE Disconnect(p)
  <2>1. /\ status' \in [Peer -> {"new", "inside", "removed", "gone"}] /\ speech' \subseteq Peer
        /\ UNCHANGED <<active, cached, calls, pending, jobs, said>>
    BY <1>0, <1>2 DEF Typed, Disconnect, Silenced, work
  <2>2. CASE FinishRoom
    BY <1>0, <2>1, <2>2, FinishRoomStep, JobsAlone DEF Typed
  <2>3. CASE ~FinishRoom
    <3>1. choice' = [choice EXCEPT ![p] = {}] /\ UNCHANGED <<current, made, captions, saving, lines, handed>>
      BY <1>2, <2>3 DEF Disconnect
    <3>2. Typed'
      BY <1>0, <2>1, <3>1 DEF Typed
    <3> QED BY <2>1, <3>1, <3>2, JobsAlone
  <2> QED BY <2>2, <2>3
<1> QED BY <1>1, <1>2

\* Listeners, the transcript and the sweep: the jobs stay.
LEMMA RoomJobs ==
  ASSUME JobInv,
         \/ \E p \in Peer, targets \in SUBSET Offered : Subscribe(p, targets)
         \/ \E p \in Peer, enabled \in BOOLEAN : SetTranscriptSaving(p, enabled)
         \/ Sweep
  PROVE  JobInv'
<1>0. Typed
  BY DEF JobInv
<1>1. ASSUME NEW p \in Peer, NEW targets \in SUBSET Offered, Subscribe(p, targets) PROVE JobInv'
  <2>1. Typed'
    BY <1>0, <1>1, OpenedStep DEF Typed, Subscribe, people, work
  <2> QED BY <1>1, <2>1, JobsAlone DEF Subscribe, work, Held
<1>2. ASSUME NEW p \in Peer, NEW enabled \in BOOLEAN, SetTranscriptSaving(p, enabled) PROVE JobInv'
  <2>1. handed' \in [Line -> Nat]
    BY <1>0, <1>2 DEF Typed, SetTranscriptSaving, Hand
  <2>2. Typed'
    BY <1>0, <1>2, <2>1, OpenedStep DEF Typed, SetTranscriptSaving, people, work
  <2> QED BY <1>2, <2>2, JobsAlone DEF SetTranscriptSaving, work, Held
<1>3. CASE Sweep
  <2>1. Typed'
    BY <1>0, <1>3, FinishRoomStep DEF Typed, Sweep, people, work
  <2> QED BY <1>0, <1>3, <2>1, FinishRoomStep, JobsAlone DEF Sweep, work
<1> QED BY <1>1, <1>2, <1>3

LEMMA PublishJobs == ASSUME JobInv, NEW c \in Caption, Publish(c) PROVE JobInv'
<1>0. Typed /\ Known /\ Slots /\ Usable /\ Opened /\ c[1] \in Peer
  BY DEF JobInv, Publish, Inside
<1>1. CASE c \in Held
  <2>1. UNCHANGED <<captions, lines, said, jobs, active, status, speech, choice, saving, cached, calls, pending, handed>>
    BY <1>1 DEF Publish, Held, people
  <2>2. Typed'
    BY <1>0, <2>1, OpenedStep DEF Typed
  <2> QED BY <1>0, <2>1, <2>2, JobsAlone DEF Held
<1>2. CASE c \notin Held
  <2>1. PICK allowed \in BOOLEAN :
          /\ captions' = captions \cup {<<c, allowed>>}
          /\ lines' = IF saving THEN lines \cup {c} ELSE lines
          /\ said' = IF saving THEN said \cup {<<Now, c>>} ELSE said
          /\ FanOut(c, allowed)
    BY <1>2 DEF Publish, Held
  <2>2. UNCHANGED <<status, speech, choice, saving, cached, calls, pending, handed>>
    BY DEF Publish, people
  <2>3. /\ jobs' \subseteq Job /\ IsFiniteSet(jobs') /\ active' \in [States -> Int]
        /\ \A j \in jobs' : j \in jobs \/ (j.s = Now /\ j.key[1] = c)
        /\ \A i, j \in jobs' : Same(i, j) => i = j
        /\ \A s \in States : /\ active'[s] = Cardinality({j \in jobs' : j.s = s})
                             /\ active'[s] <= RoomConcurrency
    BY <1>0, <1>2, <2>1, FanOutStep
  <2>4. Now \in States
    BY <1>0, Limits DEF Typed, Usable, Now, States
  <2>5. Typed'
    <3>1. captions' \subseteq Caption \X BOOLEAN /\ lines' \subseteq Caption /\ said' \subseteq Line
      BY <1>0, <2>1, <2>4 DEF Typed, Line
    <3> QED BY <1>0, <2>1, <2>2, <2>3, <3>1, OpenedStep DEF Typed
  <2>6. Held' = Held \cup {c} /\ current' = Now /\ made' >= Now /\ made' >= made
    <3>1. \A x \in Caption : x \in Held' <=> x \in Held \/ x = c
      BY <2>1 DEF Held
    <3>2. Held' = Held \cup {c}
      BY <3>1 DEF Held
    <3> QED BY <1>0, <3>2, Limits DEF Opened, Now, Typed
  <2>7. ASSUME NEW j \in jobs PROVE j.s <= made' /\ (j.s = current' => j.key[1] \in Held')
    <3>1. j.s <= made /\ (j.s = current => j.key[1] \in Held) /\ j.s \in States
      BY <1>0 DEF Known, Typed, Job
    <3> QED BY <1>0, <2>6, <3>1 DEF Opened, Now, Typed, States
  <2>8. Known'
    BY <2>3, <2>4, <2>6, <2>7 DEF Known, States
  <2>9. Slots'
    BY <2>3 DEF Slots, SlotsReturned
  <2> QED BY <2>5, <2>8, <2>9 DEF JobInv
<1> QED BY <1>1, <1>2

LEMMA PullJobs ==
  ASSUME JobInv, NEW p \in Peer, NEW c \in Caption, NEW t \in Offered, Pull(p, c, t)
  PROVE  JobInv'
<1>0. Typed /\ Known /\ Slots
  BY DEF JobInv
<1> DEFINE j == [s |-> Now, key |-> <<c, t>>, to |-> {p}, pull |-> TRUE, at |-> "languages"]
<1>1. /\ current # 0 /\ c \in Held /\ active[current] < RoomConcurrency
      /\ \A i \in jobs : ~(i.pull /\ i.key = j.key /\ i.to = j.to)
      /\ jobs' = jobs \cup {j} /\ active' = [active EXCEPT ![current] = @ + 1]
      /\ UNCHANGED <<people, room, cached, calls, pending, said, handed>>
  BY DEF Pull, Held
<1>2. current \in States /\ Now = current /\ current = made
  BY <1>0, <1>1 DEF Typed, States, Now
<1>3. j \in Job /\ j \notin jobs /\ j.s = current /\ j.pull = TRUE
  BY <1>1, <1>2 DEF Job, Key
<1>4. Typed'
  <2>1. active' \in [States -> Int]
    BY <1>0, <1>1, <1>2 DEF Typed
  <2>2. jobs' \subseteq Job
    BY <1>0, <1>1, <1>3 DEF Typed
  <2>3. UNCHANGED <<status, speech, current, made, captions, choice, saving, lines, cached, calls, pending, said, handed>>
    BY <1>1 DEF people, room
  <2> QED BY <1>0, <2>1, <2>2, <2>3 DEF Typed
<1>5. Known'
  <2>1. current' = current /\ made' = made /\ Held' = Held
    BY <1>1 DEF room, Held
  <2>2. \A i \in jobs : ~Same(i, j) /\ ~Same(j, i)
    BY <1>1 DEF Same
  <2>3. \A i, k \in jobs' : Same(i, k) => i = k
    BY <1>0, <1>1, <2>2 DEF Known
  <2>4. \A i \in jobs' : i.s <= made /\ (i.s = current => i.key[1] \in Held)
    BY <1>0, <1>1, <1>2, <1>3 DEF Known, Typed
  <2> QED BY <2>1, <2>3, <2>4 DEF Known
<1>6. Slots'
  <2>1. IsFiniteSet(jobs')
    BY <1>0, <1>1, FS_AddElement DEF Slots
  <2>2. ASSUME NEW s \in States
        PROVE  active'[s] = Cardinality({i \in jobs' : i.s = s}) /\ active'[s] <= RoomConcurrency
    <3> DEFINE A == {i \in jobs : i.s = s}
    <3>1. active[s] = Cardinality(A) /\ active[s] \in Int /\ active[s] <= RoomConcurrency
      BY <1>0 DEF Slots, SlotsReturned, Typed
    <3>2. CASE s = current
      <4>1. {i \in jobs' : i.s = s} = A \cup {j} /\ j \notin A
        BY <1>1, <1>3, <3>2
      <4>2. Cardinality(A \cup {j}) = Cardinality(A) + 1
        BY <1>0, <4>1, FS_AddElement, FS_Subset DEF Slots
      <4>3. active'[s] = active[s] + 1 /\ active[s] < RoomConcurrency
        BY <1>0, <1>1, <3>2 DEF Typed
      <4>4. active'[s] = Cardinality({i \in jobs' : i.s = s})
        BY <3>1, <4>1, <4>2, <4>3
      <4> QED BY <3>1, <4>3, <4>4, Limits
    <3>3. CASE s # current
      <4>1. {i \in jobs' : i.s = s} = A
        BY <1>1, <1>3, <3>3
      <4> QED BY <1>0, <1>1, <3>1, <3>3, <4>1 DEF Typed
    <3> QED BY <3>2, <3>3
  <2> QED BY <2>1, <2>2 DEF Slots, SlotsReturned
<1> QED BY <1>4, <1>5, <1>6 DEF JobInv

\* Jobs that end.
LEMMA FinishJobs ==
  ASSUME JobInv, NEW done \in SUBSET jobs, Finish(done),
         UNCHANGED <<people, room, said, handed>>,
         cached' \in [States -> SUBSET Key], calls' \in [States -> [Key -> Nat]], pending' \in [States -> SUBSET Key]
  PROVE  JobInv'
<1>0. Typed /\ Known /\ Slots
  BY DEF JobInv
<1>1. /\ jobs' = jobs \ done /\ IsFiniteSet(jobs')
      /\ active' \in [States -> Int]
      /\ \A s \in States : /\ active'[s] = Cardinality({j \in jobs' : j.s = s})
                           /\ active'[s] <= RoomConcurrency
  BY <1>0, FinishStep
<1>2. Typed'
  BY <1>0, <1>1 DEF Typed, people, room
<1>3. Known'
  BY <1>0, <1>1 DEF Known, room, Held
<1>4. Slots'
  BY <1>1 DEF Slots, SlotsReturned
<1> QED BY <1>2, <1>3, <1>4 DEF JobInv

LEMMA TranslationJobs ==
  ASSUME JobInv,
         \/ \E j \in jobs : LanguagesKnown(j) \/ JobFails(j)
         \/ \E s \in States, k \in Key, ok \in BOOLEAN : Answer(s, k, ok)
  PROVE  JobInv'
<1>0. Typed /\ Known /\ Slots
  BY DEF JobInv
<1>1. ASSUME NEW j \in jobs, JobFails(j) PROVE JobInv'
  BY <1>0, <1>1, FinishJobs DEF JobFails, Typed
<1>2. ASSUME NEW s \in States, NEW k \in Key, NEW ok \in BOOLEAN, Answer(s, k, ok) PROVE JobInv'
  <2>1. {j \in jobs : j.s = s /\ j.key = k /\ j.at = "answer"} \in SUBSET jobs
    OBVIOUS
  <2>2. calls[s][k] \in Nat /\ calls[s][k] > 0 /\ calls[s] \in [Key -> Nat]
    BY <1>0, <1>2 DEF Answer, Typed
  <2>3. calls' \in [States -> [Key -> Nat]]
    <3>1. [calls[s] EXCEPT ![k] = @ - 1] \in [Key -> Nat]
      BY <2>2
    <3>2. calls' = [calls EXCEPT ![s] = [calls[s] EXCEPT ![k] = @ - 1]]
      BY <1>2 DEF Answer
    <3> QED BY <1>0, <3>1, <3>2 DEF Typed
  <2>4. cached' \in [States -> SUBSET Key] /\ pending' \in [States -> SUBSET Key]
    BY <1>0, <1>2 DEF Answer, Typed
  <2> QED BY <1>2, <2>1, <2>3, <2>4, FinishJobs DEF Answer
<1>3. ASSUME NEW j \in jobs, LanguagesKnown(j) PROVE JobInv'
  <2>0. j \in Job /\ UNCHANGED <<people, room, cached, said, handed>>
    BY <1>0, <1>3 DEF Typed, LanguagesKnown
  <2>1. CASE j.key \in cached[j.s]
    BY <1>0, <1>3, <2>0, <2>1, FinishJobs DEF LanguagesKnown, Typed
  <2>2. CASE j.key \notin cached[j.s]
    <3> DEFINE i == [j EXCEPT !.at = "answer"]
    <3>1. jobs' = (jobs \ {j}) \cup {i} /\ active' = active /\ i \in Job /\ i.s = j.s /\ i.key = j.key /\ Same(i, j)
      BY <1>3, <2>0, <2>2 DEF LanguagesKnown, Job, Same
    <3>2. calls' \in [States -> [Key -> Nat]] /\ pending' \in [States -> SUBSET Key]
      <4>1. CASE IsPending(j)
        BY <1>0, <1>3, <2>2, <4>1 DEF LanguagesKnown, Typed
      <4>2. CASE ~IsPending(j)
        <5>1. /\ calls' = [calls EXCEPT ![j.s] = [calls[j.s] EXCEPT ![j.key] = @ + 1]]
              /\ pending' = [pending EXCEPT ![j.s] = @ \cup {j.key}]
          BY <1>3, <2>2, <4>2 DEF LanguagesKnown
        <5>2. j.s \in States /\ j.key \in Key
          BY <2>0 DEF Job
        <5>3. [calls[j.s] EXCEPT ![j.key] = @ + 1] \in [Key -> Nat]
          BY <1>0, <5>2 DEF Typed
        <5> QED BY <1>0, <5>1, <5>2, <5>3 DEF Typed
      <4> QED BY <4>1, <4>2
    <3>3. Typed'
      BY <1>0, <2>0, <3>1, <3>2 DEF Typed, people, room
    <3>4. Known'
      <4>1. current' = current /\ made' = made /\ Held' = Held
        BY <2>0 DEF room, Held
      <4>2. \A k \in jobs \ {j} : ~Same(i, k) /\ ~Same(k, i)
        <5>1. \A k \in jobs \ {j} : ~Same(j, k) /\ ~Same(k, j)
          BY <1>0 DEF Known
        <5>2. i.s = j.s /\ i.key = j.key /\ i.pull = j.pull /\ i.to = j.to
          BY <2>0 DEF Job
        <5> QED BY <5>1, <5>2 DEF Same
      <4>3. \A k, l \in jobs' : Same(k, l) => k = l
        BY <1>0, <3>1, <4>2 DEF Known
      <4>4. \A k \in jobs' : k.s <= made /\ (k.s = current => k.key[1] \in Held)
        BY <1>0, <3>1 DEF Known
      <4> QED BY <4>1, <4>3, <4>4 DEF Known
    <3>5. Slots'
      <4>1. IsFiniteSet(jobs \ {j}) /\ IsFiniteSet(jobs')
        BY <1>0, <3>1, FS_AddElement, FS_RemoveElement DEF Slots
      <4>2. i \notin jobs \ {j}
        BY <1>0, <3>1 DEF Known
      <4>3. ASSUME NEW s \in States PROVE Cardinality({k \in jobs' : k.s = s}) = Cardinality({k \in jobs : k.s = s})
        <5> DEFINE A == {k \in jobs : k.s = s}
        <5>1. CASE s # j.s
          <6>1. {k \in jobs' : k.s = s} = A
            BY <3>1, <5>1
          <6> QED BY <6>1
        <5>2. CASE s = j.s
          <6>1. {k \in jobs' : k.s = s} = (A \ {j}) \cup {i} /\ i \notin A \ {j} /\ j \in A
            BY <3>1, <4>2, <5>2
          <6>2. IsFiniteSet(A) /\ IsFiniteSet(A \ {j}) /\ Cardinality(A) \in Nat
            BY <1>0, FS_Subset, FS_CardinalityType DEF Slots
          <6>3. Cardinality(A \ {j}) = Cardinality(A) - 1
            BY <6>1, <6>2, FS_RemoveElement
          <6>4. Cardinality((A \ {j}) \cup {i}) = Cardinality(A \ {j}) + 1
            BY <6>1, <6>2, FS_AddElement
          <6>5. Cardinality((A \ {j}) \cup {i}) = Cardinality(A)
            BY <6>2, <6>3, <6>4
          <6> QED BY <6>1, <6>5
        <5> QED BY <5>1, <5>2
      <4> QED BY <1>0, <3>1, <4>1, <4>3 DEF Slots, SlotsReturned
    <3> QED BY <3>3, <3>4, <3>5 DEF JobInv
  <2> QED BY <2>1, <2>2
<1> QED BY <1>1, <1>2, <1>3

LEMMA JobNext == JobInv /\ [Next]_vars => JobInv'
<1> SUFFICES ASSUME JobInv, [Next]_vars PROVE JobInv'
  OBVIOUS
<1>1. CASE UNCHANGED vars
  BY <1>1 DEF JobInv, Typed, Known, Held, Slots, SlotsReturned, vars, people, room, work
<1> QED
  BY <1>1, PeopleJobs, RoomJobs, PublishJobs, PullJobs, TranslationJobs DEF Next

-----------------------------------------------------------------------------
(* Shared answers. *)

LEMMA SharedInit == Init => Shared
  BY DEF Init, Shared

LEMMA SharedStep == JobInv /\ Shared /\ [Next]_vars => Shared'
<1> SUFFICES ASSUME JobInv, Shared, [Next]_vars PROVE Shared'
  OBVIOUS
<1>0. Typed
  BY DEF JobInv
<1>1. CASE UNCHANGED <<cached, calls, pending>>
  BY <1>1 DEF Shared
<1>2. ASSUME NEW j \in jobs, LanguagesKnown(j), ~UNCHANGED <<cached, calls, pending>> PROVE Shared'
  <2>1. /\ j.key \notin cached[j.s] /\ j.key \notin pending[j.s] /\ cached' = cached
        /\ calls' = [calls EXCEPT ![j.s] = [calls[j.s] EXCEPT ![j.key] = @ + 1]]
        /\ pending' = [pending EXCEPT ![j.s] = @ \cup {j.key}]
    BY <1>2 DEF LanguagesKnown, IsPending
  <2>2. j.s \in States /\ j.key \in Key
    BY <1>0 DEF Typed, Job
  <2>3. calls[j.s][j.key] = 0
    <3>1. calls[j.s][j.key] \in Nat
      BY <1>0, <2>2 DEF Typed
    <3> QED BY <2>1, <2>2, <3>1 DEF Shared
  <2>4. ASSUME NEW s \in States, NEW k \in Key
        PROVE  /\ calls'[s][k] = IF s = j.s /\ k = j.key THEN 1 ELSE calls[s][k]
               /\ k \in pending'[s] <=> k \in pending[s] \/ (s = j.s /\ k = j.key)
    BY <1>0, <2>1, <2>2, <2>3 DEF Typed
  <2> QED BY <2>1, <2>4 DEF Shared
<1>3. ASSUME NEW s \in States, NEW k \in Key, NEW ok \in BOOLEAN, Answer(s, k, ok) PROVE Shared'
  <2>1. /\ calls[s][k] > 0 /\ calls' = [calls EXCEPT ![s] = [calls[s] EXCEPT ![k] = @ - 1]]
        /\ pending' = [pending EXCEPT ![s] = @ \ {k}]
        /\ cached' = IF ok THEN [cached EXCEPT ![s] = @ \cup {k}] ELSE cached
    BY <1>3 DEF Answer
  <2>2. calls[s][k] = 1
    BY <1>0, <2>1 DEF Shared, Typed
  <2>3. ASSUME NEW s2 \in States, NEW k2 \in Key
        PROVE  /\ calls'[s2][k2] = IF s2 = s /\ k2 = k THEN 0 ELSE calls[s2][k2]
               /\ k2 \in pending'[s2] <=> k2 \in pending[s2] /\ ~(s2 = s /\ k2 = k)
               /\ k2 \in cached'[s2] => k2 \in cached[s2] \/ (s2 = s /\ k2 = k)
    BY <1>0, <2>1, <2>2 DEF Typed
  <2> QED BY <2>3 DEF Shared
<1>4. CASE UNCHANGED vars
  BY <1>1, <1>4 DEF vars, work
<1> QED
  BY <1>1, <1>2, <1>3, <1>4 DEF Next, Join, Kick, Disconnect, StartSpeech, StopSpeech, Subscribe,
     SetTranscriptSaving, Publish, Pull, JobFails, Sweep, work

-----------------------------------------------------------------------------
(* The transcript. *)

LEMMA FreshInit == Init => Fresh /\ TranscriptKept
<1> SUFFICES ASSUME Init PROVE Fresh /\ TranscriptKept
  OBVIOUS
<1>1. Fresh
  BY DEF Init, Fresh
<1>2. TranscriptKept
  BY DEF Init, TranscriptKept
<1> QED BY <1>1, <1>2

LEMMA FreshFinish ==
  ASSUME Typed, Fresh, TranscriptKept, FinishRoom, said' = said
  PROVE  Fresh' /\ TranscriptKept'
<1>1. /\ current' = 0 /\ captions' = {} /\ saving' = FALSE /\ lines' = {} /\ made' = made
      /\ handed' = [l \in Line |-> IF saving /\ l[1] = current /\ l[2] \in lines THEN handed[l] + 1 ELSE handed[l]]
  BY DEF FinishRoom, Handed, Hand
<1>2. \A l \in Line : l[1] \in States
  BY DEF Line
<1>3. Fresh'
  BY <1>1, <1>2 DEF Fresh, Typed, States
<1>4. TranscriptKept'
  <2> SUFFICES ASSUME NEW l \in Line
               PROVE  handed'[l] + 0 = IF l \in said THEN 1 ELSE 0
    BY <1>1, <1>2 DEF TranscriptKept, States
  <2>1. handed[l] \in Nat /\ (l[2] \in lines => saving)
    BY DEF Typed
  <2> QED BY <1>1, <2>1 DEF TranscriptKept
<1> QED BY <1>3, <1>4

LEMMA FreshStep == Typed /\ Fresh /\ TranscriptKept /\ [Next]_vars => Fresh' /\ TranscriptKept'
<1> SUFFICES ASSUME Typed, Fresh, TranscriptKept, [Next]_vars PROVE Fresh' /\ TranscriptKept'
  OBVIOUS
<1>0. \A l \in Line : l[1] \in States /\ handed[l] \in Nat
  BY DEF Line, Typed
<1>1. CASE UNCHANGED <<current, made, captions, saving, lines, said, handed>>
  BY <1>1 DEF Fresh, TranscriptKept, Held
<1>2. ASSUME NEW p \in Peer, Disconnect(p), FinishRoom PROVE Fresh' /\ TranscriptKept'
  BY <1>2, FreshFinish DEF Disconnect
<1>3. CASE Sweep
  BY <1>3, FreshFinish DEF Sweep
<1>4. ASSUME Opened, UNCHANGED <<captions, saving, lines, said, handed>> PROVE Fresh' /\ TranscriptKept'
  <2>1. CASE current # 0
    BY <1>1, <1>4, <2>1 DEF Opened, Now
  <2>2. CASE current = 0
    <3>1. current' = made + 1 /\ made' = made + 1 /\ captions = {} /\ saving = FALSE /\ lines = {} /\ made \in Nat
      BY <1>4, <2>2 DEF Opened, Now, Fresh, Typed
    <3>2. \A l \in said : l[1] <= made /\ l \in Line
      BY DEF Fresh, Typed
    <3>3. Fresh'
      BY <1>0, <1>4, <3>1, <3>2 DEF Fresh, States
    <3>4. TranscriptKept'
      BY <1>4, <3>1 DEF TranscriptKept
    <3> QED BY <3>3, <3>4
  <2> QED BY <2>1, <2>2
<1>5. ASSUME NEW p \in Peer, NEW targets \in SUBSET Offered, Subscribe(p, targets) PROVE Fresh' /\ TranscriptKept'
  BY <1>4, <1>5 DEF Subscribe
<1>6. ASSUME NEW p \in Peer, NEW enabled \in BOOLEAN, SetTranscriptSaving(p, enabled)
      PROVE  Fresh' /\ TranscriptKept'
  <2>0. /\ Usable /\ Opened /\ enabled # saving /\ saving' = enabled /\ lines' = {} /\ captions' = captions /\ said' = said
        /\ IF enabled THEN handed' = handed
           ELSE handed' = [l \in Line |-> IF saving /\ l[1] = current /\ l[2] \in lines THEN handed[l] + 1 ELSE handed[l]]
    BY <1>6 DEF SetTranscriptSaving, Hand
  <2>1. CASE enabled
    <3>1. lines = {} /\ saving = FALSE /\ handed' = handed
      BY <2>0, <2>1 DEF Typed
    <3>2. TranscriptKept'
      BY <2>0, <3>1 DEF TranscriptKept
    <3>3. current' # 0 /\ \A l \in said : l[1] <= made' /\ (l[1] = current' => l[2] \in Held')
      <4>1. \A l \in said : l \in Line /\ l[1] <= made /\ (l[1] = current => l[2] \in Held)
        BY DEF Fresh, Typed
      <4>2. Held' = Held /\ made \in Nat
        BY <2>0 DEF Held, Typed
      <4> QED BY <1>0, <2>0, <4>1, <4>2 DEF Opened, Now, Typed, States
    <3> QED BY <2>0, <3>2, <3>3 DEF Fresh
  <2>2. CASE ~enabled
    <3>1. saving = TRUE /\ current # 0
      BY <2>0, <2>2 DEF Fresh, Typed
    <3>2. current' = current /\ made' = made
      BY <2>0, <3>1 DEF Opened, Now
    <3>3. Fresh'
      BY <2>0, <3>1, <3>2 DEF Fresh, Held
    <3>4. ASSUME NEW l \in Line PROVE handed'[l] = IF l \in said THEN 1 ELSE 0
      BY <1>0, <2>0, <2>2, <3>1 DEF TranscriptKept
    <3> QED BY <1>0, <2>0, <3>3, <3>4 DEF TranscriptKept
  <2> QED BY <2>1, <2>2
<1>7. ASSUME NEW c \in Caption, Publish(c) PROVE Fresh' /\ TranscriptKept'
  <2>0. Opened /\ Usable /\ saving' = saving /\ handed' = handed
    BY <1>7 DEF Publish
  <2>1. CASE c \in Held
    BY <1>4, <1>7, <2>0, <2>1 DEF Publish, Held
  <2>2. CASE c \notin Held
    <3>1. PICK allowed \in BOOLEAN :
            /\ captions' = captions \cup {<<c, allowed>>}
            /\ lines' = IF saving THEN lines \cup {c} ELSE lines
            /\ said' = IF saving THEN said \cup {<<Now, c>>} ELSE said
      BY <1>7, <2>2 DEF Publish, Held
    <3>2. \A x \in Caption : x \in Held' <=> x \in Held \/ x = c
      BY <3>1 DEF Held
    <3>3. \A l \in said : l \in Line /\ l[2] \in Caption /\ l[1] <= made /\ (l[1] = current => l[2] \in Held)
      BY DEF Fresh, Typed, Line
    <3>4. current' = Now /\ made' \in Nat /\ made' >= made /\ made' >= Now /\ Now \in States /\ Now # 0
          /\ (Now = current \/ (Now = made + 1 /\ current = 0)) /\ made \in Nat
      BY <2>0, Limits DEF Opened, Now, Usable, Typed, States
    <3>5. <<Now, c>> \notin said
      BY <2>2, <3>3, <3>4
    <3>6. ASSUME NEW l \in said' PROVE l[1] <= made' /\ (l[1] = current' => l[2] \in Held')
      <4>1. CASE l \in said
        BY <1>0, <3>2, <3>3, <3>4, <4>1 DEF States
      <4>2. CASE l = <<Now, c>>
        BY <3>2, <3>4, <4>2
      <4> QED BY <3>1, <4>1, <4>2
    <3>7. Fresh'
      BY <3>4, <3>6 DEF Fresh
    <3>8. ASSUME NEW l \in Line
          PROVE  handed'[l] + (IF l[1] = current' /\ l[2] \in lines' THEN 1 ELSE 0) = IF l \in said' THEN 1 ELSE 0
      <4>1. handed[l] + (IF l[1] = current /\ l[2] \in lines THEN 1 ELSE 0) = IF l \in said THEN 1 ELSE 0
        BY DEF TranscriptKept
      <4>2. CASE saving
        <5>1. current # 0 /\ Now = current /\ current' = current
          BY <3>4, <4>2 DEF Fresh, Now
        <5>2. CASE l = <<Now, c>>
          BY <1>0, <2>0, <3>1, <3>4, <3>5, <4>1, <4>2, <5>1, <5>2
        <5>3. CASE l # <<Now, c>>
          <6>1. l = <<l[1], l[2]>>
            BY DEF Line
          <6>2. (l \in said' <=> l \in said) /\ (l[1] = current /\ l[2] \in lines' <=> l[1] = current /\ l[2] \in lines)
            BY <3>1, <4>2, <5>1, <5>3, <6>1
          <6> QED BY <2>0, <4>1, <5>1, <6>2
        <5> QED BY <5>2, <5>3
      <4>3. CASE ~saving
        BY <2>0, <3>1, <4>1, <4>3 DEF Typed
      <4> QED BY <4>2, <4>3
    <3>9. TranscriptKept'
      BY <3>8 DEF TranscriptKept
    <3> QED BY <3>7, <3>9
  <2> QED BY <2>1, <2>2
<1>8. ASSUME NEW p \in Peer, Disconnect(p), ~FinishRoom PROVE Fresh' /\ TranscriptKept'
  BY <1>1, <1>8 DEF Disconnect
<1>9. CASE UNCHANGED vars
  BY <1>1, <1>9 DEF vars, room
<1> QED
  BY <1>1, <1>2, <1>3, <1>5, <1>6, <1>7, <1>8, <1>9 DEF Next, Join, Kick, StartSpeech, StopSpeech, Pull,
     LanguagesKnown, JobFails, Answer, room

-----------------------------------------------------------------------------
(* The theorems. *)

\* In every reachable state a room has as many translations under way as it has
\* jobs, each for a caption it was asked for, and a pending translation is one
\* call to the provider (translateStored in captions.ts).
THEOREM Invariance == Spec => [](JobInv /\ Shared)
<1>1. Init => JobInv /\ Shared
  BY JobInit, SharedInit
<1>2. JobInv /\ Shared /\ [Next]_vars => JobInv' /\ Shared'
  BY JobNext, SharedStep
<1> QED BY <1>1, <1>2, PTL DEF Spec

\* Every variable keeps its domain; a state's count of slots stays within its
\* limit because it is the number of its jobs.
THEOREM TypeCorrect == Spec => []TypeOK
<1>1. JobInv => TypeOK
  <2> SUFFICES ASSUME JobInv PROVE TypeOK
    OBVIOUS
  <2>1. Typed /\ Slots
    BY DEF JobInv
  <2>2. ASSUME NEW s \in States PROVE active[s] \in 0..RoomConcurrency
    <3>1. IsFiniteSet({j \in jobs : j.s = s})
      BY <2>1, FS_Subset DEF Slots
    <3>2. active[s] \in Nat
      BY <2>1, <3>1, FS_CardinalityType DEF Slots, SlotsReturned
    <3> QED BY <2>1, <3>2, Limits DEF Slots
  <2> QED BY <2>1, <2>2 DEF Typed, TypeOK
<1> QED BY <1>1, Invariance, PTL

\* Every slot is given back to the state it was taken from.
THEOREM SlotsReturnedAlways == Spec => []SlotsReturned
<1>1. JobInv => SlotsReturned
  BY DEF JobInv, Slots
<1> QED BY <1>1, Invariance, PTL

\* One request per translation, and none for what is kept.
THEOREM OnceEachAlways == Spec => []OnceEach
<1>1. Shared => OnceEach
  BY DEF Shared, OnceEach
<1> QED BY <1>1, Invariance, PTL

\* Each line said while saving is in the transcript or was handed over once.
THEOREM TranscriptKeptAlways == Spec => []TranscriptKept
<1>1. Init => Fresh /\ TranscriptKept
  BY FreshInit
<1>2. JobInv /\ Fresh /\ TranscriptKept /\ [Next]_vars => Fresh' /\ TranscriptKept'
  BY FreshStep DEF JobInv
<1> QED BY <1>1, <1>2, Invariance, PTL DEF Spec

\* A session with the speech service belongs to an open connection.
THEOREM SpeechEndsAlways == Spec => []SpeechEnds
<1>1. Init => SpeechEnds
  BY DEF Init, SpeechEnds
<1>2. JobInv /\ SpeechEnds /\ [Next]_vars => SpeechEnds'
  <2> SUFFICES ASSUME Typed, SpeechEnds, [Next]_vars PROVE SpeechEnds'
    BY DEF JobInv
  <2>1. ASSUME NEW p \in Peer, Join(p) \/ Kick(p) \/ Disconnect(p) \/ StartSpeech(p) \/ StopSpeech(p)
        PROVE  SpeechEnds'
    BY <2>1 DEF Typed, SpeechEnds, Join, Kick, Disconnect, Silenced, StartSpeech, StopSpeech, Inside
  <2>2. CASE UNCHANGED people
    BY <2>2 DEF SpeechEnds, people
  <2> QED
    BY <2>1, <2>2 DEF Next, Subscribe, SetTranscriptSaving, Pull, Publish, LanguagesKnown, JobFails, Answer,
       Sweep, vars
<1> QED BY <1>1, <1>2, Invariance, PTL DEF Spec

=============================================================================
