-------------------------- MODULE WebClientProofs --------------------------
(***************************************************************************)
(* Proofs about the web client, in any number of sessions of a meeting and *)
(* tabs of a browser, and any number of tasks and requests under way.      *)
(*                                                                         *)
(* MeetingPage: what is captured, shared and heard of one participant.     *)
(* Sessions: which sessions of an account the auth service accepts.        *)
(* Accounts: who is signed in, at the auth service and in every tab.       *)
(***************************************************************************)
EXTENDS MeetingPage, Accounts, TLAPS, FiniteSetTheorems, SequenceTheorems

USE PageAssumption

-----------------------------------------------------------------------------
(* The page and its session.                                               *)
(*                                                                         *)
(* Each definition takes what it looks at as arguments, since a handler    *)
(* makes several changes to the page before it is the page of a state.     *)

\* Something is mounted that tasks may belong to.
Mounted == {"opening", "publishing", "in"}

\* What outlives its session has a device still to open.
Outdates(pg) == \A t \in pg.tasks : ~t.fresh => t.stage = "open"
\* Outside a session nothing captures, and no task belongs to one.
Idle(pg, ph) ==
    /\ ph \notin Mounted => pg.live = {} /\ \A t \in pg.tasks : ~t.fresh
    /\ pg.talk.on => ph \in Mounted
\* Joining asks for a microphone and a camera, an unplugged device for a microphone.
Askers(pg) ==
    \A t \in pg.tasks : /\ t.by = "join" => t.source \in {"mic", "camera"}
                        /\ t.by = "ended" => t.source = "mic"
\* While joining nobody else opens a device, afterwards joining opens none.
JoinTasks(pg, ph) ==
    \A t \in pg.tasks : t.fresh =>
        /\ ph = "opening" => t.by = "join" /\ t.stage = "open"
        /\ t.by = "join" /\ t.stage = "open" => ph = "opening"
\* The camera runs while it is on, or was opened by a click that goes on to send
\* it, or by an attempt that began after it was switched off.
CamLive(pg, hd) ==
    "camera" \in pg.live =>
        /\ ~hd
        /\ \/ "camera" \notin pg.off
           \/ \E t \in pg.tasks : t.fresh /\ t.source = "camera" /\ t.by = "click" /\ t.stage = "send"
           \/ pg.reopened
\* A camera that joining still wants, and has wanted all along, is on.
CamJoin(pg) ==
    \A t \in pg.tasks :
        t.fresh /\ t.wanted /\ ~t.again /\ t.source = "camera" /\ t.by = "join" /\ t.stage = "open" => "camera" \notin pg.off
Sharing(pg, al) == "screen" \in pg.live => pg.sharing /\ "screen" \in al
\* A task that switches the microphone on was asked to by a click, or replaces a
\* microphone that was on and has not been switched off since.
MicTasks(pg) ==
    \A t \in pg.tasks : t.fresh /\ t.source = "mic" =>
        /\ t.by = "click" => t.on
        /\ t.by = "ended" /\ t.on => "mic" \notin pg.off \/ pg.slipped
Talk(pg) == pg.talk.on /\ ~pg.slipped => "mic" \in pg.off /\ ~Overtaking(pg)
Silent(pg, ph) == ph = "in" /\ ~pg.slipped /\ ("mic" \in pg.off \/ pg.talk.on) => pg.sent["mic"] # "sending"

\* All but CamLive, which alone depends on whether the page is hidden.
Rest(pg, ph, al) ==
    /\ Outdates(pg) /\ Askers(pg) /\ Idle(pg, ph) /\ JoinTasks(pg, ph) /\ CamJoin(pg)
    /\ Sharing(pg, al) /\ MicTasks(pg) /\ Talk(pg) /\ Silent(pg, ph)
Sound(pg, ph, hd, al) == Rest(pg, ph, al) /\ CamLive(pg, hd)

-----------------------------------------------------------------------------
(* What handlers do to the page. *)

\* Each function of a page, said field by field: proofs use these and not the records.
LEMMA PausedPage ==
  ASSUME NEW pg \in Pages, NEW s \in Sources, NEW m \in BOOLEAN
  PROVE  LET n == Paused(pg, s, m) IN
         /\ n \in Pages
         /\ n.off = pg.off /\ n.live = pg.live /\ n.reopened = pg.reopened /\ n.relay = pg.relay /\ n.sharing = pg.sharing
         /\ n.talk = pg.talk /\ n.tasks = pg.tasks /\ n.slipped = pg.slipped
         /\ \A u \in Sources \ {s} : n.sent[u] = pg.sent[u]
         /\ n.sent[s] = IF pg.sent[s] = "none" THEN "none" ELSE IF m THEN "paused" ELSE "sending"
  BY DEF Paused, Pages, Sources

LEMMA MicMutedPage ==
  ASSUME NEW pg \in Pages, NEW m \in BOOLEAN
  PROVE  LET n == MicMuted(pg, m) IN
         /\ n \in Pages
         /\ n.off = IF m THEN pg.off \cup {"mic"} ELSE pg.off \ {"mic"}
         /\ n.live = pg.live /\ n.relay = pg.relay /\ n.sharing = pg.sharing
         /\ n.talk = pg.talk /\ n.tasks = pg.tasks /\ n.reopened = pg.reopened
         /\ n.slipped = IF m THEN Overtaking(pg) ELSE pg.slipped /\ pg.talk.on
         /\ m => n.sent["mic"] # "sending"
<1> DEFINE o == [pg EXCEPT !.off = IF m THEN @ \cup {"mic"} ELSE @ \ {"mic"}, !.slipped = IF m THEN Overtaking(pg) ELSE @ /\ pg.talk.on]
<1>0. Overtaking(pg) \in BOOLEAN BY DEF Overtaking
<1>1. o \in Pages BY <1>0 DEF Pages
<1>2. o.off = (IF m THEN pg.off \cup {"mic"} ELSE pg.off \ {"mic"}) /\ o.live = pg.live /\ o.relay = pg.relay /\ o.sharing = pg.sharing
         /\ o.talk = pg.talk /\ o.tasks = pg.tasks /\ o.reopened = pg.reopened /\ o.slipped = IF m THEN Overtaking(pg) ELSE pg.slipped /\ pg.talk.on
  BY DEF Pages
<1>3. MicMuted(pg, m) = Paused(o, "mic", m) BY DEF MicMuted
<1>4. "mic" \in Sources BY DEF Sources
<1> HIDE DEF o
<1> QED BY <1>1, <1>2, <1>3, <1>4, PausedPage

\* Alike: the tasks of b are those of a but for what is wanted.
Alike(a, b) ==
    /\ \A t \in b : \E u \in a : /\ t.source = u.source /\ t.by = u.by /\ t.stage = u.stage
                               /\ t.fresh = u.fresh /\ t.on = u.on /\ (t.wanted /\ ~t.again => u.wanted /\ ~u.again)
    /\ \A u \in a : \E t \in b : /\ t.source = u.source /\ t.by = u.by /\ t.stage = u.stage
                               /\ t.fresh = u.fresh /\ t.on = u.on

LEMMA UnwantedTasks ==
  ASSUME NEW ts \in SUBSET Tasks, NEW s \in Sources
  PROVE  /\ Unwanted(ts, s) \in SUBSET Tasks /\ Alike(ts, Unwanted(ts, s))
         /\ \A t \in Unwanted(ts, s) : t.source = s => ~t.wanted
<1> DEFINE F(t) == IF t.source = s THEN [t EXCEPT !.wanted = FALSE] ELSE t
<1>1. ASSUME NEW t \in Tasks
      PROVE  /\ F(t) \in Tasks /\ F(t).source = t.source /\ F(t).by = t.by /\ F(t).stage = t.stage
             /\ F(t).fresh = t.fresh /\ F(t).on = t.on /\ (F(t).wanted => t.wanted) /\ F(t).again = t.again
             /\ t.source = s => ~F(t).wanted
  <2> DEFINE n == [t EXCEPT !.wanted = FALSE]
  <2>1. /\ n \in Tasks /\ n.source = t.source /\ n.by = t.by /\ n.stage = t.stage
        /\ n.fresh = t.fresh /\ n.on = t.on /\ n.again = t.again /\ ~n.wanted
    BY DEF Tasks
  <2> HIDE DEF n
  <2>2. F(t) = IF t.source = s THEN n ELSE t
    BY DEF n
  <2> QED BY <2>1, <2>2
<1>2. Unwanted(ts, s) = {F(t) : t \in ts}
  BY DEF Unwanted
<1> HIDE DEF F
<1>3. \A t \in Unwanted(ts, s) : \E u \in ts : t = F(u)
  BY <1>2
<1>4. \A u \in ts : F(u) \in Unwanted(ts, s)
  BY <1>2
<1>5. Alike(ts, Unwanted(ts, s))
  <2>1. \A t \in Unwanted(ts, s) : \E u \in ts : /\ t.source = u.source /\ t.by = u.by /\ t.stage = u.stage
                               /\ t.fresh = u.fresh /\ t.on = u.on /\ (t.wanted /\ ~t.again => u.wanted /\ ~u.again)
    BY <1>1, <1>3
  <2>2. \A u \in ts : \E t \in Unwanted(ts, s) : /\ t.source = u.source /\ t.by = u.by /\ t.stage = u.stage
                               /\ t.fresh = u.fresh /\ t.on = u.on
    BY <1>1, <1>4
  <2> QED BY <2>1, <2>2 DEF Alike
<1> QED BY <1>1, <1>3, <1>5

LEMMA CameraStoppedPage ==
  ASSUME NEW pg \in Pages
  PROVE  LET n == CameraStopped(pg) IN
         /\ n \in Pages
         /\ n.off = pg.off /\ n.live = pg.live \ {"camera"} /\ n.sharing = pg.sharing /\ n.relay = pg.relay
         /\ n.talk = pg.talk /\ n.tasks = Unwanted(pg.tasks, "camera") /\ n.slipped = pg.slipped /\ n.sent = pg.sent
         /\ ~n.reopened
<1>1. pg.tasks \in SUBSET Tasks /\ "camera" \in Sources
  BY DEF Pages, Sources
<1>2. Unwanted(pg.tasks, "camera") \in SUBSET Tasks
  BY <1>1, UnwantedTasks
<1> QED BY <1>2 DEF CameraStopped, Pages

LEMMA CameraOffPage ==
  ASSUME NEW pg \in Pages, NEW off \in BOOLEAN
  PROVE  LET n == CameraOff(pg, off) IN
         /\ n \in Pages
         /\ n.off = (IF off THEN pg.off \cup {"camera"} ELSE pg.off \ {"camera"})
         /\ n.live = (IF off THEN pg.live \ {"camera"} ELSE pg.live)
         /\ n.tasks = (IF off THEN Unwanted(pg.tasks, "camera") ELSE pg.tasks)
         /\ n.sharing = pg.sharing /\ n.relay = pg.relay /\ n.talk = pg.talk /\ n.slipped = pg.slipped
         /\ n.sent["mic"] = pg.sent["mic"] /\ (~off => n.reopened = pg.reopened)
<1> DEFINE m == IF off THEN CameraStopped(pg) ELSE pg
           o == [m EXCEPT !.off = IF off THEN @ \cup {"camera"} ELSE @ \ {"camera"}]
<1>1. /\ m \in Pages /\ m.off = pg.off /\ m.live = (IF off THEN pg.live \ {"camera"} ELSE pg.live)
      /\ m.tasks = (IF off THEN Unwanted(pg.tasks, "camera") ELSE pg.tasks)
      /\ m.sharing = pg.sharing /\ m.relay = pg.relay /\ m.talk = pg.talk /\ m.slipped = pg.slipped /\ m.sent = pg.sent
      /\ (~off => m.reopened = pg.reopened)
  BY CameraStoppedPage
<1>2. CameraOff(pg, off) = Paused(o, "camera", off)
  BY DEF CameraOff
<1> HIDE DEF m
<1>3. o \in Pages
  BY <1>1 DEF Pages
<1>4. /\ o.off = (IF off THEN m.off \cup {"camera"} ELSE m.off \ {"camera"}) /\ o.live = m.live /\ o.tasks = m.tasks
      /\ o.sharing = m.sharing /\ o.relay = m.relay /\ o.talk = m.talk /\ o.slipped = m.slipped /\ o.sent = m.sent
      /\ o.reopened = m.reopened
  BY <1>1 DEF Pages
<1>5. "camera" \in Sources /\ "mic" \in Sources
  BY DEF Sources
<1> HIDE DEF o
<1> QED BY <1>1, <1>2, <1>3, <1>4, <1>5, PausedPage

LEMMA ShareStoppedPage ==
  ASSUME NEW pg \in Pages
  PROVE  LET n == ShareStopped(pg) IN
         /\ n \in Pages /\ n.off = pg.off /\ n.live = pg.live \ {"screen"} /\ ~n.sharing /\ n.talk = pg.talk
         /\ n.tasks = pg.tasks /\ n.slipped = pg.slipped /\ n.sent["mic"] = pg.sent["mic"] /\ n.reopened = pg.reopened
  BY DEF ShareStopped, Pages, Sources

\* Nothing is left of a session that stops but devices that are still to open.
LEMMA StoppedPage ==
  ASSUME NEW pg \in Pages
  PROVE  LET n == Stopped(pg) IN
         /\ n \in Pages /\ n.off = pg.off /\ n.live = {} /\ ~n.sharing /\ ~n.talk.on /\ ~n.slipped
         /\ \A t \in n.tasks : ~t.fresh /\ t.stage = "open" /\ t.by = "click"
<1> DEFINE ts == {Outdated(t) : t \in {u \in pg.tasks : u.stage = "open"}}
<1>1. \A t \in Tasks : Outdated(t) \in Tasks /\ ~Outdated(t).fresh /\ Outdated(t).stage = "open" /\ Outdated(t).by = "click"
  BY DEF Outdated, Task, Tasks, Sources
<1>2. ts \in SUBSET Tasks /\ \A t \in ts : ~t.fresh /\ t.stage = "open" /\ t.by = "click"
  BY <1>1 DEF Pages
<1>3. Stopped(pg) = [Blank(pg.off) EXCEPT !.tasks = ts]
  BY DEF Stopped
<1> HIDE DEF ts
<1>4. Blank(pg.off) \in Pages /\ Blank(pg.off).off = pg.off /\ Blank(pg.off).live = {} /\ ~Blank(pg.off).sharing
      /\ ~Blank(pg.off).talk.on /\ ~Blank(pg.off).slipped
  BY DEF Blank, Pages, Sources, NoTalk
<1> QED BY <1>2, <1>3, <1>4 DEF Pages

LEMMA DonePage ==
  ASSUME NEW pg \in Pages, NEW t
  PROVE  LET n == Done(pg, t) IN
         /\ n \in Pages /\ n.off = pg.off /\ n.live = pg.live /\ n.reopened = pg.reopened /\ n.relay = pg.relay
         /\ n.sharing = pg.sharing /\ n.talk = pg.talk /\ n.slipped = pg.slipped /\ n.sent = pg.sent
         /\ n.tasks = pg.tasks \ {t}
  BY DEF Done, Pages

LEMMA BegunPage ==
  ASSUME NEW pg \in Pages, NEW t \in Tasks
  PROVE  LET n == Begun(pg, t) IN
         /\ n \in Pages /\ n.off = pg.off /\ n.live = pg.live /\ n.reopened = pg.reopened /\ n.relay = pg.relay
         /\ n.sharing = pg.sharing /\ n.talk = pg.talk /\ n.slipped = pg.slipped /\ n.sent = pg.sent
         /\ n.tasks = pg.tasks \cup {t}
  BY DEF Begun, Pages

LEMMA RegisteredPage ==
  ASSUME NEW pg \in Pages, NEW s \in Sources
  PROVE  LET n == Registered(pg, s) IN
         /\ n \in Pages /\ n.off = pg.off /\ n.live = pg.live /\ n.reopened = pg.reopened /\ n.relay = pg.relay
         /\ n.sharing = pg.sharing /\ n.talk = pg.talk /\ n.slipped = pg.slipped /\ n.tasks = pg.tasks
         /\ \A u \in Sources \ {s} : n.sent[u] = pg.sent[u]
  BY DEF Registered, Pages

-----------------------------------------------------------------------------
\* Fewer tasks, or the same ones less wanted.
LEMMA FewerTasks ==
  ASSUME NEW pg \in Pages, NEW n \in Pages, NEW ph, NEW al, Rest(pg, ph, al),
         \A t \in n.tasks : \E u \in pg.tasks : /\ t.source = u.source /\ t.by = u.by /\ t.stage = u.stage
                               /\ t.fresh = u.fresh /\ t.on = u.on /\ (t.wanted /\ ~t.again => u.wanted /\ ~u.again),
         n.live \subseteq pg.live, n.talk = pg.talk, n.sharing = pg.sharing, n.slipped = pg.slipped, n.off = pg.off,
         n.sent["mic"] = pg.sent["mic"]
  PROVE  Rest(n, ph, al)
<1>1. Outdates(n) /\ Askers(n) BY DEF Rest, Outdates, Askers
<1>2. Idle(n, ph) BY DEF Rest, Idle
<1>3. JoinTasks(n, ph) BY DEF Rest, JoinTasks
<1>4. CamJoin(n) BY DEF Rest, CamJoin
<1>5. Sharing(n, al) BY DEF Rest, Sharing
<1>6. MicTasks(n) BY DEF Rest, MicTasks
<1>7. Talk(n) BY DEF Rest, Talk, Overtaking
<1>8. Silent(n, ph) BY DEF Rest, Silent
<1> QED BY <1>1, <1>2, <1>3, <1>4, <1>5, <1>6, <1>7, <1>8 DEF Rest

\* A task that ends leaves the page sound, but for a camera it was to send.
LEMMA DoneRest ==
  ASSUME NEW pg \in Pages, NEW t, NEW ph, NEW al, Rest(pg, ph, al)
  PROVE  Rest(Done(pg, t), ph, al)
  BY DonePage, FewerTasks

LEMMA DoneSound ==
  ASSUME NEW pg \in Pages, NEW t, NEW ph, NEW hd, NEW al, Sound(pg, ph, hd, al),
         ~(t.source = "camera" /\ t.by = "click" /\ t.stage = "send")
  PROVE  Sound(Done(pg, t), ph, hd, al)
  BY DonePage, DoneRest DEF Sound, CamLive

\* What a task must satisfy for a sound page to begin it.
Fits(t, pg, ph) ==
    /\ t.fresh /\ ph \in Mounted
    /\ t.by = "join" => t.source \in {"mic", "camera"}
    /\ t.by = "ended" => t.source = "mic"
    /\ ph = "opening" => t.by = "join" /\ t.stage = "open"
    /\ t.by = "join" /\ t.stage = "open" => ph = "opening"
    /\ t.source = "camera" /\ t.by = "join" /\ t.stage = "open" /\ t.wanted /\ ~t.again => "camera" \notin pg.off
    /\ t.source = "mic" /\ t.by = "click" => t.on
    /\ t.source = "mic" /\ t.by = "ended" /\ t.on => "mic" \notin pg.off \/ pg.slipped
    /\ t.source = "mic" /\ t.on /\ pg.talk.on => pg.slipped

\* A page may begin a task that fits.
LEMMA BegunRest ==
  ASSUME NEW pg \in Pages, NEW t \in Tasks, NEW ph, NEW al, Rest(pg, ph, al), Fits(t, pg, ph)
  PROVE  Rest(Begun(pg, t), ph, al)
<1> DEFINE n == Begun(pg, t)
<1>0. /\ n \in Pages /\ n.off = pg.off /\ n.live = pg.live /\ n.sharing = pg.sharing /\ n.talk = pg.talk
      /\ n.slipped = pg.slipped /\ n.sent = pg.sent /\ n.tasks = pg.tasks \cup {t}
  BY BegunPage
<1> HIDE DEF n
<1>1. Outdates(n) /\ Askers(n) BY <1>0 DEF Rest, Outdates, Askers, Fits
<1>2. Idle(n, ph) BY <1>0 DEF Rest, Idle, Fits
<1>3. JoinTasks(n, ph) BY <1>0 DEF Rest, JoinTasks, Fits
<1>4. CamJoin(n) BY <1>0 DEF Rest, CamJoin, Fits
<1>5. Sharing(n, al) BY <1>0 DEF Rest, Sharing
<1>6. MicTasks(n) BY <1>0 DEF Rest, MicTasks, Fits
<1>7. Talk(n) BY <1>0 DEF Rest, Talk, Overtaking, Fits
<1>8. Silent(n, ph) BY <1>0 DEF Rest, Silent
<1>9. Rest(n, ph, al)
   BY <1>1, <1>2, <1>3, <1>4, <1>5, <1>6, <1>7, <1>8 DEF Rest
<1> QED BY <1>9 DEF n

LEMMA BegunSound ==
  ASSUME NEW pg \in Pages, NEW t \in Tasks, NEW ph, NEW hd, NEW al, Sound(pg, ph, hd, al), Fits(t, pg, ph)
  PROVE  Sound(Begun(pg, t), ph, hd, al)
<1>1. CamLive(Begun(pg, t), hd)
  BY BegunPage DEF Sound, CamLive
<1> QED BY <1>1, BegunRest DEF Sound

\* Pausing a producer keeps a page sound, and so does resuming any but the microphone.
LEMMA PausedRest ==
  ASSUME NEW pg \in Pages, NEW s \in Sources, NEW m \in BOOLEAN, NEW ph, NEW al, Rest(pg, ph, al), s = "mic" => m \/ ph # "in"
  PROVE  Rest(Paused(pg, s, m), ph, al)
<1> DEFINE n == Paused(pg, s, m)
<1>0. /\ n \in Pages /\ n.off = pg.off /\ n.live = pg.live /\ n.sharing = pg.sharing /\ n.talk = pg.talk
      /\ n.slipped = pg.slipped /\ n.tasks = pg.tasks
      /\ \A u \in Sources \ {s} : n.sent[u] = pg.sent[u]
      /\ n.sent[s] = IF pg.sent[s] = "none" THEN "none" ELSE IF m THEN "paused" ELSE "sending"
  BY PausedPage
<1> HIDE DEF n
<1>1. Outdates(n) /\ Askers(n) /\ Idle(n, ph) /\ JoinTasks(n, ph) /\ CamJoin(n) /\ Sharing(n, al)
  BY <1>0 DEF Rest, Outdates, Askers, Idle, JoinTasks, CamJoin, Sharing
<1>2. MicTasks(n) /\ Talk(n) BY <1>0 DEF Rest, MicTasks, Talk, Overtaking
<1>3. Silent(n, ph) BY <1>0 DEF Rest, Silent, Sources
<1>9. Rest(n, ph, al)
   BY <1>1, <1>2, <1>3 DEF Rest
<1> QED BY <1>9 DEF n

LEMMA PausedSound ==
  ASSUME NEW pg \in Pages, NEW s \in Sources, NEW m \in BOOLEAN, NEW ph, NEW hd, NEW al, Sound(pg, ph, hd, al), s = "mic" => m \/ ph # "in"
  PROVE  Sound(Paused(pg, s, m), ph, hd, al)
<1>1. CamLive(Paused(pg, s, m), hd)
  BY PausedPage DEF Sound, CamLive
<1> QED BY <1>1, PausedRest DEF Sound

\* Switching the microphone on or off: what overtakes is accounted for as slipped.
LEMMA MicMutedRest ==
  ASSUME NEW pg \in Pages, NEW m \in BOOLEAN, NEW ph, NEW al, Rest(pg, ph, al), ~m => (pg.talk.on => pg.slipped)
  PROVE  Rest(MicMuted(pg, m), ph, al)
<1> DEFINE n == MicMuted(pg, m)
<1>0. /\ n \in Pages /\ n.off = (IF m THEN pg.off \cup {"mic"} ELSE pg.off \ {"mic"})
      /\ n.live = pg.live /\ n.sharing = pg.sharing /\ n.talk = pg.talk /\ n.tasks = pg.tasks
      /\ n.slipped = (IF m THEN Overtaking(pg) ELSE pg.slipped /\ pg.talk.on) /\ (m => n.sent["mic"] # "sending")
  BY MicMutedPage
<1> HIDE DEF n
<1>1. Outdates(n) /\ Askers(n) /\ Idle(n, ph) /\ JoinTasks(n, ph) /\ CamJoin(n) /\ Sharing(n, al)
  BY <1>0 DEF Rest, Outdates, Askers, Idle, JoinTasks, CamJoin, Sharing
<1>2. MicTasks(n) BY <1>0 DEF Rest, MicTasks, Overtaking
<1>3. Talk(n) BY <1>0 DEF Rest, Talk, Overtaking
<1>4. Silent(n, ph)
  <2>1. CASE m BY <2>1, <1>0 DEF Silent
  <2>2. CASE ~m
    <3>1. "mic" \notin n.off /\ n.talk.on = pg.talk.on /\ (pg.talk.on => n.slipped)
      BY <2>2, <1>0
    <3> QED BY <3>1 DEF Silent
  <2> QED BY <2>1, <2>2
<1>9. Rest(n, ph, al)
   BY <1>1, <1>2, <1>3, <1>4 DEF Rest
<1> QED BY <1>9 DEF n

LEMMA MicMutedSound ==
  ASSUME NEW pg \in Pages, NEW m \in BOOLEAN, NEW ph, NEW hd, NEW al, Sound(pg, ph, hd, al), ~m => (pg.talk.on => pg.slipped)
  PROVE  Sound(MicMuted(pg, m), ph, hd, al)
<1> DEFINE n == MicMuted(pg, m)
<1>0. CamLive(pg, hd) /\ Rest(pg, ph, al) BY DEF Sound
<1>1. n.live = pg.live /\ n.talk = pg.talk /\ n.tasks = pg.tasks /\ n.reopened = pg.reopened
  BY MicMutedPage
<1>2. "camera" \in n.off <=> "camera" \in pg.off
  <2>1. n.off = IF m THEN pg.off \cup {"mic"} ELSE pg.off \ {"mic"}
    BY MicMutedPage
  <2>2. "camera" # "mic"
    OBVIOUS
  <2> QED BY <2>1, <2>2
<1>3. Rest(n, ph, al) BY <1>0, MicMutedRest DEF Sound
<1> HIDE DEF n
<1>4. CamLive(n, hd)
  BY <1>0, <1>1, <1>2 DEF CamLive
<1>5. Sound(n, ph, hd, al) BY <1>3, <1>4 DEF Sound
<1> QED BY <1>5 DEF n

\* A camera that is stopped is not live, and none that opens is wanted.
LEMMA CameraStoppedSound ==
  ASSUME NEW pg \in Pages, NEW ph, NEW hd, NEW al, Rest(pg, ph, al)
  PROVE  Sound(CameraStopped(pg), ph, hd, al)
<1> DEFINE n == CameraStopped(pg)
<1>0. /\ n \in Pages
         /\ n.off = pg.off /\ n.live = pg.live \ {"camera"} /\ n.sharing = pg.sharing
         /\ n.talk = pg.talk /\ n.tasks = Unwanted(pg.tasks, "camera") /\ n.slipped = pg.slipped /\ n.sent = pg.sent
  BY CameraStoppedPage
<1>1. Alike(pg.tasks, n.tasks)
  BY <1>0, UnwantedTasks DEF Pages, Sources
<1> HIDE DEF n
<1>2. Rest(n, ph, al)
  BY <1>0, <1>1, FewerTasks DEF Alike
<1>3. CamLive(n, hd)
  BY <1>0 DEF CamLive
<1>4. Sound(n, ph, hd, al)
  BY <1>2, <1>3 DEF Sound
<1> QED BY <1>4 DEF n

\* A camera may be switched off at any time, and on unless it runs while the page is hidden.
LEMMA CameraOffSound ==
  ASSUME NEW pg \in Pages, NEW off \in BOOLEAN, NEW ph, NEW hd, NEW al, Rest(pg, ph, al), ~off => ~hd \/ "camera" \notin pg.live
  PROVE  Sound(CameraOff(pg, off), ph, hd, al)
<1> DEFINE n == CameraOff(pg, off)
<1>0. /\ n \in Pages
      /\ n.off = (IF off THEN pg.off \cup {"camera"} ELSE pg.off \ {"camera"})
      /\ n.live = (IF off THEN pg.live \ {"camera"} ELSE pg.live)
      /\ n.tasks = (IF off THEN Unwanted(pg.tasks, "camera") ELSE pg.tasks)
      /\ n.sharing = pg.sharing /\ n.talk = pg.talk /\ n.slipped = pg.slipped /\ n.sent["mic"] = pg.sent["mic"]
  BY CameraOffPage
<1> HIDE DEF n
<1>a. Alike(pg.tasks, n.tasks) /\ (off => \A t \in n.tasks : t.source = "camera" => ~t.wanted)
  <2>0. pg.tasks \in SUBSET Tasks /\ "camera" \in Sources
    BY DEF Pages, Sources
  <2>1. CASE off
    <3>1. n.tasks = Unwanted(pg.tasks, "camera") BY <2>1, <1>0
    <3> QED BY <2>0, <3>1, UnwantedTasks
  <2>2. CASE ~off BY <2>2, <1>0 DEF Alike
  <2> QED BY <2>1, <2>2
<1>b. "mic" \in n.off <=> "mic" \in pg.off
  BY <1>0
<1>1. Outdates(n) /\ Askers(n) BY <1>a DEF Rest, Outdates, Askers, Alike
<1>2. Idle(n, ph) BY <1>0, <1>a DEF Rest, Idle, Alike
<1>3. JoinTasks(n, ph) BY <1>a DEF Rest, JoinTasks, Alike
<1>4. CamJoin(n) BY <1>0, <1>a DEF Rest, CamJoin, Alike
<1>5. Sharing(n, al) BY <1>0 DEF Rest, Sharing
<1>6. MicTasks(n)
  <2>1. MicTasks(pg) /\ n.slipped = pg.slipped /\ Alike(pg.tasks, n.tasks) BY <1>0, <1>a DEF Rest
  <2> QED BY <2>1, <1>b DEF MicTasks, Alike
<1>7. Talk(n)
  <2>1. Talk(pg) /\ n.slipped = pg.slipped /\ n.talk = pg.talk /\ Alike(pg.tasks, n.tasks) BY <1>0, <1>a DEF Rest
  <2> QED BY <2>1, <1>b DEF Talk, Overtaking, Alike
<1>8. Silent(n, ph) BY <1>0, <1>b DEF Rest, Silent
<1>9. CamLive(n, hd) BY <1>0 DEF CamLive
<1>10. Sound(n, ph, hd, al)
   BY <1>1, <1>2, <1>3, <1>4, <1>5, <1>6, <1>7, <1>8, <1>9 DEF Rest, Sound
<1> QED BY <1>10 DEF n

\* A camera track that was sent stays only if the page can still use it.
LEMMA CameraTakenSound ==
  ASSUME TypeOK, NEW pg \in Pages, NEW ph, NEW al, Rest(pg, ph, al)
  PROVE  CameraTaken(pg) \in Pages /\ Sound(CameraTaken(pg), ph, hidden, al)
  BY CameraStoppedSound, CameraOffSound, CameraStoppedPage, CameraOffPage DEF CameraTaken, TypeOK

\* A share that stops captures nothing.
LEMMA ShareStoppedSound ==
  ASSUME NEW pg \in Pages, NEW ph, NEW hd, NEW al, NEW am, Sound(pg, ph, hd, al)
  PROVE  Sound(ShareStopped(pg), ph, hd, am)
<1> DEFINE n == ShareStopped(pg)
<1>0. /\ n \in Pages /\ n.off = pg.off /\ n.live = pg.live \ {"screen"} /\ n.talk = pg.talk
      /\ n.tasks = pg.tasks /\ n.slipped = pg.slipped /\ n.sent["mic"] = pg.sent["mic"] /\ n.reopened = pg.reopened
  BY ShareStoppedPage
<1> HIDE DEF n
<1>1. Outdates(n) /\ Askers(n) /\ Idle(n, ph) /\ JoinTasks(n, ph) /\ CamJoin(n) /\ Sharing(n, am)
  BY <1>0 DEF Sound, Rest, Outdates, Askers, Idle, JoinTasks, CamJoin, Sharing
<1>2. MicTasks(n) /\ Talk(n) /\ Silent(n, ph) BY <1>0 DEF Sound, Rest, MicTasks, Talk, Overtaking, Silent
<1>3. CamLive(n, hd) BY <1>0 DEF Sound, CamLive
<1>9. Sound(n, ph, hd, am)
   BY <1>1, <1>2, <1>3 DEF Sound, Rest
<1> QED BY <1>9 DEF n

\* A page that stops is sound in any phase.
LEMMA StoppedSound ==
  ASSUME NEW pg \in Pages, NEW ph, NEW hd, NEW al, ph \notin Mounted
  PROVE  Stopped(pg) \in Pages /\ Sound(Stopped(pg), ph, hd, al)
<1> DEFINE n == Stopped(pg)
<1>0. /\ n \in Pages /\ n.off = pg.off /\ n.live = {} /\ ~n.sharing /\ ~n.talk.on /\ ~n.slipped
      /\ \A t \in n.tasks : ~t.fresh /\ t.stage = "open" /\ t.by = "click"
  BY StoppedPage
<1> HIDE DEF n
<1>1. Outdates(n) /\ Askers(n) /\ Idle(n, ph) /\ JoinTasks(n, ph) /\ CamJoin(n) /\ Sharing(n, al)
  BY <1>0 DEF Outdates, Askers, Idle, JoinTasks, CamJoin, Sharing
<1>2. MicTasks(n) /\ Talk(n) /\ Silent(n, ph) BY <1>0 DEF MicTasks, Talk, Overtaking, Silent, Mounted
<1>3. CamLive(n, hd) BY <1>0 DEF CamLive
<1>9. Sound(n, ph, hd, al)
   BY <1>1, <1>2, <1>3 DEF Sound, Rest
<1> QED BY <1>0, <1>9 DEF n

-----------------------------------------------------------------------------
\* The inductive invariant.
PageInv == TypeOK /\ Sound(page, phase, hidden, allow)

\* Between "publishing" and "in" only Silent makes a difference.
LEMMA Settling ==
  ASSUME NEW pg \in Pages, NEW ph \in {"publishing", "in"}, NEW hd, NEW al, Sound(pg, ph, hd, al)
  PROVE  Sound(pg, "publishing", hd, al)
  BY DEF Sound, Rest, Idle, JoinTasks, Silent, Mounted

\* Matching the producers to what is off establishes Silent.
LEMMA MatchedSound ==
  ASSUME NEW pg \in Pages, NEW ph \in {"publishing", "in"}, NEW hd, NEW al, Sound(pg, "publishing", hd, al)
  PROVE  LET n == Paused(pg, "mic", "mic" \in pg.off) IN n \in Pages /\ Sound(n, ph, hd, al)
<1> DEFINE n == Paused(pg, "mic", "mic" \in pg.off)
<1>0. /\ n \in Pages /\ n.off = pg.off /\ n.live = pg.live /\ n.sharing = pg.sharing /\ n.talk = pg.talk
      /\ n.slipped = pg.slipped /\ n.tasks = pg.tasks /\ n.reopened = pg.reopened
      /\ "mic" \in pg.off => n.sent["mic"] # "sending"
  BY DEF Paused, Pages, Sources
<1> HIDE DEF n
<1>1. Outdates(n) /\ Askers(n) /\ Idle(n, ph) /\ JoinTasks(n, ph) /\ CamJoin(n) /\ Sharing(n, al) /\ CamLive(n, hd)
  BY <1>0 DEF Sound, Rest, Outdates, Askers, Idle, JoinTasks, CamJoin, Sharing, CamLive, Mounted
<1>2. MicTasks(n) /\ Talk(n) /\ Talk(pg) BY <1>0 DEF Sound, Rest, MicTasks, Talk, Overtaking
<1>3. Silent(n, ph) BY <1>0, <1>2 DEF Silent, Talk
<1>9. Sound(n, ph, hd, al)
   BY <1>1, <1>2, <1>3 DEF Sound, Rest
<1> QED BY <1>0, <1>9 DEF n

\* A producer of joining is registered before the page is connected.
LEMMA RegisteredSound ==
  ASSUME NEW pg \in Pages, NEW s \in Sources, NEW ph, NEW hd, NEW al, Sound(pg, ph, hd, al), s = "mic" => ph # "in"
  PROVE  Sound(Registered(pg, s), ph, hd, al)
<1> DEFINE n == Registered(pg, s)
<1>0. /\ n \in Pages /\ n.off = pg.off /\ n.live = pg.live /\ n.sharing = pg.sharing /\ n.talk = pg.talk
      /\ n.slipped = pg.slipped /\ n.tasks = pg.tasks /\ n.reopened = pg.reopened
      /\ \A u \in Sources \ {s} : n.sent[u] = pg.sent[u]
  BY RegisteredPage
<1> HIDE DEF n
<1>1. Outdates(n) /\ Askers(n) /\ Idle(n, ph) /\ JoinTasks(n, ph) /\ CamJoin(n) /\ Sharing(n, al) /\ CamLive(n, hd)
  BY <1>0 DEF Sound, Rest, Outdates, Askers, Idle, JoinTasks, CamJoin, Sharing, CamLive
<1>2. MicTasks(n) /\ Talk(n) BY <1>0 DEF Sound, Rest, MicTasks, Talk, Overtaking
<1>3. Silent(n, ph) BY <1>0 DEF Sound, Rest, Silent, Sources
<1>9. Sound(n, ph, hd, al)
   BY <1>1, <1>2, <1>3 DEF Sound, Rest
<1> QED BY <1>9 DEF n

\* Publish either begins a task of joining or connects.
LEMMA PublishSound ==
  ASSUME TypeOK, NEW pg \in Pages, NEW S \in SUBSET {"mic", "camera"}, Sound(pg, "publishing", hidden, allow),
         Publish(pg, S), UNCHANGED <<carried, hidden, allow>>
  PROVE  PageInv'
<1>1. CASE S = {}
  <2> DEFINE m == Paused(pg, "mic", "mic" \in pg.off)
  <2>1. page' = Paused(m, "camera", "camera" \in pg.off) /\ phase' = "in" /\ failures' = 0
    BY <1>1 DEF Publish, Connected
  <2>2. m \in Pages /\ Sound(m, "in", hidden, allow)
    BY MatchedSound
  <2> HIDE DEF m
  <2>3. page' \in Pages /\ Sound(page', "in", hidden, allow)
    <3>1. "camera" \in Sources /\ ("camera" \in pg.off) \in BOOLEAN
      BY DEF Sources
    <3> QED BY <2>1, <2>2, <3>1, PausedSound, PausedPage
  <2> QED BY <2>1, <2>3 DEF PageInv, TypeOK, Active
<1>2. CASE S # {}
  <2>1. PICK s \in {"mic", "camera"} :
            page' = Begun(pg, Task(s, "join", "send", FALSE)) /\ phase' = "publishing" /\ UNCHANGED failures
    BY <1>2 DEF Publish
  <2> DEFINE t == Task(s, "join", "send", FALSE)
  <2>2. t \in Tasks /\ t.source = s /\ t.by = "join" /\ t.stage = "send" /\ t.fresh /\ ~t.on
    BY DEF Task, Tasks, Sources
  <2>3. page' = Begun(pg, t) BY <2>1
  <2> HIDE DEF t
  <2>4. Fits(t, pg, "publishing")
    BY <2>2 DEF Fits, Mounted
  <2>5. page' \in Pages /\ Sound(page', "publishing", hidden, allow)
    BY <2>2, <2>3, <2>4, BegunSound, BegunPage
  <2> QED BY <2>1, <2>5 DEF PageInv, TypeOK, Active
<1> QED BY <1>1, <1>2

\* A step that changes the page alone.
LEMMA TurnSound ==
  ASSUME TypeOK, NEW n \in Pages, Sound(n, phase, hidden, allow), Turn(n)
  PROVE  PageInv'
  BY DEF Turn, PageInv, TypeOK

-----------------------------------------------------------------------------
(* Sessions. *)

\* The page starts with nothing captured and nothing under way.
LEMMA PageInit == Init => PageInv
<1> SUFFICES ASSUME Init PROVE PageInv
  OBVIOUS
<1>1. PICK off \in SUBSET {"mic", "camera"} : page = Blank(off)
  BY DEF Init
<1>2. /\ page \in Pages /\ page.off = off /\ page.live = {} /\ page.tasks = {} /\ ~page.talk.on
  BY <1>1 DEF Blank, Pages, NoTalk
<1>3. Sound(page, "joining", hidden, allow)
  BY <1>2 DEF Sound, Rest, Outdates, Askers, Idle, JoinTasks, CamLive, CamJoin, Sharing, MicTasks, Talk, Silent
<1>4. phase = "joining" /\ failures = 0 /\ carried = {} /\ hidden = FALSE /\ allow \in Settings
  BY DEF Init
<1>5. Sound(page, phase, hidden, allow)
  BY <1>3, <1>4
<1>6. TypeOK
  <2>1. hidden \in BOOLEAN
    BY <1>4
  <2>2. failures \in 0..MaxFailures
    BY <1>4, PageAssumption
  <2>3. carried \subseteq {"mic", "camera"} /\ phase \in Active
    BY <1>4 DEF Active
  <2> QED BY <1>2, <1>4, <2>1, <2>2, <2>3 DEF TypeOK
<1> QED BY <1>5, <1>6 DEF PageInv

\* A session ends for good, or to be restored.
LEMMA EndsSound ==
  ASSUME TypeOK, NEW pg \in Pages, Ends(pg)
  PROVE  PageInv'
<1>1. page' = Stopped(pg) /\ phase' = "over" /\ UNCHANGED <<failures, carried, hidden, allow>>
  BY DEF Ends
<1>2. page' \in Pages /\ Sound(page', "over", hidden, allow)
  BY <1>1, StoppedSound DEF Mounted
<1> QED BY <1>1, <1>2 DEF PageInv, TypeOK

\* A dropped session stops, to be restored or for good.
LEMMA DroppedSound ==
  ASSUME TypeOK, Dropped
  PROVE  PageInv'
<1>0. page \in Pages BY DEF TypeOK
<1>1. CASE failures < MaxFailures
  <2>1. /\ page' = Stopped(page) /\ phase' = "restoring" /\ carried' = page.off
        /\ failures' = failures + 1 /\ UNCHANGED <<hidden, allow>>
    BY <1>1 DEF Dropped, Counted
  <2>2. page' \in Pages /\ Sound(page', "restoring", hidden, allow)
    BY <1>0, <2>1, StoppedSound DEF Mounted
  <2>3. failures' \in 0..MaxFailures /\ carried' \subseteq {"mic", "camera"}
    BY <1>0, <1>1, <2>1 DEF TypeOK, Pages
  <2> QED BY <2>1, <2>2, <2>3 DEF PageInv, TypeOK
<1>2. CASE ~(failures < MaxFailures)
  BY <1>0, <1>2, EndsSound DEF Dropped
<1> QED BY <1>1, <1>2

\* The steps that end, drop or restore a session.
LEMMA SessionsSound ==
  ASSUME PageInv,
         AskedToWait \/ JoinRefused \/ JoinFails \/ ConnectionLost \/ Leave \/ PageHide \/ Remount
  PROVE  PageInv'
<1>0. TypeOK /\ page \in Pages /\ Sound(page, phase, hidden, allow)
  BY DEF PageInv, TypeOK
<1>1. CASE AskedToWait
  <2>1. phase = "joining" /\ phase' = "waiting" /\ UNCHANGED <<failures, carried, hidden, allow, page>>
    BY <1>1 DEF AskedToWait
  <2>2. Sound(page, "waiting", hidden, allow)
    BY <1>0, <2>1 DEF Sound, Rest, Idle, JoinTasks, Silent, Mounted
  <2> QED BY <1>0, <2>1, <2>2 DEF PageInv, TypeOK, Active
<1>2. CASE JoinRefused \/ Leave
  BY <1>0, <1>2, EndsSound DEF JoinRefused, Leave
<1>3. CASE JoinFails \/ ConnectionLost
  BY <1>0, <1>3, DroppedSound DEF JoinFails, ConnectionLost
<1>4. CASE PageHide
  <2>1. [page EXCEPT !.off = {"mic", "camera"}] \in Pages
    BY <1>0 DEF Pages
  <2> QED BY <1>0, <1>4, <2>1, EndsSound DEF PageHide
<1>5. CASE Remount
  <2> DEFINE off == carried \cup IF hidden THEN {"camera"} ELSE {}
             n == [Blank(off) EXCEPT !.tasks = page.tasks]
  <2>1. phase = "restoring" /\ phase' = "joining" /\ page' = n /\ carried' = {} /\ UNCHANGED <<failures, hidden, allow>>
    BY <1>5 DEF Remount
  <2>2. off \subseteq {"mic", "camera"} BY <1>0 DEF TypeOK
  <2>3. n \in Pages /\ n.live = {} /\ n.tasks = page.tasks /\ ~n.talk.on
    BY <1>0, <2>2 DEF Blank, Pages, NoTalk, Sources
  <2> HIDE DEF n
  <2>4. \A t \in page.tasks : ~t.fresh
    BY <1>0, <2>1 DEF Sound, Rest, Idle, Mounted
  <2>5. Sound(n, "joining", hidden, allow)
    <3>1. Outdates(n) /\ Askers(n)
      BY <1>0, <2>3 DEF Sound, Rest, Outdates, Askers
    <3>2. Idle(n, "joining") /\ JoinTasks(n, "joining") /\ CamLive(n, hidden) /\ CamJoin(n) /\ Sharing(n, allow)
      BY <2>3, <2>4 DEF Idle, JoinTasks, CamLive, CamJoin, Sharing
    <3>3. MicTasks(n) /\ Talk(n) /\ Silent(n, "joining")
      BY <2>3, <2>4 DEF MicTasks, Talk, Silent
    <3> QED BY <3>1, <3>2, <3>3 DEF Sound, Rest
  <2> QED BY <1>0, <2>1, <2>3, <2>5 DEF PageInv, TypeOK, Active
<1> QED BY <1>1, <1>2, <1>3, <1>4, <1>5

\* The tasks of joining ask for a camera only if it is on.
LEMMA JoinedSound ==
  ASSUME PageInv, NEW a \in Settings, NEW muteOnEntry \in BOOLEAN, Joined(a, muteOnEntry)
  PROVE  PageInv'
<1>0. TypeOK /\ page \in Pages /\ Sound(page, phase, hidden, allow)
  BY DEF PageInv, TypeOK
<1> DEFINE off == page.off \cup ({"mic", "camera"} \ a) \cup IF muteOnEntry THEN {"mic"} ELSE {}
           asked == {Task("mic", "join", "open", FALSE)}
                    \cup IF "camera" \in off THEN {} ELSE {Task("camera", "join", "open", FALSE)}
           n == [page EXCEPT !.off = off, !.tasks = @ \cup asked]
<1>1. phase \in {"joining", "waiting"} /\ phase' = "opening" /\ allow' = a /\ page' = n /\ UNCHANGED <<failures, carried, hidden>>
  BY DEF Joined
<1>2. off \in SUBSET {"mic", "camera"}
  BY <1>0 DEF Pages
<1>3. /\ asked \subseteq Tasks
      /\ \A t \in asked : /\ t.fresh /\ t.by = "join" /\ t.stage = "open" /\ ~t.on
                          /\ t.source = "mic" \/ (t.source = "camera" /\ "camera" \notin off)
  <2> DEFINE T(s) == Task(s, "join", "open", FALSE)
  <2>1. \A s \in {"mic", "camera"} :
           T(s) \in Tasks /\ T(s).fresh /\ T(s).by = "join" /\ T(s).stage = "open" /\ ~T(s).on /\ T(s).source = s
    BY DEF Task, Tasks, Sources
  <2>2. \A t \in asked : t = T("mic") \/ (t = T("camera") /\ "camera" \notin off)
    OBVIOUS
  <2> HIDE DEF T, asked, off
  <2> QED BY <2>1, <2>2
<1> HIDE DEF off, asked
<1>4. n \in Pages /\ n.live = page.live /\ n.talk = page.talk /\ n.tasks = page.tasks \cup asked /\ n.off = off
  BY <1>0, <1>2, <1>3 DEF Pages
<1> HIDE DEF n
<1>5. page.live = {} /\ ~page.talk.on /\ \A t \in page.tasks : ~t.fresh
  BY <1>0, <1>1 DEF Sound, Rest, Idle, Mounted
<1>6. Sound(n, "opening", hidden, a)
  <2>1. Outdates(n) /\ Askers(n)
    BY <1>0, <1>3, <1>4 DEF Sound, Rest, Outdates, Askers
  <2>2. Idle(n, "opening") /\ JoinTasks(n, "opening") /\ CamLive(n, hidden) /\ Sharing(n, a)
    BY <1>3, <1>4, <1>5 DEF Idle, JoinTasks, CamLive, Sharing, Mounted
  <2>3. CamJoin(n) /\ MicTasks(n) /\ Talk(n) /\ Silent(n, "opening")
    BY <1>3, <1>4, <1>5 DEF CamJoin, MicTasks, Talk, Silent
  <2> QED BY <2>1, <2>2, <2>3 DEF Sound, Rest
<1> QED BY <1>0, <1>1, <1>4, <1>6 DEF PageInv, TypeOK, Active

\* What could not be opened is off before anything is published.
LEMMA MediaReadySound ==
  ASSUME PageInv, NEW relay \in BOOLEAN, MediaReady(relay)
  PROVE  PageInv'
<1>0. TypeOK /\ page \in Pages /\ Sound(page, phase, hidden, allow)
  BY DEF PageInv, TypeOK
<1> DEFINE off == page.off \cup ({"mic", "camera"} \ page.live)
           n  == [page EXCEPT !.off = off, !.relay = relay]
           S == IF relay THEN page.live \cap ({"mic"} \cup ({"camera"} \ off)) ELSE {}
<1>1. /\ phase = "opening" /\ ~Pending(page, "mic", "join") /\ ~Pending(page, "camera", "join")
      /\ Publish(n, S) /\ UNCHANGED <<carried, hidden, allow>>
  BY DEF MediaReady
<1>2. off \in SUBSET {"mic", "camera"} /\ page.off \subseteq off /\ ("camera" \in off /\ "camera" \in page.live => "camera" \in page.off)
  BY <1>0 DEF Pages
<1>3. S \in SUBSET {"mic", "camera"}
  OBVIOUS
<1> HIDE DEF off, S
<1>4. /\ n \in Pages /\ n.live = page.live /\ n.talk = page.talk /\ n.tasks = page.tasks /\ n.off = off
      /\ n.sharing = page.sharing /\ n.slipped = page.slipped /\ n.reopened = page.reopened
  BY <1>0, <1>2 DEF Pages
<1> HIDE DEF n
<1>5. \A t \in page.tasks : ~t.fresh
  BY <1>0, <1>1 DEF Sound, Rest, JoinTasks, Askers, Pending
<1>6. page.talk.on /\ ~page.slipped => "mic" \in page.off
  BY <1>0 DEF Sound, Rest, Talk
<1>7. Sound(n, "publishing", hidden, allow)
  <2>1. Outdates(n) /\ Askers(n)
    BY <1>0, <1>4 DEF Sound, Rest, Outdates, Askers
  <2>2. Idle(n, "publishing") /\ JoinTasks(n, "publishing") /\ Sharing(n, allow)
    BY <1>0, <1>4, <1>5, <1>6 DEF Sound, Rest, Idle, JoinTasks, Sharing, Mounted
  <2>3. CamJoin(n) /\ MicTasks(n) /\ Talk(n) /\ Silent(n, "publishing")
    BY <1>2, <1>4, <1>5, <1>6 DEF CamJoin, MicTasks, Talk, Overtaking, Silent
  <2>4. CamLive(n, hidden)
    BY <1>0, <1>2, <1>4 DEF Sound, CamLive
  <2> QED BY <2>1, <2>2, <2>3, <2>4 DEF Sound, Rest
<1> QED BY <1>0, <1>1, <1>3, <1>4, <1>7, PublishSound

-----------------------------------------------------------------------------
(* What the steps of tasks and of people are made of. *)

\* A page that sound states may turn to.
Safe(n) == n \in Pages /\ Sound(n, phase, hidden, allow)

\* A turn to such a page keeps the invariant.
LEMMA SafeTurn == ASSUME TypeOK, NEW n, Safe(n), Turn(n) PROVE PageInv'
  BY TurnSound DEF Safe

\* Changes of what is live, shared or sent, that leave alone the tasks and what is off.
LEMMA AlteredRest ==
  ASSUME NEW pg \in Pages, NEW n \in Pages, NEW ph, NEW al, Rest(pg, ph, al), Sharing(n, al),
         n.off = pg.off, n.talk.on = pg.talk.on, n.tasks = pg.tasks, n.slipped = pg.slipped,
         n.sent["mic"] = pg.sent["mic"] \/ n.sent["mic"] # "sending", n.live = {} \/ ph \in Mounted
  PROVE  Rest(n, ph, al)
<1>1. Outdates(n) /\ Askers(n) /\ Idle(n, ph) /\ JoinTasks(n, ph) /\ CamJoin(n)
  BY DEF Rest, Outdates, Askers, Idle, JoinTasks, CamJoin
<1>2. MicTasks(n) /\ Talk(n)
  BY DEF Rest, MicTasks, Talk, Overtaking
<1>3. Silent(n, ph)
  BY DEF Rest, Silent
<1> QED BY <1>1, <1>2, <1>3 DEF Rest

LEMMA AlteredSound ==
  ASSUME NEW pg \in Pages, NEW n \in Pages, NEW ph, NEW hd, NEW al, Sound(pg, ph, hd, al), Sharing(n, al),
         n.off = pg.off, n.talk.on = pg.talk.on, n.tasks = pg.tasks, n.slipped = pg.slipped,
         n.sent["mic"] = pg.sent["mic"] \/ n.sent["mic"] # "sending", n.live = {} \/ ph \in Mounted,
         "camera" \in n.live => "camera" \in pg.live, n.reopened = pg.reopened
  PROVE  Sound(n, ph, hd, al)
<1>1. CamLive(n, hd)
  BY DEF Sound, CamLive
<1> QED BY <1>1, AlteredRest DEF Sound

\* A page that is silent may be connected.
LEMMA Landing ==
  ASSUME NEW pg \in Pages, NEW ph \in {"publishing", "in"}, NEW hd, NEW al, Sound(pg, "publishing", hd, al), Silent(pg, ph)
  PROVE  Sound(pg, ph, hd, al)
  BY DEF Sound, Rest, Idle, JoinTasks, Mounted

LEMMA PausedMicSound ==
  ASSUME NEW pg \in Pages, NEW m \in BOOLEAN, NEW ph \in {"publishing", "in"}, NEW hd, NEW al,
         Sound(pg, "publishing", hd, al), ~m => ("mic" \notin pg.off \/ pg.slipped) /\ (pg.talk.on => pg.slipped)
  PROVE  Paused(pg, "mic", m) \in Pages /\ Sound(Paused(pg, "mic", m), ph, hd, al)
<1> DEFINE n == Paused(pg, "mic", m)
<1>1. "mic" \in Sources
  BY DEF Sources
<1>2. /\ n \in Pages /\ n.off = pg.off /\ n.live = pg.live /\ n.sharing = pg.sharing /\ n.talk = pg.talk
      /\ n.tasks = pg.tasks /\ n.slipped = pg.slipped /\ n.reopened = pg.reopened
      /\ n.sent["mic"] = IF pg.sent["mic"] = "none" THEN "none" ELSE IF m THEN "paused" ELSE "sending"
  BY <1>1, PausedPage
<1> HIDE DEF n
<1>3. Sharing(n, al) /\ CamLive(n, hd)
  BY <1>2 DEF Sound, Rest, Sharing, CamLive
<1>4. Outdates(n) /\ Askers(n) /\ Idle(n, "publishing") /\ JoinTasks(n, "publishing") /\ CamJoin(n)
  BY <1>2 DEF Sound, Rest, Outdates, Askers, Idle, JoinTasks, CamJoin
<1>5. MicTasks(n) /\ Talk(n) /\ Silent(n, "publishing")
  BY <1>2 DEF Sound, Rest, MicTasks, Talk, Overtaking, Silent
<1>6. Sound(n, "publishing", hd, al)
  BY <1>3, <1>4, <1>5 DEF Sound, Rest
<1>7. Silent(n, ph)
  BY <1>2 DEF Silent
<1>8. Sound(n, ph, hd, al)
  BY <1>2, <1>6, <1>7, Landing
<1> QED BY <1>2, <1>8 DEF n

\* A task of the session satisfies what a new one has to.
LEMMA Fitting ==
  ASSUME PageInv, NEW t \in page.tasks, t.fresh
  PROVE  /\ page \in Pages /\ t \in Tasks /\ phase \in Mounted /\ Fits(t, page, phase)
         /\ t.by # "join" => phase \in {"publishing", "in"}
         /\ t.stage = "send" => phase \in {"publishing", "in"}
<1>1. page \in Pages /\ t \in Tasks /\ Rest(page, phase, allow)
  BY DEF PageInv, TypeOK, Sound, Pages
<1>2. phase \in Mounted
  BY <1>1 DEF Rest, Idle
<1>3. /\ t.by = "join" => t.source \in {"mic", "camera"}
      /\ t.by = "ended" => t.source = "mic"
      /\ phase = "opening" => t.by = "join" /\ t.stage = "open"
      /\ t.by = "join" /\ t.stage = "open" => phase = "opening"
  BY <1>1 DEF Rest, Askers, JoinTasks
<1>4. t.source = "camera" /\ t.by = "join" /\ t.stage = "open" /\ t.wanted /\ ~t.again => "camera" \notin page.off
  BY <1>1 DEF Rest, CamJoin
<1>5. /\ t.source = "mic" /\ t.by = "click" => t.on
      /\ t.source = "mic" /\ t.by = "ended" /\ t.on => "mic" \notin page.off \/ page.slipped
  BY <1>1 DEF Rest, MicTasks
<1>6. t.source = "mic" /\ t.on /\ page.talk.on => page.slipped
  BY <1>1 DEF Rest, Talk, Overtaking
<1>7. Fits(t, page, phase)
  BY <1>2, <1>3, <1>4, <1>5, <1>6 DEF Fits
<1> QED BY <1>1, <1>2, <1>3, <1>7 DEF Mounted

\* Fits looks at little of the page.
LEMMA FitsAlike ==
  ASSUME NEW pg \in Pages, NEW n \in Pages, NEW ph, NEW t, Fits(t, pg, ph),
         n.off = pg.off, n.slipped = pg.slipped, n.talk.on = pg.talk.on
  PROVE  Fits(t, n, ph)
  BY DEF Fits

\* A task that goes on to send its track, as a task of the session.
LEMMA SentTask ==
  ASSUME NEW t \in Tasks, NEW pg \in Pages, NEW ph, Fits(t, pg, ph), t.by # "join"
  PROVE  LET u == Task(t.source, t.by, "send", t.on) IN
         u \in Tasks /\ u.source = t.source /\ u.by = t.by /\ u.stage = "send" /\ u.fresh /\ Fits(u, pg, ph)
<1> DEFINE u == Task(t.source, t.by, "send", t.on)
<1>1. /\ u \in Tasks /\ u.source = t.source /\ u.by = t.by /\ u.stage = "send" /\ u.fresh /\ u.on = t.on
  BY DEF Tasks, Task
<1> HIDE DEF u
<1>2. Fits(u, pg, ph) /\ u.fresh
  BY <1>1 DEF Fits
<1> QED BY <1>1, <1>2 DEF u

\* A track with no relay to go to finishes, one with a relay is awaited.
LEMMA SendSafe ==
  ASSUME TypeOK, NEW t \in Tasks, NEW pg, Safe(pg), Fits(t, pg, phase), t.by # "join", NEW finished, pg.relay \/ Safe(finished)
  PROVE  Safe(Send(pg, t, finished))
<1> DEFINE u == Task(t.source, t.by, "send", t.on)
<1>1. pg \in Pages /\ u \in Tasks /\ Fits(u, pg, phase)
  BY SentTask DEF Safe
<1> HIDE DEF u
<1>2. Safe(Begun(pg, u))
  BY <1>1, BegunSound, BegunPage DEF Safe
<1> QED BY <1>2 DEF Send, u

\* What follows the publication of a microphone: the mute state decides.
LEMMA MicTakenSafe ==
  ASSUME TypeOK, NEW t \in Tasks, NEW pg, Safe(pg), phase \in {"publishing", "in"},
         t.source = "mic", t.by # "join", Fits(t, pg, phase)
  PROVE  Safe(MicTaken(pg, t))
<1>1. pg \in Pages /\ Sound(pg, phase, hidden, allow)
  BY DEF Safe
<1>2. CASE t.by = "click"
  <2>1. pg.talk.on => pg.slipped
    BY <1>2 DEF Fits
  <2>2. FALSE \in BOOLEAN
    OBVIOUS
  <2>3. MicMuted(pg, FALSE) \in Pages /\ Sound(MicMuted(pg, FALSE), phase, hidden, allow)
    BY <1>1, <2>1, <2>2, MicMutedPage, MicMutedSound
  <2> QED BY <1>2, <2>3 DEF MicTaken, Safe
<1>3. CASE t.by = "ended"
  <2>1. t.on => ("mic" \notin pg.off \/ pg.slipped) /\ (pg.talk.on => pg.slipped)
    BY <1>3 DEF Fits
  <2>2. Sound(pg, "publishing", hidden, allow)
    BY <1>1, Settling
  <2>3. \A m \in BOOLEAN : (~m => t.on) =>
           Paused(pg, "mic", m) \in Pages /\ Sound(Paused(pg, "mic", m), phase, hidden, allow)
    BY <1>1, <2>1, <2>2, PausedMicSound
  <2>4. Paused(pg, "mic", ~t.on) \in Pages /\ Sound(Paused(pg, "mic", ~t.on), phase, hidden, allow)
    BY <2>3, Zenon
  <2>5. MicTaken(pg, t) = Paused(pg, "mic", ~t.on)
    BY <1>3 DEF MicTaken
  <2> QED BY <2>4, <2>5 DEF Safe
<1> QED BY <1>2, <1>3 DEF Tasks

\* A private producer starts from a copy of the microphone, muted in the room.
LEMMA PrivateBegunSafe ==
  ASSUME TypeOK, NEW pg, Safe(pg), phase \in Mounted
  PROVE  Safe(PrivateBegun(pg))
<1> DEFINE n == [pg EXCEPT !.live = @ \cup {"private"}]
           t == Task("private", "click", "send", FALSE)
<1>1. pg \in Pages /\ Sound(pg, phase, hidden, allow)
  BY DEF Safe
<1>2. /\ n \in Pages /\ n.off = pg.off /\ n.talk = pg.talk /\ n.tasks = pg.tasks /\ n.slipped = pg.slipped
      /\ n.sent = pg.sent /\ n.sharing = pg.sharing /\ n.live = pg.live \cup {"private"} /\ n.reopened = pg.reopened
  BY <1>1 DEF Pages, Sources
<1>3. t \in Tasks /\ t.source = "private" /\ t.by = "click" /\ t.stage = "send" /\ t.fresh /\ ~t.on
  BY DEF Task, Tasks, Sources
<1> HIDE DEF n, t
<1>4. Sound(n, phase, hidden, allow)
  <2>1. Sharing(n, allow)
    BY <1>1, <1>2 DEF Sound, Rest, Sharing
  <2> QED BY <1>1, <1>2, <2>1, AlteredSound DEF Mounted
<1>5. CASE phase # "opening"
  <2>1. Fits(t, n, phase)
    BY <1>3, <1>5 DEF Fits
  <2>2. Safe(Begun(n, t))
    BY <1>2, <1>3, <1>4, <2>1, BegunSound, BegunPage DEF Safe
  <2> QED BY <2>2 DEF PrivateBegun, n, t
<1> QED BY <1>5 DEF PrivateBegun

\* The page without the task that ended.
LEMMA DoneCalm ==
  ASSUME PageInv, NEW t \in page.tasks
  PROVE  LET d == Done(page, t) IN
         /\ d \in Pages /\ Rest(d, phase, allow)
         /\ ~(t.source = "camera" /\ t.by = "click" /\ t.stage = "send") => Safe(d)
         /\ d.off = page.off /\ d.slipped = page.slipped /\ d.talk = page.talk /\ d.live = page.live
         /\ d.sharing = page.sharing /\ d.relay = page.relay /\ d.reopened = page.reopened
<1>1. page \in Pages /\ Sound(page, phase, hidden, allow) /\ Rest(page, phase, allow)
  BY DEF PageInv, TypeOK, Sound
<1> QED BY <1>1, DonePage, DoneRest, DoneSound DEF Safe

-----------------------------------------------------------------------------
(* A task ends. *)

\* A device opens: one lemma per device, then Opens.
LEMMA MicOpenedSafe ==
  ASSUME PageInv, NEW t \in page.tasks, t.source = "mic", MicOpened(t)
  PROVE  PageInv'
<1> DEFINE d == Done(page, t)
           n == [d EXCEPT !.live = @ \cup {"mic"}]
<1>0. TypeOK /\ t \in Tasks /\ Turn(IF ~t.fresh THEN d ELSE IF t.by = "join" THEN n ELSE Send(n, t, MicTaken(n, t)))
  BY DEF PageInv, TypeOK, Pages, MicOpened, IsFresh
<1>1. Safe(d) /\ d \in Pages /\ Rest(d, phase, allow) /\ d.off = page.off /\ d.slipped = page.slipped /\ d.talk = page.talk
  BY DoneCalm
<1> HIDE DEF d
<1>2. CASE ~t.fresh
  BY <1>0, <1>1, <1>2, SafeTurn
<1>3. CASE t.fresh
  <2>1. phase \in Mounted /\ Fits(t, page, phase) /\ (t.by # "join" => phase \in {"publishing", "in"})
    BY <1>3, Fitting
  <2>3. /\ n \in Pages /\ n.off = d.off /\ n.talk = d.talk /\ n.tasks = d.tasks /\ n.slipped = d.slipped
        /\ n.sent = d.sent /\ n.sharing = d.sharing /\ n.live = d.live \cup {"mic"} /\ n.reopened = d.reopened
    BY <1>1 DEF Pages, Sources
  <2> HIDE DEF n
  <2>4. Safe(n)
    <3>1. Sharing(n, allow)
      BY <1>1, <2>3 DEF Rest, Sharing
    <3> QED BY <1>1, <2>1, <2>3, <3>1, AlteredSound DEF Safe
  <2>5. Fits(t, n, phase)
    BY <1>0, <1>1, <2>1, <2>3, FitsAlike DEF PageInv, TypeOK
  <2>6. CASE t.by = "join"
    BY <1>0, <1>3, <2>4, <2>6, SafeTurn
  <2>7. CASE t.by # "join"
    <3>1. Safe(MicTaken(n, t))
      BY <1>0, <2>1, <2>4, <2>5, <2>7, MicTakenSafe
    <3>2. Safe(Send(n, t, MicTaken(n, t)))
      BY <1>0, <2>4, <2>5, <2>7, <3>1, SendSafe
    <3> QED BY <1>0, <1>3, <2>7, <3>2, SafeTurn
  <2> QED BY <2>6, <2>7
<1> QED BY <1>2, <1>3

LEMMA CameraOpenedSafe ==
  ASSUME PageInv, NEW t \in page.tasks, t.source = "camera", t.stage = "open", CameraOpened(t)
  PROVE  PageInv'
<1> DEFINE d == Done(page, t)
           n == [d EXCEPT !.live = @ \cup {"camera"}, !.reopened = t.again]
           u == Task(t.source, t.by, "send", t.on)
<1>0. /\ TypeOK /\ t \in Tasks
      /\ Turn(IF ~Usable(t) \/ ~t.fresh THEN d ELSE IF t.by = "join" THEN n ELSE Send(n, t, CameraTaken(n)))
  BY DEF PageInv, TypeOK, Pages, CameraOpened, IsFresh
<1>1. Safe(d) /\ d \in Pages /\ Rest(d, phase, allow) /\ d.off = page.off /\ d.slipped = page.slipped /\ d.talk = page.talk
  BY DoneCalm
<1> HIDE DEF d
<1>2. CASE ~Usable(t) \/ ~t.fresh
  BY <1>0, <1>1, <1>2, SafeTurn
<1>3. CASE t.wanted /\ ~hidden /\ t.fresh
  <2>1. phase \in Mounted /\ Fits(t, page, phase)
    BY <1>3, Fitting
  <2>2. /\ n \in Pages /\ n.off = d.off /\ n.talk = d.talk /\ n.tasks = d.tasks /\ n.slipped = d.slipped
        /\ n.sent = d.sent /\ n.sharing = d.sharing /\ n.live = d.live \cup {"camera"}
        /\ n.reopened = t.again
    BY <1>0, <1>1 DEF Pages, Sources, Tasks
  <2> HIDE DEF n
  <2>3. Rest(n, phase, allow)
    <3>1. Sharing(n, allow)
      BY <1>1, <2>2 DEF Rest, Sharing
    <3> QED BY <1>1, <2>1, <2>2, <3>1, AlteredRest
  <2>4. Fits(t, n, phase)
    BY <1>0, <1>1, <2>1, <2>2, FitsAlike DEF PageInv, TypeOK
  <2>5. CASE t.by = "join"
    <3>1. "camera" \notin n.off \/ n.reopened
      BY <1>3, <2>2, <2>4, <2>5 DEF Fits
    <3>2. CamLive(n, hidden)
      BY <1>3, <3>1 DEF CamLive
    <3>3. Safe(n)
      BY <2>2, <2>3, <3>2 DEF Safe, Sound
    <3> QED BY <1>0, <1>3, <2>5, <3>3, SafeTurn DEF Usable
  <2>6. CASE t.by # "join"
    <3>1. u \in Tasks /\ u.source = "camera" /\ u.by = t.by /\ u.stage = "send" /\ u.fresh /\ Fits(u, n, phase)
      BY <1>0, <2>2, <2>4, <2>6, SentTask
    <3> HIDE DEF u
    <3>2. t.by = "click"
      BY <1>0, <2>4, <2>6 DEF Fits, Tasks
    <3>3. Begun(n, u) \in Pages /\ Rest(Begun(n, u), phase, allow) /\ u \in Begun(n, u).tasks
      BY <2>2, <2>3, <3>1, BegunPage, BegunRest
    <3>4. CamLive(Begun(n, u), hidden)
      BY <1>3, <3>1, <3>2, <3>3 DEF CamLive
    <3>5. Safe(Begun(n, u)) /\ Safe(CameraTaken(n))
      BY <1>0, <2>2, <2>3, <3>3, <3>4, CameraTakenSound DEF Safe, Sound
    <3>6. Safe(Send(n, t, CameraTaken(n)))
      BY <3>5 DEF Send, u
    <3> QED BY <1>0, <1>3, <2>6, <3>6, SafeTurn DEF Usable
  <2> QED BY <2>5, <2>6
<1> QED BY <1>2, <1>3 DEF Usable

LEMMA ScreenPickedSafe ==
  ASSUME PageInv, NEW t \in page.tasks, t.source = "screen", ScreenPicked(t)
  PROVE  PageInv'
<1> DEFINE d == Done(page, t)
           n == [d EXCEPT !.live = @ \cup {"screen"}, !.sharing = TRUE]
<1>0. TypeOK /\ t \in Tasks /\ Turn(IF ~t.fresh \/ ~MayShow THEN d ELSE Send(n, t, n))
  BY DEF PageInv, TypeOK, Pages, ScreenPicked, IsFresh
<1>1. Safe(d) /\ d \in Pages /\ d.off = page.off /\ d.slipped = page.slipped /\ d.talk = page.talk
  BY DoneCalm
<1> HIDE DEF d
<1>2. CASE ~t.fresh \/ ~MayShow
  BY <1>0, <1>1, <1>2, SafeTurn
<1>3. CASE t.fresh /\ MayShow
  <2>1. phase \in Mounted /\ Fits(t, page, phase)
    BY <1>3, Fitting
  <2>2. /\ n \in Pages /\ n.off = d.off /\ n.talk = d.talk /\ n.tasks = d.tasks /\ n.slipped = d.slipped
        /\ n.sent = d.sent /\ n.sharing /\ n.live = d.live \cup {"screen"}
        /\ n.reopened = d.reopened
    BY <1>1 DEF Pages, Sources
  <2> HIDE DEF n
  <2>3. Safe(n)
    <3>1. Sharing(n, allow)
      BY <1>3, <2>2 DEF Sharing, MayShow
    <3> QED BY <1>1, <2>1, <2>2, <3>1, AlteredSound DEF Safe
  <2>4. Fits(t, n, phase) /\ t.by # "join"
    <3>1. Fits(t, n, phase)
      BY <1>0, <1>1, <2>1, <2>2, FitsAlike DEF PageInv, TypeOK
    <3> QED BY <3>1 DEF Fits
  <2>5. Safe(Send(n, t, n))
    BY <1>0, <2>3, <2>4, SendSafe
  <2> QED BY <1>0, <1>3, <2>5, SafeTurn
<1> QED BY <1>2, <1>3

LEMMA PrivateOpenedSafe ==
  ASSUME PageInv, NEW t \in page.tasks, t.source = "private", PrivateOpened(t)
  PROVE  PageInv'
<1> DEFINE d == Done(page, t)
           n == [d EXCEPT !.live = @ \cup {"mic"}, !.talk.muted = ~page.relay, !.talk.muting = FALSE]
<1>0. TypeOK /\ t \in Tasks /\ Turn(IF ~t.fresh \/ ~t.wanted THEN d ELSE PrivateBegun(Paused(n, "mic", TRUE)))
  BY DEF PageInv, TypeOK, Pages, PrivateOpened, IsFresh
<1>1. Safe(d) /\ d \in Pages /\ Rest(d, phase, allow) /\ d.off = page.off /\ d.slipped = page.slipped /\ d.talk = page.talk
  BY DoneCalm
<1> HIDE DEF d
<1>2. CASE ~t.fresh \/ ~t.wanted
  BY <1>0, <1>1, <1>2, SafeTurn
<1>3. CASE t.fresh /\ t.wanted
  <2>1. phase \in {"publishing", "in"}
    <3>1. Fits(t, page, phase) /\ (t.by # "join" => phase \in {"publishing", "in"})
      BY <1>3, Fitting
    <3> QED BY <3>1 DEF Fits
  <2>2. /\ n \in Pages /\ n.off = d.off /\ n.talk.on = d.talk.on /\ n.tasks = d.tasks /\ n.slipped = d.slipped
        /\ n.sent = d.sent /\ n.sharing = d.sharing /\ n.live = d.live \cup {"mic"} /\ n.reopened = d.reopened
    BY <1>1 DEF Pages, Sources
  <2> HIDE DEF n
  <2>3. Sound(n, phase, hidden, allow)
    <3>1. Sharing(n, allow)
      BY <1>1, <2>2 DEF Rest, Sharing
    <3> QED BY <1>1, <2>1, <2>2, <3>1, AlteredSound DEF Safe, Mounted
  <2>4. "mic" \in Sources /\ TRUE \in BOOLEAN
    BY DEF Sources
  <2>5. Safe(Paused(n, "mic", TRUE))
    BY <2>2, <2>3, <2>4, PausedPage, PausedSound DEF Safe
  <2>6. Safe(PrivateBegun(Paused(n, "mic", TRUE)))
    BY <1>0, <2>1, <2>5, PrivateBegunSafe DEF Mounted
  <2> QED BY <1>0, <1>3, <2>6, SafeTurn
<1> QED BY <1>2, <1>3

\* An attempt at a camera fails and the next one begins: the same task again, but
\* with a camera that stopped.
LEMMA RetriesSafe ==
  ASSUME PageInv, NEW t \in page.tasks, Retries(t)
  PROVE  PageInv'
<1> DEFINE d == Done(page, t)
           c == CameraStopped(d)
           n == NextAttempt(t)
<1>0. /\ TypeOK /\ t \in Tasks /\ t.fresh /\ t.source = "camera" /\ t.stage = "open" /\ Turn(Begun(c, n))
  BY DEF PageInv, TypeOK, Pages, Retries
<1>1. d \in Pages /\ Rest(d, phase, allow) /\ d.off = page.off /\ d.slipped = page.slipped /\ d.talk = page.talk
  BY DoneCalm
<1> HIDE DEF d
<1>2. c \in Pages /\ Sound(c, phase, hidden, allow) /\ c.off = page.off /\ c.slipped = page.slipped /\ c.talk = page.talk
  BY <1>1, CameraStoppedPage, CameraStoppedSound
<1>3. /\ n \in Tasks /\ n.source = t.source /\ n.by = t.by /\ n.stage = t.stage /\ n.fresh = t.fresh /\ n.on = t.on
      /\ ~n.again => t.wanted /\ ~t.again
  BY <1>0 DEF NextAttempt, Tasks
<1>4. Fits(t, page, phase)
  BY <1>0, Fitting
<1> HIDE DEF c, n
<1>5. Fits(n, c, phase)
  BY <1>0, <1>2, <1>3, <1>4 DEF Fits
<1>6. Safe(Begun(c, n))
  BY <1>2, <1>3, <1>5, BegunSound, BegunPage DEF Safe
<1> QED BY <1>0, <1>6, SafeTurn

LEMMA OpensSafe ==
  ASSUME PageInv, NEW t \in page.tasks, Opens(t)
  PROVE  PageInv'
<1>1. t \in Tasks
  BY DEF PageInv, TypeOK, Pages
<1>2. t.source \in {"mic", "camera", "screen", "private"} /\ t.stage = "open"
  BY <1>1 DEF Opens, Tasks, Sources
<1>3. CASE t.source = "mic"
  BY <1>3, MicOpenedSafe DEF Opens
<1>4. CASE t.source = "camera"
  BY <1>2, <1>4, CameraOpenedSafe DEF Opens
<1>5. CASE t.source = "screen"
  BY <1>5, ScreenPickedSafe DEF Opens
<1>6. CASE t.source = "private"
  BY <1>6, PrivateOpenedSafe DEF Opens
<1> QED BY <1>2, <1>3, <1>4, <1>5, <1>6

\* A producer is accepted or refused, or a device is.
LEMMA PublishedSafe ==
  ASSUME PageInv, NEW t \in page.tasks, t.fresh, t.stage = "send", t.by = "join", Published(t)
  PROVE  PageInv'
<1> DEFINE d == Done(page, t)
           n == Registered(d, t.source)
<1>0. TypeOK /\ page \in Pages /\ Sound(page, phase, hidden, allow)
  BY DEF PageInv, TypeOK
<1>1. phase \in {"publishing", "in"} /\ t.source \in {"mic", "camera"}
  BY Fitting DEF Fits
<1>2. Sound(page, "publishing", hidden, allow)
  BY <1>0, <1>1, Settling
<1>3. d \in Pages /\ Sound(d, "publishing", hidden, allow)
  BY <1>0, <1>2, DonePage, DoneSound
<1>4. t.source \in Sources
  BY <1>1 DEF Sources
<1> HIDE DEF d
<1>5. n \in Pages /\ Sound(n, "publishing", hidden, allow)
  BY <1>3, <1>4, RegisteredPage, RegisteredSound
<1> DEFINE S == IF t.source = "mic" THEN n.live \cap ({"camera"} \ n.off) ELSE {}
<1>6. Publish(n, S) /\ UNCHANGED <<carried, hidden, allow>>
  BY DEF Published, d
<1>7. S \in SUBSET {"mic", "camera"}
  OBVIOUS
<1> HIDE DEF n, S
<1> QED BY <1>0, <1>5, <1>6, <1>7, PublishSound

LEMMA PublishFailsSafe ==
  ASSUME PageInv, NEW t \in page.tasks, t.fresh, t.stage = "send", t.by = "join", PublishFails(t)
  PROVE  PageInv'
<1> DEFINE d == Done(page, t)
           n == [d EXCEPT !.sent = [s \in Sources |-> "none"], !.relay = FALSE]
<1>0. TypeOK /\ page \in Pages /\ Sound(page, phase, hidden, allow)
  BY DEF PageInv, TypeOK
<1>1. phase \in {"publishing", "in"}
  BY Fitting
<1>2. Sound(page, "publishing", hidden, allow)
  BY <1>0, <1>1, Settling
<1>3. d \in Pages /\ Sound(d, "publishing", hidden, allow)
  BY <1>0, <1>2, DonePage, DoneSound
<1>4. page' = n /\ phase' = "in" /\ failures' = 0 /\ UNCHANGED <<carried, hidden, allow>>
  BY DEF PublishFails
<1> HIDE DEF d
<1>5. /\ n \in Pages /\ n.off = d.off /\ n.talk = d.talk /\ n.tasks = d.tasks /\ n.slipped = d.slipped
      /\ n.sharing = d.sharing /\ n.live = d.live /\ n.sent["mic"] = "none" /\ n.reopened = d.reopened
  BY <1>3 DEF Pages, Sources
<1> HIDE DEF n
<1>6. Sound(n, "publishing", hidden, allow)
  <2>1. Sharing(n, allow)
    BY <1>3, <1>5 DEF Sound, Rest, Sharing
  <2> QED BY <1>3, <1>5, <2>1, AlteredSound DEF Mounted
<1>7. Sound(n, "in", hidden, allow)
  <2>1. Silent(n, "in")
    BY <1>5 DEF Silent
  <2> QED BY <1>5, <1>6, <2>1, Landing
<1>8. failures' \in 0..MaxFailures
  BY <1>4, PageAssumption
<1> QED BY <1>0, <1>4, <1>5, <1>7, <1>8 DEF PageInv, TypeOK, Active

LEMMA AcceptedSafe ==
  ASSUME PageInv, NEW t \in page.tasks, Accepted(t)
  PROVE  PageInv'
<1> DEFINE d == Done(page, t)
           n == Registered(d, t.source)
<1>0. TypeOK /\ t \in Tasks /\ page \in Pages /\ Sound(page, phase, hidden, allow) /\ t.source \in Sources /\ t.stage = "send"
  BY DEF PageInv, TypeOK, Pages, Tasks, Accepted
<1>1. t.fresh
  BY <1>0 DEF Sound, Rest, Outdates
<1>2. Fits(t, page, phase) /\ phase \in {"publishing", "in"}
  BY <1>0, <1>1, Fitting
<1>3. CASE t.by = "join"
  BY <1>0, <1>1, <1>3, PublishedSafe DEF Accepted
<1>4. CASE t.by # "join"
  <2>0. /\ t.source = "mic" => Turn(MicTaken(Paused(n, "mic", "mic" \in n.off), t))
        /\ t.source = "camera" => Turn(CameraTaken(n))
        /\ t.source = "screen" => Turn(IF n.sharing THEN n ELSE [n EXCEPT !.live = @ \ {"screen"}])
        /\ t.source = "private" => Turn(IF t.wanted THEN Paused(n, "private", n.talk.muted) ELSE d)
    BY <1>4 DEF Accepted
  <2>1. /\ d \in Pages /\ Rest(d, phase, allow) /\ d.off = page.off /\ d.slipped = page.slipped /\ d.talk = page.talk
        /\ (t.source # "camera" => Sound(d, phase, hidden, allow))
    BY DoneCalm DEF Safe
  <2> HIDE DEF d
  <2>2. /\ n \in Pages /\ n.off = d.off /\ n.live = d.live /\ n.sharing = d.sharing /\ n.talk = d.talk /\ n.slipped = d.slipped
        /\ n.tasks = d.tasks /\ \A s \in Sources \ {t.source} : n.sent[s] = d.sent[s]
    BY <1>0, <2>1, RegisteredPage
  <2>3. CASE t.source = "mic"
    <3> DEFINE m == Paused(n, "mic", "mic" \in n.off)
    <3>1. Sound(d, "publishing", hidden, allow)
      BY <1>2, <2>1, <2>3, Settling
    <3>2. Sound(n, "publishing", hidden, allow)
      BY <1>0, <2>1, <3>1, RegisteredSound
    <3> HIDE DEF n
    <3>3. m \in Pages /\ Sound(m, phase, hidden, allow)
      BY <1>2, <2>2, <3>2, MatchedSound
    <3>4. m.off = n.off /\ m.slipped = n.slipped /\ m.talk = n.talk
      BY <2>2 DEF Paused, Pages, Sources
    <3>5. Turn(MicTaken(m, t))
      BY <2>0, <2>3
    <3> HIDE DEF m
    <3>6. Fits(t, m, phase)
      BY <1>0, <1>2, <2>1, <2>2, <3>3, <3>4, FitsAlike
    <3>7. Safe(MicTaken(m, t))
      BY <1>0, <1>2, <1>4, <2>3, <3>3, <3>6, MicTakenSafe DEF Safe
    <3> QED BY <1>0, <3>5, <3>7, SafeTurn
  <2>4. CASE t.source = "camera"
    <3>1. Rest(n, phase, allow)
      <4>1. Sharing(n, allow) /\ n.sent["mic"] = d.sent["mic"]
        BY <2>1, <2>2, <2>4 DEF Rest, Sharing, Sources
      <4> HIDE DEF n
      <4> QED BY <1>2, <2>1, <2>2, <4>1, AlteredRest DEF Mounted
    <3> HIDE DEF n
    <3>2. Safe(CameraTaken(n))
      BY <1>0, <2>2, <3>1, CameraTakenSound DEF Safe
    <3> QED BY <1>0, <2>0, <2>4, <3>2, SafeTurn
  <2>5. CASE t.source = "screen"
    <3> DEFINE m == [n EXCEPT !.live = @ \ {"screen"}]
    <3>1. Sound(n, phase, hidden, allow)
      BY <1>0, <2>1, <2>5, RegisteredSound
    <3> HIDE DEF n
    <3>2. /\ m \in Pages /\ m.off = n.off /\ m.talk = n.talk /\ m.tasks = n.tasks /\ m.slipped = n.slipped
          /\ m.sent = n.sent /\ m.live = n.live \ {"screen"} /\ m.reopened = n.reopened
      BY <2>2 DEF Pages
    <3>3. Turn(IF n.sharing THEN n ELSE m)
      BY <2>0, <2>5
    <3> HIDE DEF m
    <3>4. Sound(m, phase, hidden, allow)
      <4>1. Sharing(m, allow)
        BY <3>2 DEF Sharing
      <4> QED BY <1>2, <2>2, <3>1, <3>2, <4>1, AlteredSound DEF Mounted
    <3> QED BY <1>0, <2>2, <3>1, <3>2, <3>3, <3>4, SafeTurn DEF Safe
  <2>6. CASE t.source = "private"
    <3>1. Sound(n, phase, hidden, allow)
      BY <1>0, <2>1, <2>6, RegisteredSound
    <3> HIDE DEF n
    <3>2. n.talk.muted \in BOOLEAN /\ "private" \in Sources
      BY <2>2 DEF Pages, Sources
    <3>3. Paused(n, "private", n.talk.muted) \in Pages /\ Sound(Paused(n, "private", n.talk.muted), phase, hidden, allow)
      BY <2>2, <3>1, <3>2, PausedPage, PausedSound
    <3> QED BY <1>0, <2>0, <2>1, <2>6, <3>3, SafeTurn DEF Safe
  <2> QED BY <1>0, <2>3, <2>4, <2>5, <2>6 DEF Sources
<1> QED BY <1>3, <1>4

LEMMA FailsSafe ==
  ASSUME PageInv, NEW t \in page.tasks, Fails(t)
  PROVE  PageInv'
<1> DEFINE d == Done(page, t)
<1>0. /\ TypeOK /\ t \in Tasks /\ page \in Pages /\ Sound(page, phase, hidden, allow) /\ t.source \in Sources
      /\ t.stage \in {"open", "send"}
  BY DEF PageInv, TypeOK, Pages, Tasks
<1>1. /\ d \in Pages /\ Rest(d, phase, allow)
      /\ ~(t.source = "camera" /\ t.by = "click" /\ t.stage = "send") => Safe(d)
  BY DoneCalm
<1>2. CASE ~t.fresh
  <2>1. Turn(d) /\ t.stage = "open"
    BY <1>0, <1>2 DEF Fails, Sound, Rest, Outdates
  <2> QED BY <1>0, <1>1, <2>1, SafeTurn
<1>3. CASE t.fresh /\ t.by = "join"
  <2>1. CASE t.stage = "open"
    BY <1>0, <1>1, <1>3, <2>1, SafeTurn DEF Fails
  <2>2. CASE t.stage = "send"
    BY <1>3, <2>2, PublishFailsSafe DEF Fails
  <2> QED BY <1>0, <2>1, <2>2
<1>4. CASE t.fresh /\ t.by # "join"
  <2>0. /\ t.source = "mic" => Turn(MicMuted(IF t.by = "click" THEN [d EXCEPT !.live = @ \ {"mic"}] ELSE d, TRUE))
        /\ t.source = "camera" => Turn(IF t.stage = "open" THEN CameraOff(d, TRUE) ELSE CameraTaken(d))
        /\ t.source = "screen" => Turn(IF d.sharing THEN ShareStopped(d) ELSE d)
        /\ t.source = "private" =>
             Turn(IF ~t.wanted THEN d ELSE [d EXCEPT !.live = @ \ {"private"}, !.talk.muted = TRUE])
    BY <1>4 DEF Fails
  <2>1. phase \in {"publishing", "in"}
    BY <1>4, Fitting
  <2> HIDE DEF d
  <2>2. CASE t.source = "mic"
    <3> DEFINE m == IF t.by = "click" THEN [d EXCEPT !.live = @ \ {"mic"}] ELSE d
    <3>1. /\ m \in Pages /\ m.off = d.off /\ m.talk = d.talk /\ m.tasks = d.tasks /\ m.slipped = d.slipped
          /\ m.sent = d.sent /\ m.live \subseteq d.live /\ m.sharing = d.sharing /\ m.reopened = d.reopened
      BY <1>1 DEF Pages
    <3>2. Turn(MicMuted(m, TRUE))
      BY <2>0, <2>2
    <3> HIDE DEF m
    <3>3. Sound(m, phase, hidden, allow)
      <4>1. Sharing(m, allow)
        BY <1>1, <3>1 DEF Rest, Sharing
      <4> QED BY <1>1, <2>1, <2>2, <3>1, <4>1, AlteredSound DEF Safe, Mounted
    <3>4. TRUE \in BOOLEAN
      OBVIOUS
    <3>5. MicMuted(m, TRUE) \in Pages /\ Sound(MicMuted(m, TRUE), phase, hidden, allow)
      BY <3>1, <3>3, <3>4, MicMutedPage, MicMutedSound
    <3> QED BY <1>0, <3>2, <3>5, SafeTurn DEF Safe
  <2>3. CASE t.source = "camera"
    <3>1. Safe(CameraOff(d, TRUE)) /\ Safe(CameraTaken(d))
      BY <1>0, <1>1, CameraOffSound, CameraOffPage, CameraTakenSound DEF Safe
    <3> QED BY <1>0, <2>0, <2>3, <3>1, SafeTurn
  <2>4. CASE t.source = "screen"
    <3>1. Safe(ShareStopped(d)) /\ Safe(d)
      BY <1>1, <2>4, ShareStoppedSound, ShareStoppedPage DEF Safe
    <3> QED BY <1>0, <2>0, <2>4, <3>1, SafeTurn
  <2>5. CASE t.source = "private"
    <3> DEFINE m == [d EXCEPT !.live = @ \ {"private"}, !.talk.muted = TRUE]
    <3>1. /\ m \in Pages /\ m.off = d.off /\ m.talk.on = d.talk.on /\ m.tasks = d.tasks /\ m.slipped = d.slipped
          /\ m.sent = d.sent /\ m.live \subseteq d.live /\ m.sharing = d.sharing /\ m.reopened = d.reopened
      BY <1>1 DEF Pages
    <3>2. Turn(IF ~t.wanted THEN d ELSE m)
      BY <2>0, <2>5
    <3> HIDE DEF m
    <3>3. Sound(m, phase, hidden, allow)
      <4>1. Sharing(m, allow)
        BY <1>1, <3>1 DEF Rest, Sharing
      <4> QED BY <1>1, <2>1, <2>5, <3>1, <4>1, AlteredSound DEF Safe, Mounted
    <3> QED BY <1>0, <1>1, <2>5, <3>1, <3>2, <3>3, SafeTurn DEF Safe
  <2> QED BY <1>0, <2>2, <2>3, <2>4, <2>5 DEF Sources
<1> QED BY <1>2, <1>3, <1>4

-----------------------------------------------------------------------------
(* The person, the host, the devices and the browser. *)

\* What the person does to devices and the share.
LEMMA PersonSafe ==
  ASSUME PageInv, ToggleAudio \/ ToggleVideo \/ StartScreenShare \/ StopScreenShare
  PROVE  PageInv'
<1>0. TypeOK /\ page \in Pages /\ Sound(page, phase, hidden, allow) /\ Rest(page, phase, allow)
  BY DEF PageInv, TypeOK, Sound
<1>1. CASE ToggleAudio
  <2>1. CASE Turn(MicMuted(page, "mic" \notin page.off))
    <3>0. ~page.talk.on
      BY <1>1 DEF ToggleAudio
    <3>1. \A m \in BOOLEAN : MicMuted(page, m) \in Pages /\ Sound(MicMuted(page, m), phase, hidden, allow)
      BY <1>0, <3>0, MicMutedPage, MicMutedSound
    <3>2. Safe(MicMuted(page, "mic" \notin page.off))
      BY <3>1, Zenon DEF Safe
    <3> QED BY <1>0, <2>1, <3>2, SafeTurn
  <2>2. CASE phase = "in" /\ Turn(Begun(page, Task("mic", "click", "open", TRUE)))
    <3> DEFINE t == Task("mic", "click", "open", TRUE)
    <3>1. t \in Tasks /\ t.source = "mic" /\ t.by = "click" /\ t.stage = "open" /\ t.fresh /\ t.on
      BY DEF Task, Tasks, Sources
    <3>2. Turn(Begun(page, t)) /\ ~page.talk.on
      BY <1>1, <2>2 DEF ToggleAudio
    <3> HIDE DEF t
    <3>3. Fits(t, page, phase)
      BY <2>2, <3>1, <3>2 DEF Fits, Mounted
    <3>4. Safe(Begun(page, t))
      BY <1>0, <3>1, <3>3, BegunPage, BegunSound DEF Safe
    <3> QED BY <1>0, <3>2, <3>4, SafeTurn
  <2> QED BY <1>1, <2>1, <2>2 DEF ToggleAudio
<1>2. CASE ToggleVideo
  <2>1. CASE Turn(CameraOff(page, TRUE))
    <3>1. Safe(CameraOff(page, TRUE))
      BY <1>0, CameraOffSound, CameraOffPage DEF Safe
    <3> QED BY <1>0, <2>1, <3>1, SafeTurn
  <2>2. CASE phase = "in" /\ Turn(Begun(CameraStopped(page), Task("camera", "click", "open", FALSE)))
    <3> DEFINE t == Task("camera", "click", "open", FALSE)
               n == CameraStopped(page)
    <3>1. t \in Tasks /\ t.source = "camera" /\ t.by = "click" /\ t.stage = "open" /\ t.fresh /\ ~t.on
      BY DEF Task, Tasks, Sources
    <3>2. Turn(Begun(n, t))
      BY <2>2
    <3> HIDE DEF t
    <3>3. Fits(t, n, phase)
      BY <2>2, <3>1 DEF Fits, Mounted
    <3>4. n \in Pages /\ Sound(n, phase, hidden, allow)
      BY <1>0, CameraStoppedPage, CameraStoppedSound
    <3> HIDE DEF n
    <3>5. Safe(Begun(n, t))
      BY <3>1, <3>3, <3>4, BegunPage, BegunSound DEF Safe
    <3> QED BY <1>0, <3>2, <3>5, SafeTurn
  <2> QED BY <1>2, <2>1, <2>2 DEF ToggleVideo
<1>3. CASE StartScreenShare
  <2> DEFINE t == Task("screen", "click", "open", FALSE)
  <2>1. t \in Tasks /\ t.source = "screen" /\ t.by = "click" /\ t.stage = "open" /\ t.fresh /\ ~t.on
    BY DEF Task, Tasks, Sources
  <2>2. Turn(Begun(page, t)) /\ phase = "in"
    BY <1>3 DEF StartScreenShare
  <2> HIDE DEF t
  <2>3. Fits(t, page, phase)
    BY <2>1, <2>2 DEF Fits, Mounted
  <2>4. Safe(Begun(page, t))
    BY <1>0, <2>1, <2>3, BegunPage, BegunSound DEF Safe
  <2> QED BY <1>0, <2>2, <2>4, SafeTurn
<1>4. CASE StopScreenShare
  <2>1. Safe(ShareStopped(page)) /\ Turn(ShareStopped(page))
    BY <1>0, <1>4, ShareStoppedPage, ShareStoppedSound DEF Safe, StopScreenShare
  <2> QED BY <1>0, <2>1, SafeTurn
<1> QED BY <1>1, <1>2, <1>3, <1>4

\* Whether the private producer is to be silent is no matter of the room.
LEMMA PrivatelyMutedSafe ==
  ASSUME PageInv, page.talk.on \/ page.talk.muting, NEW n,
         \E muted, muting \in BOOLEAN : n = [page EXCEPT !.talk.muted = muted, !.talk.muting = muting]
  PROVE  Safe(n) /\ \A m \in BOOLEAN : Safe(Paused(n, "private", m))
<1>0. TypeOK /\ page \in Pages /\ Sound(page, phase, hidden, allow) /\ Rest(page, phase, allow)
  BY DEF PageInv, TypeOK, Sound
<1>1. PICK muted, muting \in BOOLEAN : n = [page EXCEPT !.talk.muted = muted, !.talk.muting = muting]
  OBVIOUS
<1>2. /\ n \in Pages /\ n.off = page.off /\ n.talk.on = page.talk.on /\ n.tasks = page.tasks /\ n.slipped = page.slipped
      /\ n.sent = page.sent /\ n.sharing = page.sharing /\ n.live = page.live /\ n.reopened = page.reopened
  BY <1>0, <1>1 DEF Pages
<1>3. Sharing(n, allow)
  BY <1>0, <1>2 DEF Rest, Sharing
<1>4. n.live = {} \/ phase \in Mounted
  BY <1>0, <1>2 DEF Rest, Idle
<1>5. Safe(n)
  BY <1>0, <1>2, <1>3, <1>4, AlteredSound DEF Safe
<1>6. ASSUME NEW m \in BOOLEAN PROVE Safe(Paused(n, "private", m))
  BY <1>5, PausedPage, PausedSound DEF Safe, Sources
<1> QED BY <1>5, <1>6

LEMMA PrivateMicrophoneSafe ==
  ASSUME PageInv, TogglePrivateMicrophone \/ PrivateMuteAnswered
  PROVE  PageInv'
<1> DEFINE on == [page EXCEPT !.talk.muted = FALSE, !.talk.muting = FALSE]
<1>0. TypeOK /\ page \in Pages /\ Sound(page, phase, hidden, allow) /\ Rest(page, phase, allow)
  BY DEF PageInv, TypeOK, Sound
<1>1. page.talk.on \/ page.talk.muting
  BY DEF TogglePrivateMicrophone, PrivateMuteAnswered
<1>2. /\ Safe(Paused([page EXCEPT !.talk.muted = TRUE, !.talk.muting = TRUE], "private", TRUE))
      /\ Safe(on) /\ Safe(Paused(on, "private", FALSE))
  <2>1. TRUE \in BOOLEAN /\ FALSE \in BOOLEAN
    OBVIOUS
  <2> QED BY <1>1, <2>1, PrivatelyMutedSafe, Zenon
<1>3. Safe(Paused([page EXCEPT !.talk.muting = FALSE, !.talk.muted = FALSE], "private", FALSE))
  <2>1. [page EXCEPT !.talk.muting = FALSE, !.talk.muted = FALSE] = on
    BY <1>0 DEF Pages
  <2> QED BY <1>2, <2>1
<1>4. Safe([page EXCEPT !.talk.muting = FALSE])
  <2> DEFINE n == [page EXCEPT !.talk.muting = FALSE]
             k == page.talk.muted
  <2>1. k \in BOOLEAN /\ n = [page EXCEPT !.talk.muted = k, !.talk.muting = FALSE] /\ FALSE \in BOOLEAN
    BY <1>0 DEF Pages
  <2> HIDE DEF n, k
  <2>2. Safe(n)
    BY <1>1, <2>1, PrivatelyMutedSafe, Zenon
  <2> QED BY <2>2 DEF n
<1> HIDE DEF on
<1>5. CASE PrivateMuteAnswered
  BY <1>0, <1>3, <1>4, <1>5, SafeTurn DEF PrivateMuteAnswered
<1>6. CASE TogglePrivateMicrophone /\ Turn(PrivateBegun(on))
  <2>1. Safe(PrivateBegun(on))
    BY <1>0, <1>2, <1>6, PrivateBegunSafe DEF Rest, Idle, TogglePrivateMicrophone
  <2> QED BY <1>0, <1>6, <2>1, SafeTurn
<1>7. CASE phase = "in" /\ Turn(Begun(page, Task("private", "click", "open", FALSE)))
  <2> DEFINE t == Task("private", "click", "open", FALSE)
  <2>1. t \in Tasks /\ t.source = "private" /\ t.by = "click" /\ t.stage = "open" /\ t.fresh /\ ~t.on
    BY DEF Task, Tasks, Sources
  <2>2. Turn(Begun(page, t))
    BY <1>7
  <2> HIDE DEF t
  <2>3. Fits(t, page, phase)
    BY <1>7, <2>1 DEF Fits, Mounted
  <2>4. Safe(Begun(page, t))
    BY <1>0, <2>1, <2>3, BegunPage, BegunSound DEF Safe
  <2> QED BY <1>0, <2>2, <2>4, SafeTurn
<1>8. CASE TogglePrivateMicrophone
  <2>1. \/ Turn(Paused([page EXCEPT !.talk.muted = TRUE, !.talk.muting = TRUE], "private", TRUE))
        \/ Turn(Paused(on, "private", FALSE))
        \/ Turn(PrivateBegun(on))
        \/ phase = "in" /\ Turn(Begun(page, Task("private", "click", "open", FALSE)))
    BY <1>8 DEF TogglePrivateMicrophone, on
  <2> QED BY <1>0, <1>2, <1>6, <1>7, <1>8, <2>1, SafeTurn
<1> QED BY <1>5, <1>8

\* What the host does.
LEMMA ForcedSafe ==
  ASSUME PageInv, ForceMute \/ ForceCameraOff \/ CameraEnded
  PROVE  PageInv'
<1>0. TypeOK /\ page \in Pages /\ Sound(page, phase, hidden, allow) /\ Rest(page, phase, allow) /\ TRUE \in BOOLEAN
  BY DEF PageInv, TypeOK, Sound
<1>1. Safe(MicMuted(page, TRUE))
  BY <1>0, MicMutedPage, MicMutedSound DEF Safe
<1>2. Safe(CameraOff(page, TRUE))
  BY <1>0, CameraOffPage, CameraOffSound DEF Safe
<1> QED BY <1>0, <1>1, <1>2, SafeTurn DEF ForceMute, ForceCameraOff, CameraEnded

LEMMA SettingsSafe ==
  ASSUME PageInv, NEW a \in Settings, SettingsUpdated(a)
  PROVE  PageInv'
<1>0. TypeOK /\ page \in Pages /\ Sound(page, phase, hidden, allow) /\ Rest(page, phase, allow)
  BY DEF PageInv, TypeOK, Sound
<1>1. allow' = a /\ UNCHANGED <<phase, failures, carried, hidden>>
      /\ page' = IF "screen" \notin a /\ page.sharing THEN ShareStopped(page) ELSE page
  BY DEF SettingsUpdated
<1>2. CASE "screen" \notin a /\ page.sharing
  <2>1. ShareStopped(page) \in Pages /\ Sound(ShareStopped(page), phase, hidden, a)
    BY <1>0, ShareStoppedPage, ShareStoppedSound
  <2> QED BY <1>0, <1>1, <1>2, <2>1 DEF PageInv, TypeOK
<1>3. CASE ~("screen" \notin a /\ page.sharing)
  <2>1. Sharing(page, a)
    BY <1>0, <1>3 DEF Rest, Sharing
  <2>2. Sound(page, phase, hidden, a)
    BY <1>0, <2>1 DEF Sound, Rest
  <2> QED BY <1>0, <1>1, <1>3, <2>2 DEF PageInv, TypeOK
<1> QED BY <1>2, <1>3

\* A private conversation switches the microphone off in the room, and at its end
\* restores what was before.
LEMMA TalkStartedSafe ==
  ASSUME PageInv, PrivateConversationStarted
  PROVE  PageInv'
<1> DEFINE n == [page EXCEPT !.talk = [on |-> TRUE, wasMuted |-> "mic" \in page.off, muted |-> "mic" \in page.off,
                                              muting |-> FALSE],
                                  !.off = @ \cup {"mic"}, !.slipped = Overtaking(page)]
           m == Paused(n, "mic", TRUE)
<1>0. TypeOK /\ page \in Pages /\ Sound(page, phase, hidden, allow) /\ Rest(page, phase, allow)
  BY DEF PageInv, TypeOK, Sound
<1>1. phase \in Mounted /\ Turn(IF m.talk.muted THEN m ELSE PrivateBegun(m))
  BY DEF PrivateConversationStarted, Listening, Mounted
<1>2. /\ n \in Pages /\ n.off = page.off \cup {"mic"} /\ n.talk.on /\ n.tasks = page.tasks /\ n.slipped = Overtaking(page)
      /\ n.sharing = page.sharing /\ n.live = page.live /\ n.reopened = page.reopened
  <2> DEFINE b == "mic" \in page.off
             o == Overtaking(page)
             k == [on |-> TRUE, wasMuted |-> b, muted |-> b, muting |-> FALSE]
  <2>1. b \in BOOLEAN /\ o \in BOOLEAN
    BY DEF Overtaking
  <2> HIDE DEF b, o
  <2>2. k \in [on : BOOLEAN, wasMuted : BOOLEAN, muted : BOOLEAN, muting : BOOLEAN] /\ k.on
    BY <2>1
  <2>3. n = [page EXCEPT !.talk = k, !.off = @ \cup {"mic"}, !.slipped = o]
    BY DEF b, o
  <2> HIDE DEF k, n
  <2>4. /\ n \in Pages /\ n.off = page.off \cup {"mic"} /\ n.talk.on /\ n.tasks = page.tasks /\ n.slipped = o
        /\ n.sharing = page.sharing /\ n.live = page.live /\ n.reopened = page.reopened
    BY <1>0, <2>1, <2>2, <2>3 DEF Pages
  <2> QED BY <2>4 DEF o
<1> HIDE DEF n
<1> DEFINE before == IF phase = "opening" THEN "opening" ELSE "publishing"
<1>3. Sound(n, before, hidden, allow)
  <2>1. Outdates(n) /\ Askers(n) /\ Sharing(n, allow)
    BY <1>0, <1>2 DEF Rest, Outdates, Askers, Sharing
  <2>2. Idle(n, before) /\ JoinTasks(n, before) /\ Silent(n, before)
    BY <1>0, <1>1, <1>2 DEF Rest, Idle, JoinTasks, Silent, Mounted
  <2>3. CamJoin(n) /\ CamLive(n, hidden)
    BY <1>0, <1>2 DEF Sound, Rest, CamJoin, CamLive
  <2>4. MicTasks(n) /\ Talk(n)
    BY <1>0, <1>2 DEF Rest, MicTasks, Talk, Overtaking
  <2> QED BY <2>1, <2>2, <2>3, <2>4 DEF Sound, Rest
<1>4. Safe(Paused(n, "mic", TRUE))
  <2>0. TRUE \in BOOLEAN /\ "mic" \in Sources
    BY DEF Sources
  <2>1. CASE phase = "opening"
    BY <1>2, <1>3, <2>0, <2>1, PausedPage, PausedSound DEF Safe
  <2>2. CASE phase # "opening"
    <3>1. phase \in {"publishing", "in"} /\ Sound(n, "publishing", hidden, allow)
      BY <1>1, <1>3, <2>2 DEF Mounted
    <3>2. n \in Pages
      BY <1>2
    <3> HIDE DEF m
    <3>3. \A b \in BOOLEAN : (~b => ("mic" \notin n.off \/ n.slipped) /\ (n.talk.on => n.slipped)) => Safe(Paused(n, "mic", b))
      BY <3>1, <3>2, PausedMicSound DEF Safe
    <3> QED BY <2>0, <3>3, Zenon
  <2> QED BY <2>1, <2>2
<1>5. Safe(m)
  BY <1>4
<1> HIDE DEF m
<1>6. Safe(PrivateBegun(m))
  BY <1>0, <1>1, <1>5, PrivateBegunSafe
<1> QED BY <1>0, <1>1, <1>5, <1>6, SafeTurn

LEMMA TalkEndedSafe ==
  ASSUME PageInv, PrivateConversationEnded
  PROVE  PageInv'
<1> DEFINE was == page.talk.wasMuted
           n == [page EXCEPT !.live = @ \ {"private"}, !.sent["private"] = "none", !.talk = NoTalk,
                            !.tasks = Unwanted(@, "private"),
                            !.off = IF was THEN @ \cup {"mic"} ELSE @ \ {"mic"}, !.slipped = was /\ (@ \/ Overtaking(page))]
<1>0. TypeOK /\ page \in Pages /\ Sound(page, phase, hidden, allow) /\ Rest(page, phase, allow) /\ page.tasks \in SUBSET Tasks
  BY DEF PageInv, TypeOK, Sound, Pages
<1>1. page.talk.on /\ Turn(Paused(n, "mic", was))
  BY DEF PrivateConversationEnded
<1>2. phase \in Mounted /\ was \in BOOLEAN
  BY <1>0, <1>1 DEF Rest, Idle, Pages
<1>3. Unwanted(page.tasks, "private") \in SUBSET Tasks /\ Alike(page.tasks, Unwanted(page.tasks, "private"))
  BY <1>0, UnwantedTasks DEF Sources
<1> HIDE DEF was
<1>4. /\ n \in Pages /\ n.off = (IF was THEN page.off \cup {"mic"} ELSE page.off \ {"mic"}) /\ ~n.talk.on
      /\ n.tasks = Unwanted(page.tasks, "private") /\ n.slipped = (was /\ (page.slipped \/ Overtaking(page)))
      /\ n.sharing = page.sharing /\ n.live = page.live \ {"private"} /\ n.reopened = page.reopened
  BY <1>0, <1>2, <1>3 DEF Pages, NoTalk, Overtaking
<1> HIDE DEF n
<1>5. Alike(page.tasks, n.tasks)
  BY <1>3, <1>4
<1> DEFINE before == IF phase = "opening" THEN "opening" ELSE "publishing"
<1>6. Sound(n, before, hidden, allow)
  <2>1. Outdates(n) /\ Askers(n)
    BY <1>0, <1>5 DEF Rest, Outdates, Askers, Alike
  <2>2. Idle(n, before) /\ Silent(n, before) /\ Sharing(n, allow)
    BY <1>0, <1>2, <1>4 DEF Rest, Idle, Silent, Sharing, Mounted
  <2>3. JoinTasks(n, before)
    BY <1>0, <1>2, <1>5 DEF Rest, JoinTasks, Alike, Mounted
  <2>4. CamJoin(n)
    BY <1>0, <1>4, <1>5 DEF Rest, CamJoin, Alike
  <2>5. CamLive(n, hidden)
    BY <1>0, <1>4, <1>5 DEF Sound, CamLive, Alike
  <2>6. MicTasks(n)
    <3>1. MicTasks(page) /\ ("mic" \in n.off /\ Overtaking(page) => n.slipped)
      BY <1>0, <1>4 DEF Rest
    <3> QED BY <1>5, <3>1 DEF MicTasks, Overtaking, Alike
  <2>7. Talk(n)
    BY <1>4 DEF Talk
  <2> QED BY <2>1, <2>2, <2>3, <2>4, <2>5, <2>6, <2>7 DEF Sound, Rest
<1>7. Safe(Paused(n, "mic", was))
  <2>1. CASE phase = "opening"
    BY <1>2, <1>4, <1>6, <2>1, PausedPage, PausedSound DEF Safe, Sources
  <2>2. CASE phase # "opening"
    BY <1>2, <1>4, <1>6, <2>2, PausedMicSound DEF Safe, Mounted
  <2> QED BY <2>1, <2>2
<1> QED BY <1>0, <1>1, <1>7, SafeTurn

\* What devices and the browser do.
LEMMA MicEndedSafe ==
  ASSUME PageInv, MicEnded
  PROVE  PageInv'
<1> DEFINE n == [page EXCEPT !.live = @ \ {"mic", "private"}]
           T(on) == Task("mic", "ended", "open", on)
<1>0. TypeOK /\ page \in Pages /\ Sound(page, phase, hidden, allow) /\ Rest(page, phase, allow)
  BY DEF PageInv, TypeOK, Sound
<1>1. phase \in {"publishing", "in"} /\ Turn(Begun(n, T("mic" \notin page.off)))
  BY DEF MicEnded
<1>2. \A on \in BOOLEAN : /\ T(on) \in Tasks /\ T(on).source = "mic" /\ T(on).by = "ended" /\ T(on).stage = "open"
                          /\ T(on).fresh /\ T(on).on = on
  BY DEF Task, Tasks, Sources
<1>3. /\ n \in Pages /\ n.off = page.off /\ n.talk = page.talk /\ n.tasks = page.tasks /\ n.slipped = page.slipped
      /\ n.sent = page.sent /\ n.live \subseteq page.live /\ n.sharing = page.sharing /\ n.reopened = page.reopened
  BY <1>0 DEF Pages
<1> HIDE DEF n, T
<1>4. Sound(n, phase, hidden, allow)
  <2>1. Sharing(n, allow)
    BY <1>0, <1>3 DEF Rest, Sharing
  <2> QED BY <1>0, <1>1, <1>3, <2>1, AlteredSound DEF Mounted
<1>5. \A on \in BOOLEAN : (on => "mic" \notin page.off) => Safe(Begun(n, T(on)))
  <2> SUFFICES ASSUME NEW on \in BOOLEAN, on => "mic" \notin page.off PROVE Safe(Begun(n, T(on)))
    OBVIOUS
  <2>1. T(on) \in Tasks /\ Fits(T(on), n, phase)
    BY <1>0, <1>1, <1>2, <1>3 DEF Fits, Mounted, Rest, Talk
  <2> QED BY <1>3, <1>4, <2>1, BegunPage, BegunSound DEF Safe
<1>6. Safe(Begun(n, T("mic" \notin page.off)))
  BY <1>5, Zenon
<1> QED BY <1>0, <1>1, <1>6, SafeTurn

LEMMA HiddenSafe ==
  ASSUME PageInv, Hide \/ Show
  PROVE  PageInv'
<1>0. TypeOK /\ page \in Pages /\ Sound(page, phase, hidden, allow) /\ Rest(page, phase, allow)
  BY DEF PageInv, TypeOK, Sound
<1>1. CASE Hide
  <2> DEFINE n == CameraOff(page, TRUE)
  <2>1. n \in Pages /\ Sound(n, phase, TRUE, allow) /\ "camera" \notin n.live
    BY <1>0, CameraOffPage, CameraOffSound
  <2>2. /\ page' = n /\ hidden' = TRUE /\ UNCHANGED <<phase, failures, carried, allow>>
    BY <1>1 DEF Hide
  <2> HIDE DEF n
  <2>3. page' \in Pages /\ Sound(page', phase, TRUE, allow)
    BY <2>1, <2>2
  <2> QED BY <1>0, <2>2, <2>3 DEF PageInv, TypeOK
<1>2. CASE Show
  <2>1. Sound(page, phase, FALSE, allow)
    BY <1>0 DEF Sound, CamLive
  <2> QED BY <1>0, <1>2, <2>1 DEF Show, PageInv, TypeOK
<1> QED BY <1>1, <1>2

-----------------------------------------------------------------------------
(* The page. *)

\* No step of the person, of the host, of a device or of the network leaves the
\* sound states.
LEMMA PageStep == PageInv /\ [Next]_vars => PageInv'
<1> SUFFICES ASSUME PageInv, [Next]_vars PROVE PageInv'
  OBVIOUS
<1>1. CASE Joins
  BY <1>1, JoinedSound DEF Joins
<1>2. CASE AskedToWait \/ JoinRefused \/ JoinFails \/ ConnectionLost \/ Leave \/ PageHide \/ Remount
  BY <1>2, SessionsSound
<1>3. CASE TaskEnds
  BY <1>3, OpensSafe, AcceptedSafe, FailsSafe, RetriesSafe DEF TaskEnds
<1>4. CASE \E relay \in BOOLEAN : MediaReady(relay)
  BY <1>4, MediaReadySound
<1>5. CASE ToggleAudio \/ ToggleVideo \/ StartScreenShare \/ StopScreenShare
  BY <1>5, PersonSafe
<1>6. CASE TogglePrivateMicrophone \/ PrivateMuteAnswered
  BY <1>6, PrivateMicrophoneSafe
<1>7. CASE ForceMute \/ ForceCameraOff \/ CameraEnded
  BY <1>7, ForcedSafe
<1>8. CASE \E a \in Settings : SettingsUpdated(a)
  BY <1>8, SettingsSafe
<1>9. CASE PrivateConversationStarted \/ PrivateConversationEnded
  BY <1>9, TalkStartedSafe, TalkEndedSafe
<1>10. CASE MicEnded
  BY <1>10, MicEndedSafe
<1>11. CASE Hide \/ Show
  BY <1>11, HiddenSafe
<1>12. CASE UNCHANGED vars
  BY <1>12 DEF vars, PageInv, TypeOK, Safe, Sound, Rest, Outdates, Askers, Idle, JoinTasks, CamJoin, Sharing,
               MicTasks, Talk, Overtaking, Silent, CamLive
<1> QED BY <1>1, <1>2, <1>3, <1>4, <1>5, <1>6, <1>7, <1>8, <1>9, <1>10, <1>11, <1>12 DEF Next

\* So the invariant holds of every state.
LEMMA PageInvariance == FairSpec => []PageInv
BY PageInit, PageStep, PTL DEF FairSpec

\* MeetingPage: every ref of the page and every task under way keeps its type,
\* whatever the sessions before left behind.
THEOREM PageTyped == FairSpec => []TypeOK
<1>1. PageInv => TypeOK
  BY DEF PageInv
<1> QED BY <1>1, PageInvariance, PTL

\* MeetingPage: nothing captures once the session is gone, although a device may
\* open and a producer may be accepted for it later.
THEOREM NothingCaptures == FairSpec => []NothingCapturedAfterwards
<1>1. PageInv => NothingCapturedAfterwards
  BY DEF PageInv, Sound, Rest, Idle, Mounted, Active, NothingCapturedAfterwards
<1> QED BY <1>1, PageInvariance, PTL

\* MeetingPage: the camera never runs while the page is hidden, nor while the page
\* says it is off, whichever of opening, hiding, muting and unplugging comes first
\* and however often an opening is tried - but for a camera that an attempt begun
\* after it was switched off has opened.
THEOREM CameraStaysOff == FairSpec => []CameraOffIsOff
<1>1. PageInv => CameraOffIsOff
  BY DEF PageInv, Sound, CamLive, CameraOffIsOff, Pending
<1> QED BY <1>1, PageInvariance, PTL

\* MeetingPage: who is muted or talks in private is not heard by the room, unless
\* a task was switching the microphone on at that moment.
THEOREM MutedStaysSilent == FairSpec => []MutedIsSilent
<1>1. PageInv => MutedIsSilent
  BY DEF PageInv, Sound, Rest, Silent, MutedIsSilent, Heard
<1> QED BY <1>1, PageInvariance, PTL

\* MeetingPage: a captured screen is shown as shared and allowed by the host,
\* also when the permission was withdrawn while the screen was picked.
THEOREM SharingStaysAllowed == FairSpec => []SharingIsAllowed
<1>1. PageInv => SharingIsAllowed
  BY DEF PageInv, Sound, Rest, Sharing, SharingIsAllowed
<1> QED BY <1>1, PageInvariance, PTL
-----------------------------------------------------------------------------
(* The sessions of an account, at the auth service. *)

HIDE PageAssumption

\* Sessions are numbered as they are made.
Listed(list) == list \subseteq 1..made /\ Cardinality(list) <= MaxKept

\* Of those signed out only the ones an update restored are in the list; the one
\* stored apart is none of them, and is the newest until that is signed out.
Served ==
    /\ made \in 0..MaxSessions /\ latest \in (1..made) \cup {None}
    /\ ended \subseteq 1..made /\ restored \subseteq ended
    /\ Listed(sessions) /\ \A list \in copies \cup updates : Listed(list)
    /\ sessions \cap ended \subseteq restored /\ latest \notin ended
    /\ made > 0 /\ made \notin ended => latest = made

\* The first MaxKept - 1 sessions of the list are no more than that, since each
\* has a different number of sessions before it.
LEMMA KeptBound ==
  ASSUME Served, NEW s
  PROVE  Cardinality(Kept(s)) <= MaxKept
<1> DEFINE T == {x \in sessions : Cardinality(Before(x)) < MaxKept - 1}
           rank == [x \in T |-> Cardinality(Before(x))]
           N == 0..(MaxKept - 2)
<1>0. MaxKept \in Nat \ {0} /\ made \in Nat /\ sessions \subseteq Nat
  BY SessionAssumption DEF Served, Listed
<1>1. IsFiniteSet(sessions) /\ IsFiniteSet(T) /\ IsFiniteSet(N) /\ Cardinality(N) = MaxKept - 1
  <2>1. IsFiniteSet(1..made) /\ IsFiniteSet(N) /\ Cardinality(N) = IF 0 > MaxKept - 2 THEN 0 ELSE MaxKept - 2 - 0 + 1
    BY <1>0, FS_Interval
  <2>2. sessions \in SUBSET (1..made) /\ T \in SUBSET sessions
    BY DEF Served, Listed
  <2>3. IsFiniteSet(sessions)
    BY <2>1, <2>2, FS_Subset
  <2>4. IsFiniteSet(T)
    BY <2>2, <2>3, FS_Subset
  <2>5. Cardinality(N) = MaxKept - 1
    BY <1>0, <2>1
  <2> QED BY <2>1, <2>3, <2>4, <2>5
<1>2. \A x \in sessions : IsFiniteSet(Before(x)) /\ Cardinality(Before(x)) \in Nat
  <2>1. \A x \in sessions : Before(x) \in SUBSET sessions
    BY DEF Before
  <2> QED BY <1>1, <2>1, FS_Subset, FS_CardinalityType
<1>3. rank \in [T -> N]
  <2>1. ASSUME NEW x \in T PROVE Cardinality(Before(x)) \in N
    <3>1. Cardinality(Before(x)) \in Nat /\ Cardinality(Before(x)) < MaxKept - 1
      BY <1>2, <2>1
    <3> QED BY <1>0, <3>1
  <2> HIDE DEF N, T
  <2> QED BY <2>1
<1>4. ASSUME NEW x \in sessions, NEW y \in sessions, x < y
      PROVE  Cardinality(Before(x)) # Cardinality(Before(y))
  <2>0. x \in Nat /\ y \in Nat
    BY <1>0, <1>4
  <2>1. Before(x) \in SUBSET Before(y) /\ x \in Before(y) /\ x \notin Before(x)
    <3>1. \A z \in sessions : z < x => z < y
      BY <1>0, <1>4, <2>0
    <3>2. ~(x < x)
      BY <2>0
    <3> QED BY <1>4, <3>1, <3>2 DEF Before
  <2> QED BY <1>2, <2>1, FS_Subset
<1>5. \A x, y \in T : x # y => rank[x] # rank[y]
  BY <1>0, <1>4
<1>6. Cardinality(T) <= MaxKept - 1
  <2>1. Cardinality(T) \in Nat
    BY <1>1, FS_CardinalityType
  <2> HIDE DEF T, N, rank
  <2>2. ~(Cardinality(N) < Cardinality(T))
    BY <1>1, <1>3, <1>5, FS_PigeonHole
  <2> QED BY <1>0, <1>1, <2>1, <2>2
<1>7. Cardinality(T \cup {s}) = IF s \in T THEN Cardinality(T) ELSE Cardinality(T) + 1
  BY <1>1, FS_AddElement
<1>8. Cardinality(T) \in Nat
  BY <1>1, FS_CardinalityType
<1>9. Kept(s) = T \cup {s}
  BY DEF Kept
<1> HIDE DEF T
<1> QED BY <1>0, <1>6, <1>7, <1>8, <1>9

LEMMA SessionsMade ==
  ASSUME Served, made < MaxSessions, CreateSession(made + 1)
  PROVE  Served'
<1>1. /\ made' = made + 1 /\ sessions' = Kept(made + 1) /\ latest' = made + 1
      /\ UNCHANGED <<copies, updates, ended, restored>>
  BY DEF CreateSession
<1>2. Cardinality(sessions') <= MaxKept
  BY <1>1, KeptBound
<1>3. made \in Nat /\ MaxSessions \in Nat
  BY SessionAssumption DEF Served
<1>4. sessions' \subseteq sessions \cup {made + 1}
  BY <1>1 DEF Kept
<1>5. 1..made \subseteq 1..made' /\ made + 1 \in 1..made' /\ made' \in 0..MaxSessions /\ made + 1 \notin 1..made
  BY <1>1, <1>3
<1>6. Listed(sessions)' /\ \A list \in copies' \cup updates' : Listed(list)'
  BY <1>1, <1>2, <1>4, <1>5 DEF Served, Listed
<1>7. sessions' \cap ended \subseteq restored
  BY <1>4, <1>5 DEF Served
<1> QED BY <1>1, <1>5, <1>6, <1>7 DEF Served

LEMMA SessionEnded ==
  ASSUME Served, NEW s, s # None, Valid(s), EndSession(s)
  PROVE  Served'
<1>1. /\ sessions' = sessions \ {s} /\ latest' = LatestAfter(s) /\ ended' = ended \cup {s}
      /\ restored' = restored \ {s} /\ UNCHANGED <<made, copies, updates>>
  BY DEF EndSession
<1>2. s \in 1..made
  BY DEF Served, Listed, Valid
<1>3. latest' # s /\ latest' \in {latest, None} /\ (latest # s => latest' = latest)
  BY <1>1, <1>2, SessionAssumption DEF LatestAfter
<1>4. Listed(sessions)'
  <2>1. made \in Nat /\ sessions \in SUBSET (1..made) /\ MaxKept \in Nat
    BY SessionAssumption DEF Served, Listed
  <2>2. IsFiniteSet(1..made)
    BY <2>1, FS_Interval
  <2>3. IsFiniteSet(sessions)
    BY <2>1, <2>2, FS_Subset
  <2>4. Cardinality(sessions') <= Cardinality(sessions) /\ Cardinality(sessions) \in Nat /\ Cardinality(sessions') \in Nat
    BY <1>1, <2>3, FS_Subset, FS_CardinalityType
  <2>5. Cardinality(sessions) <= MaxKept
    BY DEF Served, Listed
  <2>6. Cardinality(sessions') <= MaxKept
    BY <2>1, <2>4, <2>5
  <2>7. sessions' \subseteq 1..made'
    BY <1>1, <2>1
  <2> QED BY <2>6, <2>7 DEF Listed
<1>5. \A list \in copies' \cup updates' : Listed(list)'
  BY <1>1 DEF Served, Listed
<1>6. latest' \notin ended'
  <2>1. None \notin ended'
    <3>1. ended' \subseteq 1..made /\ 1..made \subseteq Nat
      BY <1>1, <1>2 DEF Served
    <3> QED BY <3>1, SessionAssumption
  <2> QED BY <1>1, <1>3, <2>1 DEF Served
<1>7. made' > 0 /\ made' \notin ended' => latest' = made'
  BY <1>1, <1>3 DEF Served
<1> QED BY <1>1, <1>2, <1>3, <1>4, <1>5, <1>6, <1>7 DEF Served

\* Preferences are read and written back.
LEMMA SessionsUpdated ==
  ASSUME Served, ReadPreferences \/ (\E list \in copies : BeginUpdate(list)) \/ (\E list \in updates : UpdatePreferences(list))
  PROVE  Served'
<1>1. CASE ReadPreferences
  BY <1>1 DEF ReadPreferences, Served, Listed
<1>2. ASSUME NEW list \in copies, BeginUpdate(list) PROVE Served'
  BY <1>2 DEF BeginUpdate, Served, Listed
<1>3. ASSUME NEW list \in updates, UpdatePreferences(list) PROVE Served'
  <2>1. sessions' = list /\ latest' = latest /\ restored' = ended \cap list /\ updates' = updates \ {list}
        /\ UNCHANGED <<made, copies, ended>>
    BY <1>3 DEF UpdatePreferences, NewestAfter
  <2>2. Listed(sessions)' /\ \A l \in copies' \cup updates' : Listed(l)'
    BY <2>1 DEF Served, Listed
  <2> QED BY <2>1, <2>2 DEF Served
<1> QED BY <1>1, <1>2, <1>3

LEMMA ServerKept == ASSUME Served, UNCHANGED server PROVE Served'
  BY DEF Served, Listed, server

LEMMA SessionStep == ASSUME Served, [SessionNext]_server PROVE Served'
<1>1. ASSUME NEW s \in Session, Valid(s), EndSession(s) PROVE Served'
  BY <1>1, SessionEnded, SessionAssumption DEF Session
<1> QED BY <1>1, SessionsMade, SessionsUpdated, ServerKept DEF SessionNext

LEMMA SessionStart == ASSUME SessionInit PROVE Served
<1>1. sessions = {} /\ latest = None /\ made = 0 /\ ended = {} /\ restored = {} /\ copies = {} /\ updates = {}
  BY DEF SessionInit
<1>2. Cardinality(sessions) = 0
  BY <1>1, FS_EmptySet
<1>3. made \in 0..MaxSessions /\ 0 <= MaxKept
  BY <1>1, SessionAssumption
<1> QED BY <1>1, <1>2, <1>3 DEF Served, Listed

LEMMA ServedWell == ASSUME Served PROVE SessionTypeOK /\ SignedOutIsOut /\ NewestIsAccepted
<1>1. 1..made \subseteq Session
  BY SessionAssumption DEF Served, Session
<1>2. SessionTypeOK
  BY <1>1 DEF Served, Listed, SessionTypeOK
<1> QED BY <1>2 DEF Served, SignedOutIsOut, NewestIsAccepted, Valid

LEMMA SessionInvariance == SessionSpec => []Served
<1>1. Served /\ [SessionNext]_server => Served'
  BY SessionStep
<1> QED BY <1>1, SessionStart, PTL DEF SessionSpec

\* Sessions: whatever is kept, read or written back lists sessions that were
\* made, and no more of them than the service keeps.
THEOREM SessionsTyped == SessionSpec => []SessionTypeOK
<1>1. Served => SessionTypeOK
  BY ServedWell
<1> QED BY <1>1, SessionInvariance, PTL

\* Sessions: a session signed out is not accepted again, although the newest one
\* is kept apart from the list and the list is cut at its cap - unless preferences
\* that were read before it was signed out are written back.
THEOREM SignedOutStaysOut == SessionSpec => []SignedOutIsOut
<1>1. Served => SignedOutIsOut
  BY ServedWell
<1> QED BY <1>1, SessionInvariance, PTL

\* Sessions: no update of the preferences and no other sign-out takes the newest
\* session away.
THEOREM NewestStaysAccepted == SessionSpec => []NewestIsAccepted
<1>1. Served => NewestIsAccepted
  BY ServedWell
<1> QED BY <1>1, SessionInvariance, PTL

-----------------------------------------------------------------------------
(* The account, in the browser. *)

Rows == [status : {"checking", "authenticated", "anonymous", "unavailable"}, of : Token]
OnePending(rs) == \A q, r \in rs : q.pending /\ r.pending => q = r

Stored == local \in Token /\ own \in [Tab -> Token] /\ events \in [Tab -> Seq({"set", "removed"})]
Showing ==
    /\ shown \in [Tab -> Rows] /\ requests \in [Tab -> SUBSET Request]
    /\ \A t \in Tab : OnePending(requests[t])
Signing ==
    /\ signin \in [Tab -> [session : Token, live : BOOLEAN]]
    /\ signout \in [Tab -> [at : {"none", "asked", "ok"}, token : Token]]
    /\ \A t \in Tab : signout[t].at # "none" => signout[t].token # None
    /\ messages \in [Tab -> Seq({"logout", "revalidate"})]
Browsing == Stored /\ Showing /\ Signing

\* What a tab shows is about the token it would use ...
Shows(t) ==
    IF GetToken(t) = None THEN shown[t].status = "anonymous"
    ELSE shown[t].status = "unavailable" \/ shown[t] = [status |-> "authenticated", of |-> GetToken(t)]
\* ... or a request about that token is under way ...
Awaits(t) == \E r \in requests[t] : r.token = GetToken(t)
\* ... or it has not yet heard that another tab changed the token.
InTouch(t) == events[t] = <<>> => Shows(t) \/ Awaits(t)

AccountInv == Served /\ Browsing /\ \A t \in Tab : InTouch(t)

\* What a step of tab t means to another one: it tells of every change of the
\* token that the other would use.
Unaware(u) ==
    /\ shown'[u] = shown[u] /\ requests'[u] = requests[u]
    /\ events'[u] = <<>> => events[u] = <<>> /\ local' = local /\ own'[u] = own[u]

LEMMA UnawareInTouch ==
  ASSUME NEW u \in Tab, InTouch(u), Unaware(u)
  PROVE  InTouch(u)'
<1> SUFFICES ASSUME events'[u] = <<>> PROVE Shows(u)' \/ Awaits(u)'
  BY DEF InTouch
<1>1. GetToken(u)' = GetToken(u) /\ (Shows(u) \/ Awaits(u))
  BY DEF Unaware, GetToken, InTouch
<1> QED BY <1>1 DEF Unaware, Shows, Awaits

LEMMA TokenType ==
  ASSUME Stored, NEW t \in Tab
  PROVE  GetToken(t) \in Token /\ (GetToken(t) # None => GetToken(t) \in Session)
  BY DEF Stored, GetToken, Token

LEMMA Told ==
  ASSUME NEW M, NEW queues \in [Tab -> Seq(M)], NEW t \in Tab, NEW m \in M
  PROVE  /\ Tell(queues, t, m) \in [Tab -> Seq(M)] /\ Tell(queues, t, m)[t] = queues[t]
         /\ \A u \in Tab \ {t} : Tell(queues, t, m)[u] # <<>>
<1>1. \A u \in Tab : Append(queues[u], m) \in Seq(M) /\ Append(queues[u], m) # <<>>
  BY AppendProperties
<1> QED BY <1>1 DEF Tell

\* The tab writes a token, and so uses it.
LEMMA Written ==
  ASSUME Stored, NEW t \in Tab, NEW s \in Token, Write(t, s)
  PROVE  /\ Stored' /\ GetToken(t)' = s /\ events'[t] = events[t]
         /\ \A u \in Tab \ {t} : events'[u] = <<>> => events[u] = <<>> /\ local' = local /\ own'[u] = own[u]
<1>1. local' = s /\ own' = [own EXCEPT ![t] = s]
      /\ events' = IF local = s THEN events ELSE Tell(events, t, IF s = None THEN "removed" ELSE "set")
  BY DEF Write
<1> DEFINE m == IF s = None THEN "removed" ELSE "set"
<1>2. m \in {"set", "removed"}
  OBVIOUS
<1>3. /\ Tell(events, t, m) \in [Tab -> Seq({"set", "removed"})] /\ Tell(events, t, m)[t] = events[t]
      /\ \A u \in Tab \ {t} : Tell(events, t, m)[u] # <<>>
  BY <1>2, Told DEF Stored
<1> HIDE DEF m
<1>4. events' = IF local = s THEN events ELSE Tell(events, t, m)
  BY <1>1 DEF m
<1>5. Stored'
  BY <1>1, <1>3, <1>4 DEF Stored
<1>6. GetToken(t)' = s
  BY <1>1 DEF GetToken, Stored
<1> QED BY <1>1, <1>3, <1>4, <1>5, <1>6 DEF Stored

\* A new request is the only one that is pending.
LEMMA Asked ==
  ASSUME NEW rs \in SUBSET Request, NEW s \in Session
  PROVE  Asking(rs, s) \in SUBSET Request /\ OnePending(Asking(rs, s)) /\ \E r \in Asking(rs, s) : r.token = s
<1> DEFINE F(r) == [r EXCEPT !.pending = FALSE]
           n == [token |-> s, pending |-> TRUE, answer |-> "none"]
<1>1. \A r \in Request : F(r) \in Request /\ ~F(r).pending
  BY DEF Request
<1>2. n \in Request /\ n.token = s
  BY DEF Request
<1>3. Asking(rs, s) = {F(r) : r \in rs} \cup {n}
  BY DEF Asking
<1> HIDE DEF F, n
<1>4. \A r \in Asking(rs, s) : r = n \/ (r \in Request /\ ~r.pending)
  BY <1>1, <1>3
<1> QED BY <1>2, <1>3, <1>4 DEF OnePending

LEMMA Refreshed ==
  ASSUME Stored, Showing, NEW t \in Tab, Refresh(t)
  PROVE  /\ Showing' /\ \A u \in Tab \ {t} : shown'[u] = shown[u] /\ requests'[u] = requests[u]
         /\ GetToken(t) = None => shown'[t].status = "anonymous"
         /\ GetToken(t) # None => \E r \in requests'[t] : r.token = GetToken(t)
<1> DEFINE s == GetToken(t)
<1>0. s \in Token /\ (s # None => s \in Session)
  BY TokenType
<1>1. CASE s = None
  <2>1. shown' = [shown EXCEPT ![t] = Anonymous] /\ requests' = requests
    BY <1>1 DEF Refresh
  <2>2. Anonymous \in Rows /\ Anonymous.status = "anonymous"
    BY DEF Anonymous, Rows, Token
  <2> QED BY <1>1, <2>1, <2>2 DEF Showing
<1>2. CASE s # None /\ \E r \in requests[t] : r.pending /\ r.token = s
  <2>1. UNCHANGED <<shown, requests>>
    BY <1>2 DEF Refresh
  <2> QED BY <1>2, <2>1 DEF Showing
<1>3. CASE s # None /\ ~\E r \in requests[t] : r.pending /\ r.token = s
  <2>1. shown' = [shown EXCEPT ![t].status = "checking"] /\ requests' = [requests EXCEPT ![t] = Asking(@, s)]
    BY <1>3 DEF Refresh
  <2>2. requests[t] \in SUBSET Request
    BY DEF Showing
  <2>3. Asking(requests[t], s) \in SUBSET Request /\ OnePending(Asking(requests[t], s))
        /\ \E r \in Asking(requests[t], s) : r.token = s
    BY <1>0, <1>3, <2>2, Asked
  <2>4. shown' \in [Tab -> Rows] /\ \A u \in Tab \ {t} : shown'[u] = shown[u]
    BY <2>1 DEF Showing, Rows
  <2> QED BY <1>3, <2>1, <2>3, <2>4 DEF Showing
<1> QED BY <1>1, <1>2, <1>3

\* The tab shows and forgets.
LEMMA Shown ==
  ASSUME Showing, NEW t \in Tab, NEW row \in Rows, NEW rs \in SUBSET Request, OnePending(rs),
         shown' = [shown EXCEPT ![t] = row], requests' = [requests EXCEPT ![t] = rs]
  PROVE  /\ Showing' /\ shown'[t] = row /\ requests'[t] = rs
         /\ \A u \in Tab \ {t} : shown'[u] = shown[u] /\ requests'[u] = requests[u]
  BY DEF Showing

LEMMA Cleared ==
  ASSUME Browsing, NEW t \in Tab, NEW s, ClearSession(t, s), \A u \in Tab : InTouch(u)
  PROVE  Stored' /\ Showing' /\ \A u \in Tab : InTouch(u)'
<1>0. Stored /\ Showing
  BY DEF Browsing
<1>1. CASE IsExpected(t, s)
  <2>1. Write(t, None) /\ shown' = [shown EXCEPT ![t] = Anonymous] /\ requests' = [requests EXCEPT ![t] = {}]
    BY <1>1 DEF ClearSession, Forgotten
  <2>2. Anonymous \in Rows /\ Anonymous.status = "anonymous" /\ OnePending({}) /\ None \in Token
    BY DEF Anonymous, Rows, Token, OnePending
  <2>3. /\ Stored' /\ GetToken(t)' = None
        /\ \A u \in Tab \ {t} : events'[u] = <<>> => events[u] = <<>> /\ local' = local /\ own'[u] = own[u]
    BY <1>0, <2>1, <2>2, Written
  <2>4. /\ Showing' /\ shown'[t] = Anonymous
        /\ \A u \in Tab \ {t} : shown'[u] = shown[u] /\ requests'[u] = requests[u]
    BY <1>0, <2>1, <2>2, Shown
  <2>5. InTouch(t)'
    BY <2>2, <2>3, <2>4 DEF InTouch, Shows
  <2>6. \A u \in Tab \ {t} : InTouch(u)'
    BY <2>3, <2>4, UnawareInTouch DEF Unaware
  <2> QED BY <2>3, <2>4, <2>5, <2>6
<1>2. CASE ~IsExpected(t, s)
  BY <1>0, <1>2 DEF ClearSession, storage, Stored, Showing, InTouch, Shows, Awaits, GetToken
<1> QED BY <1>1, <1>2

LEMMA AccountStart == AccountInit => AccountInv
<1> SUFFICES ASSUME AccountInit PROVE AccountInv
  OBVIOUS
<1>1. Served
  BY SessionStart DEF AccountInit
<1>2. Stored /\ Showing
  BY DEF AccountInit, Stored, Showing, Token, Rows, Anonymous, OnePending
<1>3. Signing
  BY DEF AccountInit, Signing, NotAsking, NotLeaving, Token
<1>4. \A t \in Tab : InTouch(t)
  BY DEF AccountInit, InTouch, Shows, GetToken, Anonymous
<1> QED BY <1>1, <1>2, <1>3, <1>4 DEF AccountInv, Browsing

\* What only the sign-ins, sign-outs and messages notice.
LEMMA Quiet ==
  ASSUME AccountInv, Served', Signing', UNCHANGED <<storage, shown, requests>>
  PROVE  AccountInv'
  BY DEF AccountInv, Browsing, Stored, Showing, InTouch, Shows, Awaits, GetToken, storage

LEMMA SignInStep ==
  ASSUME AccountInv, NEW t \in Tab, SignIn(t) \/ FailSignIn(t)
  PROVE  AccountInv'
<1>0. Served /\ Signing
  BY DEF AccountInv, Browsing
<1>1. CASE SignIn(t)
  <2>1. /\ made < MaxSessions /\ CreateSession(made + 1)
        /\ signin' = [signin EXCEPT ![t] = [session |-> made + 1, live |-> TRUE]]
        /\ UNCHANGED <<storage, shown, requests, signout, messages>>
    BY <1>1 DEF SignIn
  <2>2. Served'
    BY <1>0, <2>1, SessionsMade
  <2>3. made + 1 \in Token
    BY <1>0, <2>1, SessionAssumption DEF Served, Token, Session
  <2>4. Signing'
    BY <1>0, <2>1, <2>3 DEF Signing
  <2> QED BY <2>1, <2>2, <2>4, Quiet
<1>2. CASE FailSignIn(t)
  <2>1. signin' = [signin EXCEPT ![t] = NotAsking] /\ UNCHANGED <<server, storage, shown, requests, signout, messages>>
    BY <1>2 DEF FailSignIn
  <2>2. Served'
    BY <1>0, <2>1, ServerKept
  <2>3. Signing'
    BY <1>0, <2>1 DEF Signing, NotAsking, Token
  <2> QED BY <2>1, <2>2, <2>3, Quiet
<1> QED BY <1>1, <1>2

LEMMA SignOutStep ==
  ASSUME AccountInv, NEW t \in Tab, BeginSignOut(t) \/ Logout(t) \/ FailSignOut(t)
  PROVE  AccountInv'
<1>0. Served /\ Stored /\ Signing
  BY DEF AccountInv, Browsing
<1>1. CASE BeginSignOut(t)
  <2>1. /\ GetToken(t) # None /\ signin' = [signin EXCEPT ![t].live = FALSE]
        /\ signout' = [signout EXCEPT ![t] = [at |-> "asked", token |-> GetToken(t)]]
        /\ UNCHANGED <<server, storage, shown, requests, messages>>
    BY <1>1 DEF BeginSignOut, Cancelled
  <2>2. Served'
    BY <1>0, <2>1, ServerKept
  <2>3. GetToken(t) \in Token
    BY <1>0, TokenType
  <2>4. Signing'
    BY <1>0, <2>1, <2>3 DEF Signing
  <2> QED BY <2>1, <2>2, <2>4, Quiet
<1>2. CASE Logout(t)
  <2>1. /\ signout[t].at = "asked" /\ signout' = [signout EXCEPT ![t].at = "ok"]
        /\ IF Valid(signout[t].token) THEN EndSession(signout[t].token) ELSE UNCHANGED server
        /\ UNCHANGED <<storage, shown, requests, signin, messages>>
    BY <1>2 DEF Logout
  <2>2. signout[t].token # None
    BY <1>0, <2>1 DEF Signing
  <2>3. Served'
    <3>1. CASE Valid(signout[t].token)
      BY <1>0, <2>1, <2>2, <3>1, SessionEnded
    <3>2. CASE ~Valid(signout[t].token)
      BY <1>0, <2>1, <3>2, ServerKept
    <3> QED BY <3>1, <3>2
  <2>4. Signing'
    BY <1>0, <2>1 DEF Signing
  <2> QED BY <2>1, <2>3, <2>4, Quiet
<1>3. CASE FailSignOut(t)
  <2>1. signout' = [signout EXCEPT ![t] = NotLeaving] /\ UNCHANGED <<server, storage, shown, requests, signin, messages>>
    BY <1>3 DEF FailSignOut
  <2>2. Served'
    BY <1>0, <2>1, ServerKept
  <2>3. Signing'
    BY <1>0, <2>1 DEF Signing, NotLeaving, Token
  <2> QED BY <2>1, <2>2, <2>3, Quiet
<1> QED BY <1>1, <1>2, <1>3

LEMMA Cancels ==
  ASSUME Signing, NEW t \in Tab, Cancelled(t) \/ UNCHANGED signin, UNCHANGED signout,
         messages' \in [Tab -> Seq({"logout", "revalidate"})]
  PROVE  Signing'
  BY DEF Signing, Cancelled

LEMMA AnyoneTold ==
  ASSUME Signing, NEW t \in Tab
  PROVE  /\ Tell(messages, t, "logout") \in [Tab -> Seq({"logout", "revalidate"})]
         /\ Tell(messages, t, "revalidate") \in [Tab -> Seq({"logout", "revalidate"})]
  BY Told DEF Signing

LEMMA FinishSignInStep ==
  ASSUME AccountInv, NEW t \in Tab, FinishSignIn(t)
  PROVE  AccountInv'
<1>0. Served /\ Stored /\ Showing /\ Signing /\ \A u \in Tab : InTouch(u)
  BY DEF AccountInv, Browsing
<1> DEFINE s == signin[t].session
<1>1. s # None /\ signin' = [signin EXCEPT ![t] = NotAsking] /\ UNCHANGED <<server, signout>>
  BY DEF FinishSignIn
<1>2. Served'
  BY <1>0, <1>1, ServerKept
<1>3. CASE signin[t].live
  <2>1. /\ Write(t, s) /\ messages' = Tell(messages, t, "revalidate")
        /\ shown' = [shown EXCEPT ![t] = [status |-> "checking", of |-> None]]
        /\ requests' = [requests EXCEPT ![t] = Asking({}, s)]
    BY <1>3 DEF FinishSignIn
  <2>2. s \in Session /\ s \in Token
    BY <1>0, <1>1 DEF Signing, Token
  <2> DEFINE row == [status |-> "checking", of |-> None]
             rs == Asking({}, s)
  <2>3. row \in Rows
    BY DEF Rows, Token
  <2>4. rs \in SUBSET Request /\ OnePending(rs) /\ \E r \in rs : r.token = s
    BY <2>2, Asked
  <2> HIDE DEF s, row, rs
  <2>5. /\ Showing' /\ requests'[t] = rs
        /\ \A u \in Tab \ {t} : shown'[u] = shown[u] /\ requests'[u] = requests[u]
    <3>1. shown' = [shown EXCEPT ![t] = row] /\ requests' = [requests EXCEPT ![t] = rs]
      BY <2>1 DEF row, rs
    <3> QED BY <1>0, <2>3, <2>4, <3>1, Shown
  <2>6. /\ Stored' /\ GetToken(t)' = s
        /\ \A u \in Tab \ {t} : events'[u] = <<>> => events[u] = <<>> /\ local' = local /\ own'[u] = own[u]
    BY <1>0, <2>1, <2>2, Written
  <2>7. InTouch(t)'
    BY <2>4, <2>5, <2>6 DEF InTouch, Awaits
  <2>8. \A u \in Tab \ {t} : InTouch(u)'
    BY <1>0, <2>5, <2>6, UnawareInTouch DEF Unaware
  <2>9. Signing'
    BY <1>0, <1>1, <2>1, AnyoneTold DEF Signing, NotAsking, Token
  <2> QED BY <1>2, <2>5, <2>6, <2>7, <2>8, <2>9 DEF AccountInv, Browsing
<1>4. CASE ~signin[t].live
  <2>1. UNCHANGED <<storage, shown, requests, messages>>
    BY <1>4 DEF FinishSignIn
  <2>2. Signing'
    BY <1>0, <1>1, <2>1 DEF Signing, NotAsking, Token
  <2> QED BY <1>2, <2>1, <2>2, Quiet
<1> QED BY <1>3, <1>4

LEMMA FinishSignOutStep ==
  ASSUME AccountInv, NEW t \in Tab, FinishSignOut(t)
  PROVE  AccountInv'
<1>0. Served /\ Browsing /\ Signing /\ \A u \in Tab : InTouch(u)
  BY DEF AccountInv, Browsing
<1> DEFINE s == signout[t].token
<1>1. /\ signout' = [signout EXCEPT ![t] = NotLeaving] /\ ClearSession(t, s)
      /\ messages' = (IF IsExpected(t, s) THEN Tell(messages, t, "logout") ELSE messages)
      /\ UNCHANGED <<server, signin>>
  BY DEF FinishSignOut
<1>2. Stored' /\ Showing' /\ \A u \in Tab : InTouch(u)'
  BY <1>0, <1>1, Cleared
<1>3. messages' \in [Tab -> Seq({"logout", "revalidate"})]
  BY <1>0, <1>1, AnyoneTold DEF Signing
<1>4. Signing'
  BY <1>0, <1>1, <1>3 DEF Signing, NotLeaving, Token
<1> QED BY <1>0, <1>1, <1>2, <1>4, ServerKept DEF AccountInv, Browsing

LEMMA SignOutAgainStep ==
  ASSUME AccountInv, NEW t \in Tab, SignOutAgain(t)
  PROVE  AccountInv'
<1>0. Served /\ Stored /\ Showing /\ Signing /\ \A u \in Tab : InTouch(u)
  BY DEF AccountInv, Browsing
<1>1. /\ GetToken(t) = None /\ Cancelled(t) /\ messages' = Tell(messages, t, "logout")
      /\ shown' = [shown EXCEPT ![t] = Anonymous] /\ requests' = [requests EXCEPT ![t] = {}]
      /\ UNCHANGED <<server, local, own, events, signout>>
  BY DEF SignOutAgain, Forgotten, storage
<1>2. Anonymous \in Rows /\ Anonymous.status = "anonymous" /\ OnePending({})
  BY DEF Anonymous, Rows, Token, OnePending
<1>3. /\ Showing' /\ shown'[t] = Anonymous
      /\ \A u \in Tab \ {t} : shown'[u] = shown[u] /\ requests'[u] = requests[u]
  BY <1>0, <1>1, <1>2, Shown
<1>4. InTouch(t)'
  BY <1>1, <1>2, <1>3 DEF InTouch, Shows, GetToken
<1>5. \A u \in Tab \ {t} : InTouch(u)'
  BY <1>0, <1>1, <1>3, UnawareInTouch DEF Unaware
<1>6. Signing'
  BY <1>0, <1>1, AnyoneTold, Cancels
<1>7. Stored' /\ Served'
  BY <1>0, <1>1, ServerKept DEF Stored
<1> QED BY <1>3, <1>4, <1>5, <1>6, <1>7 DEF AccountInv, Browsing

\* A refresh leaves the other tabs alone, whatever else the step does to the
\* queue of the tab itself.
LEMMA RefreshStep ==
  ASSUME AccountInv, NEW t \in Tab, Refresh(t), UNCHANGED <<local, own>>, \A u \in Tab \ {t} : events'[u] = events[u]
  PROVE  Showing' /\ \A u \in Tab : InTouch(u)'
<1>0. Stored /\ Showing /\ \A u \in Tab : InTouch(u)
  BY DEF AccountInv, Browsing
<1>1. /\ Showing' /\ \A u \in Tab \ {t} : shown'[u] = shown[u] /\ requests'[u] = requests[u]
      /\ GetToken(t) = None => shown'[t].status = "anonymous"
      /\ GetToken(t) # None => \E r \in requests'[t] : r.token = GetToken(t)
  BY <1>0, Refreshed
<1>2. GetToken(t)' = GetToken(t)
  BY DEF GetToken
<1>3. InTouch(t)'
  BY <1>1, <1>2 DEF InTouch, Shows, Awaits
<1>4. \A u \in Tab \ {t} : InTouch(u)'
  BY <1>0, <1>1, UnawareInTouch DEF Unaware
<1> QED BY <1>1, <1>3, <1>4

LEMMA RevalidateStep ==
  ASSUME AccountInv, NEW t \in Tab, Revalidate(t)
  PROVE  AccountInv'
<1>1. Served /\ Stored /\ Signing /\ Refresh(t) /\ UNCHANGED <<server, local, own, events, signin, signout, messages>>
  BY DEF AccountInv, Browsing, Revalidate, storage
<1>2. Showing' /\ \A u \in Tab : InTouch(u)'
  BY <1>1, RefreshStep
<1>3. Stored' /\ Signing' /\ Served'
  BY <1>1, ServerKept DEF Stored, Signing
<1> QED BY <1>2, <1>3 DEF AccountInv, Browsing

\* A step that only changes what one tab shows and waits for.
LEMMA OwnStep ==
  ASSUME AccountInv, NEW t \in Tab, UNCHANGED <<server, storage, signin, signout, messages>>,
         NEW row \in Rows, NEW rs \in SUBSET Request, OnePending(rs),
         shown' = [shown EXCEPT ![t] = row], requests' = [requests EXCEPT ![t] = rs], InTouch(t)'
  PROVE  AccountInv'
<1>0. Served /\ Stored /\ Showing /\ Signing /\ \A u \in Tab : InTouch(u)
  BY DEF AccountInv, Browsing
<1>1. Showing' /\ \A u \in Tab \ {t} : shown'[u] = shown[u] /\ requests'[u] = requests[u]
  BY <1>0, Shown
<1>2. \A u \in Tab \ {t} : InTouch(u)'
  BY <1>0, <1>1, UnawareInTouch DEF Unaware, storage
<1>3. Stored' /\ Signing' /\ Served'
  BY <1>0, ServerKept DEF Stored, Signing, storage
<1> QED BY <1>1, <1>2, <1>3 DEF AccountInv, Browsing

LEMMA AnswerStep ==
  ASSUME AccountInv, NEW t \in Tab, NEW r \in requests[t], Answer(t, r)
  PROVE  AccountInv'
<1> DEFINE q == [r EXCEPT !.answer = IF Valid(r.token) THEN "ok" ELSE "dead"]
           rs == (requests[t] \ {r}) \cup {q}
<1>0. /\ Showing /\ InTouch(t) /\ requests[t] \in SUBSET Request /\ r \in Request /\ shown[t] \in Rows
      /\ OnePending(requests[t]) /\ shown \in [Tab -> Rows] /\ requests \in [Tab -> SUBSET Request]
  BY DEF AccountInv, Browsing, Showing
<1>1. requests' = [requests EXCEPT ![t] = rs] /\ shown' = shown /\ UNCHANGED <<server, storage, signin, signout, messages>>
  BY DEF Answer
<1>2. q \in Request /\ q.token = r.token /\ q.pending = r.pending
  BY <1>0 DEF Request
<1> HIDE DEF q
<1>3. rs \in SUBSET Request /\ OnePending(rs)
  BY <1>0, <1>2 DEF OnePending
<1>4. shown' = [shown EXCEPT ![t] = shown[t]]
  BY <1>0, <1>1
<1>5. requests'[t] = rs
  BY <1>0, <1>1
<1>6. InTouch(t)'
  <2>1. GetToken(t)' = GetToken(t) /\ events' = events
    BY <1>1 DEF GetToken, storage
  <2>2. Awaits(t) => \E x \in rs : x.token = GetToken(t)
    BY <1>2 DEF Awaits
  <2> QED BY <1>0, <1>1, <1>5, <2>1, <2>2 DEF InTouch, Shows, Awaits
<1> HIDE DEF rs
<1> QED BY <1>0, <1>1, <1>3, <1>4, <1>6, OwnStep

\* An answer that is still about the token in use decides what the tab shows;
\* any other one is only forgotten.
LEMMA ConcludeStep ==
  ASSUME AccountInv, NEW t \in Tab, NEW r \in requests[t], NEW row \in Rows, Conclude(t, r, row),
         UNCHANGED <<server, signin, signout, messages>>,
         IsCurrent(t, r) => row.status = "unavailable" \/ row = [status |-> "authenticated", of |-> r.token]
  PROVE  AccountInv'
<1> DEFINE rs == requests[t] \ {r}
           new == IF IsCurrent(t, r) THEN row ELSE shown[t]
<1>0. /\ InTouch(t) /\ requests[t] \in SUBSET Request /\ r \in Request /\ shown[t] \in Rows
      /\ OnePending(requests[t]) /\ shown \in [Tab -> Rows] /\ requests \in [Tab -> SUBSET Request]
      /\ r.token # None
  BY SessionAssumption DEF AccountInv, Browsing, Showing, Request, Session
<1>1. requests' = [requests EXCEPT ![t] = rs] /\ shown' = [shown EXCEPT ![t] = new] /\ UNCHANGED storage
  BY <1>0 DEF Conclude
<1>2. rs \in SUBSET Request /\ OnePending(rs) /\ new \in Rows
  BY <1>0 DEF OnePending
<1>3. requests'[t] = rs /\ shown'[t] = new
  BY <1>0, <1>1
<1>4. GetToken(t)' = GetToken(t) /\ events' = events
  BY <1>1 DEF GetToken, storage
<1>5. InTouch(t)'
  <2>1. CASE IsCurrent(t, r)
    BY <1>0, <1>3, <1>4, <2>1 DEF InTouch, Shows, IsCurrent
  <2>2. CASE ~IsCurrent(t, r)
    <3>1. Awaits(t) => \E x \in rs : x.token = GetToken(t)
      BY <2>2 DEF Awaits, IsCurrent
    <3> QED BY <1>0, <1>3, <1>4, <2>2, <3>1 DEF InTouch, Shows, Awaits
  <2> QED BY <2>1, <2>2
<1> HIDE DEF rs, new
<1> QED BY <1>1, <1>2, <1>5, OwnStep

LEMMA DeliverStep ==
  ASSUME AccountInv, NEW t \in Tab, NEW r \in requests[t], Deliver(t, r) \/ Unavailable(t, r)
  PROVE  AccountInv'
<1>0. /\ Served /\ Browsing /\ Signing /\ \A u \in Tab : InTouch(u)
      /\ r.token \in Session /\ shown[t].of \in Token
  BY DEF AccountInv, Browsing, Showing, Request, Rows
<1>a. UNCHANGED <<server, signin, signout, messages>>
  BY DEF Deliver, Unavailable
<1>1. CASE Unavailable(t, r)
  <2> DEFINE row == [status |-> "unavailable", of |-> shown[t].of]
  <2>1. row \in Rows /\ row.status = "unavailable"
    BY <1>0 DEF Rows
  <2>2. Conclude(t, r, row)
    BY <1>1 DEF Unavailable
  <2> HIDE DEF row
  <2> QED BY <1>a, <2>1, <2>2, ConcludeStep
<1>2. CASE Deliver(t, r) /\ r.answer = "ok"
  <2> DEFINE row == [status |-> "authenticated", of |-> r.token]
  <2>1. row \in Rows
    BY <1>0 DEF Rows, Token
  <2>2. Conclude(t, r, row)
    BY <1>2 DEF Deliver
  <2> QED BY <1>a, <2>1, <2>2, ConcludeStep
<1>3. CASE Deliver(t, r) /\ r.answer # "ok" /\ IsCurrent(t, r)
  <2>1. ClearSession(t, r.token)
    BY <1>3 DEF Deliver
  <2>2. Stored' /\ Showing' /\ \A u \in Tab : InTouch(u)'
    BY <1>0, <2>1, Cleared
  <2> QED BY <1>0, <1>a, <2>2, ServerKept DEF AccountInv, Browsing, Signing
<1>4. CASE Deliver(t, r) /\ r.answer # "ok" /\ ~IsCurrent(t, r)
  <2>1. Conclude(t, r, Anonymous) /\ Anonymous \in Rows
    BY <1>4 DEF Deliver, Anonymous, Rows, Token
  <2> QED BY <1>4, <1>a, <2>1, ConcludeStep
<1> QED BY <1>1, <1>2, <1>3, <1>4

LEMMA MessageStep ==
  ASSUME AccountInv, NEW t \in Tab, ReceiveMessage(t)
  PROVE  AccountInv'
<1>0. Served /\ Browsing /\ Stored /\ Signing /\ \A u \in Tab : InTouch(u)
  BY DEF AccountInv, Browsing
<1>1. /\ messages[t] # <<>> /\ messages' = [messages EXCEPT ![t] = Tail(@)] /\ UNCHANGED <<server, signout>>
      /\ Handle(t, Head(messages[t]) = "logout")
  BY DEF ReceiveMessage
<1>2. messages' \in [Tab -> Seq({"logout", "revalidate"})]
  <2>1. Tail(messages[t]) \in Seq({"logout", "revalidate"})
    BY <1>0, <1>1, HeadTailProperties DEF Signing
  <2> QED BY <1>0, <1>1, <2>1 DEF Signing
<1>3. \/ ClearSession(t, GetToken(t)) /\ Cancelled(t)
      \/ Refresh(t) /\ UNCHANGED <<storage, signin>>
  BY <1>1 DEF Handle
<1>4. Signing'
  BY <1>0, <1>1, <1>2, <1>3, Cancels
<1>5. CASE ClearSession(t, GetToken(t))
  <2>1. Stored' /\ Showing' /\ \A u \in Tab : InTouch(u)'
    BY <1>0, <1>5, Cleared
  <2> QED BY <1>0, <1>1, <1>4, <2>1, ServerKept DEF AccountInv, Browsing
<1>6. CASE Refresh(t) /\ UNCHANGED <<storage, signin>>
  <2>1. Showing' /\ \A u \in Tab : InTouch(u)'
    BY <1>6, RefreshStep DEF storage
  <2>2. Stored'
    BY <1>0, <1>6 DEF Stored, storage
  <2> QED BY <1>0, <1>1, <1>4, <2>1, <2>2, ServerKept DEF AccountInv, Browsing
<1> QED BY <1>3, <1>5, <1>6

LEMMA EventStep ==
  ASSUME AccountInv, NEW t \in Tab, ReceiveEvent(t)
  PROVE  AccountInv'
<1> DEFINE rest == [events EXCEPT ![t] = Tail(@)]
<1>0. Served /\ Browsing /\ Stored /\ Showing /\ Signing /\ \A u \in Tab : InTouch(u)
  BY DEF AccountInv, Browsing
<1>1. events[t] # <<>> /\ UNCHANGED <<server, signout, messages>>
  BY DEF ReceiveEvent
<1>2. rest \in [Tab -> Seq({"set", "removed"})] /\ \A u \in Tab \ {t} : rest[u] = events[u]
  <2>1. Tail(events[t]) \in Seq({"set", "removed"})
    BY <1>0, <1>1, HeadTailProperties DEF Stored
  <2> QED BY <1>0, <2>1 DEF Stored
<1>3. CASE Head(events[t]) = "removed"
  <2>1. /\ local' = None /\ own' = [own EXCEPT ![t] = None] /\ Cancelled(t)
        /\ events' = (IF local = None THEN rest ELSE Tell(rest, t, "removed"))
        /\ shown' = [shown EXCEPT ![t] = Anonymous] /\ requests' = [requests EXCEPT ![t] = {}]
    BY <1>3 DEF ReceiveEvent, Forgotten
  <2>2. Anonymous \in Rows /\ Anonymous.status = "anonymous" /\ OnePending({}) /\ None \in Token
    BY DEF Anonymous, Rows, Token, OnePending
  <2> HIDE DEF rest
  <2>3. Tell(rest, t, "removed") \in [Tab -> Seq({"set", "removed"})] /\ \A u \in Tab \ {t} : Tell(rest, t, "removed")[u] # <<>>
    BY <1>2, Told
  <2>4. Stored'
    BY <1>0, <1>2, <2>1, <2>2, <2>3 DEF Stored
  <2>5. GetToken(t)' = None
    BY <1>0, <2>1 DEF GetToken, Stored
  <2>6. /\ Showing' /\ shown'[t] = Anonymous
        /\ \A u \in Tab \ {t} : shown'[u] = shown[u] /\ requests'[u] = requests[u]
    BY <1>0, <2>1, <2>2, Shown
  <2>7. InTouch(t)'
    BY <2>2, <2>5, <2>6 DEF InTouch, Shows
  <2>8. \A u \in Tab \ {t} : events'[u] = <<>> => events[u] = <<>> /\ local' = local /\ own'[u] = own[u]
    BY <1>0, <1>2, <2>1, <2>3 DEF Stored
  <2>9. \A u \in Tab \ {t} : InTouch(u)'
    BY <1>0, <2>6, <2>8, UnawareInTouch DEF Unaware
  <2>10. Signing'
    BY <1>0, <1>1, <2>1, Cancels DEF Signing
  <2> QED BY <1>0, <1>1, <2>4, <2>6, <2>7, <2>9, <2>10, ServerKept DEF AccountInv, Browsing
<1>4. CASE Head(events[t]) # "removed"
  <2>1. Refresh(t) /\ events' = rest /\ UNCHANGED <<local, own, signin>>
    BY <1>4 DEF ReceiveEvent
  <2>2. Showing' /\ \A u \in Tab : InTouch(u)'
    BY <1>2, <2>1, RefreshStep
  <2>3. Stored' /\ Signing'
    BY <1>0, <1>1, <1>2, <2>1 DEF Stored, Signing
  <2> QED BY <1>0, <1>1, <2>2, <2>3, ServerKept DEF AccountInv, Browsing
<1> QED BY <1>3, <1>4

LEMMA ReloadStep ==
  ASSUME AccountInv, NEW t \in Tab, Reload(t)
  PROVE  AccountInv'
<1>0. Served /\ Stored /\ Showing /\ Signing /\ \A u \in Tab : InTouch(u)
  BY DEF AccountInv, Browsing
<1>1. /\ messages' = [messages EXCEPT ![t] = <<>>] /\ events' = [events EXCEPT ![t] = <<>>]
      /\ signin' = [signin EXCEPT ![t] = NotAsking] /\ signout' = [signout EXCEPT ![t] = NotLeaving]
      /\ UNCHANGED <<server, local, own>>
  BY DEF Reload
<1>2. GetToken(t) \in Token /\ (GetToken(t) # None => GetToken(t) \in Session) /\ GetToken(t)' = GetToken(t)
  BY <1>0, <1>1, TokenType DEF GetToken
<1>3. Showing' /\ InTouch(t)' /\ \A u \in Tab \ {t} : shown'[u] = shown[u] /\ requests'[u] = requests[u]
  <2>1. CASE GetToken(t) = None
    <3>1. shown' = [shown EXCEPT ![t] = Anonymous] /\ requests' = [requests EXCEPT ![t] = {}]
      BY <2>1 DEF Reload
    <3>2. Anonymous \in Rows /\ Anonymous.status = "anonymous" /\ OnePending({})
      BY DEF Anonymous, Rows, Token, OnePending
    <3>3. /\ Showing' /\ shown'[t] = Anonymous
          /\ \A u \in Tab \ {t} : shown'[u] = shown[u] /\ requests'[u] = requests[u]
      BY <1>0, <3>1, <3>2, Shown
    <3>4. InTouch(t)'
      BY <1>2, <2>1, <3>2, <3>3 DEF InTouch, Shows
    <3> QED BY <3>3, <3>4
  <2>2. CASE GetToken(t) # None
    <3> DEFINE row == [status |-> "checking", of |-> None]
               rs == Asking({}, GetToken(t))
    <3>1. shown' = [shown EXCEPT ![t] = row] /\ requests' = [requests EXCEPT ![t] = rs]
      BY <2>2 DEF Reload
    <3>2. row \in Rows
      BY DEF Rows, Token
    <3>3. rs \in SUBSET Request /\ OnePending(rs) /\ \E r \in rs : r.token = GetToken(t)
      BY <1>2, <2>2, Asked
    <3> HIDE DEF row, rs
    <3>4. /\ Showing' /\ requests'[t] = rs
          /\ \A u \in Tab \ {t} : shown'[u] = shown[u] /\ requests'[u] = requests[u]
      BY <1>0, <3>1, <3>2, <3>3, Shown
    <3>5. InTouch(t)'
      BY <1>2, <3>3, <3>4 DEF InTouch, Awaits
    <3> QED BY <3>4, <3>5
  <2> QED BY <2>1, <2>2
<1>4. Stored' /\ \A u \in Tab \ {t} : events'[u] = events[u]
  BY <1>0, <1>1 DEF Stored
<1>5. \A u \in Tab \ {t} : InTouch(u)'
  BY <1>0, <1>1, <1>3, <1>4, UnawareInTouch DEF Unaware
<1>6. Signing'
  BY <1>0, <1>1 DEF Signing, NotAsking, NotLeaving, Token
<1> QED BY <1>0, <1>1, <1>3, <1>4, <1>5, <1>6, ServerKept DEF AccountInv, Browsing

LEMMA AccountStep == AccountInv /\ [AccountNext]_accountVars => AccountInv'
<1> SUFFICES ASSUME AccountInv, [AccountNext]_accountVars PROVE AccountInv'
  OBVIOUS
<1>1. CASE UNCHANGED accountVars
  BY <1>1, ServerKept DEF accountVars, storage, AccountInv, Browsing, Stored, Showing, Signing, InTouch, Shows, Awaits,
     GetToken
<1>2. ASSUME NEW t \in Tab,
             \/ SignIn(t) \/ FinishSignIn(t) \/ FailSignIn(t)
             \/ BeginSignOut(t) \/ SignOutAgain(t) \/ Logout(t) \/ FinishSignOut(t) \/ FailSignOut(t)
      PROVE  AccountInv'
  BY <1>2, SignInStep, FinishSignInStep, SignOutStep, SignOutAgainStep, FinishSignOutStep
<1>3. ASSUME NEW t \in Tab, Revalidate(t) \/ ReceiveMessage(t) \/ ReceiveEvent(t) \/ Reload(t)
      PROVE  AccountInv'
  BY <1>3, RevalidateStep, MessageStep, EventStep, ReloadStep
<1>4. ASSUME NEW t \in Tab, NEW r \in requests[t], Answer(t, r) \/ Deliver(t, r) \/ Unavailable(t, r)
      PROVE  AccountInv'
  BY <1>4, AnswerStep, DeliverStep
<1>5. CASE Elsewhere
  <2>1. SessionNext /\ UNCHANGED <<storage, shown, requests, signin, signout, messages>> /\ Served /\ Signing
    BY <1>5 DEF Elsewhere, AccountInv, Browsing
  <2>2. Served' /\ Signing'
    BY <2>1, SessionStep DEF Signing
  <2> QED BY <2>1, <2>2, Quiet
<1> QED BY <1>1, <1>2, <1>3, <1>4, <1>5 DEF AccountNext

LEMMA AccountInvariance == AccountSpec => []AccountInv
BY AccountStart, AccountStep, PTL DEF AccountSpec

\* Accounts: the list of sessions stays within its cap and every tab has at most
\* one request pending, for any number of tabs.
THEOREM AccountTyped == AccountSpec => []AccountTypeOK
<1>1. AccountInv => AccountTypeOK
  <2> SUFFICES ASSUME AccountInv PROVE AccountTypeOK
    OBVIOUS
  <2>1. Served /\ Stored /\ Showing /\ Signing
    BY DEF AccountInv, Browsing
  <2>2. SessionTypeOK
    BY <2>1, ServedWell
  <2> QED BY <2>1, <2>2 DEF AccountTypeOK, Stored, Showing, Signing, Rows, OnePending
<1> QED BY <1>1, AccountInvariance, PTL

\* Accounts: what the tabs do to the sessions of the account is what its devices
\* may do to them, so that everything said of Sessions holds here as well.
THEOREM TabsKeepSessions == AccountSpec => SessionSpec
<1>1. AccountInit => SessionInit
  BY DEF AccountInit
<1>2. AccountInv /\ [AccountNext]_accountVars => [SessionNext]_server
  <2> SUFFICES ASSUME AccountInv, [AccountNext]_accountVars, ~UNCHANGED server PROVE SessionNext
    OBVIOUS
  <2>1. CASE Elsewhere
    BY <2>1 DEF Elsewhere
  <2>2. ASSUME NEW t \in Tab, SignIn(t) PROVE SessionNext
    BY <2>2 DEF SignIn, SessionNext
  <2>3. ASSUME NEW t \in Tab, Logout(t) PROVE SessionNext
    <3>1. Valid(signout[t].token) /\ EndSession(signout[t].token)
      BY <2>3 DEF Logout
    <3>2. signout[t].token \in Session
      BY <2>3 DEF Logout, AccountInv, Browsing, Signing, Token
    <3> QED BY <3>1, <3>2 DEF SessionNext
  <2>4. CASE UNCHANGED accountVars
    BY <2>4 DEF accountVars
  <2>5. ASSUME NEW t \in Tab,
               \/ FinishSignIn(t) \/ FailSignIn(t) \/ BeginSignOut(t) \/ SignOutAgain(t) \/ FinishSignOut(t)
               \/ FailSignOut(t) \/ Revalidate(t) \/ ReceiveMessage(t) \/ ReceiveEvent(t) \/ Reload(t)
               \/ \E r \in requests[t] : Answer(t, r) \/ Deliver(t, r) \/ Unavailable(t, r)
        PROVE  FALSE
    BY <2>5 DEF FinishSignIn, FailSignIn, BeginSignOut, SignOutAgain, FinishSignOut, FailSignOut, Revalidate,
       ReceiveMessage, ReceiveEvent, Reload, Answer, Deliver, Unavailable
  <2> QED BY <2>1, <2>2, <2>3, <2>4, <2>5 DEF AccountNext
<1> QED BY <1>1, <1>2, AccountInvariance, PTL DEF AccountSpec, SessionSpec

\* Accounts: a tab to which nothing is on its way shows the account of the token
\* it would use, in whichever order messages, events and answers reached it.
THEOREM TabsAlwaysSettle == AccountSpec => []TabsSettle
<1>1. AccountInv => TabsSettle
  BY DEF AccountInv, InTouch, Awaits, Shows, TabsSettle, Settled
<1> QED BY <1>1, AccountInvariance, PTL

=============================================================================
