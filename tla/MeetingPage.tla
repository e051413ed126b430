----------------------------- MODULE MeetingPage -----------------------------
(***************************************************************************)
(* The meeting page of one participant: how it joins, loses and restores   *)
(* its session, and what it captures and sends meanwhile.                  *)
(*                                                                         *)
(* Source: frontend/web/src/pages/MeetingRoom.tsx with lib/media.ts,       *)
(* lib/camera-capture.ts, lib/device-access.ts and lib/signaling.ts.       *)
(* The page is one thread: a handler runs up to its next await.  What it   *)
(* awaits - a device to open, a producer to be accepted - is a task; the   *)
(* person, the host, the browser and the network go on meanwhile, and a    *)
(* task may outlive the session it was begun in.                           *)
(*                                                                         *)
(* Left out: track.enabled, by which the page silences a track beside its  *)
(* producer, and which produce() restores after its await under end-to-end *)
(* encryption.                                                             *)
(***************************************************************************)
EXTENDS Naturals, FiniteSets

CONSTANTS
    MaxFailures,  \* reconnections in a row before the page gives up
    Settings,     \* the room settings a host may choose
    MaxTasks      \* bound: tasks under way when a click or an unplugged device adds one

ASSUME PageAssumption ==
    MaxFailures \in Nat /\ MaxTasks \in Nat
    /\ Settings \subseteq SUBSET {"mic", "camera", "screen"} /\ {"mic", "camera", "screen"} \in Settings

VARIABLES
    phase,     \* of the session; "restoring" and "over" are between and after sessions
    failures,  \* failures.current of the page around the sessions
    carried,   \* while restoring: what was off when the session dropped
    hidden,    \* document.hidden
    allow,     \* what roomSettings lets participants use
    page       \* the refs of the session that is mounted, see Blank

vars == <<phase, failures, carried, hidden, allow, page>>

Sources == {"mic", "camera", "screen", "private"}
Active  == {"joining", "waiting", "opening", "publishing", "in"}   \* sessionActive
Listening == phase \in {"opening", "publishing", "in"}            \* to the room's messages
NoTalk  == [on |-> FALSE, wasMuted |-> FALSE, muted |-> FALSE, muting |-> FALSE]

\* A task: who asked for it, whether its session goes on, whether the device being
\* opened is still wanted, and whether it is about to switch the microphone on.
\* History, of a camera: it was tried again after it was switched off.
Task(source, by, stage, on) ==
    [source |-> source, by |-> by, stage |-> stage, fresh |-> TRUE, wanted |-> TRUE, on |-> on,
     again |-> FALSE]
Tasks == [source : Sources, by : {"join", "click", "ended"}, stage : {"open", "send"},
          fresh : BOOLEAN, wanted : BOOLEAN, on : BOOLEAN, again : BOOLEAN]

Blank(off) == [
    off     |-> off,                              \* audioMutedRef, videoOffRef
    live    |-> {},                               \* tracks that capture
    relay   |-> FALSE,                            \* media.canSend
    sent    |-> [s \in Sources |-> "none"],       \* the producer of each source
    sharing |-> FALSE,                            \* sharingRef
    talk    |-> NoTalk,                           \* the private conversation
    tasks   |-> {},
    slipped |-> FALSE,                            \* history: muted while a task was to unmute
    reopened |-> FALSE]                           \* history: the camera that runs was switched off, and tried again

Pages == [off : SUBSET {"mic", "camera"}, live : SUBSET Sources, relay : BOOLEAN,
          sent : [Sources -> {"none", "paused", "sending"}], sharing : BOOLEAN,
          talk : [on : BOOLEAN, wasMuted : BOOLEAN, muted : BOOLEAN, muting : BOOLEAN],
          tasks : SUBSET Tasks, slipped : BOOLEAN, reopened : BOOLEAN]
TypeOK ==
    /\ phase \in Active \cup {"restoring", "over"} /\ failures \in 0..MaxFailures
    /\ carried \subseteq {"mic", "camera"} /\ hidden \in BOOLEAN /\ allow \in Settings
    /\ page \in Pages

Init ==
    /\ phase = "joining" /\ failures = 0 /\ carried = {} /\ hidden = FALSE
    /\ allow = {"mic", "camera", "screen"}
    /\ \E off \in SUBSET {"mic", "camera"} : page = Blank(off)

-----------------------------------------------------------------------------
(* What handlers do to the page. *)

Paused(pg, s, muted) ==
    IF pg.sent[s] = "none" THEN pg
    ELSE [pg EXCEPT !.sent[s] = IF muted THEN "paused" ELSE "sending"]
Registered(pg, s) == IF pg.sent[s] = "none" THEN [pg EXCEPT !.sent[s] = "sending"] ELSE pg
Begun(pg, t) == [pg EXCEPT !.tasks = @ \cup {t}]
Done(pg, t)  == [pg EXCEPT !.tasks = @ \ {t}]
Free(pg) == Cardinality(pg.tasks) < MaxTasks
Pending(pg, s, by) == \E t \in pg.tasks : t.fresh /\ t.source = s /\ t.by = by
Overtaking(pg) == \E t \in pg.tasks : t.fresh /\ t.source = "mic" /\ t.on

\* CameraCapture.stop: what the attempt under way opens is not wanted any more.
Unwanted(ts, s) == {IF t.source = s THEN [t EXCEPT !.wanted = FALSE] ELSE t : t \in ts}
CameraStopped_LateOneStays(pg) == [pg EXCEPT !.live = @ \ {"camera"}, !.reopened = FALSE]  \* mutant
CameraStopped(pg) ==
    [pg EXCEPT !.live = @ \ {"camera"}, !.tasks = Unwanted(@, "camera"), !.reopened = FALSE]

\* applyMute
MicMuted(pg, muted) ==
    Paused([pg EXCEPT !.off = IF muted THEN @ \cup {"mic"} ELSE @ \ {"mic"},
                      !.slipped = IF muted THEN Overtaking(pg) ELSE @ /\ pg.talk.on], "mic", muted)
CameraOff(pg, off) ==
    LET stopped == IF off THEN CameraStopped(pg) ELSE pg
    IN  Paused([stopped EXCEPT !.off = IF off THEN @ \cup {"camera"} ELSE @ \ {"camera"}], "camera", off)

ShareStopped(pg) ==
    [pg EXCEPT !.sharing = FALSE, !.live = @ \ {"screen"}, !.sent["screen"] = "none"]

\* stopLocalMedia and media.close: every task under way is outdated.  A producer
\* accepted later is closed by MediaManager.produce; a device may still open.
Outdated(t) == [Task(t.source, "click", "open", FALSE) EXCEPT !.fresh = FALSE, !.wanted = t.source # "camera"]
Stopped(pg) == [Blank(pg.off) EXCEPT !.tasks = {Outdated(t) : t \in {u \in pg.tasks : u.stage = "open"}}]

Turn(pg) == page' = pg /\ UNCHANGED <<phase, failures, carried, hidden, allow>>

-----------------------------------------------------------------------------
(* Sessions: joining, dropping out, reconnecting. *)

Ends(pg) == page' = Stopped(pg) /\ phase' = "over" /\ UNCHANGED <<failures, carried, hidden, allow>>

Counted_Not(n) == n                                                            \* mutant
Counted(n) == n + 1
Dropped ==
    IF failures < MaxFailures
    THEN /\ page' = Stopped(page) /\ phase' = "restoring" /\ carried' = page.off
         /\ failures' = Counted(failures) /\ UNCHANGED <<hidden, allow>>
    ELSE Ends(page)

AskedToWait ==
    /\ phase = "joining" /\ phase' = "waiting" /\ UNCHANGED <<failures, carried, hidden, allow, page>>
Joined(a, muteOnEntry) ==
    LET off == page.off \cup ({"mic", "camera"} \ a) \cup IF muteOnEntry THEN {"mic"} ELSE {}
        asked == {Task("mic", "join", "open", FALSE)}
                 \cup IF "camera" \in off THEN {} ELSE {Task("camera", "join", "open", FALSE)}
    IN  /\ phase \in {"joining", "waiting"} /\ phase' = "opening" /\ allow' = a
        /\ page' = [page EXCEPT !.off = off, !.tasks = @ \cup asked]
        /\ UNCHANGED <<failures, carried, hidden>>
JoinRefused == phase \in {"joining", "waiting"} /\ Ends(page)
JoinFails   == phase = "joining" /\ Dropped
ConnectionLost == phase \in Active /\ Dropped
\* Kicked, ended, signed out, left, or the page is being put away.
Leave == phase \in Active /\ Ends(page)
PageHide == phase \in Active /\ Ends([page EXCEPT !.off = {"mic", "camera"}])

Remount ==
    /\ phase = "restoring" /\ phase' = "joining"
    /\ page' = [Blank(carried \cup IF hidden THEN {"camera"} ELSE {}) EXCEPT !.tasks = page.tasks]
    /\ carried' = {} /\ UNCHANGED <<failures, hidden, allow>>

\* What was published starts live, and is matched to the mute state at the end.
Connected_Unmatched(pg) == page' = pg /\ phase' = "in" /\ failures' = 0          \* mutant
Connected(pg) ==
    /\ page' = Paused(Paused(pg, "mic", "mic" \in pg.off), "camera", "camera" \in pg.off)
    /\ phase' = "in" /\ failures' = 0
\* Every device was opened or given up: publish what there is, microphone first.
Publish(pg, sources) ==
    IF sources = {} THEN Connected(pg)
    ELSE LET s == IF "mic" \in sources THEN "mic" ELSE "camera"
         IN  /\ page' = Begun(pg, Task(s, "join", "send", FALSE)) /\ phase' = "publishing" /\ UNCHANGED failures
MediaReady(relay) ==
    LET off == page.off \cup ({"mic", "camera"} \ page.live)
        pg  == [page EXCEPT !.off = off, !.relay = relay]
    IN  /\ phase = "opening" /\ ~Pending(page, "mic", "join") /\ ~Pending(page, "camera", "join")
        /\ Publish(pg, IF relay THEN page.live \cap ({"mic"} \cup ({"camera"} \ off)) ELSE {})
        /\ UNCHANGED <<carried, hidden, allow>>
Published(t) ==
    LET pg == Registered(Done(page, t), t.source)
    IN  /\ Publish(pg, IF t.source = "mic" THEN pg.live \cap ({"camera"} \ pg.off) ELSE {})
        /\ UNCHANGED <<carried, hidden, allow>>
\* Without its media relay the meeting goes on as chat and presence.
PublishFails(t) ==
    /\ page' = [Done(page, t) EXCEPT !.sent = [s \in Sources |-> "none"], !.relay = FALSE]
    /\ phase' = "in" /\ failures' = 0 /\ UNCHANGED <<carried, hidden, allow>>

-----------------------------------------------------------------------------
(* A device opens, or its producer is accepted, or neither. *)

IsFresh_Always(t) == TRUE                                                      \* mutant
IsFresh(t) == t.fresh

\* A track goes on to its producer, if there is a relay.
Send(pg, t, finished) ==
    IF pg.relay THEN Begun(pg, Task(t.source, t.by, "send", t.on)) ELSE finished

\* publishAudioTrack ends by matching the producer to audioMutedRef; a click
\* then unmutes, a replacement goes back to what was on when the track ended.
MicTaken(pg, t) ==
    IF t.by = "click" THEN MicMuted(pg, FALSE) ELSE Paused(pg, "mic", ~t.on)
MicOpened(t) ==
    LET pg == [Done(page, t) EXCEPT !.live = @ \cup {"mic"}]
    IN  Turn(IF ~IsFresh(t) THEN Done(page, t)
             ELSE IF t.by = "join" THEN pg ELSE Send(pg, t, MicTaken(pg, t)))

Usable(t) == t.wanted /\ ~hidden
CameraTaken(pg) == IF hidden \/ "camera" \notin pg.live THEN CameraStopped(pg) ELSE CameraOff(pg, FALSE)
CameraOpened(t) ==
    LET pg == [Done(page, t) EXCEPT !.live = @ \cup {"camera"}, !.reopened = t.again]
    IN  Turn(IF ~Usable(t) \/ ~IsFresh(t) THEN Done(page, t)
             ELSE IF t.by = "join" THEN pg ELSE Send(pg, t, CameraTaken(pg)))

\* startCameraWithFallback: an attempt fails, the camera being busy, missing or
\* too slow, and after a wait the next one begins, with a revision of its own:
\* it is wanted again, whatever was switched off meanwhile.  (The code makes two
\* or three attempts; they are not counted.)
NextAttempt(t) == [t EXCEPT !.wanted = TRUE, !.again = @ \/ ~t.wanted]
Retries(t) ==
    /\ t.fresh /\ t.source = "camera" /\ t.stage = "open"
    /\ Turn(Begun(CameraStopped(Done(page, t)), NextAttempt(t)))

MayShow_Unasked == TRUE                                                        \* mutant
MayShow == "screen" \in allow
ScreenPicked(t) ==
    LET pg == [Done(page, t) EXCEPT !.live = @ \cup {"screen"}, !.sharing = TRUE]
    IN  Turn(IF ~IsFresh(t) \/ ~MayShow THEN Done(page, t) ELSE Send(pg, t, pg))

\* The private producer's source is a copy of the open microphone.  There is no
\* relay before the devices are open.
PrivateBegun(pg) ==
    IF "mic" \in pg.live /\ pg.relay /\ phase # "opening"
    THEN Begun([pg EXCEPT !.live = @ \cup {"private"}], Task("private", "click", "send", FALSE)) ELSE pg
PrivateOpened(t) ==
    LET pg == [Done(page, t) EXCEPT !.live = @ \cup {"mic"}, !.talk.muted = ~page.relay, !.talk.muting = FALSE]
    IN  Turn(IF ~IsFresh(t) \/ ~t.wanted THEN Done(page, t) ELSE PrivateBegun(Paused(pg, "mic", TRUE)))

Opens(t) ==
    /\ t.stage = "open"
    /\ CASE t.source = "mic"     -> MicOpened(t)
         [] t.source = "camera"  -> CameraOpened(t)
         [] t.source = "screen"  -> ScreenPicked(t)
         [] t.source = "private" -> PrivateOpened(t)

Accepted(t) ==
    LET pg == Registered(Done(page, t), t.source)
    IN  /\ t.stage = "send"
        /\ IF t.by = "join" THEN Published(t)
           ELSE CASE t.source = "mic"     -> Turn(MicTaken(Paused(pg, "mic", "mic" \in pg.off), t))
                  [] t.source = "camera"  -> Turn(CameraTaken(pg))
                  [] t.source = "screen"  -> Turn(IF pg.sharing THEN pg ELSE [pg EXCEPT !.live = @ \ {"screen"}])
                  [] t.source = "private" -> Turn(IF t.wanted THEN Paused(pg, "private", pg.talk.muted) ELSE Done(page, t))

\* The device is refused or times out, or the producer is.
Fails(t) ==
    LET pg == Done(page, t)
    IN  IF ~t.fresh THEN Turn(pg)
        ELSE IF t.by = "join" THEN IF t.stage = "open" THEN Turn(pg) ELSE PublishFails(t)
        ELSE CASE t.source = "mic" ->
                    Turn(MicMuted(IF t.by = "click" THEN [pg EXCEPT !.live = @ \ {"mic"}] ELSE pg, TRUE))
               [] t.source = "camera"  -> Turn(IF t.stage = "open" THEN CameraOff(pg, TRUE) ELSE CameraTaken(pg))
               [] t.source = "screen"  -> Turn(IF pg.sharing THEN ShareStopped(pg) ELSE pg)
               [] t.source = "private" ->
                    Turn(IF ~t.wanted THEN pg ELSE [pg EXCEPT !.live = @ \ {"private"}, !.talk.muted = TRUE])

-----------------------------------------------------------------------------
(* The person. *)

ToggleAudio ==
    /\ phase \in Active /\ ~page.talk.on
    /\ \/ "mic" \in page.live /\ ("mic" \notin page.off \/ "mic" \in allow)
          /\ Turn(MicMuted(page, "mic" \notin page.off))
       \/ "mic" \notin page.live /\ phase = "in" /\ ("mic" \notin page.off \/ "mic" \in allow)
          /\ Free(page) /\ ~Pending(page, "mic", "click") /\ Turn(Begun(page, Task("mic", "click", "open", TRUE)))
ToggleVideo ==
    /\ phase \in Active /\ ~hidden
    /\ \/ "camera" \notin page.off /\ Turn(CameraOff(page, TRUE))
       \/ "camera" \in page.off /\ "camera" \in allow /\ phase = "in" /\ ~Pending(page, "camera", "click")
          /\ Free(page) /\ Turn(Begun(CameraStopped(page), Task("camera", "click", "open", FALSE)))
StartScreenShare ==
    /\ phase = "in" /\ page.relay /\ "screen" \in allow /\ ~page.sharing /\ ~Pending(page, "screen", "click")
    /\ Free(page) /\ Turn(Begun(page, Task("screen", "click", "open", FALSE)))
\* By the person, by the browser's own button, or by the host.
StopScreenShare == page.sharing /\ Turn(ShareStopped(page))

TogglePrivateMicrophone ==
    /\ page.talk.on
    /\ \/ ~page.talk.muted
          /\ Turn(Paused([page EXCEPT !.talk.muted = TRUE, !.talk.muting = TRUE], "private", TRUE))
       \/ page.talk.muted /\ page.sent["private"] # "none"
          /\ Turn(Paused([page EXCEPT !.talk.muted = FALSE, !.talk.muting = FALSE], "private", FALSE))
       \/ page.talk.muted /\ page.sent["private"] = "none" /\ "mic" \in page.live /\ page.relay
          /\ Turn(PrivateBegun([page EXCEPT !.talk.muted = FALSE, !.talk.muting = FALSE]))
       \/ page.talk.muted /\ page.sent["private"] = "none" /\ "mic" \notin page.live /\ phase = "in"
          /\ Free(page) /\ ~Pending(page, "mic", "click") /\ ~Pending(page, "private", "click")
          /\ Turn(Begun(page, Task("private", "click", "open", FALSE)))
\* The service takes note of the muting, or the page takes it back; once the
\* person has unmuted, neither makes a difference.
PrivateMuteAnswered ==
    /\ page.talk.muting
    /\ \/ Turn([page EXCEPT !.talk.muting = FALSE])
       \/ Turn(Paused([page EXCEPT !.talk.muting = FALSE, !.talk.muted = FALSE], "private", FALSE))

-----------------------------------------------------------------------------
(* The host, the devices and the browser. *)

ForceMute == Listening /\ Turn(MicMuted(page, TRUE))
ForceCameraOff == Listening /\ Turn(CameraOff(page, TRUE))
SettingsUpdated(a) ==
    /\ Listening /\ allow' = a
    /\ page' = IF "screen" \notin a /\ page.sharing THEN ShareStopped(page) ELSE page
    /\ UNCHANGED <<phase, failures, carried, hidden>>

PrivateConversationStarted ==
    LET pg == Paused([page EXCEPT !.talk = [on |-> TRUE, wasMuted |-> "mic" \in page.off,
                                            muted |-> "mic" \in page.off, muting |-> FALSE],
                                  !.off = @ \cup {"mic"}, !.slipped = Overtaking(page)], "mic", TRUE)
    IN  /\ Listening /\ ~page.talk.on
        /\ Turn(IF pg.talk.muted THEN pg ELSE PrivateBegun(pg))
PrivateConversationEnded ==
    LET was == page.talk.wasMuted
        pg  == [page EXCEPT !.live = @ \ {"private"}, !.sent["private"] = "none", !.talk = NoTalk,
                            !.tasks = Unwanted(@, "private"),
                            !.off = IF was THEN @ \cup {"mic"} ELSE @ \ {"mic"}, !.slipped = was /\ (@ \/ Overtaking(page))]
    IN  page.talk.on /\ Turn(Paused(pg, "mic", was))

\* The microphone is unplugged: its copy ends with it, another one is opened.
MicEnded ==
    /\ phase \in {"publishing", "in"} /\ "mic" \in page.live /\ ~Pending(page, "mic", "ended")
    /\ Free(page) /\ Turn(Begun([page EXCEPT !.live = @ \ {"mic", "private"}], Task("mic", "ended", "open", "mic" \notin page.off)))
CameraEnded ==
    /\ phase \in {"publishing", "in"} /\ "camera" \in page.live /\ Turn(CameraOff(page, TRUE))
Hide ==
    /\ ~hidden /\ hidden' = TRUE /\ page' = CameraOff(page, TRUE)
    /\ UNCHANGED <<phase, failures, carried, allow>>
Show == hidden /\ hidden' = FALSE /\ UNCHANGED <<phase, failures, carried, allow, page>>

-----------------------------------------------------------------------------
TaskEnds == \E t \in page.tasks : Opens(t) \/ Accepted(t) \/ Fails(t) \/ Retries(t)
Joins    == \E a \in Settings, m \in BOOLEAN : Joined(a, m)

Next ==
    \/ Joins \/ AskedToWait \/ JoinRefused \/ JoinFails \/ ConnectionLost \/ Leave \/ PageHide \/ Remount
    \/ TaskEnds \/ \E relay \in BOOLEAN : MediaReady(relay)
    \/ ToggleAudio \/ ToggleVideo \/ StartScreenShare \/ StopScreenShare
    \/ TogglePrivateMicrophone \/ PrivateMuteAnswered
    \/ ForceMute \/ ForceCameraOff \/ \E a \in Settings : SettingsUpdated(a)
    \/ PrivateConversationStarted \/ PrivateConversationEnded
    \/ MicEnded \/ CameraEnded \/ Hide \/ Show

\* The reconnection timer fires, a join and every device and request it waits
\* for end by an answer or a time-out, however often a camera is tried.
FairSpec ==
    /\ Init /\ [][Next]_vars
    /\ WF_vars(Remount) /\ WF_vars(Joins \/ AskedToWait \/ JoinRefused \/ JoinFails)
    /\ WF_vars(\E t \in page.tasks : t.fresh /\ t.by = "join" /\ (Opens(t) \/ Accepted(t) \/ Fails(t)))
    /\ WF_vars(\E relay \in BOOLEAN : MediaReady(relay))

-----------------------------------------------------------------------------
(* Properties. *)

\* Nothing captures between and after sessions: a device that opens late for a
\* session that is gone is closed at once.
NothingCapturedAfterwards == phase \notin Active => page.live = {}

\* The camera never runs while the page is hidden, nor while the page says it is
\* off and no click is switching it on, whichever of opening, hiding, muting and
\* unplugging comes first - but for a camera that startCameraWithFallback tried
\* again after it was switched off: for CameraCapture an attempt is a fresh one
\* whatever happened since the click, and the code lets it run.
CameraOffIsOff ==
    "camera" \in page.live =>
        ~hidden /\ ("camera" \notin page.off \/ Pending(page, "camera", "click") \/ page.reopened)

\* Once the page is in the meeting (while it publishes, producers start live), who
\* is muted, or in a private conversation, is not heard by the room.  A task that
\* was switching the microphone on at that moment may undo the muting: slipped.
\* What track.enabled adds is left out, the producer alone has to be silent.
Heard == page.sent["mic"] = "sending" /\ "mic" \in page.live
MutedIsSilent == ("mic" \in page.off \/ page.talk.on) /\ phase = "in" /\ ~page.slipped => ~Heard

\* A screen is captured only while the page shows that it is shared, and never
\* when the host does not allow it.
SharingIsAllowed == "screen" \in page.live => page.sharing /\ "screen" \in allow

\* A dropped session is restored or given up.
RestoredOrGivenUp == phase = "restoring" ~> phase \in {"in", "waiting", "over"}

=============================================================================
