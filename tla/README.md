# QS-VC: formal verification

TLA+ models of the QS-VC video conferencing code, the TLC configurations that check them on small instances, and
TLAPS proofs for every instance. Everything is translated from the source in `src/`; `PROJECT.json` names, for each
definition, the lines it stands for.

    tlc -workers 2 -config room_owned.cfg MCMeetingRoom.tla      # one run
    tlapm MeetingRoomProofs.tla                                  # the proofs of a module

Contents: [the system](#the-system), [plan](#plan), the modules [MeetingRoom](#meetingroom),
[Gateway](#gateway), [PrivateConversation](#privateconversation), [GroupKey and KeyEpochs](#groupkey-and-keyepochs),
[MediaPlane](#mediaplane), [RecordingLinks](#recordinglinks), [Captions](#captions),
[Sessions and Accounts](#sessions-and-accounts), [Meetings](#meetings), [MeetingPage](#meetingpage), then [runs](#runs), [bounds](#bounds), [fairness](#fairness),
[proofs](#proofs), [known gaps](#known-gaps-of-the-code), [not modelled](#not-modelled).

## The system

QS-VC is a set of Node services around a web client. A meeting is a *room* in the signaling service; media flows
through mediasoup in the SFU; accounts, meetings and recordings have a service each.

| Component | State it keeps | Operations | Hard behaviour | What makes it correct | Module |
|---|---|---|---|---|---|
| **Signaling: rooms** `signaling/src/room-manager.ts`, `rpc/handler.ts` | rooms by id and code; peers, roles, waiting room, `hostPeerId`, `hostStarted`, settings; two kinds of timer | join, admit, reject, kick, lock, change role, end, leave, disconnect | handlers await the database, the meeting service and the SFU, and re-read little afterwards; the close event of a socket overtakes its own join | one host, who is inside; approval and settings hold against entries in flight; nobody stays behind a closed socket; empty rooms go | `MeetingRoom` |
| **Signaling: private conversations** `rpc/handler.ts` | the conversations of a room, their state, the mute state before them; public and private producers; the recording | invite, accept, mute, end; the timer; publish, consume, close | acceptance and ending are sequences of SFU calls that others interleave with and that may fail | a person is in one conversation; private audio stays in the pair and ends with it; acceptance and time limits resolve | `PrivateConversation` |
| **Signaling: key relay** `rpc/handler.ts`, `room-manager.ts` | `e2eeKeyHolderPeerId`, each peer's bundle and `e2eeKeyReady` | register, distribute, acknowledge, elect | holders leave while a key is on its way | the seat of the holder is filled by somebody present and able; the key moves on | `GroupKey` |
| **Web: group key** `web/src/lib/e2ee.ts`, `pages/MeetingRoom.tsx` | group key, holder, known bundles, queued rotations | make, wrap, rotate, distribute, install | rotations, wrapping and unwrapping run side by side with the holder's changes | everybody gets a key; who left gets no later one | `GroupKey` |
| **Web: frames** `web/src/lib/e2ee-frame.ts` | frame counter, current and retired key, replay windows | encrypt, decrypt | retired keys, reordering, counter end | no nonce used twice, no frame accepted twice | |
| **SFU** `sfu/src/index.ts`, `mediasoup/*.ts`, called by `signaling/src/sfu-client.ts` | rooms, peers, transports, producers, consumers, a closing timer | create, produce, consume, close, remove | creation awaits the worker while peers and rooms are removed; callers give up and the call still takes effect; workers die | one live room; nothing outlives its peer; emptied rooms close | `MediaPlane` |
| **Gateway** `signaling/src/ws-attach.ts`, `ws-tickets.ts` | tickets; connections counted per address; per connection: session, message queue, heartbeat | ask for a ticket, upgrade, authenticate, request, ping, close, sweep | sweeps while sockets open and close; sessions that end, and an auth service that does not answer, between requests; networks that vanish | counts are exact; an ended session is not served; a dead socket goes | `Gateway`; order of requests in `MeetingRoom` |
| **Captions and speech** `signaling/src/captions.ts`, `asr-relay.ts` | captions, choices, transcript lines, cached and pending translations, slots; speech sessions | publish, subscribe, pull, save transcript, start and stop speech | translations outlive the caption state they were begun in; answers are shared | one request per translation, slots come back, the transcript is handed over once | `Captions` |
| **Recording** `recording/src/app.ts`, `storage.ts` | objects: recordings, share pointers, markers; upload slots | upload, share, revoke, delete, view | several requests on one recording, each a sequence of object writes | a withdrawn link stays dead; a link works; slots come back | `RecordingLinks` |
| **Auth** `auth/src/*.ts` | sessions, in the preferences of an account; enterprise terms | sign in, validate, end, read and update preferences, approve | session list at its limit; preferences written back after others signed in or out | who signed out stays out; the newest session is accepted | `Sessions` |
| **Web: account session** `web/src/lib/session.ts` | the token in two storages, profile, requests, sign-in and sign-out under way | sign in and out, revalidate, hear of other tabs | answers, channel messages and storage events arrive in any order | a tab shows the account whose token it uses | `Accounts` |
| **Meeting** `meeting/src/*.ts`, `signaling/src/meeting-policy.ts` | meetings, invitations, guest links in SQL | create, edit, cancel, invite, answer, revoke, check access, report | checks and writes are separate statements; reports of the room arrive late or never | cancelled and revoked are final | `Meetings` |
| **Web: meeting page** `web/src/pages/MeetingRoom.tsx`, `lib/media.ts`, `camera-capture.ts` | phase of the session, refs of devices, producers, mute state, sharing, private conversation | join, restore, open devices, publish, mute, share, leave | devices open, are tried again, and producers are accepted after the session, the host or the person changed their mind | nothing is captured outside a session; off means off | `MeetingPage` |
| **Web: connection** `web/src/lib/signaling.ts` | pending requests | call, notify | answers after time-outs | requests and notifications keep their order | channel of `GroupKey` |
| Collaboration, polls, chat; SFU cascading; other pages; desktop; Poly bridge, MCU; ASR and MT services; shared libraries | | | | | |

How they interact: the client opens a WebSocket to signaling with a ticket, and calls `joinRoom`. Signaling asks the
meeting service for the policy and the caller's access, and the SFU for transports, then registers the peer or puts it
in the waiting room, and reports the start and end of meetings to the meeting service. `produce` and `consume` pass
through signaling to the SFU by HTTP. Group keys pass from client to client through signaling. Everything the service
tells other clients is a broadcast after the state change. When a socket closes, `ws-attach` calls
`handlePeerDisconnect`. The recording and auth services are called by the browser alone.

The signaling service, the SFU and the page are one thread of JavaScript each, so a handler runs undisturbed from one
`await` to the next. Requests of one connection are handled in order (`messageChain` in `ws-attach.ts`); requests of
different connections interleave at the awaits; the close event does not wait for the connection's own request. The
recording, auth and meeting services interleave at their calls of the store or the database.

Which models compose: `GroupKey` puts service, sockets and clients together; `MediaPlane` the SFU and its caller;
`Accounts` the auth service of `Sessions` and tabs; `Meetings` meeting service and room. `MeetingRoom` and `PrivateConversation`
see the SFU only as a call that answers or fails, `MeetingPage` the service only as what it may answer and say.

## Plan

Done: all modules below; every safety invariant and action property that a passing run checks is proved, and `GroupKey` is shown
to implement `KeyEpochs`.

Left, in order of importance:

1. Further refinements: what a meeting promises its participants, as an abstraction of `MeetingRoom`; a private
   conversation, as one of `PrivateConversation`.
2. The page's side of `Gateway`: `SignalingClient`, its replaced sockets and changes of account (see the known gaps).
3. `FrameReplay`: counter, key grace and replay window against a reference set of accepted counters.
4. The page's recording flow and the translation client.

## MeetingRoom

State and code:

| Variable | Code |
|---|---|
| `room`, `created` | the entry of `codeToRoomId` for the meeting code; room ids are never reused, so they are numbered |
| `role`, `waiting` | `room.peers` with `peer.role`; `room.waitingRoom` with `awaitingHost` |
| `hostPeerId`, `hostStarted`, `locked`, `maxParticipants` | the fields of `RoomState` and `RoomSettings` |
| `emptyTimers`, `releaseTimers` | the pending 60 s timers of `removePeer`; the 250 ms timers of `joinRoom` |
| `sock`, `bound`, `roomOf` | `ws.readyState`; `connectionState.peerId`/`roomId`; the room a connection's handlers work on |
| `pc`, `target`, `newRole`, `todo` | where the request handler of a connection waits, and the locals it carries over the await |
| `admitting`, `closeHandler` | `admittingPeers`; the progress of `handlePeerDisconnect` after the close event |

Actions are pieces of handlers between awaits: `JoinRoom`, `PolicyLoaded`, `AccessVerified`, `DirectJoin` and
`JoinRefused` are the stages of `joinRoom`; `AdmitPeer`/`AdmitAll`/`AdmitAnswered`, `KickPeer`/`KickAnswered`,
`ChangeRoleAwaits`/`ChangeRoleAnswered`, `EndMeeting`/`EndNext` and `LeaveRoom`/`LeaveAnswered` the two halves of theirs;
`RejectPeer`, `UpdateSettings` and `ChangeRole` have no await. `AddPeer`, `RemovePeer`, `EnterQueue` and `ChangePeerRole`
are the methods of `RoomManager`.

What is abstracted:

- A connection joins at most once successfully; a client that comes back is another connection of the same user. Peer ids
  are fresh for every join, so nothing is lost but the limit of five join attempts.
- Times: the timers may fire at any moment after they are armed. The code relies on no bound between them.
- "The longest-present peer" who takes over an ad-hoc room is any peer that is eligible, so the order of the map is
  not kept. Properties hold for every order.
- `admitWaitingPeer` registers the peer and deletes its waiting entry in one piece of code; so does `AdmitAnswered`.
- A change of role that ends conversations first is `ChangeRoleAwaits`; which conversations is
  `PrivateConversation`'s subject.
- Not in the module: webinars, persistent SIP rooms and `keepWaiting`, the cap on rooms, the meeting's status in the
  database, admissions by the Poly bridge, chat and other settings.

## Gateway

| Variable | Code |
|---|---|
| `requireTerm`, `ended` | `QSVC_ENTERPRISE_TERMS_REQUIRED`; the sessions that the auth service knows to have ended |
| `user`, `ticket` | the session a page connects with; its ticket, from the request to its redemption or expiry |
| `client`, `link`, `server` | the two ends of the socket, and whether the network still connects them |
| `known`, `active`, `counted` | keys of `ipCounts`; `record.active`; `connections` |
| `handling`, `authed`, `fresh` | where the message at the head of `messageChain` is; `authenticated`; `verifiedAt` less than 15 s ago |
| `isAlive`, `checking` | `isAlive`; the verification of a pong and `nextTermCheck` |

`Connect` is the `connection` handler, with the sweep it may run; `Closed` the close event; `Cleanup` the ten-minute sweep.
`Authenticate`, `AuthVerified`, `HandleRequest`, `Rechecked` and `Served` are the message handler between its awaits; `TooMany` the
two limits that close. `LinkBreaks` is a network that vanishes without telling either end: only the heartbeat notices it.

What is abstracted: an answer of the auth service and its arrival are one step, so a verdict is as old as its arrival; a
page has one message under way, and queued ones are handled as if they came later; the limits on upgrades, on all
connections and on joins are choices, as are the windows' ends; messages that are no protocol of the page are left out,
as are the origin check and the meeting code of a ticket. Which session a ticket stands for never changes, so a ticket
is a stage of its connection.

## PrivateConversation

The room is there and everybody is inside; who enters and how is `MeetingRoom`'s subject. State:

| Variable | Code |
|---|---|
| `role` | `peer.role`, and `"none"` for who was removed; the host role and `hostPeerId` are one |
| `open`, `talk` | `room.privateConversations`, and the objects handlers still hold after they left the map |
| `audioMuted`, `mic` | `peer.audioMuted`; the public microphone in `peer.producers` and whether the SFU has it paused |
| `privateAudio`, `listeners` | private producers in `peer.producers`, and who has a consumer of them |
| `recording` | `room.recording` |
| `ending`, `caller` | how far `finishPrivateConversation` has come with a conversation, and who awaits it |
| `pc`, `work` | where a peer's request waits, and for which conversation |
| `departure` | the progress of `handlePeerDisconnect` of a peer |

`finishPrivateConversation` is called from eight places. It is one set of actions (`BeginEnding`, `EndingAnswered`), whose
SFU calls are numbered 1 to 4, and `Resume` goes on with what its caller does afterwards. A caller goes on before
anything else happens (`Next` gives `Continue` precedence), as a continuation of the same turn of the event loop.

What is abstracted:

- One public microphone and one private producer per conversation and peer, which is what the client publishes; camera
  and screen have no part in conversations.
- An SFU call takes effect when it answers or, where `SfuMayFail`, fails without effect. Calls that time out in
  signaling but still take effect in the SFU are `MediaPlane`'s subject.
- A producer is in `privateAudio` from its registration in signaling on: only then others may consume it.
- `endsAt` having passed with the timer still due is the second case of `SetPrivateMuted`.
- Roles without the limit on co-hosts and without anyone joining; of several co-hosts any may succeed the host.
- The removals from the SFU in `endMeeting`, one call for each peer, are one step.

## GroupKey and KeyEpochs

A peer is one stay in the meeting: who comes back has another identity. Keys are numbered as they are made. State:

| Variable | Code |
|---|---|
| `inside`, `gone`, `bundle`, `ready`, `holder` | `room.peers`, those removed from it, `e2eeKeyBundle`, `e2eeKeyReady`, `room.e2eeKeyHolderPeerId` |
| `unannounced` | peers removed by `kickPeer` whose socket has not closed |
| `inbox`, `outbox` | the two directions of a socket, which keep their order |
| `known`, `ref`, `handover` | `e2eeBundlesRef`, `e2eeKeyHolderRef`, `lastHolderHandoverFrom` |
| `key`, `tasks`, `due` | the installed key; envelopes being wrapped or unwrapped; rotations queued behind the promise `rotation` |
| `made`, `had`, `goneAt` | history: the keys made, who ever had which, who had left when each was made |

`RegisterKeys`, `DistributeEpochKey`, `E2eeKeyReceived`, `Leave`, `Kick`, `CloseKicked` are the service's handlers, none of
which awaits between its checks and its effects on keys; `OnJoined` to `OnPeerLeft` the client's message handlers;
`WrapDone` and `AcceptDone` what follows the answers of WebCrypto, in any order. A rotation starts when the one before it
has been answered. `electE2EEKeyHolder` prefers by role among the candidates; roles change under other requests, so
any candidate may be chosen. Which keys one can open is a relation, not a computation. Requests that the service
refuses change nothing but the outbox.

`KeyEpochs` is what the protocol promises, whoever relays: keys start with who made them, pass only from somebody who has
them, and never to somebody who had left when they were made. `KeysAsPromised` is that `GroupKey` implements it, with
the members being those inside.

## MediaPlane

| Variable | Code |
|---|---|
| `registered`, `creating`, `made`, `open` | `rooms` and `coalesceRoomCreation`'s map for one room id; the `Room` objects made, numbered, and which of them are not closed |
| `members`, `timers` | `room.peers`; the 60 s timers of `Room.removePeer`, which are not cleared |
| `transports`, `producers`, `consumers` | those the worker has open; `orphan` marks a transport created for a `Peer` object that was closed |
| `calls` | requests that the SFU has not answered, and whether they wait for the router or the worker |
| `phase`, `published` | where `joinPeerToRoom` or `handlePeerDisconnect` is in signaling |
| `dying`, `crashes`, `cut` | a dead worker's two seconds before the process exits; restarts; who was there at one |

A call may be lost before it arrives, fail, or time out at its caller (`TimeOut`) while the SFU goes on with it. A router
that fails refuses everybody who shared its creation. Closing a transport closes what is on it: that is mediasoup's
behaviour, as the code relies on it. Abstracted: the import of `peer.js`, which the first transport request awaits between
looking for the peer and adding it, is immediate; one producer for each peer; connecting transports, pausing, layers and
statistics, which no property here is about; room ids other than the one of the meeting.

## RecordingLinks

| Variable | Code |
|---|---|
| `file`, `pointers`, `marker` | objects `<id>.webm`, `shares/<hash>.json`, `<id>.share.json` |
| `request` | where each request stands between the calls of the store, and the token it read or brought |
| `uploads`, `held` | the counter `uploads`, and which responses have not released their slot |
| `issued`, `rivals`, `withdrawn` | history: tokens handed out; tokens whose share ran beside another change, or was followed by one; tokens a confirmed change should have ended |

`BeginUpload` to `Compare` and `Release` are the upload; `Locate`, `Erase`, `ReadMarker`, `Unmark`, `Unpoint`, `Point` and
`Mark` the stages of share, revoke and delete, which share `revoke`; `View` is a viewer's three reads. A call of the store
may fail with or without effect, and the service may restart between any two. Tokens are random, so each share has its
own. The store's single calls are atomic. The content type of what was uploaded is a choice.

## Captions

| Variable | Code |
|---|---|
| `status`, `speech` | where a peer is between `joinRoom` and the end of `handlePeerDisconnect`; the sessions of `asr-relay.ts` |
| `current`, `made` | the entry of `rooms` in `captions.ts`; the states made for it, numbered, as jobs keep a reference to theirs |
| `captions`, `choice`, `saving`, `lines` | of the current state: final captions with the speaker's consent, subscriptions, transcript saving and its lines |
| `active`, `cached`, `pending`, `calls` | of each state: slots in use, kept translations, shared answers, requests at the provider |
| `jobs` | pushes and pulls between their awaits |
| `said`, `handed` | history: lines spoken while saving; how often a line was handed to the store |

A job waits for the provider's languages first, then for a translation, which it asks for or shares. `FinishRoom` drops the
state, when the last one leaves or when it was idle for ten minutes; jobs of a dropped state give their slots back to it.
The languages fit (`JobFails` if not); speech recognition is a choice of segments; rates, and the limits on what a state
keeps, are not reached.

## Sessions and Accounts

`Sessions` is the row of one account at the auth service, `Accounts` extends it with the tabs of a browser.

| Variable | Code |
|---|---|
| `sessions`, `latest` | `_authSessionIds` and `_authSessionId` of the account's row; the list is in the order in which sessions are made, so it is kept as a set of their numbers |
| `made` | how many sessions `createSession` made |
| `copies`, `updates` | lists in preferences that applications have read; lists in `PATCH /api/auth/me` requests between `verifyToken` and the `UPDATE` |
| `ended`, `restored` | history: sessions signed out, and those of them that a list written back has restored |
| `local`, `own` | the token in `localStorage`, and in each tab's `sessionStorage` |
| `shown` | the snapshot a tab publishes, and whose session's profile it holds |
| `requests` | profile requests; `pending` is the one a tab would share; raising the generation forgets them |
| `signin`, `signout` | `beginSignIn` and its cancellation; `signOut` between its request and its end |
| `messages`, `events` | the broadcast channel and the storage events, to each tab |

`CreateSession`, `EndSession` and `UpdatePreferences` are the three statements that write the row. `GET /api/auth/me` shows the
list but not `_authSessionId`, and `PATCH` merges the preferences it is sent over the row, all but `_authSessionId`: so an
application that reads preferences and writes them back (`ReadPreferences`, `BeginUpdate`, `UpdatePreferences`) replaces the list by an
older one. Applications write back lists they have read, nothing else. `SignedOutIsOut` speaks of the sessions that no such
update restored; that one restores a session is a [known gap](#known-gaps-of-the-code), and the history `restored` confines it.

Every request of a tab may fail or be lost; tabs reload at any time, and `Elsewhere` lets other devices of the account do
whatever `Sessions` allows. Channel and storage events are separate queues, so either comes first. A token stands for its session, and expiry is not modelled.

## Meetings

| Variable | Code |
|---|---|
| `kind`, `status` | `meetings.status`, and whether the meeting has a host and a schedule |
| `invitation`, `response`, `link` | `meeting_invitations`, an answer between its read and its write, the guest token and its count |
| `started`, `join` | `room.hostStarted`; where each person's `joinRoom` stands, and what it has learnt |
| `reports` | `reportMeetingStatus` calls under way |

Queries are atomic, handlers interrupted between them. Signed invite tokens, a third way to pass the access check beside
guest links and invitations, are left out: they are verified without reading any state. Reports arrive in any order or
not at all; access checks may go unanswered. `InvitationsVisible` is whether the database role of the service sees
invitations without a tenant set, which depends on the deployment. Entering and waiting are as coarse as the properties
allow; `MeetingRoom` has the detail.

## MeetingPage

`phase` is the session's stage, `failures` the reconnections in a row, `carried` what was off when the session dropped,
`hidden` and `allow` the document's visibility and the host's settings. `page` holds the refs of the mounted session:
`off` (`audioMutedRef`, `videoOffRef`), `live` (capturing tracks), `relay` (`media.canSend`), `sent` (producers and whether
they are paused), `sharing`, `talk` (the private conversation), `tasks`, `slipped` and `reopened` (history, see below).

A *task* is a device being opened or a producer being asked for. It is `fresh` while its session goes on, and `wanted`
while nobody has switched its camera off or ended its conversation. `Opens`, `Accepted` and `Fails` are what follows its
await, by source and by who asked: the join, a click, or a device that ended. `Retries` is the next attempt of
`startCameraWithFallback`: the camera was busy, missing or too slow, and `CameraCapture.start` is called once more. As each
call takes a revision of its own, the attempt is `wanted` again (`NextAttempt`). The code makes two or three; they are not counted. `Stopped` is the teardown of a session:
tasks that open a device outlive it, producers do not. `MicMuted`, `CameraOff`, `ShareStopped` and `Paused` are
`applyMute`, `applyCamera`, `stopScreenShare` and `setPaused`.

`slipped` marks that the microphone was muted while a task was about to switch it on, which the code lets undo the muting
(see the known gaps); `MutedIsSilent` excludes that case. It speaks of the phase `"in"` alone: while the page publishes,
producers start live, and are matched to what is off at the end (`Connected`). `reopened` marks that the camera that runs was
switched off and then tried again, a known gap which `CameraOffIsOff` excludes; `again` of a task remembers that its camera
was switched off since it was asked for. Not in the module: `track.enabled`, with which the
page silences tracks beside their producers (the properties ask for silent producers); recording, backgrounds, noise
suppression, the display of others, and `reconnection-manager.ts`, which no page uses.

## Runs

| Run | Question | Instance |
|---|---|---|
| `room_owned` | approval, one host and lawful succession, no ghosts, in a meeting with an owner | owner, platform admin, invited co-host; capacity 2, one co-host |
| `room_live` | peers go, waiters are released, rooms are deleted; lock and capacity hold | owner and a user; two rooms one after the other; fairness |
| `gateway` | exact counts, ended sessions refused, dead sockets go | two connections, one session and guests, two addresses; one record, one socket per address; fairness |
| `talk_pairs` | nobody in two conversations | host, co-host, two members; two conversations; the co-host may go |
| `talk_media` | private audio ends with its conversation; acceptances and time limits resolve | host, who may go, speaking co-host, member with a microphone; one conversation; failing SFU calls; fairness |
| `keys` | the holder's seat, accepted envelopes, everybody keyed, the refinement | three stays, one of them may be kicked |
| `media` | one live room, no orphaned media, joined on one router, emptied rooms close | two peers, three rooms, one crash; fairness of the timer |
| `links` | withdrawn links are dead, others open | two uploads served one at a time, three changes, one viewer, one fault |
| `captions` | translations once, slots returned, transcript kept | an English and a Hindi speaker, one segment each, offered in Hindi; two slots, one speech session, two states |
| `accounts` | signed out is out, the newest session is accepted; tabs settle | five sign-ins to a list of three, two different lists read; two tabs, two sessions |
| `meetings` | cancelled and revoked are final | owner, a member with an invitation and the guest link, a guest; quick and scheduled meetings; one use, one report of each kind |
| `page` | nothing captured outside sessions; camera, microphone and screen off when off; restored or given up | one failure in a row, two tasks beside those of the join, a host who allows all or nothing |

## Bounds

- *Three connections* (rooms): a host, somebody who succeeds them or competes with them, and somebody they act upon.
  Capacity 2 of 3 and one co-host put both limits within reach; the limits themselves are constants.
- `MaxRooms` in `MeetingRoom` bounds the rooms created for a code. One is enough for all safety properties, as a room's
  state starts afresh; `room_live` has two so that handlers, timers and connections of the first meet the second.
- `MaxTracked`, `MaxPerIp` (gateway): with one record for two addresses every second address finds the table full and sweeps,
  and each address is at its limit with its first socket. The two connections meet in the counts only.
- `MaxTalks`: two conversations can cross, in either direction or after one another; with three, nothing new can share a
  peer under `OneTalkEach`. One is enough to follow private audio, which is kept per conversation.
- `Locks` and `GivenRoles` are the values that lock and role requests take: the lock is tried in
  `room_live`, and the role `guest` is left out of the requests, since nothing in the room tells it from `member`.
  What tells guests apart is who takes the seat of an ad-hoc room when no signed-in person is left; no run has guests
  or an ad-hoc room, the theorems have any.
- `Leavers` are the peers who may leave or be kicked: the co-host in `talk_pairs`, so that conversations of a departing
  peer, as initiator and as target, meet those of the others; the host in `talk_media`, whose departure ends
  conversations in every state and moves the role. The end of the meeting removes everybody regardless.
- `Publishers` and `Speakers` say who publishes: in `talk_media` one peer has a public microphone, another private audio,
  and both roles of a conversation fall to the speaker. `Unlimited` differs between the peers, so that the limit is seen
  to be the initiator's. In `talk_pairs` both are empty: neither is read by the code that decides who may be invited.
- `Peer` and `Kickable` (keys): with three stays the holder can hand over to one while the other waits, and again; the
  one who may be kicked can be holder, next or last. Keys and rotations are bounded by departures.
- `MaxRooms`, `MaxCrashes` (media): a room before, at and after a crash, or three emptied one after the other. Two peers
  are one who joins while the other leaves; transports, producers and consumers are kept per peer.
- `MaxUploads`, `MaxFaults` (links): two uploads compete for one slot; three changes are two that run side by side and a
  third that meets what they left; one fault at any call, as the code retries nothing.
- `RoomConcurrency`, `MaxSpeech`, `MaxStates` (captions): two jobs of one translation at once, a second speech session
  that finds no room, a state made while jobs of the one before it run.
- `MaxKept`, `MaxSessions`, `MaxCopies` (accounts): a list of three carries two older sessions over each of two sign-ins at the
  cap; of two different lists that are read, each can be written back after the other.
- `Scope` (accounts) is a state constraint: the tabs are used while there are two sessions at most, no list has been read, and
  two messages or events are on their way to a tab; beyond that other devices go on alone. Two sessions are an old token
  and a new one, and of the service's state the tabs see only whether theirs is accepted; that other devices sign them out
  is within the scope. The theorems have neither this constraint nor the bounds.
- `MaxUses`, `MaxReports` (meetings): two guests, one use; a report of each kind under way. Where a second report would
  exceed the bound, entering or ending waits for the first to arrive or be lost.
- `MaxFailures`, `MaxTasks` (page): a reconnection that succeeds, and one too many; clicks and unplugged devices add tasks
  up to two, the join and private conversations always may. Attempts to open a camera are not bounded.

Deadlock is not checked: the models end when everybody has left, joined once and used up the bounds.

## Fairness

Nothing a user does is fair. Node runs armed timers: weak fairness of the timers in `room_live`, `talk_media`, `media` and `gateway`, whose closings and verifications end by
their time-outs (`ws`, and three seconds in `verifySession`); pongs are not fair, and neither are the page's closes.
SFU and service calls end within their time-outs (`sfu-client.ts`, `meeting-policy.ts`), so the rest of a handler runs:
weak fairness of every answer in `room_live` and `talk_media`. A socket that closes delivers its close event. `Answers(p)`
is fair as one, since a connection has one request in flight; the answer to a departure has fairness of its own, as it
runs beside that request. On the page, the reconnection timer fires (`Remount`), a join is answered or times out (which of
its outcomes, is open), devices and producers of a join are opened, refused or time out (`device-access.ts`,
`signaling.ts`), however often a camera is tried again, and what waits for all of them goes on (`MediaReady`).

`EveryoneKeyed` is stated of quiet states rather than with fairness: every step of `GroupKey` uses up a message, a task, a
rotation or an arrival, so every fair behaviour becomes quiet.

## Proofs

All theorems hold for any values of the constants that satisfy the assumptions of the module.

`MeetingRoomProofs`: type correctness, `OneHost`, `HostIsInside`, `AdHocSeatTaken`, `InsideOrWaiting`, `NoGhostPeers`,
`CoHostLimit`, `EntryRespectsSettings`, `NoEntryAfterGoodbye`, `HostSuccession`, and `EntryIsApproved` for owned meetings.
The assumptions are a finite set of connections (for the cardinalities), owners and admins among the signed-in
connections, positive capacities. The invariants are not inductive alone. `IInv` adds what a handler may rely on after
its await:

- `Presence`: who is inside or waits is bound to the room that exists now. Without it a handler of an earlier room could
  remove somebody from a later one.
- `Joining`, `Gone`: a connection in the middle of `joinRoom` is neither inside nor waiting, and one that left has nothing
  left to remove. So registration never registers twice.
- `Closing`: the close handler of an open socket has not run. With the check of `readyState` in `joinPeerToRoom` this
  gives `NoGhostPeers`.
- `Demotion`: a role that `changeRole` carries over its awaits is never `host`.
- `Doors`: an owned meeting that has started has somebody inside, and a direct join in flight is an owner's or admin's.
- `Seat`: `OneHost`, `HostIsInside` and `AdHocSeatTaken` are inductive only together, as each mutator of `RoomManager`
  changes `role` and `hostPeerId` in one go.

The proof goes through the four mutators first (`AddPeerSeat`, `RemovePeerSeat` and their like), then through the actions,
one step each. `CoHostLimit` and the action properties follow from `IInv`.

`GatewayProofs`: the types, `CountsKept` and `EndedIsRefused`. `CountsKept` needs `Recorded`: the record a socket is counted in is
there. A sweep keeps that because a record with a counted socket is not idle, which in turn is `CountsKept`; so a late
close event never meets a record made anew. `EndedIsRefused` follows from the types alone: each way to the handler passes
a verification that is fresh or just confirmed.

`PrivateConversationProofs`: the types and the three safety invariants, with SFU calls that fail or not. `OneTalkEach` needs `Started`, that
a conversation in the map is one that was started: then a conversation that starts is not there yet, and `MayStart` has
looked at all that are. Every other step satisfies `SameTalks`: conversations only leave the map and keep their pair. The
types need `AtWork`: a handler that waits on behalf of a conversation has one, and one that goes through the two
microphones stands at the first or second. `LivePrivateAudioInTalk` is not inductive: an end that has passed a peer's
private audio must not find it live again. `Reached` says so: audio that is live, or that a mute request under way may
make live, is of a peer who is present and in the pair, in a conversation that is on or whose end has yet to come to it
(`StillToClose`). `OnTalk` gives this to the handlers that wait: who waits to publish or mute belongs to the conversation,
who waits to listen is the other one of the pair, which is `OnlyPairListens` when the consumer comes. `Pairs` makes sure
that a conversation has two different peers and that one not yet started has neither audio nor an end.

`GroupKeyProofs`: the types, the refinement `KeysAsPromised`, `NeverForTheDeparted` and `HolderElected`. The invariant is `TypeOK`, `Apart`
(nobody is inside and gone, and a key's `goneAt` is among the gone) and `Flow`: only holders of a key wrap or distribute it,
and whatever carries it, at any stage on its way, carries it to somebody who may have it. `Flow` is where a departure
matters: an envelope for somebody who left meanwhile is harmless exactly because its key was made before. `HolderElected`
needs only that who registered has come in at some time (`SeatInv`), so a newcomer is not registered yet.

`EnvelopesAccepted` and `EveryoneKeyed` are about messages still in the queues, so their invariants read a client's inbox
as a stream. `Stands` says of a position in it that the client will believe something when it gets there: it does now, or
is told so by a message before that position and by none after that told otherwise. `Heard` uses it twice: at the end of
its inbox each client inside takes the holder for the holder and knows everybody registered (`Attends`), and when it gets
to an envelope it takes its sender for the holder and knows them. The service keeps the second for a new envelope because
it forwards only the holder's, and the first was true of the inbox the envelope is appended to. Taking a message out moves
every position by one, which the lemmas of `Stands` do once for all kinds of messages.

`Keyed` says where a key still is for somebody registered without one (`Supplied`): being unwrapped, in the inbox, being
wrapped by the holder, in the holder's outbox, or promised by the holder, who has a rotation due or is appointed by a
message in its inbox with the new member known by then (`Rotates`), or has yet to answer the new member's identity with
a key that it has or makes before (`Answers`). `Provides` adds that the holder has or makes a key. A hand-over is
where this could break, as envelopes of the old holder may be lost with it: the message that appoints the new holder
makes it rotate for everybody it knows by then, which `Heard` says is everybody. `Obituaries`, that only those gone are
reported as gone, keeps the registered among those the holder knows. In a quiet state every
case of `Supplied` is empty, so everybody registered has a key.

`MediaPlaneProofs`: the types, `OneLiveRoom`, `NoOrphanMedia` and `JoinedOnOneRouter`. `OneLiveRoom` needs that no creation
runs while a room is registered (`OneCreation`), and media that a call under way, its transport and its room agree
(`InOpenRoom`, `Owned`). `JoinedOnOneRouter` needs `Seated`: a peer has its place and its first transport in the registered
room from the moment the second is asked for (`SeatOf`), and every removal under way is of a peer that leaves (`Removals`).
The room of a seated peer is not empty, so the timer of an earlier emptiness finds it occupied.

`ServiceProofs` has two parts, the meeting service and the recording service.

- *Meetings*: the types, `UsesBounded`, `CancelledIsFinal` and `RevokedStays`; the last two are facts of single steps, but for
  the read that `response` remembers. `CancelledNeverHeld` and `RevokedLinkOpensNothing` say that once something is so it never
  happens again. Each is proved from a state predicate that no step leaves: `CalledOff`, cancelled with nobody in and nobody
  on the way in, and `Uninvited`, the link revoked and no guest counted or found invited by it.
- *RecordingLinks*: the types, `UploadSlots`, `AccessEnds` and `LinkOpens`. The core of `AccessEnds` is `Withdrawal`: from the
  moment a change is confirmed the marker names none of the tokens it withdrew, and never will again, as each share writes
  only its own. `Remembered` carries that to viewers, who bring a token and are past the check of the marker or not.
  `LinkOpens` needs `Undisturbed`: a share without rivals runs alone (`Alone`), has found the file and written its pointer by
  the time it writes the marker (`Creating`), and once its token is handed out all three objects are there (`Created`), for
  what any other request may do to them, it does as a change of the links, which would be a rival.

`CaptionsProofs`: the types, `SlotsReturned`, `OnceEach`, `TranscriptKept` and `SpeechEnds`. `Slots` counts jobs state by state;
`Shared` says that a request at the provider is exactly a pending translation; `Fresh` that states not yet made are empty;
`Known` that lines and jobs belong to captions that were published.

`WebClientProofs` has three parts: the meeting page, the sessions of an account and its tabs.

- *MeetingPage*: the types, `NothingCapturedAfterwards`, `CameraOffIsOff`, `MutedIsSilent` and `SharingIsAllowed`, all from one
  invariant, `PageInv`. What the four say of tracks and producers is not inductive, because each of them is switched on by a
  task that was begun earlier. So `Sound` says of every task what may still come of it: one that outlives its session only
  opens a device, which it then stops (`Outdates`); while joining only the join has tasks (`JoinTasks`); a camera that the
  join has wanted all along, and not only since it was tried again, is on (`CamJoin`); a task that would switch the microphone on belongs to a click or to a microphone that
  has not been muted since, or is marked as `slipped` (`MicTasks`, `Talk`). Most handlers change the page several times in a
  turn; the definitions take the page as an argument, and a lemma for each helper (`MicMuted`, `CameraOff`, `ShareStopped`,
  `Paused`, a task begun or done) says that it keeps a page sound, so that handlers are proved by composing them.
- *Sessions*: the types, `SignedOutIsOut` and `NewestIsAccepted`. The types bound the list of sessions: the sessions kept have
  different ranks in it, so there are at most as many as ranks (`KeptBound`). `Served` adds that lists, read, on their way or
  kept, have only sessions that were made, so a new session is in none of them; that a session in the list that was signed
  out is one restored; and that `latest` is the last session made unless that was signed out, and never one signed out.
- *Accounts*: the types, `TabsSettle`, and `TabsKeepSessions`: a step of a tab is a step of `Sessions` or leaves the service
  alone, so the theorems about sessions hold with the tabs. `TabsSettle` needs `InTouch`: a tab without a storage event
  to hear shows the account of the token it would use, or has a request about that token under way. A step of one tab keeps it
  for another because every change of the shared token sends the other an event (`Unaware`).

A proof module holds two components where their proofs are about one side of the system; the models themselves are
independent, and their names are distinct.

Only model-checked:

- the liveness properties, since the prover has no fairness: `GonePeersRemoved`, `WaitersReleased`, `LeftRoomRemoved`,
  `DeadSocketsGo`, `ActivationResolves`, `LimitedTalksEnd`, `EmptiedRoomCloses` and `RestoredOrGivenUp`;
- `EntryIsApproved` in ad-hoc rooms is neither checked nor proved: there the first one in needs no approval, and "empty" is
  decided before an await.

Only proved, and in no run: `HostIsInside`, `AdHocSeatTaken`, `InsideOrWaiting` and `CoHostLimit` of the rooms,
`OnlyPairListens`, `UploadSlots`, `SpeechEnds`, `UsesBounded`, `RevokedStays` and `TabsKeepSessions`.

That every fair behaviour of `GroupKey` becomes quiet, on which `EveryoneKeyed` rests, is an argument (see
[fairness](#fairness)) and not a theorem.

## Known gaps of the code

What modelling showed and no property of a run claims to hold. Properties above are stated so that these do not count
against them, which their comments say.

Rooms

- `joinRoom` adds the waiting entry after two awaits without looking at the socket (`handler.ts:358`). If the socket closed
  meanwhile, its close event found nothing to undo, and the entry stays: the host sees a person who is not there, and the
  room is never empty. `joinPeerToRoom` does look.
- An owner who reconnects before their old socket is dropped joins as a plain member, because the old peer is still host
  (`room-manager.ts:243`). When the old peer goes nobody is host, and the owner has no controls until they join again.
- `changeRole` awaits the end of the target's conversations and then demotes whatever the target is by then
  (`handler.ts:1177`). If the host left meanwhile and the target took over, `hostPeerId` still names the demoted peer, so
  nobody else takes the seat. In the same way `kickPeer` removes whom it ranked before its awaits.
- A room made for a join that was then refused has no timer, and stays until somebody joins and leaves it.
- The return of an owner demotes a host who covers for them without ending that host's recording.

Private conversations

- A public microphone published while the acceptance is in flight goes live during the conversation: `produce` checks
  before its await only (`handler.ts:480`), and the acceptance pauses the microphones it finds.
- A recording can start while an acceptance waits for the SFU, because the conversation is not yet active (`handler.ts:640`).
- Who was muted before a conversation is left paused in the SFU after it (`handler.ts:118`), and `muteStateChanged` resumes no
  producer there. Their unmuted microphone is not heard until they publish it again.
- A conversation started between the end of a departing peer's conversations and its removal names somebody who is gone.
- After a kick or demotion that raced with an invitation, the initiator of a conversation may be no manager.
- The failure of the SFU call that mutes a new private producer leaves a live one in the SFU that signaling does not know.

Group key

- `acceptMeetingKey` that is overtaken by a hand-over installs the departed holder's key over the rotated one
  (`MeetingRoom.tsx:907`), which `e2ee.ts:14` means to exclude. The next rotation repairs it.
- Key ids are one byte (`e2ee.ts:126`), so the 257th key has the id of the first. `e2eeRekey` broadcasts a notice that no
  client listens to.

Media

- The timer of an earlier emptiness closes a room before its 60 s. A transport request that arrives after the removal adds
  the peer again, for good. A room created by `rtp-capabilities` alone is never closed. A transport created for a
  closed `Peer` stays open until its router closes.

Recording

- A deletion that fails halfway answers 404 when repeated; uploading under the same id again then revives the old link.
- An upload whose client closes early frees its slot while the body is still being stored. A presigned URL outlives
  revocation by up to five minutes.

Captions

- The ten-minute sweep (`captions.ts:74`) drops the transcript saving and subscriptions of a meeting that is still running.
- `asr-relay.ts:133` says sessions are stopped when the server mutes a peer; only disconnecting does. The `catch` of
  `startAsr` stops whatever session is under the key, its successor's included. Saving a transcript is best effort.

Accounts

- A channel `logout` or a removed token clears a newer login made meanwhile (`session.ts:88`), although a late answer does
  not. `signOut` of a token that is no longer current tells nobody.
- `PATCH /api/auth/me` drops `_authSessionId` from the preferences it is sent, but not `_authSessionIds`
  (`auth/src/index.ts:512`). Preferences that were read before a sign-out and are written back put the session back into the
  list, and it is accepted again, although `docs/VAPT_EXECUTION.md:16` expects that a revoked session cannot access
  anything. `SignedOutIsOut` and its theorem hold but for sessions `restored` in this way.
- At the cap, `createSession` keeps the oldest entries (`sessions.ts:36`), so each new login ends the session opened
  just before it. After a failed
  request a tab may show the profile of an older token, as unavailable. A rejected enterprise request leaves the plan
  at `enterprise`.

Meetings

- An answer read before a revocation and written after it accepts the revoked invitation (`index.ts:621`).
- The result of counting a use is ignored (`index.ts:353`), so more guests than `max_uses` may be told they are invited; a
  use is counted even if the join is then refused. A link revoked between its look-up and the count still lets that one in. Declined and expired invitations still count as invitations.
- A join that read the policy before the meeting was cancelled goes on, and may start it (`meeting-policy.ts:15`).
- A meeting that started but whose report has not arrived can be cancelled and goes on (`index.ts:1061`).
- `verify-access` looks up invitations without a tenant, which row security may hide. The role `co-host` of an invitation
  is lost through the waiting room. Inviting again resets an accepted invitation to pending.

Page

- A host's mute, a mute or a private conversation that comes while a lost microphone is replaced, or while a click opens
  one, is undone when it is there (`MeetingRoom.tsx:1177`). A host's mute during a private conversation is undone at its end
  (`MeetingRoom.tsx:528`).
- A camera that is switched off, or whose page is hidden and shown, while an attempt to open it fails, is opened by the next
  one: 700 ms after a busy camera, or for the default device, `startCameraWithFallback` (`device-access.ts:122`, `:126`) calls
  `CameraCapture.start` again, whose new revision makes it usable, and `openLocalMedia` (`MeetingRoom.tsx:109`) does not ask
  `wantsCamera` again. `camera-capture.ts:26` says that returning to the tab never restarts a camera without a fresh user
  action. `CameraOffIsOff` and its theorem hold but for a camera `reopened` in this way.
- Under end-to-end encryption `produce` restores after its await the `track.enabled` of before (`media.ts:155`), so a mute
  that comes while the join publishes holds again only when `setPaused` matches the producer to it (`MeetingRoom.tsx:1045`).
- A camera that is hidden while the session is being restored is opened by the next one, if the document is visible again:
  what was off is read when the session drops (`MeetingRoom.tsx:135`).
- Stopping a share while its producer is pending leaves a producer without a track (`MeetingRoom.tsx:1405`).
- A first private publication that fails clears the track of a second.
- The success of an old upload clears a newer pending recording, and a second recording may overwrite it
  (`MeetingRoom.tsx:1485`).

Gateway

- Of two tickets redeemed while the store is still connecting, the second is refused (`ws-tickets.ts:21`).
- A socket that never authenticates stays open, and counted, as long as its page answers pings.
- Where terms are not required, a connection whose session ended stays open until its next request; it goes on hearing
  what is broadcast to its room.
- A page that leaves while it asks for a ticket opens a socket all the same, which replaces the one of the session shown
  by then (`signaling.ts:36`); the replaced socket hears nothing any more, its own close included.
- A ticket that expired before it was redeemed, as after a laptop slept, is refused with the code of an ended session, and
  the page signs out of a session that is still valid (`signaling.ts:81`).
- `wss.clients` holds the new socket already when it is compared with the limit (`ws-attach.ts:110`), so one less fits.

## Not modelled

- *Encrypted frames*: one encoder, sequential code whose tests enumerate the window. *Rates and the page's side of the gateway*:
  see the plan.
- *Collaboration state, polls, chat, reactions*: bounded lists, each updated within one synchronous handler.
- *Webinars, persistent SIP rooms, the cap on rooms; meeting listings, notifications, transcripts, analytics; registration,
  plans, enterprise terms*: single statements over the database.
- *SFU cascading*: no route calls the code that pipes between nodes. *Poly bridge, MCU*: FreeSWITCH's behaviour, and a
  scaffold. *Speech and translation services*: stateless.
- *Other pages and components, desktop client*: user interface over single requests, window management.
- *Shared libraries*: schemas, wrappers of primitives, plan tables. Cryptography is taken as given.
