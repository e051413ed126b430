------------------------------ MODULE GroupKey ------------------------------
(***************************************************************************)
(* The group key of an end-to-end encrypted meeting: the key holder the    *)
(* signaling service elects, and the clients that make, hand out and       *)
(* install the key.                                                        *)
(*                                                                         *)
(* Source: services/signaling/src/rpc/handler.ts and room-manager.ts,      *)
(* frontend/web/src/lib/e2ee.ts and pages/MeetingRoom.tsx.  The service    *)
(* handles each of these requests without an await.  A client handles a    *)
(* message up to the first answer it needs from WebCrypto: wrapping and    *)
(* unwrapping a key are tasks that end later, in any order, while the      *)
(* signature checks (synchronous code behind `async`) are not.             *)
(*                                                                         *)
(* A peer id stands for one stay in the room: a client that comes back is  *)
(* another peer with another identity.  A key is a number, in the order    *)
(* keys are made; whoever leaves is stopped, whoever is kicked goes on     *)
(* until its socket closes.                                                *)
(***************************************************************************)
EXTENDS Naturals, Sequences, FiniteSets

CONSTANTS
    Peer,       \* stays in the meeting
    None,       \* "no peer" (null)
    Kickable    \* those the host may remove before they leave

ASSUME PeerAssumption ==
    /\ IsFiniteSet(Peer)
    /\ None \notin Peer
    /\ Kickable \subseteq Peer

VARIABLES
    \* signaling: the RoomState
    inside,     \* room.peers
    gone,       \* those removed from it
    bundle,     \* peers whose e2eeKeyBundle is registered
    ready,      \* peers with e2eeKeyReady
    holder,     \* room.e2eeKeyHolderPeerId
    unannounced,\* kicked peers whose close event (peerLeft) is still to come
    \* the sockets: both directions keep their order
    inbox, outbox,
    \* clients
    known,      \* e2eeBundlesRef, the client's own entry left out
    ref,        \* e2eeKeyHolderRef
    handover,   \* lastHolderHandoverFrom
    key,        \* the installed group key, 0 for none (E2EEManager.mek)
    tasks,      \* wrapMeetingKeyForPeer and acceptMeetingKey calls under way
    due,        \* rotations queued in the promise chain `rotation`
    \* history
    made,       \* number of keys made
    had,        \* the keys each peer ever installed
    goneAt      \* for each key, who else had left when it was made

serverVars == <<inside, gone, bundle, ready, holder, unannounced>>
netVars    == <<inbox, outbox>>
clientVars == <<known, ref, handover, key, tasks, due>>
history    == <<made, had, goneAt>>
vars == <<serverVars, netVars, clientVars, history>>

Registered == inside \cap bundle
Keys == 1..made

Messages ==
    [kind : {"joined"}, holder : Peer \cup {None}, bundles : SUBSET Peer]
    \cup [kind : {"exchange"}, peer : Peer, holder : Peer]
    \cup [kind : {"registered"}, holder : Peer, generate : BOOLEAN]
    \cup [kind : {"changed"}, peer : Peer, previous : Peer, generate : BOOLEAN]
    \cup [kind : {"left"}, peer : Peer]
    \cup [kind : {"key"}, from : Peer, key : Nat \ {0}]
Requests ==
    [kind : {"register", "received"}]
    \cup [kind : {"distribute"}, to : Peer, key : Nat \ {0}, rotation : BOOLEAN]
Tasks ==
    [kind : {"wrap"}, to : Peer, key : Nat \ {0}, rotation : BOOLEAN]
    \cup [kind : {"accept"}, key : Nat \ {0}]

TypeOK ==
    /\ inside \subseteq Peer /\ gone \subseteq Peer /\ bundle \subseteq Peer /\ ready \subseteq Peer
    /\ holder \in Peer \cup {None} /\ unannounced \subseteq gone
    /\ inbox \in [Peer -> Seq(Messages)] /\ outbox \in [Peer -> Seq(Requests)]
    /\ known \in [Peer -> SUBSET Peer] /\ ref \in [Peer -> Peer \cup {None}]
    /\ handover \in [Peer -> Peer \cup {None}] /\ key \in [Peer -> 0..made]
    /\ tasks \in [Peer -> SUBSET Tasks] /\ due \in [Peer -> Nat]
    /\ made \in Nat /\ had \in [Peer -> SUBSET Keys] /\ goneAt \in [Keys -> SUBSET Peer]

Init ==
    /\ inside = {} /\ gone = {} /\ bundle = {} /\ ready = {} /\ holder = None /\ unannounced = {}
    /\ inbox = [p \in Peer |-> <<>>] /\ outbox = [p \in Peer |-> <<>>]
    /\ known = [p \in Peer |-> {}] /\ ref = [p \in Peer |-> None]
    /\ handover = [p \in Peer |-> None] /\ key = [p \in Peer |-> 0]
    /\ tasks = [p \in Peer |-> {}] /\ due = [p \in Peer |-> 0]
    /\ made = 0 /\ had = [p \in Peer |-> {}] /\ goneAt = [k \in {} |-> {}]

-----------------------------------------------------------------------------
(* The signaling service. *)

\* RoomManager.broadcast to a set of peers, applied to the inboxes ib.
Broadcast(ib, to, m) == [p \in Peer |-> IF p \in to THEN Append(ib[p], m) ELSE ib[p]]
Reply(ib, p, m) == Broadcast(ib, {p}, m)
NextRequest(p, kind) == outbox[p] # <<>> /\ Head(outbox[p]).kind = kind

\* joinPeerToRoom: the answer holds the room as it is, bundles included.
Join(p) ==
    /\ p \notin inside \cup gone
    /\ inside' = inside \cup {p}
    /\ inbox' = Reply(inbox, p, [kind |-> "joined", holder |-> holder, bundles |-> Registered])
    /\ UNCHANGED <<gone, bundle, ready, holder, unannounced, outbox, clientVars, history>>

\* exchangeE2EEKeys: the first to register becomes holder and is told to generate.
HolderRegistered == holder \in Registered
RegisterKeys(p) ==
    /\ p \in inside /\ NextRequest(p, "register")
    /\ LET next == IF HolderRegistered THEN holder ELSE p IN
       /\ holder' = next
       /\ ready' = IF HolderRegistered THEN ready ELSE ready \cup {p}
       /\ inbox' = Reply(Broadcast(inbox, inside \ {p}, [kind |-> "exchange", peer |-> p, holder |-> next]),
                         p, [kind |-> "registered", holder |-> next, generate |-> ~HolderRegistered])
    /\ bundle' = bundle \cup {p}
    /\ outbox' = [outbox EXCEPT ![p] = Tail(@)]
    /\ UNCHANGED <<inside, gone, unannounced, clientVars, history>>

\* distributeEpochKey: only the holder, only to a registered peer that is inside.
MayDistribute_AnySender(p, q) == q \in inside /\ {p, q} \subseteq bundle                   \* mutant
MayDistribute_Departed(p, q) == holder = p /\ {p, q} \subseteq bundle                      \* mutant
MayDistribute(p, q) == p \in inside /\ holder = p /\ q \in inside /\ {p, q} \subseteq bundle
DistributeEpochKey(p) ==
    /\ NextRequest(p, "distribute")
    /\ LET r == Head(outbox[p]) IN
       inbox' = IF MayDistribute(p, r.to)
                THEN Reply(inbox, r.to, [kind |-> "key", from |-> p, key |-> r.key])
                ELSE inbox
    /\ outbox' = [outbox EXCEPT ![p] = Tail(@)]
    /\ UNCHANGED <<serverVars, clientVars, history>>

E2eeKeyReceived(p) ==
    /\ NextRequest(p, "received")
    /\ ready' = IF p \in Registered THEN ready \cup {p} ELSE ready
    /\ outbox' = [outbox EXCEPT ![p] = Tail(@)]
    /\ UNCHANGED <<inside, gone, bundle, holder, unannounced, inbox, clientVars, history>>

\* A registration that arrives after its sender was removed ("Peer not found").
RegisterRefused(p) ==
    /\ p \notin inside /\ NextRequest(p, "register")
    /\ outbox' = [outbox EXCEPT ![p] = Tail(@)]
    /\ UNCHANGED <<serverVars, inbox, clientVars, history>>

\* electE2EEKeyHolder: among those registered, one that holds the key if there
\* is any.  Which of them depends on roles, which change under other requests.
Candidates_StillReady(p) == ready \ {p}                                                    \* mutant
Candidates(p) == LET registered == Registered \ {p} IN
                 IF registered \cap ready # {} THEN registered \cap ready ELSE registered

\* removePeer: applied to the inboxes, with the close event's peerLeft after it
\* unless the removal is a kick, whose close event is still to come.
AnnounceLeft(ib, p) == Broadcast(ib, inside \ {p}, [kind |-> "left", peer |-> p])
ElectHolder(p, announce) ==
    LET Sent(ib) == IF announce THEN AnnounceLeft(ib, p) ELSE ib IN
    \/ /\ holder # p /\ inbox' = Sent(inbox) /\ UNCHANGED <<holder, ready>>
    \/ /\ holder = p /\ Candidates(p) = {} /\ holder' = None /\ inbox' = Sent(inbox)
       /\ UNCHANGED ready
    \/ /\ holder = p
       /\ \E next \in Candidates(p) :
            /\ holder' = next /\ ready' = ready \cup {next}
            /\ inbox' = Sent(Broadcast(inbox, inside \ {p},
                  [kind |-> "changed", peer |-> next, previous |-> p, generate |-> next \notin ready]))
RemovePeer(p, announce) ==
    /\ p \in inside
    /\ inside' = inside \ {p} /\ gone' = gone \cup {p}
    /\ ElectHolder(p, announce)
    /\ UNCHANGED <<bundle, outbox, history>>

\* The client stops: nothing it had under way is finished or sent.
Stopped(p) ==
    /\ tasks' = [tasks EXCEPT ![p] = {}] /\ due' = [due EXCEPT ![p] = 0]
    /\ UNCHANGED <<known, ref, handover, key>>

\* handlePeerDisconnect after a close event or leaveRoom.
Leave(p) ==
    /\ RemovePeer(p, TRUE) /\ Stopped(p)
    /\ UNCHANGED unannounced

\* kickPeer: the target is removed before its socket closes, and what the
\* others hear of is peerKicked, which no part of the key handling listens to.
Kick(p) ==
    /\ p \in Kickable /\ RemovePeer(p, FALSE)
    /\ unannounced' = unannounced \cup {p}
    /\ UNCHANGED clientVars
CloseKicked(p) ==
    /\ p \in unannounced /\ unannounced' = unannounced \ {p}
    /\ inbox' = AnnounceLeft(inbox, p)
    /\ Stopped(p)
    /\ UNCHANGED <<inside, gone, bundle, ready, holder, outbox, history>>

-----------------------------------------------------------------------------
(* A client. *)

Running(p) == p \in inside \cup unannounced
Request(p, r) == outbox' = [outbox EXCEPT ![p] = Append(@, r)]
Receive(p, kind) ==
    /\ Running(p) /\ inbox[p] # <<>> /\ Head(inbox[p]).kind = kind
    /\ inbox' = [inbox EXCEPT ![p] = Tail(@)]
    /\ UNCHANGED serverVars
Message(p) == Head(inbox[p])

\* sendGroupKey captures the key it wraps when it is called.
Wraps(p, targets, k, rotation) ==
    [tasks EXCEPT ![p] = @ \cup [kind : {"wrap"}, to : targets \ {p}, key : {k}, rotation : {rotation}]]

\* E2EEManager.install of a key just made, and of one received.
MakeKey(p) ==
    /\ made' = made + 1
    /\ key' = [key EXCEPT ![p] = made + 1]
    /\ had' = [had EXCEPT ![p] = @ \cup {made + 1}]
    /\ goneAt' = [k \in 1..(made + 1) |-> IF k = made + 1 THEN gone \ {p} ELSE goneAt[k]]
InstallKey(p, k) ==
    /\ key' = [key EXCEPT ![p] = k] /\ had' = [had EXCEPT ![p] = @ \cup {k}]
    /\ UNCHANGED <<made, goneAt>>

\* The join answer: identities of the others, then registration of one's own.
OnJoined(p) ==
    /\ Receive(p, "joined")
    /\ ref' = [ref EXCEPT ![p] = Message(p).holder]
    /\ known' = [known EXCEPT ![p] = @ \cup Message(p).bundles]
    /\ Request(p, [kind |-> "register"])
    /\ UNCHANGED <<handover, key, tasks, due, history>>

\* The answer of exchangeE2EEKeys: the first participant makes the key.
OnRegistered(p) ==
    /\ Receive(p, "registered")
    /\ ref' = [ref EXCEPT ![p] = Message(p).holder]
    /\ IF Message(p).generate
       THEN MakeKey(p) /\ tasks' = Wraps(p, known[p], made + 1, FALSE)
       ELSE UNCHANGED <<key, tasks, history>>
    /\ UNCHANGED <<outbox, known, handover, due>>

\* e2eeKeyExchange: a newcomer's identity; the holder sends it the key.
OnExchange_SendsNothing(p) ==                                                              \* mutant
    /\ Receive(p, "exchange")
    /\ known' = [known EXCEPT ![p] = @ \cup {Message(p).peer}]
    /\ ref' = [ref EXCEPT ![p] = Message(p).holder]
    /\ UNCHANGED <<outbox, handover, key, due, tasks, history>>
OnExchange(p) ==
    /\ Receive(p, "exchange")
    /\ LET m == Message(p) IN
       /\ known' = [known EXCEPT ![p] = @ \cup {m.peer}]
       /\ ref' = [ref EXCEPT ![p] = m.holder]
       /\ tasks' = IF m.holder = p /\ key[p] # 0 THEN Wraps(p, {m.peer}, key[p], FALSE) ELSE tasks
    /\ UNCHANGED <<outbox, handover, key, due, history>>

\* e2eeEpochKey: a key that is not from the holder, or whose holder is unknown,
\* is rejected.
Acceptable(p, m) == m.from = ref[p] /\ m.from \in known[p]
OnEpochKey(p) ==
    /\ Receive(p, "key")
    /\ tasks' = IF Acceptable(p, Message(p))
                THEN [tasks EXCEPT ![p] = @ \cup {[kind |-> "accept", key |-> Message(p).key]}]
                ELSE tasks
    /\ UNCHANGED <<outbox, known, ref, handover, key, due, history>>

\* e2eeKeyHolderChanged: the new holder rotates, the previous one is forgotten.
Forgets(known_p, m) == known_p \ {m.previous}
OnHolderChanged(p) ==
    /\ Receive(p, "changed")
    /\ LET m == Message(p) IN
       /\ ref' = [ref EXCEPT ![p] = m.peer]
       /\ handover' = [handover EXCEPT ![p] = m.previous]
       /\ known' = [known EXCEPT ![p] = Forgets(@, m)]
       /\ due' = IF m.peer = p THEN [due EXCEPT ![p] = @ + 1] ELSE due
    /\ UNCHANGED <<outbox, key, tasks, history>>

\* peerLeft: the holder rotates, unless it did when it took over from this peer.
OnPeerLeft(p) ==
    /\ Receive(p, "left")
    /\ LET q == Message(p).peer IN
       /\ known' = [known EXCEPT ![p] = @ \ {q}]
       /\ due' = IF ref[p] = p /\ key[p] # 0 /\ q # handover[p] THEN [due EXCEPT ![p] = @ + 1] ELSE due
       /\ handover' = IF q = handover[p] THEN [handover EXCEPT ![p] = None] ELSE handover
    /\ UNCHANGED <<outbox, ref, key, tasks, history>>

\* rotateAndDistribute: one link of the chain, once the sends of the link
\* before it are answered.
Distributing(p) ==
    \/ \E t \in tasks[p] : t.kind = "wrap" /\ t.rotation
    \/ \E i \in DOMAIN outbox[p] : outbox[p][i].kind = "distribute" /\ outbox[p][i].rotation
NextRotation(p) == due[p] > 0 /\ ~Distributing(p)
Rotate(p) ==
    /\ Running(p) /\ NextRotation(p)
    /\ due' = [due EXCEPT ![p] = @ - 1]
    /\ IF ref[p] = p
       THEN MakeKey(p) /\ tasks' = Wraps(p, known[p], made + 1, TRUE)
       ELSE UNCHANGED <<key, tasks, history>>
    /\ UNCHANGED <<serverVars, netVars, known, ref, handover>>

\* WebCrypto answers: an envelope is ready to be sent, a key to be installed.
WrapDone(p) ==
    \E t \in tasks[p] :
        /\ Running(p) /\ t.kind = "wrap"
        /\ Request(p, [kind |-> "distribute", to |-> t.to, key |-> t.key, rotation |-> t.rotation])
        /\ tasks' = [tasks EXCEPT ![p] = @ \ {t}]
        /\ UNCHANGED <<serverVars, inbox, known, ref, handover, key, due, history>>
AcceptDone(p) ==
    \E t \in tasks[p] :
        /\ Running(p) /\ t.kind = "accept"
        /\ InstallKey(p, t.key)
        /\ Request(p, [kind |-> "received"])
        /\ tasks' = [tasks EXCEPT ![p] = @ \ {t}]
        /\ UNCHANGED <<serverVars, inbox, known, ref, handover, due>>

-----------------------------------------------------------------------------
ServerStep(p) == \/ RegisterKeys(p) \/ RegisterRefused(p) \/ DistributeEpochKey(p)
                 \/ E2eeKeyReceived(p) \/ CloseKicked(p)
ClientStep(p) == \/ OnJoined(p) \/ OnRegistered(p) \/ OnExchange(p) \/ OnEpochKey(p)
                 \/ OnHolderChanged(p) \/ OnPeerLeft(p) \/ Rotate(p) \/ WrapDone(p) \/ AcceptDone(p)
Churn(p) == Join(p) \/ Leave(p) \/ Kick(p)

Next == \E p \in Peer : ServerStep(p) \/ ClientStep(p) \/ Churn(p)
Spec == Init /\ [][Next]_vars

-----------------------------------------------------------------------------
(* Properties. *)

\* While anybody with an encryption identity is in the room there is a key
\* holder, who is inside, registered and counted as holding the key: handing
\* over never skips somebody able to take the job.
HolderElected ==
    /\ holder = None <=> Registered = {}
    /\ holder # None => holder \in Registered \cap ready

\* An envelope the service forwarded is not turned down by its recipient,
\* however it overlaps with hand-overs and departures.
EnvelopesAccepted ==
    \A p \in inside : inbox[p] # <<>> /\ Head(inbox[p]).kind = "key" => Acceptable(p, Head(inbox[p]))

\* A key made after somebody left never reaches them.
NeverForTheDeparted == \A k \in Keys : \A p \in goneAt[k] : k \notin had[p]

\* Everything sent and queued has been dealt with.
Quiet ==
    /\ unannounced = {}
    /\ \A p \in inside : inbox[p] = <<>> /\ outbox[p] = <<>> /\ tasks[p] = {} /\ due[p] = 0

\* When everything has been dealt with, everybody registered has got a key,
\* whoever left or took over meanwhile.  (Each step uses up a message, a task, a
\* rotation or an arrival, so every fair behaviour gets there.)
EveryoneKeyed == Quiet => \A p \in Registered : key[p] # 0

\* Keys pass between the participants as KeyEpochs says.
Epochs == INSTANCE KeyEpochs WITH members <- inside, past <- gone, excluded <- goneAt
KeysAsPromised == Epochs!Spec
=============================================================================
