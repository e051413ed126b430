--------------------------- MODULE GroupKeyProofs ---------------------------
(***************************************************************************)
(* Proofs about GroupKey, for any number of participants: its type         *)
(* invariant, that no key reaches somebody who had left when it was made,  *)
(* that the protocol implements KeyEpochs, that the seat of the key holder *)
(* is filled while anybody can take it, that no forwarded envelope is      *)
(* turned down, and that everybody registered has a key once all messages  *)
(* are dealt with.                                                         *)
(***************************************************************************)
EXTENDS GroupKey, TLAPS

USE PeerAssumption

\* A key that p may be given: it was not made to shut p out, and another has it.
Obtainable(p, k) == k \in Keys /\ p \notin goneAt[k] /\ \E q \in Peer \ {p} : k \in had[q]

\* Nobody is inside and gone, and a key shuts out only who is gone.
Apart == inside \cap gone = {} /\ \A k \in Keys : goneAt[k] \subseteq gone

\* Where keys are on their way: only who has a key wraps and distributes it,
\* and only who may be given it is sent it.
FlowOf(p) ==
    /\ key[p] # 0 => key[p] \in had[p]
    /\ \A t \in tasks[p] : t.kind = "wrap" => t.to # p /\ t.key \in had[p]
    /\ \A t \in tasks[p] : t.kind = "accept" => Obtainable(p, t.key)
    /\ \A i \in DOMAIN outbox[p] : outbox[p][i].kind = "distribute" => outbox[p][i].to # p /\ outbox[p][i].key \in had[p]
    /\ \A i \in DOMAIN inbox[p] : inbox[p][i].kind = "key" => Obtainable(p, inbox[p][i].key)
Flow == \A p \in Peer : FlowOf(p)

Inv == TypeOK /\ Apart /\ Flow

-----------------------------------------------------------------------------
(* Queues. *)

LEMMA TailStep ==
  ASSUME NEW S, NEW s \in Seq(S), s # <<>>
  PROVE  /\ Head(s) \in S /\ Tail(s) \in Seq(S)
         /\ 1 \in DOMAIN s /\ Head(s) = s[1]
         /\ \A i \in DOMAIN Tail(s) : i + 1 \in DOMAIN s /\ Tail(s)[i] = s[i + 1]
  OBVIOUS

LEMMA AppendStep ==
  ASSUME NEW S, NEW s \in Seq(S), NEW x \in S
  PROVE  /\ Append(s, x) \in Seq(S)
         /\ \A i \in DOMAIN Append(s, x) : (i \in DOMAIN s /\ Append(s, x)[i] = s[i]) \/ Append(s, x)[i] = x
  OBVIOUS

LEMMA BroadcastStep ==
  ASSUME NEW ib \in [Peer -> Seq(Messages)], NEW to, NEW m \in Messages
  PROVE  /\ Broadcast(ib, to, m) \in [Peer -> Seq(Messages)]
         /\ \A p \in Peer : \A i \in DOMAIN Broadcast(ib, to, m)[p] :
                (i \in DOMAIN ib[p] /\ Broadcast(ib, to, m)[p][i] = ib[p][i])
                \/ (p \in to /\ Broadcast(ib, to, m)[p][i] = m)
<1>1. \A p \in Peer : Broadcast(ib, to, m)[p] = IF p \in to THEN Append(ib[p], m) ELSE ib[p]
  BY DEF Broadcast
<1>2. \A p \in Peer : ib[p] \in Seq(Messages) /\ Append(ib[p], m) \in Seq(Messages)
  BY AppendStep
<1>3. Broadcast(ib, to, m) \in [Peer -> Seq(Messages)]
  BY <1>2 DEF Broadcast
<1>4. ASSUME NEW p \in Peer, NEW i \in DOMAIN Broadcast(ib, to, m)[p]
      PROVE  \/ i \in DOMAIN ib[p] /\ Broadcast(ib, to, m)[p][i] = ib[p][i]
             \/ p \in to /\ Broadcast(ib, to, m)[p][i] = m
  <2>1. CASE p \in to
    <3>1. ib[p] \in Seq(Messages) /\ Broadcast(ib, to, m)[p] = Append(ib[p], m)
      BY <1>1, <2>1
    <3>2. \A j \in DOMAIN Append(ib[p], m) : (j \in DOMAIN ib[p] /\ Append(ib[p], m)[j] = ib[p][j])
                                             \/ Append(ib[p], m)[j] = m
      BY <3>1, AppendStep
    <3> QED BY <2>1, <3>1, <3>2
  <2>2. CASE p \notin to
    BY <1>1, <2>2
  <2> QED BY <2>1, <2>2
<1> QED BY <1>3, <1>4

\* What keeps the flow of keys: a new message, request, task or key is one that
\* may be there.
LEMMA FlowStep ==
  ASSUME Flow, TypeOK,
         made' \in Nat, made' >= made,
         \A p \in Peer : had[p] \subseteq had'[p],
         \A k \in Keys : goneAt'[k] = goneAt[k],
         \A p \in Peer : key'[p] = key[p] \/ key'[p] \in had'[p],
         \A p \in Peer : \A t \in tasks'[p] :
             t \in tasks[p] \/ (t.kind = "wrap" /\ t.to # p /\ t.key \in had'[p])
                            \/ (t.kind = "accept" /\ Obtainable(p, t.key)),
         \A p \in Peer : \A i \in DOMAIN outbox'[p] :
             \/ \E j \in DOMAIN outbox[p] : outbox'[p][i] = outbox[p][j]
             \/ outbox'[p][i].kind = "distribute" => outbox'[p][i].to # p /\ outbox'[p][i].key \in had'[p],
         \A p \in Peer : \A i \in DOMAIN inbox'[p] :
             \/ \E j \in DOMAIN inbox[p] : inbox'[p][i] = inbox[p][j]
             \/ inbox'[p][i].kind = "key" => Obtainable(p, inbox'[p][i].key)
  PROVE  Flow'
<1>1. ASSUME NEW p \in Peer, NEW k, Obtainable(p, k)
      PROVE  k \in Keys' /\ p \notin goneAt'[k] /\ \E q \in Peer \ {p} : k \in had'[q]
  BY <1>1 DEF Obtainable, Keys, TypeOK
<1>2. ASSUME NEW p \in Peer PROVE FlowOf(p)'
  <2>0. FlowOf(p)
    BY DEF Flow
  <2>1. key'[p] # 0 => key'[p] \in had'[p]
    BY <2>0 DEF FlowOf
  <2>2. \A t \in tasks'[p] : t.kind = "wrap" => t.to # p /\ t.key \in had'[p]
    BY <2>0 DEF FlowOf
  <2>3. \A t \in tasks'[p] : t.kind = "accept" => Obtainable(p, t.key)'
    BY <1>1, <2>0 DEF FlowOf, Obtainable
  <2>4. \A i \in DOMAIN outbox'[p] : outbox'[p][i].kind = "distribute"
            => outbox'[p][i].to # p /\ outbox'[p][i].key \in had'[p]
    BY <2>0 DEF FlowOf
  <2>5. ASSUME NEW i \in DOMAIN inbox'[p], inbox'[p][i].kind = "key" PROVE Obtainable(p, inbox[p][i].key)'
    <3>1. Obtainable(p, inbox'[p][i].key)
      BY <2>0, <2>5 DEF FlowOf
    <3> QED BY <1>1, <3>1 DEF Obtainable
  <2> QED BY <2>1, <2>2, <2>3, <2>4, <2>5 DEF FlowOf
<1> QED BY <1>2 DEF Flow

LEMMA InvInit == Init => Inv
<1> SUFFICES ASSUME Init PROVE Inv
  OBVIOUS
<1>1. Keys = {} /\ 0 \in 0..made
  BY DEF Init, Keys
<1>2. goneAt \in [Keys -> SUBSET Peer]
  BY <1>1 DEF Init
<1>3. inbox \in [Peer -> Seq(Messages)] /\ outbox \in [Peer -> Seq(Requests)]
  BY DEF Init
<1>4. /\ known \in [Peer -> SUBSET Peer] /\ ref \in [Peer -> Peer \cup {None}] /\ handover \in [Peer -> Peer \cup {None}]
      /\ tasks \in [Peer -> SUBSET Tasks] /\ due \in [Peer -> Nat] /\ had \in [Peer -> SUBSET Keys]
  BY DEF Init
<1>5. key \in [Peer -> 0..made]
  BY <1>1 DEF Init
<1>6. TypeOK
  BY <1>2, <1>3, <1>4, <1>5 DEF Init, TypeOK
<1>7. Apart
  BY <1>1 DEF Init, Apart
<1>8. ASSUME NEW p \in Peer PROVE FlowOf(p)
  <2>1. key[p] = 0 /\ tasks[p] = {} /\ outbox[p] = <<>> /\ inbox[p] = <<>>
    BY DEF Init
  <2>2. DOMAIN <<>> = {}
    OBVIOUS
  <2> QED BY <2>1, <2>2 DEF FlowOf
<1> QED BY <1>6, <1>7, <1>8 DEF Inv, Flow

-----------------------------------------------------------------------------
(* The signaling service. *)

\* A step that adds no key, and sends nothing but what is not a key or may be given.
LEMMA ServerFlow ==
  ASSUME Inv, UNCHANGED history, UNCHANGED key,
         \A p \in Peer : tasks'[p] \subseteq tasks[p],
         \A p \in Peer : \A i \in DOMAIN outbox'[p] : \E j \in DOMAIN outbox[p] : outbox'[p][i] = outbox[p][j],
         \A p \in Peer : \A i \in DOMAIN inbox'[p] :
             \/ \E j \in DOMAIN inbox[p] : inbox'[p][i] = inbox[p][j]
             \/ inbox'[p][i].kind = "key" => Obtainable(p, inbox'[p][i].key)
  PROVE  Flow'
<1>1. made' = made /\ had' = had /\ goneAt' = goneAt /\ made \in Nat /\ key' = key
  BY DEF Inv, TypeOK, history
<1> QED BY <1>1, FlowStep DEF Inv

LEMMA TakeRequest ==
  ASSUME TypeOK, NEW p \in Peer, outbox[p] # <<>>, outbox' = [outbox EXCEPT ![p] = Tail(@)]
  PROVE  /\ outbox' \in [Peer -> Seq(Requests)]
         /\ \A q \in Peer : \A i \in DOMAIN outbox'[q] : \E j \in DOMAIN outbox[q] : outbox'[q][i] = outbox[q][j]
         /\ Head(outbox[p]) \in Requests /\ 1 \in DOMAIN outbox[p] /\ Head(outbox[p]) = outbox[p][1]
<1>1. outbox \in [Peer -> Seq(Requests)] /\ outbox[p] \in Seq(Requests)
  BY DEF TypeOK
<1>2. /\ Head(outbox[p]) \in Requests /\ Tail(outbox[p]) \in Seq(Requests)
      /\ 1 \in DOMAIN outbox[p] /\ Head(outbox[p]) = outbox[p][1]
      /\ \A i \in DOMAIN Tail(outbox[p]) : i + 1 \in DOMAIN outbox[p] /\ Tail(outbox[p])[i] = outbox[p][i + 1]
  BY <1>1, TailStep
<1>3. \A q \in Peer : outbox'[q] = IF q = p THEN Tail(outbox[p]) ELSE outbox[q]
  BY <1>1
<1>4. outbox' \in [Peer -> Seq(Requests)]
  BY <1>1, <1>2
<1> QED BY <1>2, <1>3, <1>4

LEMMA JoinInv == ASSUME Inv, NEW p \in Peer, Join(p) PROVE Inv'
<1> DEFINE m == [kind |-> "joined", holder |-> holder, bundles |-> Registered]
<1>1. m \in Messages /\ m.kind = "joined"
  BY DEF Inv, TypeOK, Messages, Registered
<1>2. inbox' = Broadcast(inbox, {p}, m) /\ inbox \in [Peer -> Seq(Messages)]
  BY DEF Join, Reply, Inv, TypeOK
<1>3. UNCHANGED <<gone, bundle, ready, holder, unannounced, outbox, clientVars, history>> /\ inside' = inside \cup {p} /\ p \notin gone
  BY DEF Join
<1>4. inbox' \in [Peer -> Seq(Messages)]
  BY <1>1, <1>2, BroadcastStep
<1>5. TypeOK'
  BY <1>3, <1>4 DEF Inv, TypeOK, clientVars, history, Keys
<1>6. Apart'
  BY <1>3 DEF Inv, Apart, history, Keys
<1>7. \A q \in Peer : \A i \in DOMAIN inbox'[q] :
        (i \in DOMAIN inbox[q] /\ inbox'[q][i] = inbox[q][i]) \/ inbox'[q][i].kind # "key"
  BY <1>1, <1>2, BroadcastStep
<1>8. Flow'
  BY <1>3, <1>7, ServerFlow DEF clientVars
<1> QED BY <1>5, <1>6, <1>8 DEF Inv

LEMMA RegisterInv == ASSUME Inv, NEW p \in Peer, RegisterKeys(p) PROVE Inv'
<1> DEFINE next == IF HolderRegistered THEN holder ELSE p
           m == [kind |-> "exchange", peer |-> p, holder |-> next]
           n == [kind |-> "registered", holder |-> next, generate |-> ~HolderRegistered]
           sent == Broadcast(inbox, inside \ {p}, m)
<1>1. next \in Peer /\ m \in Messages /\ n \in Messages /\ m.kind = "exchange" /\ n.kind = "registered"
  BY DEF Inv, TypeOK, Messages, HolderRegistered, Registered
<1>2. inbox' = Broadcast(sent, {p}, n) /\ inbox \in [Peer -> Seq(Messages)]
  BY DEF RegisterKeys, Reply, Inv, TypeOK
<1>3. /\ holder' = next /\ ready' \subseteq ready \cup {p} /\ bundle' = bundle \cup {p}
      /\ outbox' = [outbox EXCEPT ![p] = Tail(@)] /\ outbox[p] # <<>>
      /\ UNCHANGED <<inside, gone, unannounced, clientVars, history>>
  BY DEF RegisterKeys, NextRequest
<1> HIDE DEF m, n, next
<1>4. sent \in [Peer -> Seq(Messages)]
  BY <1>1, <1>2, BroadcastStep
<1>a. inbox' \in [Peer -> Seq(Messages)]
  <2> HIDE DEF sent
  <2> QED BY <1>1, <1>2, <1>4, BroadcastStep
<1>5. \A q \in Peer : \A i \in DOMAIN inbox'[q] :
        (i \in DOMAIN inbox[q] /\ inbox'[q][i] = inbox[q][i]) \/ inbox'[q][i].kind # "key"
  <2>1. \A q \in Peer : \A i \in DOMAIN inbox'[q] :
          (i \in DOMAIN sent[q] /\ inbox'[q][i] = sent[q][i]) \/ inbox'[q][i] = n
    <3> HIDE DEF sent
    <3> QED BY <1>1, <1>2, <1>4, BroadcastStep
  <2>2. \A q \in Peer : \A i \in DOMAIN sent[q] :
          (i \in DOMAIN inbox[q] /\ sent[q][i] = inbox[q][i]) \/ sent[q][i] = m
    BY <1>1, <1>2, BroadcastStep
  <2> QED BY <1>1, <2>1, <2>2
<1>6. /\ outbox' \in [Peer -> Seq(Requests)]
      /\ \A q \in Peer : \A i \in DOMAIN outbox'[q] : \E j \in DOMAIN outbox[q] : outbox'[q][i] = outbox[q][j]
  BY <1>3, TakeRequest DEF Inv
<1>7. TypeOK'
  BY <1>1, <1>3, <1>a, <1>6 DEF Inv, TypeOK, clientVars, history, Keys
<1>8. Apart'
  BY <1>3 DEF Inv, Apart, history, Keys
<1>9. Flow'
  BY <1>3, <1>5, <1>6, ServerFlow DEF clientVars
<1> QED BY <1>7, <1>8, <1>9 DEF Inv

\* The service hands a key on only to somebody inside, whom the key does not
\* shut out.
LEMMA DistributeInv == ASSUME Inv, NEW p \in Peer, DistributeEpochKey(p) PROVE Inv'
<1> DEFINE r == Head(outbox[p])
           m == [kind |-> "key", from |-> p, key |-> r.key]
<1>1. /\ outbox[p] # <<>> /\ r.kind = "distribute" /\ outbox' = [outbox EXCEPT ![p] = Tail(@)]
      /\ inbox' = IF MayDistribute(p, r.to) THEN Broadcast(inbox, {r.to}, m) ELSE inbox
      /\ UNCHANGED <<serverVars, clientVars, history>>
  BY DEF DistributeEpochKey, NextRequest, Reply
<1>2. /\ outbox' \in [Peer -> Seq(Requests)]
      /\ \A q \in Peer : \A i \in DOMAIN outbox'[q] : \E j \in DOMAIN outbox[q] : outbox'[q][i] = outbox[q][j]
      /\ r \in Requests /\ 1 \in DOMAIN outbox[p] /\ r = outbox[p][1]
  BY <1>1, TakeRequest DEF Inv
<1>3. r.to \in Peer /\ r.key \in Nat \ {0} /\ r.to # p /\ r.key \in had[p]
  BY <1>1, <1>2 DEF Requests, Inv, Flow, FlowOf
<1>4. m \in Messages /\ m.key = r.key /\ inbox \in [Peer -> Seq(Messages)]
  BY <1>3 DEF Messages, Inv, TypeOK
<1>5. inbox' \in [Peer -> Seq(Messages)]
  BY <1>1, <1>4, BroadcastStep
<1>6. MayDistribute(p, r.to) => Obtainable(r.to, r.key)
  <2>1. r.key \in Keys /\ had[p] \subseteq Keys
    BY <1>3 DEF Inv, TypeOK
  <2>2. r.to \in inside => r.to \notin goneAt[r.key]
    BY <2>1 DEF Inv, Apart
  <2> QED BY <1>3, <2>1, <2>2 DEF MayDistribute, Obtainable
<1>7. \A q \in Peer : \A i \in DOMAIN inbox'[q] :
        \/ \E j \in DOMAIN inbox[q] : inbox'[q][i] = inbox[q][j]
        \/ inbox'[q][i].kind = "key" => Obtainable(q, inbox'[q][i].key)
  <2>1. CASE MayDistribute(p, r.to)
    <3> HIDE DEF m, r
    <3>0. inbox' = Broadcast(inbox, {r.to}, m)
      BY <1>1, <2>1
    <3>1. \A q \in Peer : \A i \in DOMAIN inbox'[q] :
            (i \in DOMAIN inbox[q] /\ inbox'[q][i] = inbox[q][i]) \/ (q \in {r.to} /\ inbox'[q][i] = m)
      BY <1>4, <3>0, BroadcastStep
    <3> QED BY <1>4, <1>6, <2>1, <3>1
  <2>2. CASE ~MayDistribute(p, r.to)
    BY <1>1, <2>2
  <2> QED BY <2>1, <2>2
<1>8. TypeOK'
  BY <1>1, <1>2, <1>5 DEF Inv, TypeOK, serverVars, clientVars, history, Keys
<1>9. Apart'
  BY <1>1 DEF Inv, Apart, serverVars, history, Keys
<1>10. Flow'
  BY <1>1, <1>2, <1>7, ServerFlow DEF clientVars
<1> QED BY <1>8, <1>9, <1>10 DEF Inv

LEMMA OtherRequestInv == ASSUME Inv, NEW p \in Peer, E2eeKeyReceived(p) \/ RegisterRefused(p) PROVE Inv'
<1>1. /\ outbox[p] # <<>> /\ outbox' = [outbox EXCEPT ![p] = Tail(@)] /\ ready' \subseteq ready \cup {p}
      /\ UNCHANGED <<inside, gone, bundle, holder, unannounced, inbox, clientVars, history>>
  BY DEF E2eeKeyReceived, RegisterRefused, NextRequest, serverVars
<1>2. /\ outbox' \in [Peer -> Seq(Requests)]
      /\ \A q \in Peer : \A i \in DOMAIN outbox'[q] : \E j \in DOMAIN outbox[q] : outbox'[q][i] = outbox[q][j]
  BY <1>1, TakeRequest DEF Inv
<1>3. TypeOK'
  BY <1>1, <1>2 DEF Inv, TypeOK, clientVars, history, Keys
<1>4. Apart'
  BY <1>1 DEF Inv, Apart, history, Keys
<1>5. Flow'
  BY <1>1, <1>2, ServerFlow DEF clientVars
<1> QED BY <1>3, <1>4, <1>5 DEF Inv

\* Whoever takes over, what is announced is no key.
LEMMA ElectStep ==
  ASSUME TypeOK, NEW p \in Peer, NEW announce \in BOOLEAN, ElectHolder(p, announce)
  PROVE  /\ holder' \in Peer \cup {None} /\ ready' \subseteq Peer
         /\ inbox' \in [Peer -> Seq(Messages)]
         /\ \A q \in Peer : \A i \in DOMAIN inbox'[q] :
               (i \in DOMAIN inbox[q] /\ inbox'[q][i] = inbox[q][i]) \/ inbox'[q][i].kind # "key"
<1> DEFINE left == [kind |-> "left", peer |-> p]
           New(ib) == /\ ib \in [Peer -> Seq(Messages)]
                      /\ \A q \in Peer : \A i \in DOMAIN ib[q] :
                            (i \in DOMAIN inbox[q] /\ ib[q][i] = inbox[q][i]) \/ ib[q][i].kind # "key"
<1>1. ASSUME NEW ib, New(ib), NEW to, NEW m \in Messages, m.kind # "key" PROVE New(Broadcast(ib, to, m))
  <2>1. /\ Broadcast(ib, to, m) \in [Peer -> Seq(Messages)]
        /\ \A q \in Peer : \A i \in DOMAIN Broadcast(ib, to, m)[q] :
              (i \in DOMAIN ib[q] /\ Broadcast(ib, to, m)[q][i] = ib[q][i])
              \/ (q \in to /\ Broadcast(ib, to, m)[q][i] = m)
    BY <1>1, BroadcastStep
  <2> QED BY <1>1, <2>1
<1>2. New(inbox)
  BY DEF TypeOK
<1>3. left \in Messages /\ left.kind = "left"
  BY DEF Messages
<1>4. ASSUME NEW ib, New(ib) PROVE New(IF announce THEN AnnounceLeft(ib, p) ELSE ib)
  <2>1. AnnounceLeft(ib, p) = Broadcast(ib, inside \ {p}, left)
    BY DEF AnnounceLeft
  <2>2. New(Broadcast(ib, inside \ {p}, left))
    <3> HIDE DEF left, New
    <3> QED BY <1>1, <1>3, <1>4
  <2> QED BY <1>4, <2>1, <2>2
<1>5. CASE inbox' = (IF announce THEN AnnounceLeft(inbox, p) ELSE inbox) /\ ready' = ready /\ holder' \in {holder, None}
  <2>1. New(inbox')
    <3> HIDE DEF New
    <3> QED BY <1>2, <1>4, <1>5
  <2> QED BY <1>5, <2>1 DEF TypeOK
<1>6. ASSUME NEW next \in Candidates(p), holder' = next, ready' = ready \cup {next},
             inbox' = LET ib == Broadcast(inbox, inside \ {p},
                          [kind |-> "changed", peer |-> next, previous |-> p, generate |-> next \notin ready])
                      IN  IF announce THEN AnnounceLeft(ib, p) ELSE ib
      PROVE  New(inbox') /\ holder' \in Peer \cup {None} /\ ready' \subseteq Peer
  <2> DEFINE changed == [kind |-> "changed", peer |-> next, previous |-> p, generate |-> next \notin ready]
             ib == Broadcast(inbox, inside \ {p}, changed)
  <2>1. next \in Peer
    BY <1>6 DEF Candidates, Registered, TypeOK
  <2>2. changed \in Messages /\ changed.kind = "changed"
    BY <2>1 DEF Messages
  <2>3. New(ib)
    <3> HIDE DEF changed, New
    <3> QED BY <1>1, <1>2, <2>2
  <2>4. New(inbox')
    <3>1. inbox' = IF announce THEN AnnounceLeft(ib, p) ELSE ib
      BY <1>6
    <3> HIDE DEF New, ib
    <3> QED BY <1>4, <2>3, <3>1
  <2> QED BY <1>6, <2>1, <2>4 DEF TypeOK
<1> QED BY <1>5, <1>6 DEF ElectHolder

LEMMA DepartInv == ASSUME Inv, NEW p \in Peer, Leave(p) \/ Kick(p) \/ CloseKicked(p) PROVE Inv'
<1>0. TypeOK
  BY DEF Inv
<1>1. CASE Leave(p) \/ Kick(p)
  <2>1. PICK announce \in BOOLEAN : ElectHolder(p, announce)
    BY <1>1 DEF Leave, Kick, RemovePeer
  <2>2. /\ holder' \in Peer \cup {None} /\ ready' \subseteq Peer
        /\ inbox' \in [Peer -> Seq(Messages)]
        /\ \A q \in Peer : \A i \in DOMAIN inbox'[q] :
              (i \in DOMAIN inbox[q] /\ inbox'[q][i] = inbox[q][i]) \/ inbox'[q][i].kind # "key"
    BY <1>0, <2>1, ElectStep
  <2>3. /\ inside' = inside \ {p} /\ gone' = gone \cup {p}
        /\ UNCHANGED <<bundle, outbox, history, known, ref, handover, key>>
        /\ unannounced' \subseteq unannounced \cup {p}
        /\ tasks' = tasks \/ tasks' = [tasks EXCEPT ![p] = {}]
        /\ due' = due \/ due' = [due EXCEPT ![p] = 0]
    BY <1>1 DEF Leave, Kick, RemovePeer, Stopped, clientVars
  <2>4. tasks' \in [Peer -> SUBSET Tasks] /\ \A q \in Peer : tasks'[q] \subseteq tasks[q]
    <3>1. tasks \in [Peer -> SUBSET Tasks]
      BY <1>0 DEF TypeOK
    <3>2. CASE tasks' = tasks
      BY <3>1, <3>2
    <3>3. CASE tasks' = [tasks EXCEPT ![p] = {}]
      BY <3>1, <3>3
    <3> QED BY <2>3, <3>2, <3>3
  <2>5. due' \in [Peer -> Nat]
    <3>1. due \in [Peer -> Nat]
      BY <1>0 DEF TypeOK
    <3>2. CASE due' = due
      BY <3>1, <3>2
    <3>3. CASE due' = [due EXCEPT ![p] = 0]
      BY <3>1, <3>3
    <3> QED BY <2>3, <3>2, <3>3
  <2>6. TypeOK'
    BY <1>0, <2>2, <2>3, <2>4, <2>5 DEF TypeOK, history, Keys
  <2>7. Apart'
    BY <2>3 DEF Inv, Apart, history, Keys
  <2>8. Flow'
    BY <2>2, <2>3, <2>4, ServerFlow
  <2> QED BY <2>6, <2>7, <2>8 DEF Inv
<1>2. CASE CloseKicked(p)
  <2> DEFINE m == [kind |-> "left", peer |-> p]
  <2>1. m \in Messages /\ m.kind = "left" /\ inbox \in [Peer -> Seq(Messages)]
    BY <1>0 DEF Messages, TypeOK
  <2>2. inbox' = Broadcast(inbox, inside \ {p}, m)
    BY <1>2 DEF CloseKicked, AnnounceLeft
  <2>3. /\ inbox' \in [Peer -> Seq(Messages)]
        /\ \A q \in Peer : \A i \in DOMAIN inbox'[q] :
              (i \in DOMAIN inbox[q] /\ inbox'[q][i] = inbox[q][i]) \/ (q \in inside \ {p} /\ inbox'[q][i] = m)
    BY <2>1, <2>2, BroadcastStep
  <2>4. /\ unannounced' \subseteq unannounced
        /\ tasks' = [tasks EXCEPT ![p] = {}] /\ due' = [due EXCEPT ![p] = 0]
        /\ UNCHANGED <<inside, gone, bundle, ready, holder, outbox, history, known, ref, handover, key>>
    BY <1>2 DEF CloseKicked, Stopped
  <2>5. tasks' \in [Peer -> SUBSET Tasks] /\ \A q \in Peer : tasks'[q] \subseteq tasks[q]
    BY <1>0, <2>4 DEF TypeOK
  <2>6. due' \in [Peer -> Nat]
    BY <1>0, <2>4 DEF TypeOK
  <2>7. TypeOK'
    BY <1>0, <2>3, <2>4, <2>5, <2>6 DEF TypeOK, history, Keys
  <2>8. Apart'
    BY <2>4 DEF Inv, Apart, history, Keys
  <2>9. Flow'
    BY <2>1, <2>3, <2>4, <2>5, ServerFlow
  <2> QED BY <2>7, <2>8, <2>9 DEF Inv
<1> QED BY <1>1, <1>2

-----------------------------------------------------------------------------
(* A client. *)

LEMMA TakeMessage ==
  ASSUME TypeOK, NEW p \in Peer, NEW kind, Receive(p, kind)
  PROVE  /\ inbox' \in [Peer -> Seq(Messages)]
         /\ \A q \in Peer : \A i \in DOMAIN inbox'[q] : \E j \in DOMAIN inbox[q] : inbox'[q][i] = inbox[q][j]
         /\ Message(p) \in Messages /\ Message(p).kind = kind
         /\ 1 \in DOMAIN inbox[p] /\ Message(p) = inbox[p][1]
         /\ p \in inside \cup gone /\ UNCHANGED serverVars
<1>1. inbox \in [Peer -> Seq(Messages)] /\ inbox[p] \in Seq(Messages) /\ inbox[p] # <<>>
      /\ inbox' = [inbox EXCEPT ![p] = Tail(@)] /\ Message(p) = Head(inbox[p]) /\ Head(inbox[p]).kind = kind
  BY DEF TypeOK, Receive, Message
<1>2. /\ Head(inbox[p]) \in Messages /\ Tail(inbox[p]) \in Seq(Messages)
      /\ 1 \in DOMAIN inbox[p] /\ Head(inbox[p]) = inbox[p][1]
      /\ \A i \in DOMAIN Tail(inbox[p]) : i + 1 \in DOMAIN inbox[p] /\ Tail(inbox[p])[i] = inbox[p][i + 1]
  BY <1>1, TailStep
<1>3. \A q \in Peer : inbox'[q] = IF q = p THEN Tail(inbox[p]) ELSE inbox[q]
  BY <1>1
<1>4. inbox' \in [Peer -> Seq(Messages)]
  BY <1>1, <1>2
<1>5. p \in inside \cup gone /\ UNCHANGED serverVars
  BY DEF Receive, Running, TypeOK
<1> QED BY <1>1, <1>2, <1>3, <1>4, <1>5

LEMMA SendRequest ==
  ASSUME TypeOK, NEW p \in Peer, NEW r \in Requests, Request(p, r)
  PROVE  /\ outbox' \in [Peer -> Seq(Requests)]
         /\ \A q \in Peer : \A i \in DOMAIN outbox'[q] :
               (\E j \in DOMAIN outbox[q] : outbox'[q][i] = outbox[q][j]) \/ (q = p /\ outbox'[q][i] = r)
<1>1. outbox \in [Peer -> Seq(Requests)] /\ outbox[p] \in Seq(Requests) /\ outbox' = [outbox EXCEPT ![p] = Append(@, r)]
  BY DEF TypeOK, Request
<1>2. /\ Append(outbox[p], r) \in Seq(Requests)
      /\ \A i \in DOMAIN Append(outbox[p], r) :
            (i \in DOMAIN outbox[p] /\ Append(outbox[p], r)[i] = outbox[p][i]) \/ Append(outbox[p], r)[i] = r
  BY <1>1, AppendStep
<1>3. \A q \in Peer : outbox'[q] = IF q = p THEN Append(outbox[p], r) ELSE outbox[q]
  BY <1>1
<1>4. outbox' \in [Peer -> Seq(Requests)]
  BY <1>1, <1>2
<1> QED BY <1>2, <1>3, <1>4

\* A new key: made by p, numbered after all others, shutting out who had left.
LEMMA MakeKeyStep ==
  ASSUME TypeOK, Apart, NEW p \in Peer, MakeKey(p)
  PROVE  /\ made' = made + 1 /\ made' \in Nat /\ Keys' = Keys \cup {made'} /\ made' \in Nat \ {0}
         /\ key' \in [Peer -> 0..made'] /\ had' \in [Peer -> SUBSET Keys'] /\ goneAt' \in [Keys' -> SUBSET Peer]
         /\ \A q \in Peer : had[q] \subseteq had'[q]
         /\ \A q \in Peer : key'[q] = key[q] \/ key'[q] \in had'[q]
         /\ \A k \in Keys : goneAt'[k] = goneAt[k]
         /\ \A k \in Keys' : goneAt'[k] \subseteq gone
         /\ made' \in had'[p]
<1>1. made \in Nat /\ made' = made + 1 /\ made' \in Nat \ {0}
  BY DEF TypeOK, MakeKey
<1>2. Keys' = Keys \cup {made'} /\ made' \notin Keys
  BY <1>1 DEF Keys
<1>3. goneAt' = [k \in Keys' |-> IF k = made' THEN gone \ {p} ELSE goneAt[k]]
  BY <1>1 DEF MakeKey, Keys
<1>4. goneAt \in [Keys -> SUBSET Peer] /\ gone \subseteq Peer
  BY DEF TypeOK
<1>5. goneAt' \in [Keys' -> SUBSET Peer]
  BY <1>2, <1>3, <1>4
<1>6. (\A k \in Keys : goneAt'[k] = goneAt[k]) /\ (\A k \in Keys' : goneAt'[k] \subseteq gone)
  BY <1>2, <1>3 DEF Apart
<1>7. had \in [Peer -> SUBSET Keys] /\ had' = [had EXCEPT ![p] = @ \cup {made'}]
  BY <1>1 DEF TypeOK, MakeKey
<1>8. had' \in [Peer -> SUBSET Keys'] /\ made' \in had'[p] /\ \A q \in Peer : had[q] \subseteq had'[q]
  BY <1>2, <1>7
<1>9. key \in [Peer -> 0..made] /\ key' = [key EXCEPT ![p] = made']
  BY <1>1 DEF TypeOK, MakeKey
<1>10. key' \in [Peer -> 0..made']
  BY <1>1, <1>9
<1>11. \A q \in Peer : key'[q] = key[q] \/ key'[q] \in had'[q]
  BY <1>8, <1>9
<1> QED BY <1>1, <1>2, <1>5, <1>6, <1>8, <1>10, <1>11

\* A step of a client that makes and installs no key.
LEMMA PlainStep ==
  ASSUME Inv, UNCHANGED serverVars, UNCHANGED key, UNCHANGED history,
         known' \in [Peer -> SUBSET Peer], ref' \in [Peer -> Peer \cup {None}],
         handover' \in [Peer -> Peer \cup {None}], due' \in [Peer -> Nat],
         inbox' \in [Peer -> Seq(Messages)],
         \A p \in Peer : \A i \in DOMAIN inbox'[p] : \E j \in DOMAIN inbox[p] : inbox'[p][i] = inbox[p][j],
         outbox' \in [Peer -> Seq(Requests)],
         \A p \in Peer : \A i \in DOMAIN outbox'[p] :
             \/ \E j \in DOMAIN outbox[p] : outbox'[p][i] = outbox[p][j]
             \/ outbox'[p][i].kind = "distribute" => outbox'[p][i].to # p /\ outbox'[p][i].key \in had[p],
         tasks' \in [Peer -> SUBSET Tasks],
         \A p \in Peer : \A t \in tasks'[p] :
             t \in tasks[p] \/ (t.kind = "wrap" /\ t.to # p /\ t.key \in had[p])
                            \/ (t.kind = "accept" /\ Obtainable(p, t.key))
  PROVE  Inv'
<1>1. made' = made /\ had' = had /\ goneAt' = goneAt /\ made \in Nat /\ key' = key
  BY DEF Inv, TypeOK, history
<1>2. TypeOK'
  BY <1>1 DEF Inv, TypeOK, serverVars, Keys
<1>3. Apart'
  BY <1>1 DEF Inv, Apart, serverVars, Keys
<1>4. Flow'
  <2>1. made' >= made /\ made' \in Nat /\ Flow /\ TypeOK
    BY <1>1 DEF Inv
  <2>2. \A p \in Peer : \A t \in tasks'[p] :
             t \in tasks[p] \/ (t.kind = "wrap" /\ t.to # p /\ t.key \in had'[p])
                            \/ (t.kind = "accept" /\ Obtainable(p, t.key))
    BY <1>1
  <2>3. \A p \in Peer : \A i \in DOMAIN outbox'[p] :
             \/ \E j \in DOMAIN outbox[p] : outbox'[p][i] = outbox[p][j]
             \/ outbox'[p][i].kind = "distribute" => outbox'[p][i].to # p /\ outbox'[p][i].key \in had'[p]
    BY <1>1
  <2>4. \A p \in Peer : \A i \in DOMAIN inbox'[p] :
             \/ \E j \in DOMAIN inbox[p] : inbox'[p][i] = inbox[p][j]
             \/ inbox'[p][i].kind = "key" => Obtainable(p, inbox'[p][i].key)
    OBVIOUS
  <2>5. /\ \A p \in Peer : had[p] \subseteq had'[p]
        /\ \A k \in Keys : goneAt'[k] = goneAt[k]
        /\ \A p \in Peer : key'[p] = key[p] \/ key'[p] \in had'[p]
    BY <1>1
  <2> QED BY <2>1, <2>2, <2>3, <2>4, <2>5, FlowStep
<1> QED BY <1>2, <1>3, <1>4 DEF Inv

\* Making a key and wrapping it for others keeps the invariant.
LEMMA NewKeyInv ==
  ASSUME Inv, NEW p \in Peer, NEW rotation \in BOOLEAN, MakeKey(p),
         tasks' = Wraps(p, known[p], made + 1, rotation),
         UNCHANGED serverVars, UNCHANGED <<outbox, known, handover>>,
         ref' \in [Peer -> Peer \cup {None}], due' \in [Peer -> Nat],
         inbox' \in [Peer -> Seq(Messages)],
         \A q \in Peer : \A i \in DOMAIN inbox'[q] : \E j \in DOMAIN inbox[q] : inbox'[q][i] = inbox[q][j]
  PROVE  Inv'
<1>0. TypeOK /\ Apart /\ Flow
  BY DEF Inv
<1>1. /\ made' = made + 1 /\ made' \in Nat /\ Keys' = Keys \cup {made'} /\ made' \in Nat \ {0}
      /\ key' \in [Peer -> 0..made'] /\ had' \in [Peer -> SUBSET Keys'] /\ goneAt' \in [Keys' -> SUBSET Peer]
      /\ \A q \in Peer : had[q] \subseteq had'[q]
      /\ \A q \in Peer : key'[q] = key[q] \/ key'[q] \in had'[q]
      /\ \A k \in Keys : goneAt'[k] = goneAt[k]
      /\ \A k \in Keys' : goneAt'[k] \subseteq gone
      /\ made' \in had'[p]
  BY <1>0, MakeKeyStep
<1>2. known[p] \in SUBSET Peer /\ made \in Nat
  BY <1>0 DEF TypeOK
<1>3. /\ tasks' \in [Peer -> SUBSET Tasks]
      /\ \A q \in Peer : \A t \in tasks'[q] : t \in tasks[q] \/ (q = p /\ t.kind = "wrap" /\ t.to # p /\ t.key = made')
  <2> DEFINE new == [kind : {"wrap"}, to : known[p] \ {p}, key : {made + 1}, rotation : {rotation}]
  <2>1. new \subseteq Tasks
    BY <1>1, <1>2 DEF Tasks
  <2>2. \A t \in new : t.kind = "wrap" /\ t.to # p /\ t.key = made'
    BY <1>1
  <2>3. tasks \in [Peer -> SUBSET Tasks] /\ tasks' = [tasks EXCEPT ![p] = @ \cup new]
    BY <1>0 DEF Wraps, TypeOK
  <2> HIDE DEF new
  <2>4. \A q \in Peer : tasks'[q] = IF q = p THEN tasks[p] \cup new ELSE tasks[q]
    BY <2>3
  <2>5. tasks' \in [Peer -> SUBSET Tasks]
    BY <2>1, <2>3
  <2>6. \A q \in Peer : \A t \in tasks'[q] : t \in tasks[q] \/ (q = p /\ t \in new)
    BY <2>4
  <2> QED BY <2>2, <2>5, <2>6
<1>4. TypeOK'
  BY <1>0, <1>1, <1>3 DEF TypeOK, serverVars
<1>5. Apart'
  BY <1>0, <1>1 DEF Apart, serverVars
<1>6. Flow'
  <2>1. made' >= made
    BY <1>1, <1>2
  <2>2. \A q \in Peer : \A t \in tasks'[q] :
             t \in tasks[q] \/ (t.kind = "wrap" /\ t.to # q /\ t.key \in had'[q])
    BY <1>1, <1>3
  <2>3. \A q \in Peer : \A i \in DOMAIN outbox'[q] :
             \/ \E j \in DOMAIN outbox[q] : outbox'[q][i] = outbox[q][j]
             \/ outbox'[q][i].kind = "distribute" => outbox'[q][i].to # q /\ outbox'[q][i].key \in had'[q]
    OBVIOUS
  <2>4. \A q \in Peer : \A i \in DOMAIN inbox'[q] :
             \/ \E j \in DOMAIN inbox[q] : inbox'[q][i] = inbox[q][j]
             \/ inbox'[q][i].kind = "key" => Obtainable(q, inbox'[q][i].key)
    OBVIOUS
  <2>5. \A q \in Peer : \A t \in tasks'[q] :
             t \in tasks[q] \/ (t.kind = "wrap" /\ t.to # q /\ t.key \in had'[q])
                            \/ (t.kind = "accept" /\ Obtainable(q, t.key))
    BY <2>2
  <2>6. made' \in Nat
    BY <1>1
  <2>7. \A q \in Peer : had[q] \subseteq had'[q]
    BY <1>1
  <2>8. \A q \in Peer : key'[q] = key[q] \/ key'[q] \in had'[q]
    BY <1>1
  <2>9. \A k \in Keys : goneAt'[k] = goneAt[k]
    BY <1>1
  <2> QED BY <1>0, <2>1, <2>3, <2>4, <2>5, <2>6, <2>7, <2>8, <2>9, FlowStep
<1> QED BY <1>4, <1>5, <1>6 DEF Inv

LEMMA OnJoinedInv == ASSUME Inv, NEW p \in Peer, OnJoined(p) PROVE Inv'
<1> DEFINE r == [kind |-> "register"]
<1>1. /\ Receive(p, "joined") /\ ref' = [ref EXCEPT ![p] = Message(p).holder]
      /\ known' = [known EXCEPT ![p] = @ \cup Message(p).bundles] /\ Request(p, r)
      /\ UNCHANGED <<handover, key, tasks, due, history>> /\ TypeOK
  BY DEF OnJoined, Inv
<1>2. /\ inbox' \in [Peer -> Seq(Messages)] /\ UNCHANGED serverVars
      /\ \A q \in Peer : \A i \in DOMAIN inbox'[q] : \E j \in DOMAIN inbox[q] : inbox'[q][i] = inbox[q][j]
      /\ Message(p) \in Messages /\ Message(p).kind = "joined"
  BY <1>1, TakeMessage
<1>3. Message(p).holder \in Peer \cup {None} /\ Message(p).bundles \in SUBSET Peer
  BY <1>2 DEF Messages
<1>4. r \in Requests /\ r.kind = "register"
  BY DEF Requests
<1>5. /\ outbox' \in [Peer -> Seq(Requests)]
      /\ \A q \in Peer : \A i \in DOMAIN outbox'[q] :
            (\E j \in DOMAIN outbox[q] : outbox'[q][i] = outbox[q][j]) \/ (q = p /\ outbox'[q][i] = r)
  <2> HIDE DEF r
  <2> QED BY <1>1, <1>4, SendRequest
<1>6. known' \in [Peer -> SUBSET Peer] /\ ref' \in [Peer -> Peer \cup {None}]
  BY <1>1, <1>3 DEF TypeOK
<1>7. /\ handover' \in [Peer -> Peer \cup {None}] /\ due' \in [Peer -> Nat] /\ tasks' \in [Peer -> SUBSET Tasks]
      /\ tasks' = tasks /\ UNCHANGED key /\ UNCHANGED history
  BY <1>1 DEF TypeOK
<1>8. \A q \in Peer : \A i \in DOMAIN outbox'[q] :
        (\E j \in DOMAIN outbox[q] : outbox'[q][i] = outbox[q][j]) \/ outbox'[q][i].kind # "distribute"
  BY <1>4, <1>5
<1> QED BY <1>2, <1>5, <1>6, <1>7, <1>8, PlainStep

LEMMA OnRegisteredInv == ASSUME Inv, NEW p \in Peer, OnRegistered(p) PROVE Inv'
<1>1. /\ Receive(p, "registered") /\ ref' = [ref EXCEPT ![p] = Message(p).holder]
      /\ UNCHANGED <<outbox, known, handover, due>> /\ TypeOK /\ Apart /\ Flow
  BY DEF OnRegistered, Inv
<1>2. /\ inbox' \in [Peer -> Seq(Messages)] /\ UNCHANGED serverVars
      /\ \A q \in Peer : \A i \in DOMAIN inbox'[q] : \E j \in DOMAIN inbox[q] : inbox'[q][i] = inbox[q][j]
      /\ Message(p) \in Messages /\ Message(p).kind = "registered"
  BY <1>1, TakeMessage
<1>3. Message(p).holder \in Peer
  BY <1>2 DEF Messages
<1>4. ref' \in [Peer -> Peer \cup {None}]
  BY <1>1, <1>3 DEF TypeOK
<1>5. outbox \in [Peer -> Seq(Requests)] /\ outbox' = outbox
  BY <1>1 DEF TypeOK
<1>6. CASE Message(p).generate
  <2>1. MakeKey(p) /\ tasks' = Wraps(p, known[p], made + 1, FALSE)
    BY <1>6 DEF OnRegistered
  <2>2. due' \in [Peer -> Nat]
    BY <1>1 DEF TypeOK
  <2> QED BY <1>1, <1>2, <1>4, <2>1, <2>2, NewKeyInv
<1>7. CASE ~Message(p).generate
  <2>1. UNCHANGED <<key, tasks, history>>
    BY <1>7 DEF OnRegistered
  <2>2. /\ known' \in [Peer -> SUBSET Peer] /\ handover' \in [Peer -> Peer \cup {None}] /\ due' \in [Peer -> Nat]
        /\ tasks' \in [Peer -> SUBSET Tasks] /\ tasks' = tasks /\ UNCHANGED key /\ UNCHANGED history
    BY <1>1, <2>1 DEF TypeOK
  <2> QED BY <1>2, <1>4, <1>5, <2>2, PlainStep
<1> QED BY <1>6, <1>7


LEMMA DueStep ==
  ASSUME NEW p \in Peer, due \in [Peer -> Nat], due' = due \/ due' = [due EXCEPT ![p] = @ + 1]
  PROVE  due' \in [Peer -> Nat]
<1>1. due[p] + 1 \in Nat
  OBVIOUS
<1>2. CASE due' = due
  BY <1>2
<1>3. CASE due' = [due EXCEPT ![p] = @ + 1]
  BY <1>1, <1>3
<1> QED BY <1>2, <1>3

LEMMA OnExchangeInv == ASSUME Inv, NEW p \in Peer, OnExchange(p) PROVE Inv'
<1> DEFINE m == Message(p)
<1>1. /\ Receive(p, "exchange") /\ ref' = [ref EXCEPT ![p] = m.holder]
      /\ known' = [known EXCEPT ![p] = @ \cup {m.peer}]
      /\ tasks' = IF m.holder = p /\ key[p] # 0 THEN Wraps(p, {m.peer}, key[p], FALSE) ELSE tasks
      /\ UNCHANGED <<outbox, handover, key, due, history>> /\ TypeOK
  BY DEF OnExchange, Inv
<1>2. /\ inbox' \in [Peer -> Seq(Messages)] /\ UNCHANGED serverVars
      /\ \A q \in Peer : \A i \in DOMAIN inbox'[q] : \E j \in DOMAIN inbox[q] : inbox'[q][i] = inbox[q][j]
      /\ m \in Messages /\ m.kind = "exchange"
  BY <1>1, TakeMessage
<1>3. m.holder \in Peer /\ m.peer \in Peer
  BY <1>2 DEF Messages
<1>4. known' \in [Peer -> SUBSET Peer] /\ ref' \in [Peer -> Peer \cup {None}]
  BY <1>1, <1>3 DEF TypeOK
<1>5. /\ handover' \in [Peer -> Peer \cup {None}] /\ due' \in [Peer -> Nat] /\ outbox' \in [Peer -> Seq(Requests)]
      /\ outbox' = outbox /\ UNCHANGED key /\ UNCHANGED history
  BY <1>1 DEF TypeOK
<1>6. /\ tasks' \in [Peer -> SUBSET Tasks]
      /\ \A q \in Peer : \A t \in tasks'[q] : t \in tasks[q] \/ (t.kind = "wrap" /\ t.to # q /\ t.key \in had[q])
  <2>1. CASE m.holder = p /\ key[p] # 0
    <3>1. key[p] \in Nat \ {0} /\ key[p] \in had[p]
      BY <2>1 DEF Inv, TypeOK, Flow, FlowOf
    <3> DEFINE new == [kind : {"wrap"}, to : {m.peer} \ {p}, key : {key[p]}, rotation : {FALSE}]
    <3>2. new \subseteq Tasks /\ \A t \in new : t.kind = "wrap" /\ t.to # p /\ t.key = key[p]
      BY <1>3, <3>1 DEF Tasks
    <3>3. tasks \in [Peer -> SUBSET Tasks] /\ tasks' = [tasks EXCEPT ![p] = @ \cup new]
      BY <1>1, <2>1 DEF Wraps, TypeOK
    <3> HIDE DEF new, m
    <3> QED BY <3>1, <3>2, <3>3
  <2>2. CASE ~(m.holder = p /\ key[p] # 0)
    <3>1. tasks' = tasks
      BY <1>1, <2>2
    <3> QED BY <1>1, <3>1 DEF TypeOK
  <2> QED BY <2>1, <2>2
<1>7. \A q \in Peer : \A i \in DOMAIN outbox'[q] :
        (\E j \in DOMAIN outbox[q] : outbox'[q][i] = outbox[q][j]) \/ outbox'[q][i].kind # "distribute"
  BY <1>5
<1> QED BY <1>2, <1>4, <1>5, <1>6, <1>7, PlainStep

\* Only a key that p may be given reaches p, so only such a key is unwrapped.
LEMMA OnEpochKeyInv == ASSUME Inv, NEW p \in Peer, OnEpochKey(p) PROVE Inv'
<1> DEFINE m == Message(p)
           t0 == [kind |-> "accept", key |-> m.key]
<1>1. /\ Receive(p, "key")
      /\ tasks' = tasks \/ tasks' = [tasks EXCEPT ![p] = @ \cup {t0}]
      /\ UNCHANGED <<outbox, known, ref, handover, key, due, history>> /\ TypeOK
  BY DEF OnEpochKey, Inv
<1>2. /\ inbox' \in [Peer -> Seq(Messages)] /\ UNCHANGED serverVars
      /\ \A q \in Peer : \A i \in DOMAIN inbox'[q] : \E j \in DOMAIN inbox[q] : inbox'[q][i] = inbox[q][j]
      /\ m \in Messages /\ m.kind = "key" /\ 1 \in DOMAIN inbox[p] /\ m = inbox[p][1]
  BY <1>1, TakeMessage
<1>3. m.key \in Nat \ {0} /\ Obtainable(p, m.key)
  BY <1>2 DEF Messages, Inv, Flow, FlowOf
<1>4. t0 \in Tasks /\ t0.kind = "accept" /\ t0.key = m.key
  BY <1>3 DEF Tasks
<1>5. /\ known' \in [Peer -> SUBSET Peer] /\ ref' \in [Peer -> Peer \cup {None}]
      /\ handover' \in [Peer -> Peer \cup {None}] /\ due' \in [Peer -> Nat] /\ outbox' \in [Peer -> Seq(Requests)]
      /\ outbox' = outbox /\ UNCHANGED key /\ UNCHANGED history
  BY <1>1 DEF TypeOK
<1> HIDE DEF t0, m
<1>6. tasks \in [Peer -> SUBSET Tasks]
  BY <1>1 DEF TypeOK
<1>7. /\ tasks' \in [Peer -> SUBSET Tasks]
      /\ \A q \in Peer : \A t \in tasks'[q] : t \in tasks[q] \/ (t.kind = "accept" /\ Obtainable(q, t.key))
  <2>1. CASE tasks' = tasks
    BY <1>6, <2>1
  <2>2. CASE tasks' = [tasks EXCEPT ![p] = @ \cup {t0}]
    BY <1>3, <1>4, <1>6, <2>2
  <2> QED BY <1>1, <2>1, <2>2
<1>8. \A q \in Peer : \A i \in DOMAIN outbox'[q] :
        (\E j \in DOMAIN outbox[q] : outbox'[q][i] = outbox[q][j]) \/ outbox'[q][i].kind # "distribute"
  BY <1>5
<1> QED BY <1>2, <1>5, <1>7, <1>8, PlainStep

LEMMA OnHandoverInv == ASSUME Inv, NEW p \in Peer, OnHolderChanged(p) \/ OnPeerLeft(p) PROVE Inv'
<1>1. /\ UNCHANGED <<outbox, key, tasks, history>> /\ TypeOK
      /\ \E kind \in {"changed", "left"} : Receive(p, kind)
  BY DEF OnHolderChanged, OnPeerLeft, Inv
<1>2. /\ inbox' \in [Peer -> Seq(Messages)] /\ UNCHANGED serverVars
      /\ \A q \in Peer : \A i \in DOMAIN inbox'[q] : \E j \in DOMAIN inbox[q] : inbox'[q][i] = inbox[q][j]
  BY <1>1, TakeMessage
<1>3. /\ tasks' \in [Peer -> SUBSET Tasks] /\ tasks' = tasks /\ outbox' \in [Peer -> Seq(Requests)]
      /\ outbox' = outbox /\ UNCHANGED key /\ UNCHANGED history
  BY <1>1 DEF TypeOK
<1>4. /\ known \in [Peer -> SUBSET Peer] /\ ref \in [Peer -> Peer \cup {None}]
      /\ handover \in [Peer -> Peer \cup {None}] /\ due \in [Peer -> Nat]
  BY <1>1 DEF TypeOK
<1>5. /\ known' \in [Peer -> SUBSET Peer] /\ ref' \in [Peer -> Peer \cup {None}]
      /\ handover' \in [Peer -> Peer \cup {None}] /\ due' \in [Peer -> Nat]
  <2>1. CASE OnHolderChanged(p)
    <3> DEFINE m == Message(p)
    <3>1. m \in Messages /\ m.kind = "changed"
      BY <1>1, <2>1, TakeMessage DEF OnHolderChanged
    <3>2. m.peer \in Peer /\ m.previous \in Peer
      BY <3>1 DEF Messages
    <3>3. /\ ref' = [ref EXCEPT ![p] = m.peer] /\ handover' = [handover EXCEPT ![p] = m.previous]
          /\ known' = [known EXCEPT ![p] = Forgets(@, m)]
          /\ due' = due \/ due' = [due EXCEPT ![p] = @ + 1]
      BY <2>1 DEF OnHolderChanged
    <3>4. known' \in [Peer -> SUBSET Peer]
      BY <1>4, <3>3 DEF Forgets
    <3>5. ref' \in [Peer -> Peer \cup {None}] /\ handover' \in [Peer -> Peer \cup {None}]
      BY <1>4, <3>2, <3>3
    <3>6. due' \in [Peer -> Nat]
      BY <1>4, <3>3, DueStep
    <3> QED BY <3>4, <3>5, <3>6
  <2>2. CASE OnPeerLeft(p)
    <3>1. /\ ref' = ref /\ (handover' = handover \/ handover' = [handover EXCEPT ![p] = None])
          /\ known' = [known EXCEPT ![p] = @ \ {Message(p).peer}]
          /\ due' = due \/ due' = [due EXCEPT ![p] = @ + 1]
      BY <2>2 DEF OnPeerLeft
    <3>2. ref' = ref
      BY <2>2 DEF OnPeerLeft
    <3>3. known' \in [Peer -> SUBSET Peer]
      BY <1>4, <3>1
    <3>4. handover' \in [Peer -> Peer \cup {None}]
      <4>1. handover' = handover \/ handover' = [handover EXCEPT ![p] = None]
        BY <2>2 DEF OnPeerLeft
      <4>2. CASE handover' = handover
        BY <1>4, <4>2
      <4>3. CASE handover' = [handover EXCEPT ![p] = None]
        BY <1>4, <4>3
      <4> QED BY <4>1, <4>2, <4>3
    <3>5. due' \in [Peer -> Nat]
      BY <1>4, <3>1, DueStep
    <3> QED BY <1>4, <3>2, <3>3, <3>4, <3>5
  <2> QED BY <2>1, <2>2
<1>6. \A q \in Peer : \A i \in DOMAIN outbox'[q] :
        (\E j \in DOMAIN outbox[q] : outbox'[q][i] = outbox[q][j]) \/ outbox'[q][i].kind # "distribute"
  BY <1>3
<1>7. \A q \in Peer : \A t \in tasks'[q] : t \in tasks[q]
  BY <1>3
<1> QED BY <1>2, <1>3, <1>5, <1>6, <1>7, PlainStep

LEMMA RotateInv == ASSUME Inv, NEW p \in Peer, Rotate(p) PROVE Inv'
<1>1. /\ due' = [due EXCEPT ![p] = @ - 1] /\ due[p] > 0
      /\ UNCHANGED <<serverVars, netVars, known, ref, handover>> /\ TypeOK
  BY DEF Rotate, NextRotation, Inv
<1>2. due \in [Peer -> Nat]
  BY <1>1 DEF TypeOK
<1>3. due' \in [Peer -> Nat]
  <2>1. due[p] - 1 \in Nat
    BY <1>1, <1>2
  <2> QED BY <1>1, <1>2, <2>1
<1>4. /\ ref' \in [Peer -> Peer \cup {None}] /\ inbox' \in [Peer -> Seq(Messages)] /\ inbox' = inbox
      /\ outbox' \in [Peer -> Seq(Requests)] /\ outbox' = outbox
      /\ known' \in [Peer -> SUBSET Peer] /\ handover' \in [Peer -> Peer \cup {None}]
      /\ UNCHANGED serverVars /\ UNCHANGED <<outbox, known, handover>>
  BY <1>1 DEF TypeOK, netVars
<1>5. \A q \in Peer : \A i \in DOMAIN inbox'[q] : \E j \in DOMAIN inbox[q] : inbox'[q][i] = inbox[q][j]
  BY <1>4
<1>6. CASE ref[p] = p
  <2>1. MakeKey(p) /\ tasks' = Wraps(p, known[p], made + 1, TRUE)
    BY <1>6 DEF Rotate
  <2> QED BY <1>3, <1>4, <1>5, <2>1, NewKeyInv
<1>7. CASE ref[p] # p
  <2>1. UNCHANGED <<key, tasks, history>>
    BY <1>7 DEF Rotate
  <2>2. tasks' \in [Peer -> SUBSET Tasks] /\ tasks' = tasks /\ UNCHANGED key /\ UNCHANGED history
    BY <1>1, <2>1 DEF TypeOK
  <2>3. \A q \in Peer : \A i \in DOMAIN outbox'[q] :
          (\E j \in DOMAIN outbox[q] : outbox'[q][i] = outbox[q][j]) \/ outbox'[q][i].kind # "distribute"
    BY <1>4
  <2>4. \A q \in Peer : \A t \in tasks'[q] : t \in tasks[q]
    BY <2>2
  <2> QED BY <1>3, <1>4, <1>5, <2>2, <2>3, <2>4, PlainStep
<1> QED BY <1>6, <1>7

LEMMA WrapDoneInv == ASSUME Inv, NEW p \in Peer, WrapDone(p) PROVE Inv'
<1>1. PICK t0 \in tasks[p] :
        /\ t0.kind = "wrap"
        /\ Request(p, [kind |-> "distribute", to |-> t0.to, key |-> t0.key, rotation |-> t0.rotation])
        /\ tasks' = [tasks EXCEPT ![p] = @ \ {t0}]
        /\ UNCHANGED <<serverVars, inbox, known, ref, handover, key, due, history>>
  BY DEF WrapDone
<1> DEFINE r == [kind |-> "distribute", to |-> t0.to, key |-> t0.key, rotation |-> t0.rotation]
<1>2. TypeOK /\ tasks \in [Peer -> SUBSET Tasks]
  BY DEF Inv, TypeOK
<1>3. t0 \in Tasks /\ t0.to # p /\ t0.key \in had[p]
  BY <1>1, <1>2 DEF Inv, Flow, FlowOf
<1>4. t0.to \in Peer /\ t0.key \in Nat \ {0} /\ t0.rotation \in BOOLEAN
  BY <1>1, <1>3 DEF Tasks
<1>5. r \in Requests /\ r.to # p /\ r.key \in had[p] /\ Request(p, r)
  BY <1>1, <1>3, <1>4 DEF Requests
<1> HIDE DEF r
<1>6. /\ outbox' \in [Peer -> Seq(Requests)]
      /\ \A q \in Peer : \A i \in DOMAIN outbox'[q] :
            (\E j \in DOMAIN outbox[q] : outbox'[q][i] = outbox[q][j]) \/ (q = p /\ outbox'[q][i] = r)
  BY <1>2, <1>5, SendRequest
<1>7. \A q \in Peer : \A i \in DOMAIN outbox'[q] :
        \/ \E j \in DOMAIN outbox[q] : outbox'[q][i] = outbox[q][j]
        \/ outbox'[q][i].kind = "distribute" => outbox'[q][i].to # q /\ outbox'[q][i].key \in had[q]
  BY <1>5, <1>6
<1>8. tasks' \in [Peer -> SUBSET Tasks] /\ \A q \in Peer : \A t \in tasks'[q] : t \in tasks[q]
  BY <1>1, <1>2
<1>9. /\ inbox' \in [Peer -> Seq(Messages)] /\ inbox' = inbox /\ UNCHANGED serverVars /\ UNCHANGED key /\ UNCHANGED history
      /\ known' \in [Peer -> SUBSET Peer] /\ ref' \in [Peer -> Peer \cup {None}]
      /\ handover' \in [Peer -> Peer \cup {None}] /\ due' \in [Peer -> Nat]
  BY <1>1, <1>2 DEF TypeOK
<1>10. \A q \in Peer : \A i \in DOMAIN inbox'[q] : \E j \in DOMAIN inbox[q] : inbox'[q][i] = inbox[q][j]
  BY <1>9
<1> QED BY <1>6, <1>7, <1>8, <1>9, <1>10, PlainStep

LEMMA AcceptDoneInv == ASSUME Inv, NEW p \in Peer, AcceptDone(p) PROVE Inv'
<1> DEFINE r == [kind |-> "received"]
<1>1. PICK t0 \in tasks[p] :
        /\ t0.kind = "accept" /\ InstallKey(p, t0.key) /\ Request(p, r)
        /\ tasks' = [tasks EXCEPT ![p] = @ \ {t0}]
        /\ UNCHANGED <<serverVars, inbox, known, ref, handover, due>>
  BY DEF AcceptDone
<1>2. TypeOK /\ Apart /\ Flow /\ tasks \in [Peer -> SUBSET Tasks] /\ made \in Nat
  BY DEF Inv, TypeOK
<1>3. Obtainable(p, t0.key) /\ t0.key \in Keys
  BY <1>1, <1>2 DEF Flow, FlowOf, Obtainable
<1>4. r \in Requests /\ r.kind = "received"
  BY DEF Requests
<1> HIDE DEF r
<1>5. /\ outbox' \in [Peer -> Seq(Requests)]
      /\ \A q \in Peer : \A i \in DOMAIN outbox'[q] :
            (\E j \in DOMAIN outbox[q] : outbox'[q][i] = outbox[q][j]) \/ (q = p /\ outbox'[q][i] = r)
  BY <1>1, <1>2, <1>4, SendRequest
<1>6. tasks' \in [Peer -> SUBSET Tasks] /\ \A q \in Peer : \A t \in tasks'[q] : t \in tasks[q]
  BY <1>1, <1>2
<1>7. /\ made' = made /\ goneAt' = goneAt /\ key' = [key EXCEPT ![p] = t0.key]
      /\ had' = [had EXCEPT ![p] = @ \cup {t0.key}]
  BY <1>1 DEF InstallKey
<1>8. had' \in [Peer -> SUBSET Keys] /\ t0.key \in had'[p] /\ \A q \in Peer : had[q] \subseteq had'[q]
  BY <1>2, <1>3, <1>7 DEF TypeOK
<1>9. key' \in [Peer -> 0..made] /\ \A q \in Peer : key'[q] = key[q] \/ key'[q] \in had'[q]
  <2>1. key \in [Peer -> 0..made] /\ t0.key \in 0..made
    BY <1>2, <1>3 DEF TypeOK, Keys
  <2> QED BY <1>7, <1>8, <2>1
<1>10. TypeOK'
  <2>1. Keys' = Keys
    BY <1>7 DEF Keys
  <2> QED BY <1>1, <1>2, <1>5, <1>6, <1>7, <1>8, <1>9, <2>1 DEF TypeOK, serverVars
<1>11. Apart'
  BY <1>1, <1>2, <1>7 DEF Apart, serverVars, Keys
<1>12. Flow'
  <2>1. made' >= made /\ made' \in Nat
    BY <1>2, <1>7
  <2>2. \A k \in Keys : goneAt'[k] = goneAt[k]
    BY <1>7
  <2>3. \A q \in Peer : \A t \in tasks'[q] :
             t \in tasks[q] \/ (t.kind = "wrap" /\ t.to # q /\ t.key \in had'[q])
                            \/ (t.kind = "accept" /\ Obtainable(q, t.key))
    BY <1>6
  <2>4. \A q \in Peer : \A i \in DOMAIN outbox'[q] :
             \/ \E j \in DOMAIN outbox[q] : outbox'[q][i] = outbox[q][j]
             \/ outbox'[q][i].kind = "distribute" => outbox'[q][i].to # q /\ outbox'[q][i].key \in had'[q]
    BY <1>4, <1>5
  <2>5. \A q \in Peer : \A i \in DOMAIN inbox'[q] :
             \/ \E j \in DOMAIN inbox[q] : inbox'[q][i] = inbox[q][j]
             \/ inbox'[q][i].kind = "key" => Obtainable(q, inbox'[q][i].key)
    BY <1>1
  <2> QED BY <1>2, <1>8, <1>9, <2>1, <2>2, <2>3, <2>4, <2>5, FlowStep
<1> QED BY <1>10, <1>11, <1>12 DEF Inv

-----------------------------------------------------------------------------
(* The theorems. *)

LEMMA InvNext == Inv /\ [Next]_vars => Inv'
<1> SUFFICES ASSUME Inv, [Next]_vars PROVE Inv'
  OBVIOUS
<1>1. CASE UNCHANGED vars
  BY <1>1 DEF vars, serverVars, netVars, clientVars, history, Inv, TypeOK, Apart, Flow, FlowOf, Obtainable, Keys
<1>2. CASE Next
  <2>1. PICK p \in Peer : ServerStep(p) \/ ClientStep(p) \/ Churn(p)
    BY <1>2 DEF Next
  <2>2. CASE ServerStep(p)
    BY <2>2, RegisterInv, OtherRequestInv, DistributeInv, DepartInv DEF ServerStep
  <2>3. CASE ClientStep(p)
    BY <2>3, OnJoinedInv, OnRegisteredInv, OnExchangeInv, OnEpochKeyInv, OnHandoverInv, RotateInv,
       WrapDoneInv, AcceptDoneInv DEF ClientStep
  <2>4. CASE Churn(p)
    BY <2>4, JoinInv, DepartInv DEF Churn
  <2> QED BY <2>1, <2>2, <2>3, <2>4
<1> QED BY <1>1, <1>2

\* GroupKey, any number of participants: every state satisfies the invariant.
THEOREM Invariance == Spec => []Inv
<1> QED BY InvInit, InvNext, PTL DEF Spec

\* Every state of the group key protocol has its type: in particular nobody ever
\* holds a key that was not made.
THEOREM TypeCorrect == Spec => []TypeOK
<1>1. Inv => TypeOK
  BY DEF Inv
<1> QED BY <1>1, Invariance, PTL

\* What changes the keys of the room, seen through KeyEpochs: each step of the
\* protocol is an arrival, a departure, a new key, a key obtained or none of them.
LEMMA EpochStep == Inv /\ [Next]_vars => [Epochs!Next]_(Epochs!vars)
<1> SUFFICES ASSUME Inv, [Next]_vars PROVE [Epochs!Next]_(Epochs!vars)
  OBVIOUS
<1> DEFINE Same == UNCHANGED <<inside, gone, made, had, goneAt>>
<1>0. Same => UNCHANGED (Epochs!vars)
  BY DEF Epochs!vars
<1>1. CASE UNCHANGED vars
  BY <1>0, <1>1 DEF vars, serverVars, history
<1>2. CASE Next
  <2>1. PICK p \in Peer : ServerStep(p) \/ ClientStep(p) \/ Churn(p)
    BY <1>2 DEF Next
  <2>2. ServerStep(p) => Same
    BY DEF ServerStep, RegisterKeys, RegisterRefused, DistributeEpochKey, E2eeKeyReceived, CloseKicked,
           serverVars, history
  <2>3. OnJoined(p) \/ OnExchange(p) \/ OnEpochKey(p) \/ OnHolderChanged(p) \/ OnPeerLeft(p) \/ WrapDone(p) => Same
    BY DEF OnJoined, OnExchange, OnEpochKey, OnHolderChanged, OnPeerLeft, WrapDone, Receive, serverVars, history
  <2>4. MakeKey(p) /\ UNCHANGED serverVars /\ Running(p) => Epochs!NewKey(p)
    BY DEF MakeKey, Running, Inv, TypeOK, serverVars, Epochs!NewKey
  <2>5. OnRegistered(p) \/ Rotate(p) => Same \/ Epochs!NewKey(p)
    BY <2>4 DEF OnRegistered, Rotate, Receive, serverVars, history
  <2>6. ASSUME AcceptDone(p) PROVE \E k \in Epochs!Keys : Epochs!Obtain(p, k)
    <3>1. PICK t \in tasks[p] : Running(p) /\ t.kind = "accept" /\ InstallKey(p, t.key) /\ UNCHANGED serverVars
      BY <2>6 DEF AcceptDone
    <3>2. Obtainable(p, t.key)
      BY <3>1 DEF Inv, Flow, FlowOf
    <3>3. p \in inside \cup gone
      BY <3>1 DEF Running, Inv, TypeOK
    <3>4. t.key \in Epochs!Keys
      BY <3>2 DEF Obtainable, Keys, Epochs!Keys
    <3>5. Epochs!Obtain(p, t.key)
      BY <3>1, <3>2, <3>3, <3>4 DEF Obtainable, InstallKey, serverVars, Epochs!Obtain
    <3> QED BY <3>4, <3>5
  <2>7. Join(p) => Epochs!Enter(p)
    BY DEF Join, history, Epochs!Enter
  <2>8. Leave(p) \/ Kick(p) => Epochs!Exit(p)
    BY DEF Leave, Kick, RemovePeer, history, Epochs!Exit
  <2> HIDE DEF Same
  <2> QED BY <1>0, <2>1, <2>2, <2>3, <2>5, <2>6, <2>7, <2>8 DEF ServerStep, ClientStep, Churn, Epochs!Next
<1> QED BY <1>1, <1>2

\* The exchange of keys implements KeyEpochs: whatever hand-overs, departures and
\* late messages do, a key passes only from somebody who has it and never to one
\* who had left when it was made.
THEOREM KeysAsPromisedAlways == Spec => KeysAsPromised
<1>1. Init => Epochs!Init
  BY DEF Init, Epochs!Init
<1> QED BY <1>1, EpochStep, Invariance, PTL DEF Spec, KeysAsPromised, Epochs!Spec

\* A key made after somebody left never reaches them: what shuts them out at the
\* making holds for as long as the meeting lasts.
THEOREM NeverForTheDepartedAlways == Spec => []NeverForTheDeparted
<1>1. Init => NeverForTheDeparted
  BY DEF Init, NeverForTheDeparted, Keys
<1>2. ASSUME Inv, NeverForTheDeparted, [Epochs!Next]_(Epochs!vars) PROVE NeverForTheDeparted'
  <2>0. /\ goneAt \in [Keys -> SUBSET Peer] /\ had \in [Peer -> SUBSET Keys] /\ made \in Nat
    BY <1>2 DEF Inv, TypeOK
  <2>1. CASE UNCHANGED (Epochs!vars)
    BY <1>2, <2>1 DEF Epochs!vars, NeverForTheDeparted, Keys
  <2>2. ASSUME NEW p \in Peer, Epochs!Enter(p) \/ Epochs!Exit(p) PROVE NeverForTheDeparted'
    BY <1>2, <2>2 DEF Epochs!Enter, Epochs!Exit, NeverForTheDeparted, Keys
  <2>3. ASSUME NEW p \in Peer, Epochs!NewKey(p) PROVE NeverForTheDeparted'
    <3>1. /\ made' = made + 1 /\ had' = [had EXCEPT ![p] = @ \cup {made + 1}]
          /\ goneAt' = [k \in 1..(made + 1) |-> IF k = made + 1 THEN gone \ {p} ELSE goneAt[k]]
      BY <2>3 DEF Epochs!NewKey
    <3>2. Keys' = Keys \cup {made'} /\ made' \notin Keys
      BY <2>0, <3>1 DEF Keys
    <3>3. \A q \in Peer : had'[q] = IF q = p THEN had[q] \cup {made'} ELSE had[q]
      BY <2>0, <3>1
    <3>4. made' \in Keys' /\ goneAt'[made'] = gone \ {p} /\ gone \subseteq Peer
      BY <1>2, <2>0, <3>1 DEF Keys, Inv, TypeOK
    <3>5. \A k \in Keys : goneAt'[k] = goneAt[k] /\ goneAt[k] \subseteq Peer
      BY <2>0, <3>1 DEF Keys
    <3>6. \A k \in Keys : \A q \in goneAt'[k] : k \notin had'[q]
      BY <1>2, <3>2, <3>3, <3>5 DEF NeverForTheDeparted
    <3>7. \A q \in goneAt'[made'] : made' \notin had'[q]
      BY <2>0, <3>2, <3>3, <3>4
    <3> QED BY <3>2, <3>6, <3>7 DEF NeverForTheDeparted
  <2>4. ASSUME NEW p \in Peer, NEW k0 \in Epochs!Keys, Epochs!Obtain(p, k0) PROVE NeverForTheDeparted'
    <3>1. had' = [had EXCEPT ![p] = @ \cup {k0}] /\ UNCHANGED <<made, goneAt>> /\ p \notin goneAt[k0]
      BY <2>4 DEF Epochs!Obtain
    <3>2. \A q \in Peer : had'[q] = IF q = p THEN had[q] \cup {k0} ELSE had[q]
      BY <2>0, <3>1
    <3> QED BY <1>2, <2>0, <3>1, <3>2 DEF NeverForTheDeparted, Keys
  <2> QED BY <1>2, <2>1, <2>2, <2>3, <2>4 DEF Epochs!Next
<1>3. Inv /\ NeverForTheDeparted /\ [Next]_vars => NeverForTheDeparted'
  BY <1>2, EpochStep
<1> QED BY <1>1, <1>3, Invariance, PTL DEF Spec

-----------------------------------------------------------------------------
(* The seat of the holder. *)

\* Only who came has registered, so a newcomer is not registered yet.
SeatInv == HolderElected /\ bundle \subseteq inside \cup gone

\* A registration fills the seat if it is empty.
LEMMA RegisterSeat ==
  ASSUME TypeOK, SeatInv, NEW p \in Peer, RegisterKeys(p)
  PROVE  SeatInv'
<1>1. /\ p \in inside /\ UNCHANGED <<inside, gone>> /\ bundle' = bundle \cup {p}
      /\ holder' = IF HolderRegistered THEN holder ELSE p
      /\ ready' = IF HolderRegistered THEN ready ELSE ready \cup {p}
  BY DEF RegisterKeys
<1>2. Registered' = Registered \cup {p}
  BY <1>1 DEF Registered
<1>3. HolderElected'
  BY <1>1, <1>2 DEF HolderElected, SeatInv, HolderRegistered
<1> QED BY <1>1, <1>3 DEF SeatInv

\* A departure passes the seat on while anybody registered is left.
LEMMA DepartSeat ==
  ASSUME TypeOK, SeatInv, NEW p \in Peer, NEW announce \in BOOLEAN, RemovePeer(p, announce)
  PROVE  SeatInv'
<1>1. /\ inside' = inside \ {p} /\ gone' = gone \cup {p} /\ bundle' = bundle
      /\ Registered' = Registered \ {p}
  BY DEF RemovePeer, Registered
<1>2. \/ holder # p /\ UNCHANGED <<holder, ready>>
      \/ holder = p /\ Candidates(p) = {} /\ holder' = None
      \/ holder = p /\ holder' \in Candidates(p) /\ ready' = ready \cup {holder'}
  BY DEF RemovePeer, ElectHolder
<1>3. Candidates(p) \subseteq Registered \ {p} /\ (Candidates(p) = {} <=> Registered \ {p} = {})
  BY DEF Candidates
<1>4. None \notin Registered
  BY DEF TypeOK, Registered
<1>5. HolderElected'
  BY <1>1, <1>2, <1>3, <1>4 DEF HolderElected, SeatInv
<1> QED BY <1>1, <1>5 DEF SeatInv

\* No other step touches the seat, and who acknowledges a key only becomes ready.
LEMMA SeatStep == TypeOK /\ SeatInv /\ [Next]_vars => SeatInv'
<1> SUFFICES ASSUME TypeOK, SeatInv, [Next]_vars PROVE SeatInv'
  OBVIOUS
<1>1. ASSUME UNCHANGED <<inside, gone, bundle, holder>>, ready \subseteq ready' PROVE SeatInv'
  BY <1>1 DEF SeatInv, HolderElected, Registered
<1>2. CASE UNCHANGED vars
  BY <1>1, <1>2 DEF vars, serverVars
<1>3. CASE Next
  <2>1. PICK p \in Peer : ServerStep(p) \/ ClientStep(p) \/ Churn(p)
    BY <1>3 DEF Next
  <2>2. CASE RegisterKeys(p)
    BY <2>2, RegisterSeat
  <2>3. CASE RegisterRefused(p) \/ DistributeEpochKey(p) \/ E2eeKeyReceived(p) \/ CloseKicked(p)
    BY <1>1, <2>3 DEF RegisterRefused, DistributeEpochKey, E2eeKeyReceived, CloseKicked, serverVars
  <2>4. CASE ClientStep(p)
    <3>1. UNCHANGED serverVars
      BY <2>4 DEF ClientStep, OnJoined, OnRegistered, OnExchange, OnEpochKey, OnHolderChanged, OnPeerLeft,
                  Receive, Rotate, WrapDone, AcceptDone
    <3> QED BY <1>1, <3>1 DEF serverVars
  <2>5. CASE Join(p)
    <3>1. /\ p \notin bundle /\ inside' = inside \cup {p} /\ UNCHANGED <<gone, bundle, ready, holder>>
      BY <2>5 DEF Join, SeatInv
    <3>2. Registered' = Registered
      BY <3>1 DEF Registered
    <3> QED BY <3>1, <3>2 DEF SeatInv, HolderElected
  <2>6. CASE Leave(p) \/ Kick(p)
    BY <2>6, DepartSeat DEF Leave, Kick
  <2> QED BY <2>1, <2>2, <2>3, <2>4, <2>5, <2>6 DEF ServerStep, Churn
<1> QED BY <1>2, <1>3

\* While anybody registered is in the room there is a key holder, who is inside,
\* registered and counted as holding the key, for any number of participants:
\* electE2EEKeyHolder skips nobody able to take the job.
THEOREM HolderElectedAlways == Spec => []HolderElected
<1>1. Init => SeatInv
  BY DEF Init, SeatInv, HolderElected, Registered
<1>2. SeatInv => HolderElected
  BY DEF SeatInv
<1> QED BY <1>1, <1>2, SeatStep, TypeCorrect, PTL DEF Spec

-----------------------------------------------------------------------------
(* What a client has been told when it gets to a point of its inbox. *)

\* At position n of the queue s, a is in A: it is now, or a message of G before n
\* puts it there, and no message of B comes after that.
Stands(s, n, a, A, G, B) ==
    \E j \in 0..(n - 1) : /\ IF j = 0 THEN a \in A ELSE s[j] \in G
                          /\ \A l \in (j + 1)..(n - 1) : s[l] \notin B

Tellings == {m \in Messages : m.kind \in {"joined", "exchange", "registered"}}
Changes == {m \in Messages : m.kind = "changed"}
Naming(h) == {m \in Tellings : m.holder = h} \cup {m \in Changes : m.peer = h}
NamingOther(h) == {m \in Tellings : m.holder # h} \cup {m \in Changes : m.peer # h}
Introducing(q) == {m \in Messages : \/ m.kind = "joined" /\ q \in m.bundles
                                    \/ m.kind = "exchange" /\ m.peer = q}
Dropping(q) == {m \in Messages : \/ m.kind = "changed" /\ m.previous = q
                                 \/ m.kind = "left" /\ m.peer = q}

\* A client that takes r for the holder, knows K and has the queue s takes h for
\* the holder, and knows q, when it gets to the n-th message.
Hears(r, s, n, h) == Stands(s, n, r, {h}, Naming(h), NamingOther(h))
Meets(K, s, n, q) == Stands(s, n, q, K, Introducing(q), Dropping(q))

\* It hears of the holder h and of all registered R but itself, p, and has heard of
\* the sender when it gets to an envelope.
Attends(p, r, K, s, h, R) ==
    /\ h # None => Hears(r, s, Len(s) + 1, h)
    /\ \A q \in R \ {p} : Meets(K, s, Len(s) + 1, q)
    /\ \A i \in DOMAIN s : s[i].kind = "key" => Hears(r, s, i, s[i].from) /\ Meets(K, s, i, s[i].from)

Unborn == \A p \in Peer \ (inside \cup gone) : inbox[p] = <<>>
Heard == Unborn /\ \A p \in inside : Attends(p, ref[p], known[p], inbox[p], holder, Registered)

LEMMA StandsAppend ==
  ASSUME NEW s \in Seq(Messages), NEW m \in Messages, NEW a, NEW A, NEW G, NEW B
  PROVE  /\ \A n \in 1..(Len(s) + 1) : Stands(s, n, a, A, G, B) => Stands(Append(s, m), n, a, A, G, B)
         /\ Stands(s, Len(s) + 1, a, A, G, B) /\ m \notin B => Stands(Append(s, m), Len(s) + 2, a, A, G, B)
         /\ m \in G => Stands(Append(s, m), Len(s) + 2, a, A, G, B)
<1> DEFINE t == Append(s, m)
<1>1. Len(s) \in Nat /\ t[Len(s) + 1] = m /\ \A i \in 1..Len(s) : t[i] = s[i]
  OBVIOUS
<1> HIDE DEF t
<1>2. ASSUME NEW n \in 1..(Len(s) + 1), Stands(s, n, a, A, G, B) PROVE Stands(t, n, a, A, G, B)
  <2>1. PICK j \in 0..(n - 1) : /\ IF j = 0 THEN a \in A ELSE s[j] \in G
                                /\ \A l \in (j + 1)..(n - 1) : s[l] \notin B
    BY <1>2 DEF Stands
  <2>2. IF j = 0 THEN a \in A ELSE t[j] \in G
    BY <1>1, <2>1
  <2>3. \A l \in (j + 1)..(n - 1) : t[l] \notin B
    BY <1>1, <2>1
  <2> QED BY <2>2, <2>3 DEF Stands
<1>3. ASSUME Stands(s, Len(s) + 1, a, A, G, B), m \notin B PROVE Stands(t, Len(s) + 2, a, A, G, B)
  <2>1. PICK j \in 0..Len(s) : /\ IF j = 0 THEN a \in A ELSE s[j] \in G
                               /\ \A l \in (j + 1)..Len(s) : s[l] \notin B
    BY <1>1, <1>3 DEF Stands
  <2>2. IF j = 0 THEN a \in A ELSE t[j] \in G
    BY <1>1, <2>1
  <2>3. \A l \in (j + 1)..(Len(s) + 1) : t[l] \notin B
    BY <1>1, <1>3, <2>1
  <2>4. Len(s) + 2 - 1 = Len(s) + 1 /\ j \in 0..(Len(s) + 1)
    BY <1>1, <2>1
  <2> QED BY <2>2, <2>3, <2>4 DEF Stands
<1>4. ASSUME m \in G PROVE Stands(t, Len(s) + 2, a, A, G, B)
  <2> DEFINE j == Len(s) + 1
  <2>1. j \in 0..(Len(s) + 2 - 1) /\ j # 0 /\ t[j] \in G
    BY <1>1, <1>4
  <2>2. \A l \in (j + 1)..(Len(s) + 2 - 1) : t[l] \notin B
    BY <1>1
  <2> QED BY <2>1, <2>2 DEF Stands
<1> QED BY <1>2, <1>3, <1>4 DEF t

\* Taking the first message out does by it what the message does.
LEMMA StandsTail ==
  ASSUME NEW s \in Seq(Messages), s # <<>>, NEW n \in 2..(Len(s) + 1), NEW a, NEW A, NEW b, NEW C, NEW G, NEW B,
         Stands(s, n, a, A, G, B),
         Head(s) \in G => b \in C,
         a \in A /\ Head(s) \notin B => b \in C
  PROVE  Stands(Tail(s), n - 1, b, C, G, B)
<1> DEFINE t == Tail(s)
<1>1. Len(s) \in Nat /\ Head(s) = s[1] /\ \A i \in 1..(Len(s) - 1) : t[i] = s[i + 1]
  OBVIOUS
<1> HIDE DEF t
<1>2. PICK j \in 0..(n - 1) : /\ IF j = 0 THEN a \in A ELSE s[j] \in G
                              /\ \A l \in (j + 1)..(n - 1) : s[l] \notin B
  BY DEF Stands
<1>3. \A l \in j..(n - 2) : l # 0 => t[l] \notin B
  <2> SUFFICES ASSUME NEW l \in j..(n - 2), l # 0 PROVE t[l] \notin B
    OBVIOUS
  <2>1. l \in 1..(Len(s) - 1) /\ l + 1 \in (j + 1)..(n - 1)
    BY <1>1
  <2> QED BY <1>1, <1>2, <2>1
<1>4. n - 1 - 1 = n - 2 /\ n - 2 \in Nat
  OBVIOUS
<1>5. CASE j \in {0, 1}
  <2>1. b \in C
    <3>1. CASE j = 0
      <4>1. 1 \in (j + 1)..(n - 1)
        BY <3>1
      <4> QED BY <1>1, <1>2, <3>1, <4>1
    <3>2. CASE j = 1
      BY <1>1, <1>2, <3>2
    <3> QED BY <1>5, <3>1, <3>2
  <2>2. \A l \in (0 + 1)..(n - 2) : t[l] \notin B
    BY <1>3, <1>5
  <2>3. 0 \in 0..(n - 2)
    BY <1>4
  <2> QED BY <1>4, <2>1, <2>2, <2>3 DEF Stands, t
<1>6. CASE j \notin {0, 1}
  <2>1. j - 1 \in 0..(n - 2) /\ j - 1 # 0 /\ j - 1 \in 1..(Len(s) - 1)
    BY <1>1, <1>6
  <2>2. t[j - 1] \in G
    BY <1>1, <1>2, <1>6, <2>1
  <2>3. \A l \in ((j - 1) + 1)..(n - 2) : t[l] \notin B
    BY <1>3, <1>6
  <2> QED BY <1>4, <2>1, <2>2, <2>3 DEF Stands, t
<1> QED BY <1>5, <1>6

\* At the head of the queue it stands as it does now.
LEMMA StandsNow ==
  ASSUME NEW s, NEW a, NEW A, NEW G, NEW B, Stands(s, 1, a, A, G, B) PROVE a \in A
  BY DEF Stands

-----------------------------------------------------------------------------
(* What the service adds to an inbox, and what taking a message out does. *)

LEMMA AttendsLess ==
  ASSUME NEW p, NEW r, NEW K, NEW s, NEW h, NEW R, Attends(p, r, K, s, h, R), NEW g \in {h, None}, NEW Q \in SUBSET R
  PROVE  Attends(p, r, K, s, g, Q)
  BY DEF Attends

\* A message may be added that names the holder if it is new, introduces who is
\* newly registered and, if it is an envelope, comes from the holder.
LEMMA AttendsAppend ==
  ASSUME NEW p, NEW r, NEW K, NEW s \in Seq(Messages), NEW m \in Messages, NEW h, NEW R, NEW g, NEW Q,
         Attends(p, r, K, s, h, R),
         g # None => m \in Naming(g) \/ (g = h /\ m \notin NamingOther(g)),
         \A q \in Q \ {p} : m \in Introducing(q) \/ (q \in R /\ m \notin Dropping(q)),
         m.kind = "key" => m.from = h /\ h # None /\ h \in R \ {p}
  PROVE  Attends(p, r, K, Append(s, m), g, Q)
<1> DEFINE t == Append(s, m)
<1>1. Len(s) \in Nat /\ Len(t) = Len(s) + 1 /\ Len(s) + 1 + 1 = Len(s) + 2 /\ t[Len(s) + 1] = m /\ \A i \in 1..Len(s) : t[i] = s[i]
      /\ DOMAIN t = 1..(Len(s) + 1) /\ DOMAIN s = 1..Len(s)
  OBVIOUS
<1>2. ASSUME g # None PROVE Hears(r, t, Len(t) + 1, g)
  <2>1. CASE m \in Naming(g)
    BY <1>1, <2>1, StandsAppend DEF Hears
  <2>2. CASE g = h /\ m \notin NamingOther(g)
    <3>1. Stands(s, Len(s) + 1, r, {g}, Naming(g), NamingOther(g))
      BY <1>2, <2>2 DEF Attends, Hears
    <3>2. Stands(t, Len(s) + 2, r, {g}, Naming(g), NamingOther(g))
      BY <2>2, <3>1, StandsAppend
    <3> QED BY <1>1, <3>2 DEF Hears
  <2> QED BY <1>2, <2>1, <2>2
<1>3. ASSUME NEW q \in Q \ {p} PROVE Meets(K, t, Len(t) + 1, q)
  <2>1. CASE m \in Introducing(q)
    BY <1>1, <2>1, StandsAppend DEF Meets
  <2>2. CASE q \in R /\ m \notin Dropping(q)
    <3>1. Stands(s, Len(s) + 1, q, K, Introducing(q), Dropping(q))
      BY <2>2 DEF Attends, Meets
    <3>2. Stands(t, Len(s) + 2, q, K, Introducing(q), Dropping(q))
      BY <2>2, <3>1, StandsAppend
    <3> QED BY <1>1, <3>2 DEF Meets
  <2> QED BY <2>1, <2>2
<1>4. ASSUME NEW i \in DOMAIN t, t[i].kind = "key" PROVE Hears(r, t, i, t[i].from) /\ Meets(K, t, i, t[i].from)
  <2>1. CASE i \in 1..Len(s)
    <3>1. /\ Stands(s, i, r, {s[i].from}, Naming(s[i].from), NamingOther(s[i].from))
          /\ Stands(s, i, s[i].from, K, Introducing(s[i].from), Dropping(s[i].from))
      BY <1>1, <1>4, <2>1 DEF Attends, Hears, Meets
    <3>2. t[i] = s[i] /\ i \in 1..(Len(s) + 1)
      BY <1>1, <2>1
    <3>3. /\ Stands(t, i, r, {s[i].from}, Naming(s[i].from), NamingOther(s[i].from))
          /\ Stands(t, i, s[i].from, K, Introducing(s[i].from), Dropping(s[i].from))
      BY <3>1, <3>2, StandsAppend
    <3> QED BY <3>2, <3>3 DEF Hears, Meets
  <2>2. CASE i = Len(s) + 1
    <3>1. t[i] = m /\ m.from = h /\ h # None /\ h \in R \ {p} /\ i \in 1..(Len(s) + 1)
      BY <1>1, <1>4, <2>2
    <3>2. Stands(s, i, r, {h}, Naming(h), NamingOther(h)) /\ Stands(s, i, h, K, Introducing(h), Dropping(h))
      BY <2>2, <3>1 DEF Attends, Hears, Meets
    <3>3. Stands(t, i, r, {h}, Naming(h), NamingOther(h)) /\ Stands(t, i, h, K, Introducing(h), Dropping(h))
      BY <3>1, <3>2, StandsAppend
    <3> QED BY <3>1, <3>3 DEF Hears, Meets
  <2> QED BY <1>1, <2>1, <2>2
<1> QED BY <1>2, <1>3, <1>4 DEF Attends

\* A client does what the message it takes out tells it.
Heeds(m, r, K, r2, K2) ==
    /\ \A h : (m \in Naming(h) => r2 = h) /\ (r = h /\ m \notin NamingOther(h) => r2 = h)
    /\ \A q : (m \in Introducing(q) => q \in K2) /\ (q \in K /\ m \notin Dropping(q) => q \in K2)

LEMMA AttendsTail ==
  ASSUME NEW p, NEW r, NEW K, NEW s \in Seq(Messages), s # <<>>, NEW h, NEW R, NEW r2, NEW K2,
         Attends(p, r, K, s, h, R), Heeds(Head(s), r, K, r2, K2)
  PROVE  Attends(p, r2, K2, Tail(s), h, R)
<1> DEFINE t == Tail(s)
<1>1. /\ Len(s) \in Nat /\ Len(s) > 0 /\ Len(t) = Len(s) - 1 /\ DOMAIN t = 1..(Len(s) - 1) /\ DOMAIN s = 1..Len(s)
      /\ \A i \in 1..(Len(s) - 1) : t[i] = s[i + 1]
  OBVIOUS
<1> HIDE DEF t
<1>2. ASSUME NEW n \in 2..(Len(s) + 1), NEW g, Hears(r, s, n, g) PROVE Hears(r2, t, n - 1, g)
  <2>1. (Head(s) \in Naming(g) => r2 \in {g}) /\ (r \in {g} /\ Head(s) \notin NamingOther(g) => r2 \in {g})
    BY DEF Heeds
  <2> QED BY <1>2, <2>1, StandsTail DEF Hears, t
<1>3. ASSUME NEW n \in 2..(Len(s) + 1), NEW q, Meets(K, s, n, q) PROVE Meets(K2, t, n - 1, q)
  <2>1. (Head(s) \in Introducing(q) => q \in K2) /\ (q \in K /\ Head(s) \notin Dropping(q) => q \in K2)
    BY DEF Heeds
  <2> QED BY <1>3, <2>1, StandsTail DEF Meets, t
<1>4. Len(s) + 1 \in 2..(Len(s) + 1) /\ (Len(s) + 1) - 1 = Len(t) + 1
  BY <1>1
<1>5. h # None => Hears(r2, t, Len(t) + 1, h)
  BY <1>2, <1>4 DEF Attends
<1>6. \A q \in R \ {p} : Meets(K2, t, Len(t) + 1, q)
  BY <1>3, <1>4 DEF Attends
<1>7. ASSUME NEW i \in DOMAIN t, t[i].kind = "key" PROVE Hears(r2, t, i, t[i].from) /\ Meets(K2, t, i, t[i].from)
  <2>1. i + 1 \in DOMAIN s /\ i + 1 \in 2..(Len(s) + 1) /\ (i + 1) - 1 = i /\ t[i] = s[i + 1]
    BY <1>1
  <2>2. Hears(r, s, i + 1, s[i + 1].from) /\ Meets(K, s, i + 1, s[i + 1].from)
    BY <1>7, <2>1 DEF Attends
  <2>3. Hears(r2, t, (i + 1) - 1, s[i + 1].from) /\ Meets(K2, t, (i + 1) - 1, s[i + 1].from)
    BY <1>2, <1>3, <2>1, <2>2
  <2> QED BY <2>1, <2>3
<1> QED BY <1>5, <1>6, <1>7 DEF Attends, t

LEMMA HeardIdle ==
  ASSUME Heard, UNCHANGED <<inside, gone, bundle, holder, inbox, ref, known>>
  PROVE  Heard'
  BY DEF Heard, Unborn, Registered

\* A client takes a message out.
LEMMA HeardTake ==
  ASSUME TypeOK, Heard, NEW p \in Peer, Running(p), inbox[p] # <<>>, inbox' = [inbox EXCEPT ![p] = Tail(@)],
         UNCHANGED serverVars,
         \A q \in Peer \ {p} : ref'[q] = ref[q] /\ known'[q] = known[q],
         Heeds(Head(inbox[p]), ref[p], known[p], ref'[p], known'[p])
  PROVE  Heard'
<1>1. UNCHANGED <<inside, gone, bundle, holder, unannounced>> /\ Registered' = Registered
  BY DEF serverVars, Registered
<1>2. inbox[p] \in Seq(Messages) /\ \A q \in Peer : inbox'[q] = IF q = p THEN Tail(inbox[p]) ELSE inbox[q]
  BY DEF TypeOK
<1>3. Unborn'
  BY <1>1, <1>2 DEF Heard, Unborn, Running, TypeOK
<1>4. ASSUME NEW q \in inside PROVE Attends(q, ref'[q], known'[q], inbox'[q], holder, Registered)
  <2>1. Attends(q, ref[q], known[q], inbox[q], holder, Registered) /\ q \in Peer
    BY DEF Heard, TypeOK
  <2>2. CASE q = p
    BY <1>2, <2>1, <2>2, AttendsTail
  <2>3. CASE q # p
    BY <1>2, <2>1, <2>3
  <2> QED BY <2>2, <2>3
<1> QED BY <1>1, <1>3, <1>4 DEF Heard

Takes(p) == \/ OnJoined(p) \/ OnRegistered(p) \/ OnExchange(p)
            \/ OnEpochKey(p) \/ OnHolderChanged(p) \/ OnPeerLeft(p)

\* Every handler does what its message tells it.
LEMMA Heeding ==
  ASSUME TypeOK, NEW p \in Peer, Takes(p)
  PROVE  /\ Running(p) /\ inbox[p] # <<>> /\ inbox' = [inbox EXCEPT ![p] = Tail(@)] /\ UNCHANGED serverVars
         /\ \A q \in Peer \ {p} : ref'[q] = ref[q] /\ known'[q] = known[q]
         /\ Heeds(Head(inbox[p]), ref[p], known[p], ref'[p], known'[p])
<1> DEFINE m == Message(p)
           Done == /\ Running(p) /\ inbox[p] # <<>> /\ inbox' = [inbox EXCEPT ![p] = Tail(@)] /\ UNCHANGED serverVars
                   /\ \A q \in Peer \ {p} : ref'[q] = ref[q] /\ known'[q] = known[q]
                   /\ Heeds(Head(inbox[p]), ref[p], known[p], ref'[p], known'[p])
<1>1. ASSUME NEW kind, Receive(p, kind),
             \A q \in Peer \ {p} : ref'[q] = ref[q] /\ known'[q] = known[q],
             m \in Messages /\ m.kind = kind => Heeds(m, ref[p], known[p], ref'[p], known'[p])
      PROVE  Done
  <2>1. /\ Running(p) /\ inbox[p] # <<>> /\ inbox' = [inbox EXCEPT ![p] = Tail(@)] /\ UNCHANGED serverVars
        /\ m = Head(inbox[p]) /\ m.kind = kind
    BY <1>1 DEF Receive, Message
  <2>2. m \in Messages
    <3>1. inbox[p] \in Seq(Messages)
      BY DEF TypeOK
    <3> QED BY <2>1, <3>1, TailStep
  <2> QED BY <1>1, <2>1, <2>2
<1>2. known \in [Peer -> SUBSET Peer] /\ ref \in [Peer -> Peer \cup {None}]
  BY DEF TypeOK
<1> SUFFICES Done
  OBVIOUS
<1> HIDE DEF m, Done
<1>3. CASE OnJoined(p)
  <2>1. Receive(p, "joined") /\ ref' = [ref EXCEPT ![p] = m.holder] /\ known' = [known EXCEPT ![p] = @ \cup m.bundles]
    BY <1>3 DEF OnJoined, m
  <2>2. ref'[p] = m.holder /\ known'[p] = known[p] \cup m.bundles
        /\ \A q \in Peer \ {p} : ref'[q] = ref[q] /\ known'[q] = known[q]
    BY <1>2, <2>1
  <2>3. m \in Messages /\ m.kind = "joined" => Heeds(m, ref[p], known[p], ref'[p], known'[p])
    BY <2>2 DEF Heeds, Naming, NamingOther, Introducing, Dropping, Tellings, Changes
  <2> QED BY <1>1, <2>1, <2>2, <2>3
<1>4. CASE OnRegistered(p)
  <2>1. Receive(p, "registered") /\ ref' = [ref EXCEPT ![p] = m.holder] /\ known' = known
    BY <1>4 DEF OnRegistered, m
  <2>2. ref'[p] = m.holder /\ known'[p] = known[p] /\ \A q \in Peer \ {p} : ref'[q] = ref[q] /\ known'[q] = known[q]
    BY <1>2, <2>1
  <2>3. m \in Messages /\ m.kind = "registered" => Heeds(m, ref[p], known[p], ref'[p], known'[p])
    BY <2>2 DEF Heeds, Naming, NamingOther, Introducing, Dropping, Tellings, Changes
  <2> QED BY <1>1, <2>1, <2>2, <2>3
<1>5. CASE OnExchange(p)
  <2>1. Receive(p, "exchange") /\ ref' = [ref EXCEPT ![p] = m.holder] /\ known' = [known EXCEPT ![p] = @ \cup {m.peer}]
    BY <1>5 DEF OnExchange, m
  <2>2. ref'[p] = m.holder /\ known'[p] = known[p] \cup {m.peer}
        /\ \A q \in Peer \ {p} : ref'[q] = ref[q] /\ known'[q] = known[q]
    BY <1>2, <2>1
  <2>3. m \in Messages /\ m.kind = "exchange" => Heeds(m, ref[p], known[p], ref'[p], known'[p])
    BY <2>2 DEF Heeds, Naming, NamingOther, Introducing, Dropping, Tellings, Changes
  <2> QED BY <1>1, <2>1, <2>2, <2>3
<1>6. CASE OnEpochKey(p)
  <2>1. Receive(p, "key") /\ ref' = ref /\ known' = known
    BY <1>6 DEF OnEpochKey
  <2>2. m \in Messages /\ m.kind = "key" => Heeds(m, ref[p], known[p], ref'[p], known'[p])
    BY <2>1 DEF Heeds, Naming, NamingOther, Introducing, Dropping, Tellings, Changes
  <2> QED BY <1>1, <2>1, <2>2
<1>7. CASE OnHolderChanged(p)
  <2>1. Receive(p, "changed") /\ ref' = [ref EXCEPT ![p] = m.peer] /\ known' = [known EXCEPT ![p] = Forgets(@, m)]
    BY <1>7 DEF OnHolderChanged, m
  <2>2. ref'[p] = m.peer /\ known'[p] = known[p] \ {m.previous}
        /\ \A q \in Peer \ {p} : ref'[q] = ref[q] /\ known'[q] = known[q]
    BY <1>2, <2>1 DEF Forgets
  <2>3. m \in Messages /\ m.kind = "changed" => Heeds(m, ref[p], known[p], ref'[p], known'[p])
    BY <2>2 DEF Heeds, Naming, NamingOther, Introducing, Dropping, Tellings, Changes
  <2> QED BY <1>1, <2>1, <2>2, <2>3
<1>8. CASE OnPeerLeft(p)
  <2>1. Receive(p, "left") /\ ref' = ref /\ known' = [known EXCEPT ![p] = @ \ {m.peer}]
    BY <1>8 DEF OnPeerLeft, m
  <2>2. ref'[p] = ref[p] /\ known'[p] = known[p] \ {m.peer}
        /\ \A q \in Peer \ {p} : ref'[q] = ref[q] /\ known'[q] = known[q]
    BY <1>2, <2>1
  <2>3. m \in Messages /\ m.kind = "left" => Heeds(m, ref[p], known[p], ref'[p], known'[p])
    BY <2>2 DEF Heeds, Naming, NamingOther, Introducing, Dropping, Tellings, Changes
  <2> QED BY <1>1, <2>1, <2>2, <2>3
<1> QED BY <1>3, <1>4, <1>5, <1>6, <1>7, <1>8 DEF Takes

LEMMA ClientHeard ==
  ASSUME TypeOK, Heard, NEW p \in Peer, ClientStep(p)
  PROVE  Heard'
<1>1. CASE Takes(p)
  BY <1>1, Heeding, HeardTake
<1>2. CASE Rotate(p) \/ WrapDone(p) \/ AcceptDone(p)
  <2>1. UNCHANGED <<inside, gone, bundle, holder, inbox, ref, known>>
    BY <1>2 DEF Rotate, WrapDone, AcceptDone, serverVars, netVars
  <2> QED BY <2>1, HeardIdle
<1> QED BY <1>1, <1>2 DEF ClientStep, Takes

LEMMA JoinHeard ==
  ASSUME TypeOK, SeatInv, Heard, NEW p \in Peer, Join(p)
  PROVE  Heard'
<1> DEFINE m == [kind |-> "joined", holder |-> holder, bundles |-> Registered]
<1>1. /\ p \notin inside \cup gone /\ inside' = inside \cup {p} /\ inbox' = Broadcast(inbox, {p}, m)
      /\ UNCHANGED <<gone, bundle, holder, ref, known>> /\ inbox[p] = <<>>
  BY DEF Join, Reply, clientVars, Heard, Unborn
<1>2. Registered' = Registered
  BY <1>1 DEF Registered, SeatInv
<1>3. m \in Messages /\ m.kind = "joined" /\ m.holder = holder /\ m.bundles = Registered
  BY DEF Messages, TypeOK, Registered
<1> HIDE DEF m
<1>4. \A q \in Peer : inbox'[q] = IF q = p THEN Append(inbox[p], m) ELSE inbox[q]
  BY <1>1 DEF Broadcast
<1>5. Unborn'
  BY <1>1, <1>4 DEF Heard, Unborn
<1>6. Attends(p, ref[p], known[p], <<>>, None, {})
  BY DEF Attends
<1>7. holder # None => m \in Naming(holder)
  BY <1>3 DEF Naming, Tellings
<1>8. \A q \in Registered \ {p} : m \in Introducing(q)
  BY <1>3 DEF Introducing
<1>9. <<>> \in Seq(Messages)
  OBVIOUS
<1>10. Attends(p, ref[p], known[p], Append(<<>>, m), holder, Registered)
  BY <1>3, <1>6, <1>7, <1>8, <1>9, AttendsAppend
<1>11. \A q \in inside' : Attends(q, ref[q], known[q], inbox'[q], holder, Registered)
  BY <1>1, <1>4, <1>10 DEF Heard, TypeOK
<1> QED BY <1>1, <1>2, <1>5, <1>11 DEF Heard

\* A registration names the holder and introduces who registers.
LEMMA RegisterHeard ==
  ASSUME TypeOK, Heard, NEW p \in Peer, RegisterKeys(p)
  PROVE  Heard'
<1> DEFINE next == IF HolderRegistered THEN holder ELSE p
           m == [kind |-> "exchange", peer |-> p, holder |-> next]
           n == [kind |-> "registered", holder |-> next, generate |-> ~HolderRegistered]
<1>1. next \in Peer /\ m \in Messages /\ n \in Messages
  BY DEF TypeOK, Messages, HolderRegistered, Registered
<1>2. /\ m.kind = "exchange" /\ m.peer = p /\ m.holder = next /\ n.kind = "registered" /\ n.holder = next
  OBVIOUS
<1>3. /\ p \in inside /\ holder' = next /\ bundle' = bundle \cup {p} /\ UNCHANGED <<inside, gone, ref, known>>
      /\ inbox' = Broadcast(Broadcast(inbox, inside \ {p}, m), {p}, n)
  BY DEF RegisterKeys, Reply, clientVars
<1> HIDE DEF m, n, next
<1>4. Registered' = Registered \cup {p}
  BY <1>3 DEF Registered
<1>5. \A q \in Peer : inbox'[q] = IF q = p THEN Append(inbox[p], n) ELSE IF q \in inside THEN Append(inbox[q], m) ELSE inbox[q]
  BY <1>3 DEF Broadcast
<1>6. Unborn'
  BY <1>3, <1>5 DEF Heard, Unborn
<1>7. m \in Naming(next) /\ m \in Introducing(p) /\ n \in Naming(next)
  BY <1>1, <1>2 DEF Naming, Tellings, Introducing
<1>8. \A q : m \notin Dropping(q) /\ n \notin Dropping(q)
  BY <1>2 DEF Dropping
<1>9. ASSUME NEW q \in inside PROVE Attends(q, ref[q], known[q], inbox'[q], next, Registered \cup {p})
  <2>1. /\ Attends(q, ref[q], known[q], inbox[q], holder, Registered) /\ q \in Peer /\ inbox[q] \in Seq(Messages)
    BY DEF Heard, TypeOK
  <2>2. CASE q = p
    <3>1. \A x \in (Registered \cup {p}) \ {p} : x \in Registered /\ n \notin Dropping(x)
      BY <1>8
    <3>2. n.kind # "key"
      BY <1>2
    <3>3. Attends(q, ref[q], known[q], Append(inbox[q], n), next, Registered \cup {p})
      BY <1>1, <1>7, <2>1, <2>2, <3>1, <3>2, AttendsAppend
    <3> QED BY <1>5, <2>1, <2>2, <3>3
  <2>3. CASE q # p
    <3>1. \A x \in (Registered \cup {p}) \ {q} : m \in Introducing(x) \/ (x \in Registered /\ m \notin Dropping(x))
      BY <1>7, <1>8
    <3>2. m.kind # "key"
      BY <1>2
    <3>3. Attends(q, ref[q], known[q], Append(inbox[q], m), next, Registered \cup {p})
      BY <1>1, <1>7, <2>1, <3>1, <3>2, AttendsAppend
    <3> QED BY <1>5, <2>1, <2>3, <3>3
  <2> QED BY <2>2, <2>3
<1> QED BY <1>3, <1>4, <1>6, <1>9 DEF Heard

\* An envelope comes from the holder, and not to itself.
LEMMA DistributeHeard ==
  ASSUME Inv, SeatInv, Heard, NEW p \in Peer, DistributeEpochKey(p)
  PROVE  Heard'
<1> DEFINE r == Head(outbox[p])
           m == [kind |-> "key", from |-> p, key |-> r.key]
<1>1. /\ outbox[p] # <<>> /\ r.kind = "distribute" /\ outbox[p] \in Seq(Requests)
      /\ inbox' = IF MayDistribute(p, r.to) THEN Broadcast(inbox, {r.to}, m) ELSE inbox
      /\ UNCHANGED <<inside, gone, bundle, holder, ref, known>>
  BY DEF DistributeEpochKey, NextRequest, Reply, Inv, TypeOK, serverVars, clientVars
<1>2. r \in Requests /\ 1 \in DOMAIN outbox[p] /\ r = outbox[p][1]
  BY <1>1, TailStep
<1>3. r.to \in Peer /\ r.key \in Nat \ {0} /\ r.to # p
  BY <1>1, <1>2 DEF Requests, Inv, Flow, FlowOf
<1>4. m \in Messages /\ m.kind = "key" /\ m.from = p
  BY <1>3 DEF Messages
<1> HIDE DEF m, r
<1>5. CASE MayDistribute(p, r.to)
  <2>1. \A q \in Peer : inbox'[q] = IF q = r.to THEN Append(inbox[q], m) ELSE inbox[q]
    BY <1>1, <1>5 DEF Broadcast
  <2>2. p \in Registered /\ holder = p /\ r.to \in inside /\ p # None
    BY <1>5, PeerAssumption DEF MayDistribute, Registered
  <2>3. Unborn'
    BY <1>1, <2>1, <2>2 DEF Heard, Unborn
  <2>4. m \notin NamingOther(p) /\ \A x : m \notin Dropping(x)
    BY <1>4 DEF NamingOther, Dropping, Tellings, Changes
  <2>5. ASSUME NEW q \in inside PROVE Attends(q, ref[q], known[q], inbox'[q], holder, Registered)
    <3>1. Attends(q, ref[q], known[q], inbox[q], holder, Registered) /\ q \in Peer /\ inbox[q] \in Seq(Messages)
      BY DEF Heard, Inv, TypeOK
    <3>2. CASE q = r.to
      <4>1. Attends(q, ref[q], known[q], Append(inbox[q], m), holder, Registered)
        BY <1>3, <1>4, <2>2, <2>4, <3>1, <3>2, AttendsAppend
      <4> QED BY <2>1, <3>1, <3>2, <4>1
    <3>3. CASE q # r.to
      BY <2>1, <3>1, <3>3
    <3> QED BY <3>2, <3>3
  <2> QED BY <1>1, <2>3, <2>5 DEF Heard, Registered
<1>6. CASE ~MayDistribute(p, r.to)
  BY <1>1, <1>6, HeardIdle
<1> QED BY <1>5, <1>6

\* Word of a departure unsettles nothing about those who stay.
LEMMA LeftAppend ==
  ASSUME NEW p \in Peer, NEW q, NEW r, NEW K, NEW s \in Seq(Messages), NEW h, NEW Q, p \notin Q, Attends(q, r, K, s, h, Q)
  PROVE  Attends(q, r, K, Append(s, [kind |-> "left", peer |-> p]), h, Q)
<1> DEFINE m == [kind |-> "left", peer |-> p]
<1>1. m \in Messages /\ m.kind = "left" /\ m.peer = p
  BY DEF Messages
<1> HIDE DEF m
<1>2. m \notin NamingOther(h) /\ \A x \in Q : m \notin Dropping(x)
  BY <1>1 DEF NamingOther, Dropping, Tellings, Changes
<1>3. Attends(q, r, K, Append(s, m), h, Q)
  BY <1>1, <1>2, AttendsAppend
<1> QED BY <1>3 DEF m

LEMMA ElectHeard ==
  ASSUME TypeOK, Heard, NEW p \in Peer, NEW announce \in BOOLEAN, RemovePeer(p, announce), UNCHANGED <<ref, known>>
  PROVE  Heard'
<1> DEFINE Q == Registered \ {p}
           Sent(ib) == IF announce THEN AnnounceLeft(ib, p) ELSE ib
           left == [kind |-> "left", peer |-> p]
           Good(ib, h) == \A q \in inside \ {p} : ib[q] \in Seq(Messages) /\ Attends(q, ref[q], known[q], ib[q], h, Q)
           Same(ib) == \A q \in Peer \ (inside \ {p}) : ib[q] = inbox[q]
<1>1. /\ p \in inside /\ inside' = inside \ {p} /\ gone' = gone \cup {p} /\ Registered' = Q
      /\ ElectHolder(p, announce) /\ inside \subseteq Peer
  BY DEF RemovePeer, Registered, TypeOK
<1>2. ASSUME NEW ib, NEW h, Good(ib, h), Same(ib) PROVE Good(Sent(ib), h) /\ Same(Sent(ib))
  <2>1. CASE announce
    <3>1. \A q \in Peer : Sent(ib)[q] = IF q \in inside \ {p} THEN Append(ib[q], left) ELSE ib[q]
      BY <2>1 DEF AnnounceLeft, Broadcast
    <3>2. left \in Messages
      BY DEF Messages
    <3>3. \A q \in inside \ {p} : Attends(q, ref[q], known[q], Append(ib[q], left), h, Q)
      BY <1>2, LeftAppend
    <3> HIDE DEF left, Sent
    <3>4. ASSUME NEW q \in inside \ {p}
          PROVE  Sent(ib)[q] \in Seq(Messages) /\ Attends(q, ref[q], known[q], Sent(ib)[q], h, Q)
      <4>1. ib[q] \in Seq(Messages) /\ Sent(ib)[q] = Append(ib[q], left)
        BY <1>1, <1>2, <3>1
      <4>2. Append(ib[q], left) \in Seq(Messages)
        BY <3>2, <4>1, AppendStep
      <4>3. Attends(q, ref[q], known[q], Append(ib[q], left), h, Q)
        BY <3>3
      <4> QED BY <4>1, <4>2, <4>3
    <3>5. \A q \in Peer \ (inside \ {p}) : Sent(ib)[q] = inbox[q]
      BY <1>2, <3>1
    <3> QED BY <3>4, <3>5
  <2>2. CASE ~announce
    BY <1>2, <2>2
  <2> QED BY <2>1, <2>2
<1>3. ASSUME NEW h, Good(inbox', h), Same(inbox'), holder' = h PROVE Heard'
  <2>1. Unborn'
    BY <1>1, <1>3 DEF Heard, Unborn
  <2> QED BY <1>1, <1>3, <2>1 DEF Heard
<1>4. Same(inbox) /\ \A q \in inside \ {p} : inbox[q] \in Seq(Messages)
  BY <1>1 DEF TypeOK
<1>5. ASSUME NEW h \in {holder, None}, inbox' = Sent(inbox), holder' = h PROVE Heard'
  <2>1. Good(inbox, h)
    BY <1>4, AttendsLess DEF Heard
  <2> HIDE DEF Good, Same, Sent
  <2> QED BY <1>2, <1>3, <1>4, <1>5, <2>1
<1>6. ASSUME NEW next \in Candidates(p), holder' = next,
             inbox' = Sent(Broadcast(inbox, inside \ {p},
                  [kind |-> "changed", peer |-> next, previous |-> p, generate |-> next \notin ready]))
      PROVE  Heard'
  <2> DEFINE m == [kind |-> "changed", peer |-> next, previous |-> p, generate |-> next \notin ready]
             ib == Broadcast(inbox, inside \ {p}, m)
  <2>1. next \in Peer
    BY DEF Candidates, Registered, TypeOK
  <2>2. m \in Messages /\ m.kind = "changed" /\ m.peer = next /\ m.previous = p
    BY <2>1 DEF Messages
  <2> HIDE DEF m
  <2>3. \A q \in Peer : ib[q] = IF q \in inside \ {p} THEN Append(inbox[q], m) ELSE inbox[q]
    BY DEF Broadcast
  <2> HIDE DEF ib
  <2>4. m \in Naming(next) /\ \A x \in Q : m \notin Dropping(x)
    BY <2>2 DEF Naming, Changes, Dropping
  <2>5. ASSUME NEW q \in inside \ {p}
        PROVE  Append(inbox[q], m) \in Seq(Messages) /\ Attends(q, ref[q], known[q], Append(inbox[q], m), next, Q)
    <3>1. Attends(q, ref[q], known[q], inbox[q], holder, Registered) /\ inbox[q] \in Seq(Messages)
      BY <1>4 DEF Heard
    <3>2. \A x \in Q \ {q} : x \in Registered /\ m \notin Dropping(x)
      BY <2>4
    <3>3. Attends(q, ref[q], known[q], Append(inbox[q], m), next, Q)
      BY <2>2, <2>4, <3>1, <3>2, AttendsAppend
    <3> QED BY <2>2, <3>1, <3>3, AppendStep
  <2>6. Good(ib, next) /\ Same(ib)
    BY <1>1, <2>3, <2>5
  <2>7. inbox' = Sent(ib)
    BY <1>6 DEF ib, m
  <2> HIDE DEF Good, Same, Sent
  <2> QED BY <1>2, <1>3, <1>6, <2>6, <2>7
<1>7. \/ inbox' = Sent(inbox) /\ holder' \in {holder, None}
      \/ \E next \in Candidates(p) : /\ holder' = next
            /\ inbox' = Sent(Broadcast(inbox, inside \ {p},
                  [kind |-> "changed", peer |-> next, previous |-> p, generate |-> next \notin ready]))
  BY <1>1 DEF ElectHolder
<1> HIDE DEF Sent
<1> QED BY <1>5, <1>6, <1>7

LEMMA CloseHeard ==
  ASSUME TypeOK, Apart, Heard, NEW p \in Peer, CloseKicked(p)
  PROVE  Heard'
<1> DEFINE left == [kind |-> "left", peer |-> p]
<1>1. /\ p \notin inside /\ UNCHANGED <<inside, gone, bundle, holder, ref, known>>
      /\ inbox' = AnnounceLeft(inbox, p) /\ inside \subseteq Peer
  BY DEF CloseKicked, Stopped, TypeOK, Apart
<1>2. \A q \in Peer : inbox'[q] = IF q \in inside THEN Append(inbox[q], left) ELSE inbox[q]
  BY <1>1 DEF AnnounceLeft, Broadcast
<1>3. Unborn'
  BY <1>1, <1>2 DEF Heard, Unborn
<1>4. \A q \in inside : inbox[q] \in Seq(Messages) /\ Attends(q, ref[q], known[q], inbox[q], holder, Registered)
  BY <1>1 DEF Heard, TypeOK
<1>5. p \notin Registered
  BY <1>1 DEF Registered
<1>6. \A q \in inside : Attends(q, ref[q], known[q], Append(inbox[q], left), holder, Registered)
  BY <1>4, <1>5, LeftAppend
<1>7. \A q \in inside : Attends(q, ref[q], known[q], inbox'[q], holder, Registered)
  BY <1>1, <1>2, <1>6
<1> QED BY <1>1, <1>3, <1>7 DEF Heard, Registered

LEMMA HeardStep == Inv /\ SeatInv /\ Heard /\ [Next]_vars => Heard'
<1> SUFFICES ASSUME Inv, SeatInv, Heard, [Next]_vars PROVE Heard'
  OBVIOUS
<1>0. TypeOK /\ Apart
  BY DEF Inv
<1>1. CASE UNCHANGED vars
  BY <1>1, HeardIdle DEF vars, serverVars, netVars, clientVars
<1>2. CASE Next
  <2>1. PICK p \in Peer : ServerStep(p) \/ ClientStep(p) \/ Churn(p)
    BY <1>2 DEF Next
  <2>2. CASE ClientStep(p)
    BY <1>0, <2>2, ClientHeard
  <2>3. CASE RegisterKeys(p)
    BY <1>0, <2>3, RegisterHeard
  <2>4. CASE RegisterRefused(p) \/ E2eeKeyReceived(p)
    BY <2>4, HeardIdle DEF RegisterRefused, E2eeKeyReceived, serverVars, clientVars
  <2>5. CASE DistributeEpochKey(p)
    BY <2>5, DistributeHeard
  <2>6. CASE CloseKicked(p)
    BY <1>0, <2>6, CloseHeard
  <2>7. CASE Join(p)
    BY <1>0, <2>7, JoinHeard
  <2>8. CASE Leave(p) \/ Kick(p)
    BY <1>0, <2>8, ElectHeard DEF Leave, Kick, Stopped, clientVars
  <2> QED BY <2>1, <2>2, <2>3, <2>4, <2>5, <2>6, <2>7, <2>8 DEF ServerStep, Churn
<1> QED BY <1>1, <1>2

LEMMA HeardInit == Init => SeatInv /\ Heard
<1> SUFFICES ASSUME Init PROVE SeatInv /\ Heard
  OBVIOUS
<1>1. SeatInv
  BY DEF Init, SeatInv, HolderElected, Registered
<1>2. Heard
  BY DEF Init, Heard, Unborn
<1> QED BY <1>1, <1>2

LEMMA HeardAlways == Spec => [](Inv /\ SeatInv /\ Heard)
<1>1. Init => Inv /\ SeatInv /\ Heard
  BY InvInit, HeardInit
<1>2. Inv /\ SeatInv /\ Heard /\ [Next]_vars => (Inv /\ SeatInv /\ Heard)'
  BY InvNext, SeatStep, HeardStep DEF Inv
<1> QED BY <1>1, <1>2, PTL DEF Spec

LEMMA Acceptance == TypeOK /\ Heard => EnvelopesAccepted
<1> SUFFICES ASSUME TypeOK, Heard, NEW p \in inside, inbox[p] # <<>>, Head(inbox[p]).kind = "key"
             PROVE  Acceptable(p, Head(inbox[p]))
  BY DEF EnvelopesAccepted
<1>1. inbox[p] \in Seq(Messages)
  <2>1. inside \subseteq Peer /\ inbox \in [Peer -> Seq(Messages)]
    BY DEF TypeOK
  <2> QED BY <2>1
<1>2. 1 \in DOMAIN inbox[p] /\ Head(inbox[p]) = inbox[p][1]
  BY <1>1, TailStep
<1>3. /\ Stands(inbox[p], 1, ref[p], {inbox[p][1].from}, Naming(inbox[p][1].from), NamingOther(inbox[p][1].from))
      /\ Stands(inbox[p], 1, inbox[p][1].from, known[p], Introducing(inbox[p][1].from), Dropping(inbox[p][1].from))
  BY <1>2 DEF Heard, Attends, Hears, Meets
<1>4. ref[p] \in {inbox[p][1].from} /\ inbox[p][1].from \in known[p]
  BY <1>3, StandsNow
<1> QED BY <1>2, <1>4 DEF Acceptable

\* An envelope the service forwarded is never turned down, for any number of
\* participants: its recipient has heard that the sender is the holder, and has the
\* sender's identity, when it gets to it, whatever joins, hand-overs and departures
\* are on their way besides.
THEOREM EnvelopesAcceptedAlways == Spec => []EnvelopesAccepted
<1>1. Inv /\ Heard => EnvelopesAccepted
  BY Acceptance DEF Inv
<1> QED BY <1>1, HeardAlways, PTL

-----------------------------------------------------------------------------
(* How those registered come by a key. *)

\* From its n-th message on, the queue s names no holder but h.
Firm(h, s, n) == \A l \in n..Len(s) : s[l] \notin NamingOther(h)

\* What makes h generate a key, and what makes it rotate.
Ordering == {m \in Messages : m.kind = "registered" /\ m.generate}
Appointing(h) == {m \in Changes : m.peer = h}

\* With the key k, d rotations due, r for the holder, K known and the queue s, h is
\* going to rotate; it has or makes a key by its n-th message; a rotation of its
\* own will send q the key; or its answer to q's identity will.
Rotating(h, d, r, s) == d > 0 /\ r = h /\ Firm(h, s, 1)
Makes(h, k, d, r, s, n) ==
    \/ k # 0
    \/ Rotating(h, d, r, s)
    \/ \E i \in 1..(n - 1) : s[i] \in Ordering \cup Appointing(h) /\ Firm(h, s, i)
Acquainted(K, s, n, q) == q \in K \/ \E j \in 1..(n - 1) : s[j] \in Introducing(q)
Rotates(h, d, r, K, s, q) ==
    \/ Rotating(h, d, r, s) /\ q \in K
    \/ \E i \in 1..Len(s) : s[i] \in Appointing(h) /\ Firm(h, s, i) /\ Acquainted(K, s, i, q)
Answers(h, k, d, r, s, q) ==
    \E i \in 1..Len(s) : s[i] = [kind |-> "exchange", peer |-> q, holder |-> h] /\ Makes(h, k, d, r, s, i)

LEMMA FirmAppend ==
  ASSUME NEW s \in Seq(Messages), NEW m \in Messages, NEW h, m \notin NamingOther(h), NEW n \in Nat \ {0}, Firm(h, s, n)
  PROVE  Firm(h, Append(s, m), n)
<1>1. Len(Append(s, m)) = Len(s) + 1 /\ Append(s, m)[Len(s) + 1] = m /\ \A i \in 1..Len(s) : Append(s, m)[i] = s[i]
  OBVIOUS
<1> QED BY <1>1 DEF Firm

LEMMA PromiseAppend ==
  ASSUME NEW s \in Seq(Messages), NEW m \in Messages, NEW h, m \notin NamingOther(h), NEW k, NEW d, NEW r, NEW K
  PROVE  /\ \A n \in 1..(Len(s) + 1) : Makes(h, k, d, r, s, n)
              => Makes(h, k, d, r, Append(s, m), n) /\ Makes(h, k, d, r, Append(s, m), n + 1)
         /\ \A q : Rotates(h, d, r, K, s, q) => Rotates(h, d, r, K, Append(s, m), q)
         /\ \A q : Answers(h, k, d, r, s, q) => Answers(h, k, d, r, Append(s, m), q)
         /\ \A q : Makes(h, k, d, r, s, Len(s) + 1) /\ m = [kind |-> "exchange", peer |-> q, holder |-> h]
              => Answers(h, k, d, r, Append(s, m), q)
<1> DEFINE t == Append(s, m)
<1>1. Len(s) \in Nat /\ Len(t) = Len(s) + 1 /\ t[Len(s) + 1] = m /\ \A i \in 1..Len(s) : t[i] = s[i]
  OBVIOUS
<1>2. \A n \in Nat \ {0} : Firm(h, s, n) => Firm(h, t, n)
  BY FirmAppend
<1> HIDE DEF t
<1>3. Rotating(h, d, r, s) => Rotating(h, d, r, t)
  BY <1>2 DEF Rotating
<1>4. ASSUME NEW n \in 1..(Len(s) + 1), Makes(h, k, d, r, s, n)
      PROVE  Makes(h, k, d, r, t, n) /\ Makes(h, k, d, r, t, n + 1)
  <2>1. CASE k # 0
    BY <2>1 DEF Makes
  <2>2. CASE Rotating(h, d, r, s)
    BY <1>3, <2>2 DEF Makes
  <2>3. ASSUME NEW i \in 1..(n - 1), s[i] \in Ordering \cup Appointing(h), Firm(h, s, i)
        PROVE  Makes(h, k, d, r, t, n) /\ Makes(h, k, d, r, t, n + 1)
    <3>1. i \in Nat \ {0} /\ i \in 1..Len(s) /\ i \in 1..((n + 1) - 1)
      BY <1>1
    <3>2. t[i] \in Ordering \cup Appointing(h) /\ Firm(h, t, i)
      BY <1>1, <1>2, <2>3, <3>1
    <3> QED BY <3>1, <3>2 DEF Makes
  <2> QED BY <1>4, <2>1, <2>2, <2>3 DEF Makes
<1>5. ASSUME NEW q, Rotates(h, d, r, K, s, q) PROVE Rotates(h, d, r, K, t, q)
  <2>1. CASE Rotating(h, d, r, s) /\ q \in K
    BY <1>3, <2>1 DEF Rotates
  <2>2. ASSUME NEW i \in 1..Len(s), s[i] \in Appointing(h), Firm(h, s, i), Acquainted(K, s, i, q)
        PROVE  Rotates(h, d, r, K, t, q)
    <3>1. i \in Nat \ {0} /\ i \in 1..Len(t) /\ t[i] \in Appointing(h) /\ Firm(h, t, i)
      BY <1>1, <1>2, <2>2
    <3>2. Acquainted(K, t, i, q)
      BY <1>1, <2>2 DEF Acquainted
    <3> QED BY <3>1, <3>2 DEF Rotates
  <2> QED BY <1>5, <2>1, <2>2 DEF Rotates
<1>6. ASSUME NEW q, Answers(h, k, d, r, s, q) PROVE Answers(h, k, d, r, t, q)
  <2>1. PICK i \in 1..Len(s) : s[i] = [kind |-> "exchange", peer |-> q, holder |-> h] /\ Makes(h, k, d, r, s, i)
    BY <1>6 DEF Answers
  <2>2. i \in 1..Len(t) /\ t[i] = s[i] /\ Makes(h, k, d, r, t, i)
    BY <1>1, <1>4, <2>1
  <2> QED BY <2>1, <2>2 DEF Answers
<1>7. ASSUME NEW q, Makes(h, k, d, r, s, Len(s) + 1), m = [kind |-> "exchange", peer |-> q, holder |-> h]
      PROVE  Answers(h, k, d, r, t, q)
  <2>1. Len(s) + 1 \in 1..Len(t) /\ Makes(h, k, d, r, t, Len(s) + 1)
    BY <1>1, <1>4, <1>7
  <2> QED BY <1>1, <1>7, <2>1 DEF Answers
<1> QED BY <1>4, <1>5, <1>6, <1>7 DEF t

\* What h does with a message m: it keeps its key and the rotations it owes, makes
\* the key it is told to make, and rotates when it takes over.
Obeys(h, m, k, d, r, k2, d2, r2) ==
    /\ k # 0 => k2 # 0
    /\ d > 0 /\ r = h /\ m \notin NamingOther(h) => d2 > 0 /\ r2 = h
    /\ m \in Ordering => k2 # 0
    /\ m \in Appointing(h) => d2 > 0 /\ r2 = h

LEMMA FirmTail ==
  ASSUME NEW s \in Seq(Messages), s # <<>>, NEW h, NEW n \in 1..(Len(s) + 1), Firm(h, s, n)
  PROVE  Firm(h, Tail(s), IF n = 1 THEN 1 ELSE n - 1)
  BY DEF Firm

LEMMA MakesTail ==
  ASSUME NEW s \in Seq(Messages), s # <<>>, NEW h, NEW k, NEW d, NEW r, NEW k2, NEW d2, NEW r2,
         Obeys(h, Head(s), k, d, r, k2, d2, r2)
  PROVE  /\ Rotating(h, d, r, s) => Rotating(h, d2, r2, Tail(s))
         /\ \A n \in 2..(Len(s) + 1) : Makes(h, k, d, r, s, n) => Makes(h, k2, d2, r2, Tail(s), n - 1)
<1> DEFINE t == Tail(s)
<1>1. Len(s) \in Nat /\ Len(s) > 0 /\ Len(t) = Len(s) - 1 /\ Head(s) = s[1] /\ \A i \in 1..(Len(s) - 1) : t[i] = s[i + 1]
  OBVIOUS
<1>2. \A n \in 1..(Len(s) + 1) : Firm(h, s, n) => Firm(h, t, IF n = 1 THEN 1 ELSE n - 1)
  BY FirmTail
<1> HIDE DEF t
<1>3. ASSUME Rotating(h, d, r, s) PROVE Rotating(h, d2, r2, t)
  <2>1. Firm(h, s, 1) /\ d > 0 /\ r = h /\ Head(s) \notin NamingOther(h)
    BY <1>1, <1>3 DEF Rotating, Firm
  <2>2. Firm(h, t, 1)
    BY <1>1, <1>2, <2>1
  <2> QED BY <2>1, <2>2 DEF Rotating, Obeys
<1>4. ASSUME NEW n \in 2..(Len(s) + 1), Makes(h, k, d, r, s, n) PROVE Makes(h, k2, d2, r2, t, n - 1)
  <2>1. CASE k # 0
    BY <2>1 DEF Makes, Obeys
  <2>2. CASE Rotating(h, d, r, s)
    BY <1>3, <2>2 DEF Makes
  <2>3. ASSUME NEW i \in 1..(n - 1), s[i] \in Ordering \cup Appointing(h), Firm(h, s, i)
        PROVE  Makes(h, k2, d2, r2, t, n - 1)
    <3>1. CASE i = 1
      <4>1. Firm(h, t, 1)
        BY <1>1, <1>2, <2>3, <3>1
      <4>2. k2 # 0 \/ (d2 > 0 /\ r2 = h)
        BY <1>1, <2>3, <3>1 DEF Obeys
      <4> QED BY <4>1, <4>2 DEF Makes, Rotating
    <3>2. CASE i # 1
      <4>1. i \in 2..Len(s) /\ i - 1 \in 1..((n - 1) - 1) /\ i - 1 \in 1..(Len(s) - 1) /\ i \in 1..(Len(s) + 1)
        BY <1>1, <3>2
      <4>2. t[i - 1] = s[i]
        BY <1>1, <4>1
      <4>3. Firm(h, t, i - 1)
        BY <1>2, <2>3, <3>2, <4>1
      <4> QED BY <2>3, <4>1, <4>2, <4>3 DEF Makes
    <3> QED BY <3>1, <3>2
  <2> QED BY <1>4, <2>1, <2>2, <2>3 DEF Makes
<1> QED BY <1>3, <1>4 DEF t

\* q is not dropped.  The answer to the first message is due at once.
LEMMA PromiseTail ==
  ASSUME NEW s \in Seq(Messages), s # <<>>, NEW h, NEW q, NEW k, NEW d, NEW r, NEW K, NEW k2, NEW d2, NEW r2, NEW K2,
         Obeys(h, Head(s), k, d, r, k2, d2, r2),
         q \in K \/ Head(s) \in Introducing(q) => q \in K2,
         Rotates(h, d, r, K, s, q) \/ Answers(h, k, d, r, s, q)
  PROVE  \/ Rotates(h, d2, r2, K2, Tail(s), q) \/ Answers(h, k2, d2, r2, Tail(s), q)
         \/ Head(s) = [kind |-> "exchange", peer |-> q, holder |-> h] /\ k # 0
<1> DEFINE t == Tail(s)
           e == [kind |-> "exchange", peer |-> q, holder |-> h]
<1>1. Len(s) \in Nat /\ Len(s) > 0 /\ Len(t) = Len(s) - 1 /\ Head(s) = s[1] /\ \A i \in 1..(Len(s) - 1) : t[i] = s[i + 1]
      /\ Head(s) \in Messages
  OBVIOUS
<1>2. \A n \in 1..(Len(s) + 1) : Firm(h, s, n) => Firm(h, t, IF n = 1 THEN 1 ELSE n - 1)
  BY FirmTail
<1>3. /\ Rotating(h, d, r, s) => Rotating(h, d2, r2, t)
      /\ \A n \in 2..(Len(s) + 1) : Makes(h, k, d, r, s, n) => Makes(h, k2, d2, r2, t, n - 1)
  BY MakesTail
<1> HIDE DEF t
<1>4. ASSUME Rotates(h, d, r, K, s, q) PROVE Rotates(h, d2, r2, K2, t, q)
  <2>1. CASE Rotating(h, d, r, s) /\ q \in K
    BY <1>3, <2>1 DEF Rotates
  <2>2. ASSUME NEW i \in 1..Len(s), s[i] \in Appointing(h), Firm(h, s, i), Acquainted(K, s, i, q)
        PROVE  Rotates(h, d2, r2, K2, t, q)
    <3>1. CASE i = 1
      <4>1. Firm(h, t, 1) /\ d2 > 0 /\ r2 = h
        BY <1>1, <1>2, <2>2, <3>1 DEF Obeys
      <4>2. q \in K2
        BY <2>2, <3>1 DEF Acquainted
      <4> QED BY <4>1, <4>2 DEF Rotates, Rotating
    <3>2. CASE i # 1
      <4>1. i - 1 \in 1..Len(t) /\ i - 1 \in 1..(Len(s) - 1) /\ i \in 1..(Len(s) + 1)
        BY <1>1, <3>2
      <4>2. t[i - 1] = s[i] /\ Firm(h, t, i - 1)
        BY <1>1, <1>2, <2>2, <3>2, <4>1
      <4>3. Acquainted(K2, t, i - 1, q)
        <5>1. CASE q \in K
          BY <5>1 DEF Acquainted
        <5>2. ASSUME NEW j \in 1..(i - 1), s[j] \in Introducing(q) PROVE Acquainted(K2, t, i - 1, q)
          <6>1. CASE j = 1
            BY <1>1, <5>2, <6>1 DEF Acquainted
          <6>2. CASE j # 1
            <7>1. j - 1 \in 1..((i - 1) - 1) /\ j - 1 \in 1..(Len(s) - 1)
              BY <4>1, <6>2
            <7>2. t[j - 1] = s[j]
              BY <1>1, <7>1
            <7> QED BY <5>2, <7>1, <7>2 DEF Acquainted
          <6> QED BY <6>1, <6>2
        <5> QED BY <2>2, <5>1, <5>2 DEF Acquainted
      <4> QED BY <2>2, <4>1, <4>2, <4>3 DEF Rotates
    <3> QED BY <3>1, <3>2
  <2> QED BY <1>4, <2>1, <2>2 DEF Rotates
<1>5. ASSUME Answers(h, k, d, r, s, q)
      PROVE  Rotates(h, d2, r2, K2, t, q) \/ Answers(h, k2, d2, r2, t, q) \/ (Head(s) = e /\ k # 0)
  <2>1. PICK i \in 1..Len(s) : s[i] = e /\ Makes(h, k, d, r, s, i)
    BY <1>5 DEF Answers
  <2>2. CASE i = 1
    <3>1. Head(s) = e /\ Head(s) \in Introducing(q)
      BY <1>1, <2>1, <2>2 DEF Introducing
    <3>2. k # 0 \/ Rotating(h, d, r, s)
      BY <2>1, <2>2 DEF Makes
    <3> QED BY <1>3, <3>1, <3>2 DEF Rotates
  <2>3. CASE i # 1
    <3>1. i \in 2..(Len(s) + 1) /\ i - 1 \in 1..Len(t) /\ i - 1 \in 1..(Len(s) - 1)
      BY <1>1, <2>3
    <3>2. t[i - 1] = e /\ Makes(h, k2, d2, r2, t, i - 1)
      BY <1>1, <1>3, <2>1, <3>1
    <3> QED BY <3>1, <3>2 DEF Answers
  <2> QED BY <2>2, <2>3
<1> QED BY <1>4, <1>5 DEF t

\* A key made meanwhile, by a rotation or otherwise, is as good.
LEMMA PromiseKey ==
  ASSUME NEW s, NEW h, NEW k, NEW d, NEW r, NEW k2, NEW d2,
         k # 0 => k2 # 0,
         d2 = d \/ k2 # 0 \/ r # h
  PROVE  /\ \A n : Makes(h, k, d, r, s, n) => Makes(h, k2, d2, r, s, n)
         /\ \A q : Answers(h, k, d, r, s, q) => Answers(h, k2, d2, r, s, q)
<1>1. \A n : Makes(h, k, d, r, s, n) => Makes(h, k2, d2, r, s, n)
  BY DEF Makes, Rotating
<1>2. \A q : Answers(h, k, d, r, s, q) => Answers(h, k2, d2, r, s, q)
  BY <1>1 DEF Answers
<1> QED BY <1>1, <1>2

\* Only those gone are reported as gone.
Obituaries == \A p, q \in Peer : \A i \in DOMAIN inbox[p] : inbox[p][i] \in Dropping(q) => q \in gone

LEMMA ObituariesStep ==
  ASSUME Obituaries, gone \subseteq gone',
         \A p \in Peer : \A i \in DOMAIN inbox'[p] :
             \/ \E j \in DOMAIN inbox[p] : inbox'[p][i] = inbox[p][j]
             \/ \A q \in Peer : inbox'[p][i] \in Dropping(q) => q \in gone'
  PROVE  Obituaries'
<1> SUFFICES ASSUME NEW p \in Peer, NEW q \in Peer, NEW i \in DOMAIN inbox'[p], inbox'[p][i] \in Dropping(q)
             PROVE  q \in gone'
  BY DEF Obituaries, Dropping
<1> QED BY DEF Obituaries

LEMMA BroadcastObituaries ==
  ASSUME inbox \in [Peer -> Seq(Messages)], NEW ib, NEW G,
         ib \in [Peer -> Seq(Messages)],
         \A p \in Peer : \A i \in DOMAIN ib[p] :
             \/ \E j \in DOMAIN inbox[p] : ib[p][i] = inbox[p][j]
             \/ \A q \in Peer : ib[p][i] \in Dropping(q) => q \in G,
         NEW to, NEW m \in Messages, \A q \in Peer : m \in Dropping(q) => q \in G
  PROVE  /\ Broadcast(ib, to, m) \in [Peer -> Seq(Messages)]
         /\ \A p \in Peer : \A i \in DOMAIN Broadcast(ib, to, m)[p] :
             \/ \E j \in DOMAIN inbox[p] : Broadcast(ib, to, m)[p][i] = inbox[p][j]
             \/ \A q \in Peer : Broadcast(ib, to, m)[p][i] \in Dropping(q) => q \in G
<1> DEFINE c == Broadcast(ib, to, m)
<1>1. /\ c \in [Peer -> Seq(Messages)]
      /\ \A p \in Peer : \A i \in DOMAIN c[p] : (i \in DOMAIN ib[p] /\ c[p][i] = ib[p][i]) \/ (p \in to /\ c[p][i] = m)
  BY BroadcastStep
<1> HIDE DEF c
<1>2. ASSUME NEW p \in Peer, NEW i \in DOMAIN c[p]
      PROVE  \/ \E j \in DOMAIN inbox[p] : c[p][i] = inbox[p][j]
             \/ \A q \in Peer : c[p][i] \in Dropping(q) => q \in G
  <2>1. CASE i \in DOMAIN ib[p] /\ c[p][i] = ib[p][i]
    BY <2>1
  <2>2. CASE c[p][i] = m
    BY <2>2
  <2> QED BY <1>1, <2>1, <2>2
<1> QED BY <1>1, <1>2 DEF c

LEMMA ObituariesNext == Inv /\ Obituaries /\ [Next]_vars => Obituaries'
<1> SUFFICES ASSUME Inv, Obituaries, [Next]_vars PROVE Obituaries'
  OBVIOUS
<1>0. TypeOK /\ inbox \in [Peer -> Seq(Messages)]
  BY DEF Inv, TypeOK
<1> DEFINE Kept(ib, G) == /\ ib \in [Peer -> Seq(Messages)]
                          /\ \A p \in Peer : \A i \in DOMAIN ib[p] :
                               \/ \E j \in DOMAIN inbox[p] : ib[p][i] = inbox[p][j]
                               \/ \A q \in Peer : ib[p][i] \in Dropping(q) => q \in G
<1>1. \A G : Kept(inbox, G)
  BY <1>0
<1>2. ASSUME NEW ib, NEW G, Kept(ib, G), NEW to, NEW m \in Messages, \A q \in Peer : m \in Dropping(q) => q \in G
      PROVE  Kept(Broadcast(ib, to, m), G)
  BY <1>0, <1>2, BroadcastObituaries
<1>3. ASSUME Kept(inbox', gone'), gone \subseteq gone' PROVE Obituaries'
  BY <1>3, ObituariesStep
<1>4. ASSUME UNCHANGED <<gone, inbox>> PROVE Obituaries'
  BY <1>4 DEF Obituaries
<1>5. CASE UNCHANGED vars
  BY <1>4, <1>5 DEF vars, serverVars, netVars
<1>6. ASSUME NEW p \in Peer, NEW ib, NEW G, Kept(ib, G), p \in G PROVE Kept(AnnounceLeft(ib, p), G)
  <2> DEFINE m == [kind |-> "left", peer |-> p]
  <2>1. m \in Messages /\ \A q \in Peer : m \in Dropping(q) => q \in G
    BY <1>6 DEF Messages, Dropping
  <2>2. Kept(Broadcast(ib, inside \ {p}, m), G)
    <3> HIDE DEF m, Kept
    <3> QED BY <1>2, <1>6, <2>1
  <2> QED BY <2>2 DEF AnnounceLeft
<1>7. ASSUME NEW p \in Peer, NEW announce \in BOOLEAN, RemovePeer(p, announce) PROVE Obituaries'
  <2>1. gone' = gone \cup {p} /\ p \in gone' /\ gone \subseteq gone' /\ ElectHolder(p, announce)
    BY <1>7 DEF RemovePeer
  <2> DEFINE Sent(ib) == IF announce THEN AnnounceLeft(ib, p) ELSE ib
  <2>2. ASSUME NEW ib, Kept(ib, gone') PROVE Kept(Sent(ib), gone')
    <3>1. CASE announce
      <4> HIDE DEF Kept
      <4> QED BY <1>6, <2>1, <2>2, <3>1
    <3>2. CASE ~announce
      BY <2>2, <3>2
    <3> QED BY <3>1, <3>2
  <2>3. CASE inbox' = Sent(inbox)
    <3>1. Kept(inbox, gone')
      BY <1>0
    <3> HIDE DEF Kept, Sent
    <3> QED BY <1>3, <2>1, <2>2, <2>3, <3>1
  <2>4. ASSUME NEW next \in Candidates(p),
               inbox' = Sent(Broadcast(inbox, inside \ {p},
                  [kind |-> "changed", peer |-> next, previous |-> p, generate |-> next \notin ready]))
        PROVE  Obituaries'
    <3> DEFINE m == [kind |-> "changed", peer |-> next, previous |-> p, generate |-> next \notin ready]
    <3>1. next \in Peer
      BY <1>0 DEF Candidates, Registered, TypeOK
    <3>2. m \in Messages /\ \A q \in Peer : m \in Dropping(q) => q \in gone'
      BY <2>1, <3>1 DEF Messages, Dropping
    <3>3. Kept(inbox, gone')
      BY <1>0
    <3> HIDE DEF Kept, Sent, m
    <3>4. Kept(Broadcast(inbox, inside \ {p}, m), gone')
      BY <1>2, <3>2, <3>3
    <3>5. inbox' = Sent(Broadcast(inbox, inside \ {p}, m))
      BY <2>4 DEF m
    <3> QED BY <1>3, <2>1, <2>2, <3>4, <3>5
  <2>5. \/ inbox' = Sent(inbox)
        \/ \E next \in Candidates(p) : inbox' = Sent(Broadcast(inbox, inside \ {p},
                  [kind |-> "changed", peer |-> next, previous |-> p, generate |-> next \notin ready]))
    BY <2>1 DEF ElectHolder
  <2> HIDE DEF Sent
  <2> QED BY <2>3, <2>4, <2>5
<1>8. ASSUME NEW p \in Peer, ServerStep(p) \/ ClientStep(p) \/ Churn(p) PROVE Obituaries'
  <2>1. CASE RegisterKeys(p)
    <3> DEFINE next == IF HolderRegistered THEN holder ELSE p
               m == [kind |-> "exchange", peer |-> p, holder |-> next]
               n == [kind |-> "registered", holder |-> next, generate |-> ~HolderRegistered]
    <3>1. next \in Peer
      BY <1>0 DEF TypeOK, HolderRegistered, Registered
    <3>2. m \in Messages /\ n \in Messages /\ \A q \in Peer : m \notin Dropping(q) /\ n \notin Dropping(q)
      BY <3>1 DEF Messages, Dropping
    <3>3. inbox' = Broadcast(Broadcast(inbox, inside \ {p}, m), {p}, n) /\ gone' = gone
      BY <2>1 DEF RegisterKeys, Reply
    <3> HIDE DEF Kept, m, n
    <3> QED BY <1>1, <1>2, <1>3, <3>2, <3>3
  <2>2. CASE DistributeEpochKey(p)
    <3> DEFINE r == Head(outbox[p])
               m == [kind |-> "key", from |-> p, key |-> r.key]
    <3>1. /\ outbox[p] \in Seq(Requests) /\ outbox[p] # <<>> /\ r.kind = "distribute" /\ gone' = gone
          /\ inbox' = IF MayDistribute(p, r.to) THEN Broadcast(inbox, {r.to}, m) ELSE inbox
      BY <1>0, <2>2 DEF DistributeEpochKey, NextRequest, Reply, serverVars, TypeOK
    <3>2. r \in Requests
      BY <3>1, TailStep
    <3>3. r.key \in Nat \ {0}
      BY <3>1, <3>2 DEF Requests
    <3>4. m \in Messages /\ \A q \in Peer : m \notin Dropping(q)
      BY <3>3 DEF Messages, Dropping
    <3> HIDE DEF Kept, m, r
    <3> QED BY <1>1, <1>2, <1>3, <3>1, <3>4
  <2>3. CASE RegisterRefused(p) \/ E2eeKeyReceived(p)
    BY <1>4, <2>3 DEF RegisterRefused, E2eeKeyReceived, serverVars
  <2>4. CASE CloseKicked(p)
    <3>1. p \in gone /\ gone' = gone /\ inbox' = AnnounceLeft(inbox, p)
      BY <1>0, <2>4 DEF CloseKicked, TypeOK
    <3> HIDE DEF Kept
    <3> QED BY <1>1, <1>3, <1>6, <3>1
  <2>5. CASE Join(p)
    <3> DEFINE m == [kind |-> "joined", holder |-> holder, bundles |-> Registered]
    <3>1. inbox' = Broadcast(inbox, {p}, m) /\ gone' = gone
      BY <2>5 DEF Join, Reply
    <3>2. m \in Messages /\ \A q \in Peer : m \notin Dropping(q)
      BY <1>0 DEF Messages, Dropping, TypeOK, Registered
    <3> HIDE DEF Kept, m
    <3> QED BY <1>1, <1>2, <1>3, <3>1, <3>2
  <2>6. CASE Leave(p) \/ Kick(p)
    BY <1>7, <2>6 DEF Leave, Kick
  <2>7. CASE Rotate(p) \/ WrapDone(p) \/ AcceptDone(p)
    BY <1>4, <2>7 DEF Rotate, WrapDone, AcceptDone, serverVars, netVars
  <2>8. ASSUME NEW kind, Receive(p, kind) PROVE Obituaries'
    <3>1. /\ UNCHANGED serverVars
          /\ \A q \in Peer : \A i \in DOMAIN inbox'[q] : \E j \in DOMAIN inbox[q] : inbox'[q][i] = inbox[q][j]
      BY <1>0, <2>8, TakeMessage
    <3>2. gone' = gone
      BY <3>1 DEF serverVars
    <3> QED BY <3>1, <3>2, ObituariesStep
  <2>9. CASE OnJoined(p) \/ OnRegistered(p) \/ OnExchange(p) \/ OnEpochKey(p) \/ OnHolderChanged(p) \/ OnPeerLeft(p)
    BY <2>8, <2>9 DEF OnJoined, OnRegistered, OnExchange, OnEpochKey, OnHolderChanged, OnPeerLeft
  <2> QED BY <1>8, <2>1, <2>2, <2>3, <2>4, <2>5, <2>6, <2>7, <2>9 DEF ServerStep, ClientStep, Churn
<1>9. CASE Next
  BY <1>8, <1>9 DEF Next
<1> QED BY <1>5, <1>9

\* Where a key for q is: about to be installed, in its inbox, being wrapped, or in
\* the sender's outbox.
Accepting(T) == \E t \in T : t.kind = "accept"
Enveloped(s) == \E i \in DOMAIN s : s[i].kind = "key"
Wrapping(T, q) == \E t \in T : t.kind = "wrap" /\ t.to = q
Sending(s, q) == \E i \in DOMAIN s : s[i].kind = "distribute" /\ s[i].to = q

LEMMA QueueFacts ==
  ASSUME NEW S, NEW s \in Seq(S)
  PROVE  /\ \A m \in S : Enveloped(s) => Enveloped(Append(s, m))
         /\ \A m \in S : m.kind = "key" => Enveloped(Append(s, m))
         /\ s # <<>> /\ Enveloped(s) => Enveloped(Tail(s)) \/ Head(s).kind = "key"
         /\ \A m \in S : \A q : Sending(s, q) => Sending(Append(s, m), q)
         /\ \A m \in S : \A q : m.kind = "distribute" /\ m.to = q => Sending(Append(s, m), q)
         /\ \A q : s # <<>> /\ Sending(s, q) => Sending(Tail(s), q) \/ (Head(s).kind = "distribute" /\ Head(s).to = q)
<1>1. ASSUME NEW m \in S
      PROVE  /\ \A i \in DOMAIN s : i \in DOMAIN Append(s, m) /\ Append(s, m)[i] = s[i]
             /\ Len(s) + 1 \in DOMAIN Append(s, m) /\ Append(s, m)[Len(s) + 1] = m
  OBVIOUS
<1>2. ASSUME s # <<>>
      PROVE  \A i \in DOMAIN s : s[i] = Head(s) \/ (i - 1 \in DOMAIN Tail(s) /\ Tail(s)[i - 1] = s[i])
  BY <1>2
<1>3. \A m \in S : (Enveloped(s) \/ m.kind = "key") => Enveloped(Append(s, m))
  BY <1>1 DEF Enveloped
<1>4. s # <<>> /\ Enveloped(s) => Enveloped(Tail(s)) \/ Head(s).kind = "key"
  BY <1>2 DEF Enveloped
<1>5. \A m \in S : \A q : (Sending(s, q) \/ (m.kind = "distribute" /\ m.to = q)) => Sending(Append(s, m), q)
  BY <1>1 DEF Sending
<1>6. \A q : s # <<>> /\ Sending(s, q) => Sending(Tail(s), q) \/ (Head(s).kind = "distribute" /\ Head(s).to = q)
  BY <1>2 DEF Sending
<1> QED BY <1>3, <1>4, <1>5, <1>6

Promised(h, q) ==
    \/ Rotates(h, due[h], ref[h], known[h], inbox[h], q)
    \/ Answers(h, key[h], due[h], ref[h], inbox[h], q)
Supplied(h, q) ==
    \/ Accepting(tasks[q]) \/ Enveloped(inbox[q]) \/ Wrapping(tasks[h], q) \/ Sending(outbox[h], q)
    \/ Promised(h, q)
Provides(h) == Makes(h, key[h], due[h], ref[h], inbox[h], Len(inbox[h]) + 1)

\* The holder has a key or will make one, and who has none yet will get one.
Keyed ==
    holder # None => /\ Provides(holder)
                     /\ \A q \in Registered \ {holder} : key[q] = 0 => Supplied(holder, q)

LEMMA HolderInside ==
  ASSUME TypeOK, SeatInv, holder # None
  PROVE  holder \in Registered /\ holder \in inside /\ holder \in Peer /\ Registered \subseteq inside /\ inside \subseteq Peer
  BY DEF SeatInv, HolderElected, Registered, TypeOK

\* A step of the service: inboxes grow, the clients inside stay as they are.
LEMMA ServiceKeyed ==
  ASSUME TypeOK, SeatInv, SeatInv', Keyed, NEW h \in Peer, holder = h, holder' = h, UNCHANGED <<key, ref, known>>,
         \A q \in Registered' : tasks'[q] = tasks[q] /\ due'[q] = due[q],
         \A q \in Registered' : \/ inbox'[q] = inbox[q]
                               \/ \E m \in Messages : /\ inbox'[q] = Append(inbox[q], m)
                                                      /\ q = h => m \notin NamingOther(h),
         \A q \in Registered' \ {h} : \/ q \in Registered
                                     \/ inbox'[h] = Append(inbox[h], [kind |-> "exchange", peer |-> q, holder |-> h]),
         \A q \in Registered' \ {h} :
            Sending(outbox[h], q) => Sending(outbox'[h], q) \/ Enveloped(inbox'[q]),
         Registered' \subseteq Peer
  PROVE  Keyed'
<1>1. h \in Registered /\ h \in Registered' /\ inbox[h] \in Seq(Messages) /\ Registered \subseteq Peer
  <2>1. h # None /\ HolderElected /\ HolderElected'
    BY PeerAssumption DEF SeatInv
  <2>2. h \in Registered /\ h \in Registered'
    BY <2>1 DEF HolderElected
  <2> QED BY <2>2 DEF TypeOK, Registered
<1>2. /\ tasks'[h] = tasks[h] /\ due'[h] = due[h] /\ key'[h] = key[h] /\ ref'[h] = ref[h] /\ known'[h] = known[h]
      /\ Len(inbox[h]) \in Nat /\ Len(inbox[h]) + 1 \in 1..(Len(inbox[h]) + 1)
  BY <1>1
<1>3. Provides(h) /\ \A q \in Registered \ {h} : key[q] = 0 => Supplied(h, q)
  BY PeerAssumption DEF Keyed
<1>4. /\ Provides(h)'
      /\ \A q : Promised(h, q) => Promised(h, q)'
      /\ \A q : inbox'[h] = Append(inbox[h], [kind |-> "exchange", peer |-> q, holder |-> h])
            /\ [kind |-> "exchange", peer |-> q, holder |-> h] \in Messages => Promised(h, q)'
  <2>1. CASE inbox'[h] = inbox[h]
    <3>1. \A x : inbox[h] # Append(inbox[h], x)
      <4>1. \A x : Len(Append(inbox[h], x)) = Len(inbox[h]) + 1 /\ Len(inbox[h]) \in Nat
        BY <1>1
      <4> QED BY <4>1
    <3>2. Provides(h)'
      BY <1>2, <1>3, <2>1 DEF Provides
    <3>3. \A q : Promised(h, q) => Promised(h, q)'
      BY <1>2, <2>1 DEF Promised
    <3> QED BY <2>1, <3>1, <3>2, <3>3
  <2>2. CASE inbox'[h] # inbox[h]
    <3>1. PICK m \in Messages : inbox'[h] = Append(inbox[h], m) /\ m \notin NamingOther(h)
      BY <1>1, <2>2
    <3>2. Len(inbox'[h]) = Len(inbox[h]) + 1
      BY <1>1, <3>1
    <3> DEFINE t == Append(inbox[h], m)
    <3>3. /\ Makes(h, key[h], due[h], ref[h], t, (Len(inbox[h]) + 1) + 1)
          /\ \A q : Rotates(h, due[h], ref[h], known[h], inbox[h], q) => Rotates(h, due[h], ref[h], known[h], t, q)
          /\ \A q : Answers(h, key[h], due[h], ref[h], inbox[h], q) => Answers(h, key[h], due[h], ref[h], t, q)
          /\ \A q : m = [kind |-> "exchange", peer |-> q, holder |-> h] => Answers(h, key[h], due[h], ref[h], t, q)
      <4>1. Makes(h, key[h], due[h], ref[h], inbox[h], Len(inbox[h]) + 1)
        BY <1>3 DEF Provides
      <4> QED BY <1>1, <1>2, <3>1, <4>1, PromiseAppend
    <3>4. inbox'[h] = t
      BY <3>1
    <3> HIDE DEF t
    <3>5. Provides(h)'
      BY <1>2, <3>2, <3>3, <3>4 DEF Provides
    <3>6. \A q : Promised(h, q) => Promised(h, q)'
      BY <1>2, <3>3, <3>4 DEF Promised
    <3>7. ASSUME NEW q, inbox'[h] = Append(inbox[h], [kind |-> "exchange", peer |-> q, holder |-> h]),
                 [kind |-> "exchange", peer |-> q, holder |-> h] \in Messages
          PROVE  Promised(h, q)'
      <4> DEFINE e == [kind |-> "exchange", peer |-> q, holder |-> h]
      <4>1. m = e
        <5>1. Append(inbox[h], m) = Append(inbox[h], e) /\ e \in Messages
          BY <3>1, <3>7
        <5> HIDE DEF e
        <5>2. Append(inbox[h], m)[Len(inbox[h]) + 1] = m /\ Append(inbox[h], e)[Len(inbox[h]) + 1] = e
          BY <1>1, <5>1
        <5> QED BY <5>1, <5>2
      <4>2. Answers(h, key[h], due[h], ref[h], t, q)
        BY <3>3, <4>1
      <4> QED BY <1>2, <3>4, <4>2 DEF Promised
    <3> QED BY <3>5, <3>6, <3>7
  <2> QED BY <2>1, <2>2
<1>5. ASSUME NEW q \in Registered' \ {h}, key[q] = 0 PROVE Supplied(h, q)'
  <2>1. CASE q \in Registered
    <3>1. Supplied(h, q) /\ inbox[q] \in Seq(Messages) /\ tasks'[q] = tasks[q]
      BY <1>1, <1>3, <1>5, <2>1 DEF TypeOK
    <3>2. Enveloped(inbox[q]) => Enveloped(inbox'[q])
      <4>1. \A m \in Messages : Enveloped(inbox[q]) => Enveloped(Append(inbox[q], m))
        BY <3>1, QueueFacts
      <4> QED BY <1>5, <4>1
    <3>3. Sending(outbox[h], q) => Sending(outbox'[h], q) \/ Enveloped(inbox'[q])
      BY <1>5
    <3>4. Promised(h, q) => Promised(h, q)'
      BY <1>4
    <3> QED BY <1>2, <3>1, <3>2, <3>3, <3>4 DEF Supplied
  <2>2. CASE q \notin Registered
    <3>1. inbox'[h] = Append(inbox[h], [kind |-> "exchange", peer |-> q, holder |-> h])
      BY <1>5, <2>2
    <3>2. [kind |-> "exchange", peer |-> q, holder |-> h] \in Messages
      BY <1>5 DEF Messages
    <3>3. Promised(h, q)'
      BY <1>4, <3>1, <3>2
    <3> QED BY <3>3 DEF Supplied
  <2> QED BY <2>1, <2>2
<1>6. UNCHANGED key
  OBVIOUS
<1> QED BY <1>4, <1>5, <1>6 DEF Keyed

\* Taking a request out costs nobody a key but the one it was for.
LEMMA SendingKept ==
  ASSUME TypeOK, NEW p \in Peer, outbox[p] # <<>>, outbox' = [outbox EXCEPT ![p] = Tail(@)],
         NEW h \in Peer, NEW q, Sending(outbox[h], q)
  PROVE  Sending(outbox'[h], q) \/ (p = h /\ Head(outbox[p]).kind = "distribute" /\ Head(outbox[p]).to = q)
<1>1. outbox[p] \in Seq(Requests) /\ outbox'[h] = IF h = p THEN Tail(outbox[p]) ELSE outbox[h]
  BY DEF TypeOK
<1>2. Sending(outbox[p], q) => Sending(Tail(outbox[p]), q) \/ (Head(outbox[p]).kind = "distribute" /\ Head(outbox[p]).to = q)
  BY <1>1, QueueFacts
<1> QED BY <1>1, <1>2

LEMMA NoHolder == ASSUME holder' = None PROVE Keyed'
  BY DEF Keyed

LEMMA JoinKeyed ==
  ASSUME TypeOK, SeatInv, SeatInv', Keyed, NEW p \in Peer, Join(p)
  PROVE  Keyed'
<1>1. CASE holder = None
  BY <1>1, NoHolder DEF Join
<1>2. CASE holder \in Peer
  <2>1. /\ p \notin inside \cup gone /\ inside' = inside \cup {p} /\ p \notin bundle
        /\ UNCHANGED <<bundle, holder, outbox, key, ref, known, tasks, due>>
    BY DEF Join, clientVars, SeatInv
  <2>2. Registered' = Registered /\ p \notin Registered /\ Registered \subseteq Peer
    BY <2>1 DEF Registered, TypeOK
  <2>3. \A q \in Registered : inbox'[q] = inbox[q]
    BY <2>2 DEF Join, Reply, Broadcast
  <2> QED BY <1>2, <2>1, <2>2, <2>3, ServiceKeyed
<1> QED BY <1>1, <1>2 DEF TypeOK

LEMMA OtherRequestKeyed ==
  ASSUME TypeOK, SeatInv, SeatInv', Keyed, NEW p \in Peer, E2eeKeyReceived(p) \/ RegisterRefused(p)
  PROVE  Keyed'
<1>1. /\ outbox[p] # <<>> /\ outbox' = [outbox EXCEPT ![p] = Tail(@)] /\ Head(outbox[p]).kind # "distribute"
      /\ UNCHANGED <<inside, bundle, holder, inbox, key, ref, known, tasks, due>>
  BY DEF E2eeKeyReceived, RegisterRefused, NextRequest, serverVars, clientVars
<1>2. CASE holder = None
  BY <1>1, <1>2, NoHolder
<1>3. CASE holder \in Peer
  <2>1. Registered' = Registered /\ Registered \subseteq Peer
    BY <1>1 DEF Registered, TypeOK
  <2>2. \A q : Sending(outbox[holder], q) => Sending(outbox'[holder], q)
    BY <1>1, <1>3, SendingKept
  <2> QED BY <1>1, <1>3, <2>1, <2>2, ServiceKeyed
<1> QED BY <1>2, <1>3 DEF TypeOK

\* A request of the holder's becomes the envelope it asks for.
LEMMA DistributeKeyed ==
  ASSUME Inv, SeatInv, SeatInv', Keyed, NEW p \in Peer, DistributeEpochKey(p)
  PROVE  Keyed'
<1> DEFINE r == Head(outbox[p])
           m == [kind |-> "key", from |-> p, key |-> r.key]
<1>0. TypeOK
  BY DEF Inv
<1>1. /\ outbox[p] # <<>> /\ r.kind = "distribute" /\ outbox[p] \in Seq(Requests)
      /\ outbox' = [outbox EXCEPT ![p] = Tail(@)]
      /\ inbox' = IF MayDistribute(p, r.to) THEN Broadcast(inbox, {r.to}, m) ELSE inbox
      /\ UNCHANGED <<inside, bundle, holder, key, ref, known, tasks, due>>
  BY <1>0 DEF DistributeEpochKey, NextRequest, Reply, TypeOK, serverVars, clientVars
<1>2. r \in Requests /\ 1 \in DOMAIN outbox[p] /\ r = outbox[p][1]
  BY <1>1, TailStep
<1>3. r.to \in Peer /\ r.key \in Nat \ {0} /\ r.to # p
  BY <1>1, <1>2 DEF Requests, Inv, Flow, FlowOf
<1>4. m \in Messages /\ m.kind = "key"
  BY <1>3 DEF Messages
<1> HIDE DEF m
<1>5. CASE holder = None
  BY <1>1, <1>5, NoHolder
<1>6. CASE holder \in Peer
  <2>1. Registered' = Registered /\ Registered \subseteq Peer
    BY <1>0, <1>1 DEF Registered, TypeOK
  <2>2. m \notin NamingOther(holder)
    BY <1>4 DEF NamingOther, Tellings, Changes
  <2>3. \A q \in Peer : inbox'[q] = IF MayDistribute(p, r.to) /\ q = r.to THEN Append(inbox[q], m) ELSE inbox[q]
    BY <1>1 DEF Broadcast
  <2>4. holder \in Registered
    BY <1>0, <1>6, PeerAssumption, HolderInside
  <2>5. ASSUME NEW q \in Registered \ {holder}, Sending(outbox[holder], q)
        PROVE  Sending(outbox'[holder], q) \/ Enveloped(inbox'[q])
    <3>1. CASE p = holder /\ r.to = q
      <4>1. MayDistribute(p, q)
        BY <2>4, <3>1 DEF MayDistribute, Registered
      <4>2. inbox'[q] = Append(inbox[q], m) /\ inbox[q] \in Seq(Messages)
        BY <1>0, <2>1, <2>3, <3>1, <4>1 DEF TypeOK
      <4> QED BY <1>4, <4>2, QueueFacts
    <3>2. CASE ~(p = holder /\ r.to = q)
      BY <1>0, <1>1, <1>6, <2>5, <3>2, SendingKept
    <3> QED BY <3>1, <3>2
  <2> HIDE DEF r
  <2>6. \A q \in Registered : inbox'[q] = inbox[q] \/ inbox'[q] = Append(inbox[q], m)
    BY <2>1, <2>3
  <2> QED BY <1>0, <1>1, <1>4, <1>6, <2>1, <2>2, <2>5, <2>6, ServiceKeyed
<1> QED BY <1>0, <1>5, <1>6 DEF TypeOK

\* Word that somebody left changes nothing about who holds the key.
LEMMA LeftNames == \A p \in Peer : [kind |-> "left", peer |-> p] \in Messages /\ \A h : [kind |-> "left", peer |-> p] \notin NamingOther(h)
<1> SUFFICES ASSUME NEW p \in Peer
             PROVE  [kind |-> "left", peer |-> p] \in Messages /\ \A h : [kind |-> "left", peer |-> p] \notin NamingOther(h)
  OBVIOUS
<1> DEFINE m == [kind |-> "left", peer |-> p]
<1>1. m \in Messages /\ m.kind = "left"
  BY DEF Messages
<1> HIDE DEF m
<1>2. \A h : m \notin NamingOther(h)
  BY <1>1 DEF NamingOther, Tellings, Changes
<1> QED BY <1>1, <1>2 DEF m

LEMMA CloseKeyed ==
  ASSUME TypeOK, Apart, SeatInv, SeatInv', Keyed, NEW p \in Peer, CloseKicked(p)
  PROVE  Keyed'
<1>1. /\ p \notin inside /\ inbox' = AnnounceLeft(inbox, p)
      /\ UNCHANGED <<inside, bundle, holder, outbox, key, ref, known>>
      /\ tasks' = [tasks EXCEPT ![p] = {}] /\ due' = [due EXCEPT ![p] = 0]
  BY DEF CloseKicked, Stopped, TypeOK, Apart
<1>2. CASE holder = None
  BY <1>1, <1>2, NoHolder
<1>3. CASE holder \in Peer
  <2>1. Registered' = Registered /\ Registered \subseteq Peer /\ p \notin Registered
    BY <1>1 DEF Registered, TypeOK
  <2>2. \A q \in Registered : tasks'[q] = tasks[q] /\ due'[q] = due[q]
    BY <1>1, <2>1 DEF TypeOK
  <2>3. \A q \in Registered : inbox'[q] = inbox[q] \/ inbox'[q] = Append(inbox[q], [kind |-> "left", peer |-> p])
    BY <1>1, <2>1 DEF AnnounceLeft, Broadcast
  <2> QED BY <1>1, <1>3, <2>1, <2>2, <2>3, LeftNames, ServiceKeyed
<1> QED BY <1>2, <1>3 DEF TypeOK

\* The first to register is told to generate the key; everybody else's identity is
\* put before the holder.
LEMMA RegisterKeyed ==
  ASSUME TypeOK, SeatInv, SeatInv', Keyed, NEW p \in Peer, RegisterKeys(p)
  PROVE  Keyed'
<1> DEFINE next == IF HolderRegistered THEN holder ELSE p
           m == [kind |-> "exchange", peer |-> p, holder |-> next]
           n == [kind |-> "registered", holder |-> next, generate |-> ~HolderRegistered]
<1>1. next \in Peer /\ m \in Messages /\ n \in Messages
  BY DEF TypeOK, Messages, HolderRegistered, Registered
<1>2. /\ m.kind = "exchange" /\ m.holder = next /\ n.kind = "registered" /\ n.holder = next
      /\ (~HolderRegistered => n.generate)
  OBVIOUS
<1>3. /\ p \in inside /\ holder' = next /\ bundle' = bundle \cup {p} /\ UNCHANGED <<inside, key, ref, known, tasks, due>>
      /\ inbox' = Broadcast(Broadcast(inbox, inside \ {p}, m), {p}, n)
      /\ outbox[p] # <<>> /\ outbox' = [outbox EXCEPT ![p] = Tail(@)] /\ Head(outbox[p]).kind # "distribute"
  BY DEF RegisterKeys, NextRequest, Reply, clientVars
<1>4. m \notin NamingOther(next) /\ n \notin NamingOther(next)
  <2> HIDE DEF m, n
  <2> QED BY <1>2 DEF NamingOther, Tellings, Changes
<1>5. Registered' = Registered \cup {p} /\ Registered' \subseteq Peer /\ inside \subseteq Peer
  BY <1>3 DEF Registered, TypeOK
<1> HIDE DEF m, n
<1>6. \A q \in Peer : inbox'[q] = IF q = p THEN Append(inbox[p], n) ELSE IF q \in inside THEN Append(inbox[q], m) ELSE inbox[q]
  BY <1>3 DEF Broadcast
<1>7. CASE HolderRegistered
  <2>1. holder \in Peer /\ holder \in Registered /\ next = holder /\ holder' = holder
    BY <1>3, <1>5, <1>7 DEF HolderRegistered
  <2>2. ASSUME NEW q \in Registered' \ {holder}
        PROVE  q \in Registered \/ inbox'[holder] = Append(inbox[holder], [kind |-> "exchange", peer |-> q, holder |-> holder])
    <3>1. CASE q = p
      <4>1. holder # p /\ holder \in inside
        BY <2>1, <2>2, <3>1 DEF Registered
      <4>2. inbox'[holder] = Append(inbox[holder], m) /\ m = [kind |-> "exchange", peer |-> p, holder |-> holder]
        BY <1>6, <2>1, <4>1 DEF m
      <4> QED BY <3>1, <4>2
    <3>2. CASE q # p
      BY <1>5, <2>2, <3>2
    <3> QED BY <3>1, <3>2
  <2>3. \A q \in Registered' : \E x \in Messages : inbox'[q] = Append(inbox[q], x) /\ x \notin NamingOther(holder)
    BY <1>1, <1>4, <1>5, <1>6, <2>1, <1>3 DEF Registered
  <2>4. \A q : Sending(outbox[holder], q) => Sending(outbox'[holder], q)
    BY <1>3, <2>1, SendingKept
  <2> QED BY <1>3, <1>5, <2>1, <2>2, <2>3, <2>4, ServiceKeyed
<1>8. CASE ~HolderRegistered
  <2>1. Registered = {} /\ Registered' = {p} /\ holder' = p
    BY <1>3, <1>5, <1>8 DEF SeatInv, HolderElected, HolderRegistered
  <2>2. inbox'[p] = Append(inbox[p], n) /\ inbox[p] \in Seq(Messages)
    BY <1>6 DEF TypeOK
  <2> DEFINE t == Append(inbox[p], n)
  <2>3. Len(inbox[p]) \in Nat /\ Len(t) = Len(inbox[p]) + 1 /\ t[Len(inbox[p]) + 1] = n
    BY <2>2
  <2> HIDE DEF t
  <2>4. n \in Ordering /\ n \notin NamingOther(p)
    BY <1>1, <1>2, <1>4, <1>8 DEF Ordering
  <2>5. Firm(p, t, Len(inbox[p]) + 1)
    BY <2>3, <2>4 DEF Firm
  <2>6. \A k, d, r : Makes(p, k, d, r, t, Len(t) + 1)
    BY <2>3, <2>4, <2>5 DEF Makes
  <2>7. Provides(p)'
    BY <2>2, <2>6 DEF Provides, t
  <2> QED BY <2>1, <2>7 DEF Keyed
<1> QED BY <1>7, <1>8

\* Who takes over knows everybody registered, or will by then, and rotates.
LEMMA TakesOver ==
  ASSUME TypeOK, Heard, NEW p \in Peer, NEW h \in Registered, NEW m \in Messages, m \in Appointing(h), m \notin NamingOther(h)
  PROVE  LET t == Append(inbox[h], m) IN
         /\ \A k, d, r : Makes(h, k, d, r, t, Len(t) + 1)
         /\ \A q \in Registered \ {h} : \A d, r : Rotates(h, d, r, known[h], t, q)
<1> DEFINE s == inbox[h]
           t == Append(s, m)
<1>1. s \in Seq(Messages) /\ h \in inside
  BY DEF TypeOK, Registered
<1> HIDE DEF s
<1>2. Len(s) \in Nat /\ Len(t) = Len(s) + 1 /\ t[Len(s) + 1] = m /\ \A i \in 1..Len(s) : t[i] = s[i]
  BY <1>1
<1> HIDE DEF t
<1>3. Firm(h, t, Len(s) + 1)
  BY <1>2 DEF Firm
<1>4. \A k, d, r : Makes(h, k, d, r, t, Len(t) + 1)
  <2>1. Len(s) + 1 \in 1..((Len(t) + 1) - 1) /\ t[Len(s) + 1] \in Ordering \cup Appointing(h)
    BY <1>2
  <2> QED BY <1>3, <2>1 DEF Makes
<1>5. ASSUME NEW q \in Registered \ {h} PROVE \A d, r : Rotates(h, d, r, known[h], t, q)
  <2>1. Meets(known[h], s, Len(s) + 1, q)
    BY <1>1 DEF Heard, Attends, s
  <2>2. PICK j \in 0..Len(s) : IF j = 0 THEN q \in known[h] ELSE s[j] \in Introducing(q)
    BY <1>2, <2>1 DEF Meets, Stands
  <2>3. Acquainted(known[h], t, Len(s) + 1, q)
    BY <1>2, <2>2 DEF Acquainted
  <2>4. Len(s) + 1 \in 1..Len(t) /\ t[Len(s) + 1] \in Appointing(h)
    BY <1>2
  <2> QED BY <1>3, <2>3, <2>4 DEF Rotates
<1> QED BY <1>4, <1>5 DEF s, t

LEMMA DepartKeyed ==
  ASSUME TypeOK, SeatInv, SeatInv', Heard, Keyed, NEW p \in Peer, NEW announce \in BOOLEAN, RemovePeer(p, announce),
         UNCHANGED <<key, ref, known>>, \A q \in Peer \ {p} : tasks'[q] = tasks[q] /\ due'[q] = due[q]
  PROVE  Keyed'
<1> DEFINE Sent(ib) == IF announce THEN AnnounceLeft(ib, p) ELSE ib
           left == [kind |-> "left", peer |-> p]
<1>1. /\ p \in inside /\ inside' = inside \ {p} /\ bundle' = bundle /\ outbox' = outbox
      /\ Registered' = Registered \ {p} /\ Registered \subseteq Peer /\ Registered \subseteq inside
      /\ ElectHolder(p, announce)
  BY DEF RemovePeer, Registered, TypeOK
<1>2. \A ib : \A q \in Registered' : ib[q] = Sent(ib)[q] \/ Sent(ib)[q] = Append(ib[q], left)
  BY <1>1 DEF AnnounceLeft, Broadcast
<1>3. left \in Messages /\ \A h : left \notin NamingOther(h)
  BY LeftNames
<1> HIDE DEF Sent, left
<1>4. CASE holder' = None
  BY <1>4, NoHolder
<1>5. CASE holder # p /\ holder \in Peer /\ holder' = holder /\ inbox' = Sent(inbox)
  <2>1. \A q \in Registered' : inbox'[q] = inbox[q] \/ inbox'[q] = Append(inbox[q], left)
    BY <1>2, <1>5
  <2>2. \A q \in Registered' : tasks'[q] = tasks[q] /\ due'[q] = due[q]
    BY <1>1
  <2>3. Registered' \subseteq Registered /\ Registered' \subseteq Peer
    BY <1>1
  <2> QED BY <1>1, <1>3, <1>5, <2>1, <2>2, <2>3, ServiceKeyed
<1>6. ASSUME NEW next \in Candidates(p), holder' = next,
             inbox' = Sent(Broadcast(inbox, inside \ {p},
                  [kind |-> "changed", peer |-> next, previous |-> p, generate |-> next \notin ready]))
      PROVE  Keyed'
  <2> DEFINE m == [kind |-> "changed", peer |-> next, previous |-> p, generate |-> next \notin ready]
             ib == Broadcast(inbox, inside \ {p}, m)
             t == Append(inbox[next], m)
  <2>1. next \in Registered /\ next # p /\ next \in Peer /\ inbox[next] \in Seq(Messages)
    BY <1>1 DEF Candidates, TypeOK
  <2>2. m \in Messages /\ m.kind = "changed" /\ m.peer = next
    BY <2>1 DEF Messages
  <2>3. inbox' = Sent(ib)
    BY <1>6
  <2> HIDE DEF m
  <2>4. m \in Appointing(next) /\ m \notin NamingOther(next)
    BY <2>2 DEF Appointing, NamingOther, Tellings, Changes
  <2>5. ib[next] = t /\ t \in Seq(Messages) /\ Len(t) \in Nat
    BY <1>1, <2>1, <2>2 DEF Broadcast
  <2>6. /\ Makes(next, key[next], due[next], ref[next], t, Len(t) + 1)
        /\ \A q \in Registered \ {next} : Rotates(next, due[next], ref[next], known[next], t, q)
    BY <2>1, <2>2, <2>4, TakesOver
  <2>7. inbox'[next] = t \/ inbox'[next] = Append(t, left)
    <3>1. next \in Registered'
      BY <1>1, <2>1
    <3>2. ib[next] = Sent(ib)[next] \/ Sent(ib)[next] = Append(ib[next], left)
      BY <1>2, <3>1
    <3> QED BY <2>3, <2>5, <3>2
  <2> HIDE DEF t, ib
  <2>8. /\ Makes(next, key[next], due[next], ref[next], Append(t, left), (Len(t) + 1) + 1)
        /\ \A q \in Registered \ {next} : Rotates(next, due[next], ref[next], known[next], Append(t, left), q)
    <3>1. Len(t) + 1 \in 1..(Len(t) + 1)
      BY <2>5
    <3> QED BY <1>3, <2>5, <2>6, <3>1, PromiseAppend
  <2>9. Len(Append(t, left)) = Len(t) + 1
    BY <2>5
  <2>10. key'[next] = key[next] /\ due'[next] = due[next] /\ ref'[next] = ref[next] /\ known'[next] = known[next]
    BY <2>1
  <2>11. Provides(next)'
    BY <2>6, <2>7, <2>8, <2>9, <2>10 DEF Provides
  <2>12. \A q \in Registered' \ {next} : Supplied(next, q)'
    <3>1. \A q \in Registered \ {next} : Rotates(next, due[next], ref[next], known[next], inbox'[next], q)
      BY <2>6, <2>7, <2>8
    <3>2. \A q \in Registered \ {next} : Promised(next, q)'
      BY <2>10, <3>1 DEF Promised
    <3> QED BY <1>1, <3>2 DEF Supplied
  <2> QED BY <1>6, <2>11, <2>12 DEF Keyed
<1>7. \/ inbox' = Sent(inbox) /\ (holder' = None \/ (holder # p /\ holder' = holder))
      \/ \E next \in Candidates(p) : /\ holder' = next
            /\ inbox' = Sent(Broadcast(inbox, inside \ {p},
                  [kind |-> "changed", peer |-> next, previous |-> p, generate |-> next \notin ready]))
  BY <1>1 DEF ElectHolder, Sent
<1>8. holder \in Peer \cup {None}
  BY DEF TypeOK
<1> QED BY <1>4, <1>5, <1>6, <1>7, <1>8

\* A step of one client.
LEMMA ClientKept ==
  ASSUME TypeOK, SeatInv, Keyed, NEW p \in Peer, UNCHANGED <<inside, bundle, holder>>, NEW h \in Peer, holder = h,
         \A q \in Peer \ {p} : /\ inbox'[q] = inbox[q] /\ outbox'[q] = outbox[q] /\ tasks'[q] = tasks[q]
                              /\ key'[q] = key[q] /\ due'[q] = due[q] /\ ref'[q] = ref[q] /\ known'[q] = known[q],
         p = h => /\ Provides(p) => Provides(p)'
                  /\ \A q \in Registered \ {p} :
                       /\ Wrapping(tasks[p], q) => Wrapping(tasks'[p], q) \/ Sending(outbox'[p], q)
                       /\ Sending(outbox[p], q) => Sending(outbox'[p], q)
                       /\ Promised(p, q) => Promised(p, q)' \/ Wrapping(tasks'[p], q),
         p \in inside /\ key'[p] = 0 =>
             /\ key[p] = 0
             /\ Accepting(tasks[p]) => Accepting(tasks'[p])
             /\ Enveloped(inbox[p]) => Enveloped(inbox'[p]) \/ Accepting(tasks'[p])
  PROVE  Keyed'
<1>1. h # None /\ h \in Registered /\ Registered' = Registered /\ Registered \subseteq Peer /\ Registered \subseteq inside
  BY PeerAssumption, HolderInside DEF Registered
<1>2. Provides(h) /\ \A q \in Registered \ {h} : key[q] = 0 => Supplied(h, q)
  BY <1>1 DEF Keyed
<1>3. CASE p = h
  <2>1. Provides(h)'
    BY <1>2, <1>3
  <2>2. ASSUME NEW q \in Registered \ {h}, key'[q] = 0 PROVE Supplied(h, q)'
    <3>1. /\ inbox'[q] = inbox[q] /\ tasks'[q] = tasks[q] /\ key'[q] = key[q]
      BY <1>1, <1>3
    <3>2. Supplied(h, q)
      BY <1>2, <2>2, <3>1
    <3>3. /\ Wrapping(tasks[h], q) => Wrapping(tasks'[h], q) \/ Sending(outbox'[h], q)
          /\ Sending(outbox[h], q) => Sending(outbox'[h], q)
          /\ Promised(h, q) => Promised(h, q)' \/ Wrapping(tasks'[h], q)
      BY <1>3
    <3> QED BY <3>1, <3>2, <3>3 DEF Supplied
  <2> QED BY <1>1, <2>1, <2>2 DEF Keyed
<1>4. CASE p # h
  <2>1. /\ inbox'[h] = inbox[h] /\ outbox'[h] = outbox[h] /\ tasks'[h] = tasks[h]
        /\ key'[h] = key[h] /\ due'[h] = due[h] /\ ref'[h] = ref[h] /\ known'[h] = known[h]
    BY <1>4
  <2>2. Provides(h)' /\ \A q : Promised(h, q) => Promised(h, q)'
    BY <1>2, <2>1 DEF Provides, Promised
  <2>3. ASSUME NEW q \in Registered \ {h}, key'[q] = 0 PROVE Supplied(h, q)'
    <3>1. CASE q = p
      <4>1. /\ key[p] = 0 /\ (Accepting(tasks[p]) => Accepting(tasks'[p]))
            /\ (Enveloped(inbox[p]) => Enveloped(inbox'[p]) \/ Accepting(tasks'[p]))
        BY <1>1, <2>3, <3>1
      <4>2. Supplied(h, q)
        BY <1>2, <2>3, <3>1, <4>1
      <4> QED BY <2>1, <2>2, <3>1, <4>1, <4>2 DEF Supplied
    <3>2. CASE q # p
      <4>1. /\ inbox'[q] = inbox[q] /\ tasks'[q] = tasks[q] /\ key'[q] = key[q]
        BY <1>1, <3>2
      <4>2. Supplied(h, q)
        BY <1>2, <2>3, <4>1
      <4> QED BY <2>1, <2>2, <4>1, <4>2 DEF Supplied
    <3> QED BY <3>1, <3>2
  <2> QED BY <1>1, <2>2, <2>3 DEF Keyed
<1> QED BY <1>3, <1>4

LEMMA WrapsStep ==
  ASSUME TypeOK, NEW p \in Peer, NEW targets, NEW k, NEW rotation, tasks' = Wraps(p, targets, k, rotation)
  PROVE  /\ \A q \in Peer \ {p} : tasks'[q] = tasks[q]
         /\ tasks[p] \subseteq tasks'[p]
         /\ \A q \in targets \ {p} : Wrapping(tasks'[p], q)
<1> DEFINE new == [kind : {"wrap"}, to : targets \ {p}, key : {k}, rotation : {rotation}]
<1>1. tasks \in [Peer -> SUBSET Tasks] /\ tasks' = [tasks EXCEPT ![p] = @ \cup new]
  BY DEF TypeOK, Wraps
<1>2. \A q \in targets \ {p} : Wrapping(new, q)
  <2> SUFFICES ASSUME NEW q \in targets \ {p} PROVE Wrapping(new, q)
    OBVIOUS
  <2> DEFINE t == [kind |-> "wrap", to |-> q, key |-> k, rotation |-> rotation]
  <2>1. t \in new /\ t.kind = "wrap" /\ t.to = q
    OBVIOUS
  <2> QED BY <2>1 DEF Wrapping
<1> HIDE DEF new
<1>3. tasks'[p] = tasks[p] \cup new /\ \A q \in Peer \ {p} : tasks'[q] = tasks[q]
  BY <1>1
<1>4. \A q : Wrapping(new, q) => Wrapping(tasks'[p], q)
  BY <1>3 DEF Wrapping
<1> QED BY <1>2, <1>3, <1>4

\* Every handler keeps what its client has under way, generates and rotates when told
\* to, answers a newcomer with the key it has, and starts to install a key it accepts.
LEMMA Obeying ==
  ASSUME TypeOK, NEW p \in Peer, Takes(p)
  PROVE  LET m == Head(inbox[p]) IN
         /\ Obeys(p, m, key[p], due[p], ref[p], key'[p], due'[p], ref'[p])
         /\ tasks[p] \subseteq tasks'[p]
         /\ outbox'[p] = outbox[p] \/ \E r \in Requests : outbox'[p] = Append(outbox[p], r)
         /\ \A q \in Peer \ {p} : /\ outbox'[q] = outbox[q] /\ tasks'[q] = tasks[q]
                                 /\ key'[q] = key[q] /\ due'[q] = due[q]
         /\ \A q \in Peer \ {p} : m = [kind |-> "exchange", peer |-> q, holder |-> p] /\ key[p] # 0 => Wrapping(tasks'[p], q)
         /\ m.kind = "key" /\ Acceptable(p, m) => Accepting(tasks'[p])
<1> DEFINE m == Head(inbox[p])
           Others == \A q \in Peer \ {p} : /\ outbox'[q] = outbox[q] /\ tasks'[q] = tasks[q]
                                          /\ key'[q] = key[q] /\ due'[q] = due[q]
           Answered == \A q \in Peer \ {p} : m = [kind |-> "exchange", peer |-> q, holder |-> p] /\ key[p] # 0
                                            => Wrapping(tasks'[p], q)
           Sent == outbox'[p] = outbox[p] \/ \E r \in Requests : outbox'[p] = Append(outbox[p], r)
           Accepted == m.kind = "key" /\ Acceptable(p, m) => Accepting(tasks'[p])
           Obeyed == Obeys(p, m, key[p], due[p], ref[p], key'[p], due'[p], ref'[p])
<1>1. /\ ref \in [Peer -> Peer \cup {None}] /\ due \in [Peer -> Nat] /\ tasks \in [Peer -> SUBSET Tasks]
      /\ key \in [Peer -> 0..made] /\ made \in Nat /\ outbox \in [Peer -> Seq(Requests)] /\ inbox[p] \in Seq(Messages)
  BY DEF TypeOK
<1>2. ASSUME NEW kind, Receive(p, kind) PROVE m \in Messages /\ m.kind = kind
  BY <1>1, <1>2, TailStep DEF Receive
<1>3. m = Message(p)
  BY DEF Message
<1> HIDE DEF m
<1>4. CASE OnJoined(p)
  <2>1. /\ m \in Messages /\ m.kind = "joined"
        /\ ref' = [ref EXCEPT ![p] = m.holder] /\ outbox' = [outbox EXCEPT ![p] = Append(@, [kind |-> "register"])]
        /\ UNCHANGED <<key, tasks, due>>
    BY <1>2, <1>3, <1>4 DEF OnJoined, Request
  <2>2. [kind |-> "register"] \in Requests
    BY DEF Requests
  <2>3. ref'[p] = m.holder /\ Sent /\ Others /\ tasks'[p] = tasks[p]
    BY <1>1, <2>1, <2>2
  <2>4. Obeyed
    BY <2>1, <2>3 DEF Obeys, NamingOther, Ordering, Appointing, Tellings, Changes
  <2>5. Answered /\ Accepted
    BY <2>1
  <2> QED BY <2>3, <2>4, <2>5 DEF m
<1>5. CASE OnRegistered(p)
  <2>1. /\ m \in Messages /\ m.kind = "registered"
        /\ ref' = [ref EXCEPT ![p] = m.holder] /\ UNCHANGED <<outbox, due>>
        /\ IF m.generate THEN key' = [key EXCEPT ![p] = made + 1] /\ tasks' = Wraps(p, known[p], made + 1, FALSE)
                         ELSE UNCHANGED <<key, tasks>>
    BY <1>2, <1>3, <1>5 DEF OnRegistered, MakeKey
  <2>2. ref'[p] = m.holder /\ Sent /\ Others /\ tasks[p] \subseteq tasks'[p]
    <3>1. CASE m.generate
      <4>0. tasks' = Wraps(p, known[p], made + 1, FALSE)
        BY <2>1, <3>1
      <4>1. (\A q \in Peer \ {p} : tasks'[q] = tasks[q]) /\ tasks[p] \subseteq tasks'[p]
        BY <4>0, WrapsStep
      <4> QED BY <1>1, <2>1, <3>1, <4>1
    <3>2. CASE ~m.generate
      BY <1>1, <2>1, <3>2
    <3> QED BY <3>1, <3>2
  <2>3. (key[p] # 0 => key'[p] # 0) /\ (m.generate => key'[p] # 0)
    <3>1. CASE m.generate
      <4>1. key'[p] = made + 1 /\ made + 1 # 0
        BY <1>1, <2>1, <3>1
      <4> QED BY <4>1
    <3>2. CASE ~m.generate
      BY <2>1, <3>2
    <3> QED BY <3>1, <3>2
  <2>4. Obeyed
    BY <2>1, <2>2, <2>3 DEF Obeys, NamingOther, Ordering, Appointing, Tellings, Changes
  <2>5. Answered /\ Accepted
    BY <2>1
  <2> QED BY <2>2, <2>4, <2>5 DEF m
<1>6. CASE OnExchange(p)
  <2>1. /\ m \in Messages /\ m.kind = "exchange"
        /\ ref' = [ref EXCEPT ![p] = m.holder] /\ UNCHANGED <<outbox, key, due>>
        /\ tasks' = IF m.holder = p /\ key[p] # 0 THEN Wraps(p, {m.peer}, key[p], FALSE) ELSE tasks
    BY <1>2, <1>3, <1>6 DEF OnExchange
  <2>2. ref'[p] = m.holder /\ Sent /\ Others /\ tasks[p] \subseteq tasks'[p]
    BY <1>1, <2>1 DEF Wraps
  <2>3. Obeyed
    BY <2>1, <2>2 DEF Obeys, NamingOther, Ordering, Appointing, Tellings, Changes
  <2>4. ASSUME NEW q \in Peer \ {p}, m = [kind |-> "exchange", peer |-> q, holder |-> p], key[p] # 0
        PROVE  Wrapping(tasks'[p], q)
    <3> DEFINE t == [kind |-> "wrap", to |-> q, key |-> key[p], rotation |-> FALSE]
    <3>1. m.holder = p /\ m.peer = q
      BY <2>4
    <3>2. tasks' = Wraps(p, {q}, key[p], FALSE)
      BY <2>1, <2>4, <3>1
    <3>3. t \in [kind : {"wrap"}, to : {q} \ {p}, key : {key[p]}, rotation : {FALSE}]
      OBVIOUS
    <3>4. t \in tasks'[p] /\ t.kind = "wrap" /\ t.to = q
      BY <1>1, <3>2, <3>3 DEF Wraps
    <3> QED BY <3>4 DEF Wrapping
  <2>5. Accepted
    BY <2>1
  <2> QED BY <2>2, <2>3, <2>4, <2>5 DEF m
<1>7. CASE OnEpochKey(p)
  <2>1. /\ m \in Messages /\ m.kind = "key" /\ UNCHANGED <<outbox, ref, key, due>>
        /\ tasks' = IF Acceptable(p, m) THEN [tasks EXCEPT ![p] = @ \cup {[kind |-> "accept", key |-> m.key]}] ELSE tasks
    BY <1>2, <1>3, <1>7 DEF OnEpochKey
  <2>2. Sent /\ Others /\ tasks[p] \subseteq tasks'[p]
    <3>1. CASE Acceptable(p, m)
      <4>1. tasks' = [tasks EXCEPT ![p] = @ \cup {[kind |-> "accept", key |-> m.key]}]
        BY <2>1, <3>1
      <4> QED BY <1>1, <2>1, <4>1
    <3>2. CASE ~Acceptable(p, m)
      BY <2>1, <3>2
    <3> QED BY <3>1, <3>2
  <2>3. Obeyed
    BY <2>1 DEF Obeys, NamingOther, Ordering, Appointing, Tellings, Changes
  <2>4. Accepted
    <3>1. Acceptable(p, m) => [kind |-> "accept", key |-> m.key] \in tasks'[p]
      BY <1>1, <2>1
    <3> QED BY <3>1 DEF Accepting
  <2>5. Answered
    BY <2>1
  <2> QED BY <2>2, <2>3, <2>4, <2>5 DEF m
<1>8. CASE OnHolderChanged(p)
  <2>1. /\ m \in Messages /\ m.kind = "changed" /\ ref' = [ref EXCEPT ![p] = m.peer] /\ UNCHANGED <<outbox, key, tasks>>
        /\ due' = IF m.peer = p THEN [due EXCEPT ![p] = @ + 1] ELSE due
    BY <1>2, <1>3, <1>8 DEF OnHolderChanged
  <2>2. /\ ref'[p] = m.peer /\ Sent /\ Others /\ tasks[p] \subseteq tasks'[p]
        /\ due'[p] = (IF m.peer = p THEN due[p] + 1 ELSE due[p]) /\ due[p] \in Nat
    BY <1>1, <2>1
  <2>3. Obeyed
    BY <2>1, <2>2 DEF Obeys, NamingOther, Ordering, Appointing, Tellings, Changes
  <2>4. Answered /\ Accepted
    BY <2>1
  <2> QED BY <2>2, <2>3, <2>4 DEF m
<1>9. CASE OnPeerLeft(p)
  <2>1. /\ m \in Messages /\ m.kind = "left" /\ UNCHANGED <<outbox, ref, key, tasks>>
        /\ due' = IF ref[p] = p /\ key[p] # 0 /\ m.peer # handover[p] THEN [due EXCEPT ![p] = @ + 1] ELSE due
    BY <1>2, <1>3, <1>9 DEF OnPeerLeft
  <2>2. /\ Sent /\ Others /\ tasks[p] \subseteq tasks'[p] /\ due'[p] \in {due[p], due[p] + 1} /\ due[p] \in Nat
    BY <1>1, <2>1
  <2>3. Obeyed
    BY <2>1, <2>2 DEF Obeys, NamingOther, Ordering, Appointing, Tellings, Changes
  <2>4. Answered /\ Accepted
    BY <2>1
  <2> QED BY <2>2, <2>3, <2>4 DEF m
<1> QED BY <1>4, <1>5, <1>6, <1>7, <1>8, <1>9 DEF Takes

LEMMA TakeKeyed ==
  ASSUME TypeOK, Apart, SeatInv, Heard, Obituaries, Keyed, NEW p \in Peer, Takes(p)
  PROVE  Keyed'
<1> DEFINE m == Head(inbox[p])
<1>1. /\ Running(p) /\ inbox[p] # <<>> /\ inbox' = [inbox EXCEPT ![p] = Tail(@)] /\ UNCHANGED serverVars
      /\ \A q \in Peer \ {p} : ref'[q] = ref[q] /\ known'[q] = known[q]
      /\ Heeds(m, ref[p], known[p], ref'[p], known'[p])
  BY Heeding
<1>2. /\ Obeys(p, m, key[p], due[p], ref[p], key'[p], due'[p], ref'[p])
      /\ tasks[p] \subseteq tasks'[p]
      /\ outbox'[p] = outbox[p] \/ \E r \in Requests : outbox'[p] = Append(outbox[p], r)
      /\ \A q \in Peer \ {p} : /\ outbox'[q] = outbox[q] /\ tasks'[q] = tasks[q] /\ key'[q] = key[q] /\ due'[q] = due[q]
      /\ \A q \in Peer \ {p} : m = [kind |-> "exchange", peer |-> q, holder |-> p] /\ key[p] # 0 => Wrapping(tasks'[p], q)
      /\ m.kind = "key" /\ Acceptable(p, m) => Accepting(tasks'[p])
  BY Obeying
<1>3. UNCHANGED <<inside, gone, bundle, holder>>
  BY <1>1 DEF serverVars
<1>4. /\ inbox[p] \in Seq(Messages) /\ outbox[p] \in Seq(Requests) /\ inbox'[p] = Tail(inbox[p])
      /\ \A q \in Peer \ {p} : inbox'[q] = inbox[q]
  BY <1>1 DEF TypeOK
<1>5. 1 \in DOMAIN inbox[p] /\ m = inbox[p][1]
  BY <1>1, <1>4, TailStep
<1>6. Len(inbox[p]) \in Nat /\ Len(inbox[p]) + 1 \in 2..(Len(inbox[p]) + 1) /\ Len(Tail(inbox[p])) + 1 = (Len(inbox[p]) + 1) - 1
  BY <1>1, <1>4
<1>7. CASE holder = None
  BY <1>3, <1>7, NoHolder
<1>8. ASSUME NEW h \in Peer, holder = h PROVE Keyed'
  <2>1. ASSUME p = h, Provides(p) PROVE Provides(p)'
    <3>1. Makes(p, key[p], due[p], ref[p], inbox[p], Len(inbox[p]) + 1)
      BY <2>1 DEF Provides
    <3>2. \A n \in 2..(Len(inbox[p]) + 1) : Makes(p, key[p], due[p], ref[p], inbox[p], n)
                                         => Makes(p, key'[p], due'[p], ref'[p], Tail(inbox[p]), n - 1)
      BY <1>1, <1>2, <1>4, MakesTail
    <3>3. Makes(p, key'[p], due'[p], ref'[p], Tail(inbox[p]), (Len(inbox[p]) + 1) - 1)
      BY <1>6, <3>1, <3>2
    <3> QED BY <1>4, <1>6, <3>3 DEF Provides
  <2>2. ASSUME NEW q \in Registered \ {p}, Promised(p, q) PROVE Promised(p, q)' \/ Wrapping(tasks'[p], q)
    <3>1. q \in Peer /\ q \notin gone
      BY DEF Registered, TypeOK, Apart
    <3>2. m \notin Dropping(q)
      BY <1>5, <3>1 DEF Obituaries
    <3>3. q \in known[p] \/ m \in Introducing(q) => q \in known'[p]
      BY <1>1, <3>2 DEF Heeds
    <3>4. \/ Rotates(p, due[p], ref[p], known[p], inbox[p], q)
          \/ Answers(p, key[p], due[p], ref[p], inbox[p], q)
      BY <2>2 DEF Promised
    <3>5. \/ Rotates(p, due'[p], ref'[p], known'[p], Tail(inbox[p]), q)
          \/ Answers(p, key'[p], due'[p], ref'[p], Tail(inbox[p]), q)
          \/ m = [kind |-> "exchange", peer |-> q, holder |-> p] /\ key[p] # 0
      BY <1>1, <1>2, <1>4, <3>3, <3>4, PromiseTail
    <3> QED BY <1>2, <1>4, <2>2, <3>1, <3>5 DEF Promised
  <2>3. ASSUME NEW q PROVE /\ Wrapping(tasks[p], q) => Wrapping(tasks'[p], q)
                           /\ Sending(outbox[p], q) => Sending(outbox'[p], q)
    <3>1. Wrapping(tasks[p], q) => Wrapping(tasks'[p], q)
      BY <1>2 DEF Wrapping
    <3>2. Sending(outbox[p], q) => Sending(outbox'[p], q)
      <4>1. \A r \in Requests : Sending(outbox[p], q) => Sending(Append(outbox[p], r), q)
        BY <1>4, QueueFacts
      <4> QED BY <1>2, <4>1
    <3> QED BY <3>1, <3>2
  <2>4. Accepting(tasks[p]) => Accepting(tasks'[p])
    BY <1>2 DEF Accepting
  <2>5. ASSUME p \in inside, Enveloped(inbox[p]) PROVE Enveloped(inbox'[p]) \/ Accepting(tasks'[p])
    <3>1. Enveloped(inbox'[p]) \/ m.kind = "key"
      BY <1>1, <1>4, <2>5, QueueFacts
    <3>2. m.kind = "key" => Acceptable(p, m)
      BY <1>1, <2>5, Acceptance DEF EnvelopesAccepted
    <3> QED BY <1>2, <3>1, <3>2
  <2>6. key[p] # 0 => key'[p] # 0
    BY <1>2 DEF Obeys
  <2> HIDE DEF m
  <2> QED BY <1>1, <1>2, <1>3, <1>4, <1>8, <2>1, <2>2, <2>3, <2>4, <2>5, <2>6, ClientKept
<1> QED BY <1>7, <1>8 DEF TypeOK

\* A rotation makes a key and sends it to everybody known.
LEMMA RotateKeyed ==
  ASSUME TypeOK, SeatInv, Keyed, NEW p \in Peer, Rotate(p)
  PROVE  Keyed'
<1>1. /\ UNCHANGED <<inside, bundle, holder, inbox, outbox, known, ref>> /\ due' = [due EXCEPT ![p] = @ - 1]
      /\ IF ref[p] = p THEN key' = [key EXCEPT ![p] = made + 1] /\ tasks' = Wraps(p, known[p], made + 1, TRUE)
                       ELSE UNCHANGED <<key, tasks>>
  BY DEF Rotate, MakeKey, serverVars, netVars
<1>2. /\ due \in [Peer -> Nat] /\ tasks \in [Peer -> SUBSET Tasks] /\ key \in [Peer -> 0..made] /\ made \in Nat
  BY DEF TypeOK
<1>3. /\ \A q \in Peer \ {p} : due'[q] = due[q] /\ tasks'[q] = tasks[q] /\ key'[q] = key[q]
      /\ tasks[p] \subseteq tasks'[p] /\ (key[p] # 0 => key'[p] # 0) /\ (ref[p] = p => key'[p] # 0)
      /\ (ref[p] = p => \A q \in known[p] \ {p} : Wrapping(tasks'[p], q))
  <2>1. CASE ref[p] = p
    <3>1. /\ \A q \in Peer \ {p} : tasks'[q] = tasks[q]
          /\ tasks[p] \subseteq tasks'[p]
          /\ \A q \in known[p] \ {p} : Wrapping(tasks'[p], q)
      <4>1. tasks' = Wraps(p, known[p], made + 1, TRUE)
        BY <1>1, <2>1
      <4> QED BY <4>1, WrapsStep
    <3>2. \A q \in Peer \ {p} : due'[q] = due[q] /\ key'[q] = key[q]
      BY <1>1, <1>2, <2>1
    <3>3. key'[p] # 0
      BY <1>1, <1>2, <2>1
    <3> QED BY <3>1, <3>2, <3>3
  <2>2. CASE ref[p] # p
    BY <1>1, <1>2, <2>2
  <2> QED BY <2>1, <2>2
<1>4. (key[p] # 0 => key'[p] # 0) /\ (due'[p] = due[p] \/ key'[p] # 0 \/ ref[p] # p)
  BY <1>3
<1>5. /\ \A n : Makes(p, key[p], due[p], ref[p], inbox[p], n) => Makes(p, key'[p], due'[p], ref[p], inbox[p], n)
      /\ \A q : Answers(p, key[p], due[p], ref[p], inbox[p], q) => Answers(p, key'[p], due'[p], ref[p], inbox[p], q)
      /\ \A q : Rotates(p, due[p], ref[p], known[p], inbox[p], q)
                => Rotates(p, due'[p], ref[p], known[p], inbox[p], q) \/ (ref[p] = p /\ q \in known[p])
  <2> DEFINE k == key[p]
             d == due[p]
             k2 == key'[p]
             d2 == due'[p]
             r == ref[p]
             K == known[p]
             s == inbox[p]
  <2>1. (k # 0 => k2 # 0) /\ (d2 = d \/ k2 # 0 \/ r # p)
    BY <1>4
  <2> HIDE DEF k, d, k2, d2, r, K, s
  <2>2. /\ \A n : Makes(p, k, d, r, s, n) => Makes(p, k2, d2, r, s, n)
        /\ \A q : Answers(p, k, d, r, s, q) => Answers(p, k2, d2, r, s, q)
    BY <2>1, PromiseKey
  <2>3. \A q : Rotates(p, d, r, K, s, q) => Rotates(p, d2, r, K, s, q) \/ (r = p /\ q \in K)
    BY DEF Rotates, Rotating
  <2> QED BY <2>2, <2>3 DEF k, d, k2, d2, r, K, s
<1>6. ref'[p] = ref[p] /\ known'[p] = known[p] /\ inbox'[p] = inbox[p] /\ outbox'[p] = outbox[p]
  BY <1>1
<1>7. Provides(p) => Provides(p)'
  BY <1>5, <1>6 DEF Provides
<1>8. ASSUME NEW q \in Registered \ {p}, Promised(p, q) PROVE Promised(p, q)' \/ Wrapping(tasks'[p], q)
  <2>1. CASE ref[p] = p /\ q \in known[p]
    BY <1>3, <1>8, <2>1
  <2>2. CASE ~(ref[p] = p /\ q \in known[p])
    BY <1>5, <1>6, <1>8, <2>2 DEF Promised
  <2> QED BY <2>1, <2>2
<1>9. \A q : Wrapping(tasks[p], q) => Wrapping(tasks'[p], q)
  BY <1>3 DEF Wrapping
<1>10. Accepting(tasks[p]) => Accepting(tasks'[p])
  BY <1>3 DEF Accepting
<1>11. CASE holder = None
  BY <1>1, <1>11, NoHolder
<1>12. ASSUME NEW h \in Peer, holder = h PROVE Keyed'
  BY <1>1, <1>3, <1>6, <1>7, <1>8, <1>9, <1>10, <1>12, ClientKept
<1> QED BY <1>11, <1>12 DEF TypeOK

\* An envelope that is ready goes into the outbox, and a key unwrapped is installed.
LEMMA WebCryptoKeyed ==
  ASSUME TypeOK, SeatInv, Keyed, NEW p \in Peer, WrapDone(p) \/ AcceptDone(p)
  PROVE  Keyed'
<1>1. PICK t0 \in tasks[p] : \E r \in Requests :
        /\ outbox' = [outbox EXCEPT ![p] = Append(@, r)] /\ tasks' = [tasks EXCEPT ![p] = @ \ {t0}]
        /\ UNCHANGED <<inside, bundle, holder, inbox, known, ref, due>>
        /\ \/ t0.kind = "wrap" /\ r.kind = "distribute" /\ r.to = t0.to /\ key' = key
           \/ t0.kind = "accept" /\ key' = [key EXCEPT ![p] = t0.key] /\ t0.key # 0
  <2>1. tasks[p] \subseteq Tasks
    BY DEF TypeOK
  <2>2. CASE WrapDone(p)
    <3>1. PICK t0 \in tasks[p] :
            /\ t0.kind = "wrap"
            /\ Request(p, [kind |-> "distribute", to |-> t0.to, key |-> t0.key, rotation |-> t0.rotation])
            /\ tasks' = [tasks EXCEPT ![p] = @ \ {t0}]
            /\ UNCHANGED <<serverVars, inbox, known, ref, handover, key, due, history>>
      BY <2>2 DEF WrapDone
    <3> DEFINE r == [kind |-> "distribute", to |-> t0.to, key |-> t0.key, rotation |-> t0.rotation]
    <3>2. t0 \in Tasks
      BY <2>1
    <3>3. r \in Requests /\ r.kind = "distribute" /\ r.to = t0.to
      BY <3>1, <3>2 DEF Tasks, Requests
    <3>4. Request(p, r)
      BY <3>1
    <3> HIDE DEF r
    <3> QED BY <3>1, <3>3, <3>4 DEF Request, serverVars
  <2>3. CASE AcceptDone(p)
    <3>1. PICK t0 \in tasks[p] :
            /\ t0.kind = "accept" /\ InstallKey(p, t0.key) /\ Request(p, [kind |-> "received"])
            /\ tasks' = [tasks EXCEPT ![p] = @ \ {t0}]
            /\ UNCHANGED <<serverVars, inbox, known, ref, handover, due>>
      BY <2>3 DEF AcceptDone
    <3>2. t0 \in Tasks
      BY <2>1
    <3>3. t0.key # 0 /\ [kind |-> "received"] \in Requests
      BY <3>1, <3>2 DEF Tasks, Requests
    <3> QED BY <3>1, <3>3 DEF Request, InstallKey, serverVars
  <2> QED BY <2>2, <2>3
<1>2. PICK r \in Requests :
        /\ outbox' = [outbox EXCEPT ![p] = Append(@, r)] /\ tasks' = [tasks EXCEPT ![p] = @ \ {t0}]
        /\ UNCHANGED <<inside, bundle, holder, inbox, known, ref, due>>
        /\ \/ t0.kind = "wrap" /\ r.kind = "distribute" /\ r.to = t0.to /\ key' = key
           \/ t0.kind = "accept" /\ key' = [key EXCEPT ![p] = t0.key] /\ t0.key # 0
  BY <1>1
<1>3. tasks \in [Peer -> SUBSET Tasks] /\ key \in [Peer -> 0..made] /\ outbox \in [Peer -> Seq(Requests)]
  BY DEF TypeOK
<1>4. /\ \A q \in Peer \ {p} : outbox'[q] = outbox[q] /\ tasks'[q] = tasks[q] /\ key'[q] = key[q]
      /\ outbox'[p] = Append(outbox[p], r) /\ tasks'[p] = tasks[p] \ {t0} /\ (key[p] # 0 => key'[p] # 0)
  BY <1>2, <1>3
<1>5. \A q : Wrapping(tasks[p], q) => Wrapping(tasks'[p], q) \/ Sending(outbox'[p], q)
  <2> SUFFICES ASSUME NEW q, NEW t \in tasks[p], t.kind = "wrap", t.to = q
               PROVE  Wrapping(tasks'[p], q) \/ Sending(outbox'[p], q)
    BY DEF Wrapping
  <2>1. CASE t = t0
    <3>1. outbox[p] \in Seq(Requests) /\ r.kind = "distribute" /\ r.to = q
      BY <1>2, <1>3, <2>1
    <3> QED BY <1>4, <3>1, QueueFacts
  <2>2. CASE t # t0
    BY <1>4, <2>2 DEF Wrapping
  <2> QED BY <2>1, <2>2
<1>6. \A q : Sending(outbox[p], q) => Sending(outbox'[p], q)
  BY <1>3, <1>4, QueueFacts
<1>7. ASSUME key'[p] = 0, Accepting(tasks[p]) PROVE Accepting(tasks'[p])
  <2>1. PICK t \in tasks[p] : t.kind = "accept"
    BY <1>7 DEF Accepting
  <2>2. t # t0
    BY <1>2, <1>3, <1>7, <2>1
  <2> QED BY <1>4, <2>1, <2>2 DEF Accepting
<1>8. inbox'[p] = inbox[p] /\ ref'[p] = ref[p] /\ known'[p] = known[p] /\ due'[p] = due[p]
  BY <1>2
<1>9. /\ \A n : Makes(p, key[p], due[p], ref[p], inbox[p], n) => Makes(p, key'[p], due[p], ref[p], inbox[p], n)
      /\ \A q : Answers(p, key[p], due[p], ref[p], inbox[p], q) => Answers(p, key'[p], due[p], ref[p], inbox[p], q)
  <2> DEFINE k == key[p]
             d == due[p]
             k2 == key'[p]
             rf == ref[p]
             s == inbox[p]
  <2>1. (k # 0 => k2 # 0) /\ d = d
    BY <1>4
  <2> HIDE DEF k, d, k2, rf, s
  <2>2. /\ \A n : Makes(p, k, d, rf, s, n) => Makes(p, k2, d, rf, s, n)
        /\ \A q : Answers(p, k, d, rf, s, q) => Answers(p, k2, d, rf, s, q)
    BY <2>1, PromiseKey
  <2> QED BY <2>2 DEF k, d, k2, rf, s
<1>10. Provides(p) => Provides(p)'
  BY <1>8, <1>9 DEF Provides
<1>11. \A q : Promised(p, q) => Promised(p, q)'
  BY <1>8, <1>9 DEF Promised
<1>12. CASE holder = None
  BY <1>2, <1>12, NoHolder
<1>13. ASSUME NEW h \in Peer, holder = h PROVE Keyed'
  BY <1>2, <1>4, <1>5, <1>6, <1>7, <1>8, <1>10, <1>11, <1>13, ClientKept
<1> QED BY <1>12, <1>13 DEF TypeOK

LEMMA KeyedStep == Inv /\ SeatInv /\ Heard /\ Obituaries /\ Keyed /\ [Next]_vars => Keyed'
<1> SUFFICES ASSUME Inv, SeatInv, Heard, Obituaries, Keyed, [Next]_vars PROVE Keyed'
  OBVIOUS
<1>1. TypeOK /\ Apart /\ SeatInv'
  BY SeatStep DEF Inv
<1>2. CASE UNCHANGED vars
  BY <1>2 DEF vars, serverVars, netVars, clientVars, Keyed, Provides, Registered, Supplied, Promised
<1>3. ASSUME NEW p \in Peer, ServerStep(p) \/ ClientStep(p) \/ Churn(p) PROVE Keyed'
  <2>1. CASE Takes(p)
    BY <1>1, <2>1, TakeKeyed
  <2>2. CASE Rotate(p)
    BY <1>1, <2>2, RotateKeyed
  <2>3. CASE WrapDone(p) \/ AcceptDone(p)
    BY <1>1, <2>3, WebCryptoKeyed
  <2>4. CASE RegisterKeys(p)
    BY <1>1, <2>4, RegisterKeyed
  <2>5. CASE RegisterRefused(p) \/ E2eeKeyReceived(p)
    BY <1>1, <2>5, OtherRequestKeyed
  <2>6. CASE DistributeEpochKey(p)
    BY <1>1, <2>6, DistributeKeyed
  <2>7. CASE CloseKicked(p)
    BY <1>1, <2>7, CloseKeyed
  <2>8. CASE Join(p)
    BY <1>1, <2>8, JoinKeyed
  <2>9. CASE Leave(p) \/ Kick(p)
    <3>1. PICK announce \in BOOLEAN : RemovePeer(p, announce)
      BY <2>9 DEF Leave, Kick
    <3>2. UNCHANGED <<key, ref, known>> /\ \A q \in Peer \ {p} : tasks'[q] = tasks[q] /\ due'[q] = due[q]
      BY <1>1, <2>9 DEF Leave, Kick, Stopped, clientVars, TypeOK
    <3> QED BY <1>1, <3>1, <3>2, DepartKeyed
  <2> QED BY <1>3, <2>1, <2>2, <2>3, <2>4, <2>5, <2>6, <2>7, <2>8, <2>9 DEF ServerStep, ClientStep, Churn, Takes
<1> QED BY <1>2, <1>3 DEF Next

\* When everything sent and queued has been dealt with, everybody registered has got
\* a key, for any number of participants: until then the holder has a key or is told
\* to make one, and whoever has none is on some stage of being given it, which no
\* departure, hand-over or crossing of messages skips.
THEOREM EveryoneKeyedAlways == Spec => []EveryoneKeyed
<1>1. Init => Obituaries /\ Keyed
  BY DEF Init, Obituaries, Keyed
<1>2. TypeOK /\ SeatInv /\ Keyed => EveryoneKeyed
  <2> SUFFICES ASSUME TypeOK, SeatInv, Keyed, Quiet, NEW p \in Registered PROVE key[p] # 0
    BY DEF EveryoneKeyed
  <2>1. holder # None /\ holder \in inside /\ Registered \subseteq inside
    BY DEF SeatInv, HolderElected, Registered
  <2>2. \A q \in inside : inbox[q] = <<>> /\ outbox[q] = <<>> /\ tasks[q] = {} /\ due[q] = 0
    BY DEF Quiet
  <2>3. Len(<<>>) = 0 /\ DOMAIN <<>> = {} /\ 1..0 = {} /\ 1..((0 + 1) - 1) = {}
    OBVIOUS
  <2>4. key[holder] # 0
    BY <2>1, <2>2, <2>3 DEF Keyed, Provides, Makes, Rotating
  <2>5. ~Supplied(holder, p)
    BY <2>1, <2>2, <2>3 DEF Supplied, Accepting, Enveloped, Wrapping, Sending, Promised, Rotates, Answers, Rotating
  <2> QED BY <2>1, <2>4, <2>5 DEF Keyed
<1>3. Spec => [](Inv /\ SeatInv /\ Heard)
  BY HeardAlways
<1>4. Inv => TypeOK
  BY DEF Inv
<1> QED BY <1>1, <1>2, <1>3, <1>4, ObituariesNext, KeyedStep, PTL DEF Spec
=============================================================================
