--------------------------- MODULE GatewayProofs ---------------------------
(***************************************************************************)
(* Proofs about Gateway, for any connections, sessions, addresses and      *)
(* limits: its type invariant, the connection counts, and that requests of *)
(* an ended session are refused.                                           *)
(***************************************************************************)
EXTENDS Gateway, TLAPS, FiniteSetTheorems

USE ConstantAssumption

\* A socket is counted for an address that has a record, so a sweep, which
\* deletes records that count nothing, leaves the record of each counted socket.
Recorded == \A s \in Socket : counted[s] # NoIP => counted[s] \in known
\* Only a connection that was made is counted.
Made == \A s \in Socket : client[s] = "none" => counted[s] = NoIP

GatewayInv == TypeOK /\ Recorded /\ Made /\ CountsKept

LEMMA ChargedFinite == \A ip \in IP : IsFiniteSet(ChargedTo(ip)) /\ Cardinality(ChargedTo(ip)) \in Nat
<1> TAKE ip \in IP
<1>1. ChargedTo(ip) \in SUBSET Socket
  BY DEF ChargedTo
<1> QED BY <1>1, FS_Subset, FS_CardinalityType

LEMMA GatewayInit == Init => GatewayInv
<1> SUFFICES ASSUME Init PROVE GatewayInv
  OBVIOUS
<1>1. TypeOK
  BY DEF Init, TypeOK
<1>2. \A ip \in IP : ChargedTo(ip) = {}
  BY DEF Init, ChargedTo
<1>3. CountsKept
  BY <1>2, FS_EmptySet DEF Init, CountsKept
<1> QED BY <1>1, <1>3 DEF Init, GatewayInv, Recorded, Made

\* Sweeping records that count nothing changes no count.
LEMMA Sweeping ==
  ASSUME TypeOK, NEW S \in SUBSET Idles
  PROVE  Deleted(S) = active
<1>1. \A ip \in S : active[ip] = 0
  BY DEF Idles, Idle
<1> QED BY <1>1 DEF Deleted, TypeOK

\* A sweep keeps the record of every counted socket.
LEMMA SweepKeeps ==
  ASSUME GatewayInv, NEW S \in SUBSET Idles, NEW s \in Socket, counted[s] # NoIP
  PROVE  counted[s] \in known \ S
<1>1. counted[s] \in IP /\ counted[s] \in known
  BY DEF GatewayInv, TypeOK, Recorded
<1>2. s \in ChargedTo(counted[s])
  BY <1>1 DEF ChargedTo
<1>3. Cardinality(ChargedTo(counted[s])) # 0
  BY <1>1, <1>2, ChargedFinite, FS_EmptySet
<1>4. active[counted[s]] # 0
  BY <1>1, <1>3 DEF GatewayInv, CountsKept
<1> QED BY <1>1, <1>4 DEF Idles, Idle

\* A socket is accepted, or refused.
LEMMA CountsConnect ==
  ASSUME GatewayInv, NEW s \in Socket, NEW ip \in IP, Connect(s, ip)
  PROVE  /\ known' \subseteq IP /\ active' \in [IP -> Nat] /\ counted' \in [Socket -> IP \cup {NoIP}]
         /\ Recorded' /\ Made' /\ CountsKept'
<1>0. TypeOK /\ Recorded /\ Made /\ CountsKept
  BY DEF GatewayInv
<1>00. counted[s] = NoIP /\ client' = [client EXCEPT ![s] = "up"]
  BY <1>0 DEF Connect, Made
<1>1. PICK swept \in SUBSET Idles :
         \/ known' = known \ swept /\ active' = Deleted(swept) /\ Refused(s)
         \/ /\ known' = (known \ swept) \cup {ip}
            /\ \/ active' = Deleted(swept) /\ Refused(s)
               \/ active' = [Deleted(swept) EXCEPT ![ip] = @ + 1] /\ counted' = [counted EXCEPT ![s] = ip]
  BY DEF Connect
<1>2. Deleted(swept) = active
  BY <1>0, Sweeping
<1>3. \A q \in Socket : counted[q] # NoIP => counted[q] \in known \ swept
  BY SweepKeeps
<1>4. CASE active' = Deleted(swept) /\ Refused(s)
  <2>1. counted' = counted /\ active' = active
    BY <1>2, <1>4 DEF Refused
  <2>2. \A i \in IP : ChargedTo(i)' = ChargedTo(i)
    BY <2>1 DEF ChargedTo
  <2>3. CountsKept'
    BY <1>0, <2>1, <2>2 DEF CountsKept
  <2>4. known \ swept \subseteq known' /\ known' \subseteq IP
    BY <1>0, <1>1 DEF TypeOK
  <2>5. Recorded'
    BY <1>3, <2>1, <2>4 DEF Recorded
  <2> QED BY <1>0, <1>00, <2>1, <2>3, <2>4, <2>5 DEF TypeOK, Made
<1>5. CASE /\ known' = (known \ swept) \cup {ip}
           /\ active' = [Deleted(swept) EXCEPT ![ip] = @ + 1] /\ counted' = [counted EXCEPT ![s] = ip]
  <2>1. active' = [active EXCEPT ![ip] = @ + 1] /\ active' \in [IP -> Nat]
    BY <1>0, <1>2, <1>5 DEF TypeOK
  <2>2. counted' \in [Socket -> IP \cup {NoIP}] /\ known' \subseteq IP
    BY <1>0, <1>5 DEF TypeOK
  <2>3. Recorded'
    BY <1>0, <1>3, <1>5 DEF Recorded, TypeOK
  <2>4. ChargedTo(ip)' = ChargedTo(ip) \cup {s} /\ s \notin ChargedTo(ip)
    BY <1>0, <1>00, <1>5 DEF ChargedTo, TypeOK
  <2>5. \A i \in IP \ {ip} : ChargedTo(i)' = ChargedTo(i)
    BY <1>0, <1>00, <1>5 DEF ChargedTo, TypeOK
  <2>6. active'[ip] = Cardinality(ChargedTo(ip)')
    <3>1. Cardinality(ChargedTo(ip) \cup {s}) = Cardinality(ChargedTo(ip)) + 1
      BY <2>4, ChargedFinite, FS_AddElement
    <3>2. active'[ip] = active[ip] + 1 /\ active[ip] = Cardinality(ChargedTo(ip))
      BY <1>0, <2>1 DEF CountsKept, TypeOK
    <3> QED BY <2>4, <3>1, <3>2
  <2>7. \A i \in IP \ {ip} : active'[i] = Cardinality(ChargedTo(i)')
    BY <1>0, <2>1, <2>5 DEF CountsKept, TypeOK
  <2>8. CountsKept'
    BY <2>6, <2>7 DEF CountsKept
  <2>9. Made'
    BY <1>0, <1>00, <1>5 DEF Made, TypeOK
  <2> QED BY <2>1, <2>2, <2>3, <2>8, <2>9
<1> QED BY <1>1, <1>4, <1>5

\* The close event takes back what its socket was charged with.
LEMMA CountsClosed ==
  ASSUME GatewayInv, NEW s \in Socket, Closed(s)
  PROVE  /\ active' \in [IP -> Nat] /\ counted' \in [Socket -> IP \cup {NoIP}]
         /\ Recorded' /\ Made' /\ CountsKept'
<1>0. TypeOK /\ Recorded /\ Made /\ CountsKept
  BY DEF GatewayInv
<1>1. counted' = [counted EXCEPT ![s] = NoIP] /\ known' = known /\ client' = client
  BY DEF Closed, pages
<1>2. counted' \in [Socket -> IP \cup {NoIP}] /\ Recorded' /\ Made'
  BY <1>0, <1>1 DEF TypeOK, Recorded, Made
<1>3. CASE counted[s] = NoIP
  <2>1. active' = active /\ counted' = counted
    BY <1>0, <1>1, <1>3 DEF Closed, TypeOK
  <2>2. \A i \in IP : ChargedTo(i)' = ChargedTo(i)
    BY <2>1 DEF ChargedTo
  <2> QED BY <1>0, <1>2, <2>1, <2>2 DEF CountsKept, TypeOK
<1>4. CASE counted[s] # NoIP
  <2>0. PICK ip \in IP : counted[s] = ip
    BY <1>0, <1>4 DEF TypeOK
  <2>1. ip \in known
    BY <1>0, <1>4, <2>0 DEF Recorded
  <2>2. s \in ChargedTo(ip) /\ ChargedTo(ip)' = ChargedTo(ip) \ {s}
    BY <1>0, <1>1, <1>4, <2>0 DEF ChargedTo, TypeOK
  <2>3. \A i \in IP \ {ip} : ChargedTo(i)' = ChargedTo(i)
    BY <1>0, <1>1, <1>4, <2>0 DEF ChargedTo, TypeOK
  <2>4. active[ip] = Cardinality(ChargedTo(ip)) /\ active[ip] > 0 /\ active[ip] \in Nat
    BY <1>0, <2>1, <2>2, ChargedFinite, FS_EmptySet DEF CountsKept, TypeOK
  <2>5. active' = [active EXCEPT ![ip] = @ - 1]
    BY <2>0, <2>1, <2>4 DEF Closed
  <2>6. active' \in [IP -> Nat]
    BY <1>0, <2>1, <2>4, <2>5 DEF TypeOK
  <2>7. active'[ip] = Cardinality(ChargedTo(ip)')
    <3>1. Cardinality(ChargedTo(ip) \ {s}) = Cardinality(ChargedTo(ip)) - 1
      BY <2>2, ChargedFinite, FS_RemoveElement
    <3>2. active'[ip] = active[ip] - 1
      BY <1>0, <2>5 DEF TypeOK
    <3> QED BY <2>2, <2>4, <3>1, <3>2
  <2>8. \A i \in IP \ {ip} : active'[i] = Cardinality(ChargedTo(i)')
    BY <1>0, <2>3, <2>5 DEF CountsKept, TypeOK
  <2>9. CountsKept'
    BY <2>7, <2>8 DEF CountsKept
  <2> QED BY <1>2, <2>6, <2>9
<1> QED BY <1>3, <1>4

\* The counts of the next state are those of this one.
SameCounts == known' = known /\ active' = active /\ counted' = counted

\* What the other variables may do: keep their types, and leave a connection made.
Rest ==
    /\ requireTerm \in BOOLEAN /\ ended \subseteq Session /\ user \in [Socket -> Session \cup {Guest}]
    /\ ticket \in [Socket -> {"none", "verifying", "denied", "granted", "gone"}]
    /\ client \in [Socket -> {"none", "up", "closed"}] /\ link \in [Socket -> BOOLEAN]
    /\ server \in [Socket -> {"none", "open", "closing", "closed"}]
    /\ handling \in [Socket -> {"idle", "authenticating", "rechecking", "serving"}]
    /\ authed \in [Socket -> BOOLEAN] /\ fresh \in [Socket -> BOOLEAN]
    /\ isAlive \in [Socket -> BOOLEAN] /\ checking \in [Socket -> {"no", "runs", "lately"}]
Kept == Rest' /\ \A s \in Socket : client'[s] = "none" => client[s] = "none"

\* A step that leaves the counts alone keeps the invariant.
LEMMA CountsSame == ASSUME GatewayInv, SameCounts, Kept PROVE GatewayInv'
<1>1. \A ip \in IP : ChargedTo(ip)' = ChargedTo(ip)
  BY DEF ChargedTo, SameCounts
<1>2. CountsKept'
  BY <1>1 DEF CountsKept, GatewayInv, SameCounts
<1> QED BY <1>2 DEF GatewayInv, TypeOK, Recorded, Made, SameCounts, Kept, Rest

LEMMA GatewayStep == GatewayInv /\ [Next]_vars => GatewayInv'
<1> SUFFICES ASSUME GatewayInv, [Next]_vars PROVE GatewayInv'
  OBVIOUS
<1>0. TypeOK /\ Recorded /\ Made /\ CountsKept
  BY DEF GatewayInv
<1> USE DEF accounts, pages, counts, messages, beat
<1>1. CASE \E u \in Session : EndSession(u)
  <2>1. SameCounts /\ Kept
    BY <1>0, <1>1 DEF TypeOK, EndSession, SameCounts, Kept, Rest
  <2> QED BY <2>1, CountsSame
<1>2. CASE Cleanup
  <2>1. PICK S \in SUBSET Idles : known' = known \ S /\ active' = Deleted(S) /\ counted' = counted
    BY <1>2 DEF Cleanup
  <2>2. active' = active
    BY <1>0, <2>1, Sweeping
  <2>3. \A ip \in IP : ChargedTo(ip)' = ChargedTo(ip)
    BY <2>1 DEF ChargedTo
  <2>4. CountsKept'
    BY <1>0, <2>2, <2>3 DEF CountsKept
  <2>5. Recorded'
    BY <2>1, SweepKeeps DEF Recorded
  <2>6. TypeOK' /\ Made'
    BY <1>0, <1>2, <2>1, <2>2 DEF TypeOK, Made, Cleanup
  <2> QED BY <2>4, <2>5, <2>6 DEF GatewayInv
<1>3. CASE Heartbeat
  <2>1. SameCounts /\ Kept
    BY <1>0, <1>3 DEF TypeOK, Heartbeat, AfterBeat, SameCounts, Kept, Rest
  <2> QED BY <2>1, CountsSame
<1>4. ASSUME NEW s \in Socket,
             \/ \E u \in Session : AskTicket(s, u)
             \/ CreateTicket(s) \/ TicketExpires(s) \/ ClientCloses(s) \/ LinkBreaks(s) \/ TooMany(s)
      PROVE  GatewayInv'
  <2>1. SameCounts
    BY <1>4 DEF AskTicket, CreateTicket, TicketExpires, ClientCloses, LinkBreaks, TooMany, SameCounts
  <2>2. Kept
    <3>1. CASE (\E u \in Session : AskTicket(s, u)) \/ CreateTicket(s) \/ TicketExpires(s)
      BY <1>0, <3>1 DEF TypeOK, AskTicket, CreateTicket, TicketExpires, Kept, Rest
    <3>2. CASE ClientCloses(s) \/ LinkBreaks(s)
      BY <1>0, <3>2 DEF TypeOK, ClientCloses, LinkBreaks, Kept, Rest
    <3>3. CASE TooMany(s)
      BY <1>0, <3>3 DEF TypeOK, TooMany, Closes, Kept, Rest
    <3> QED BY <1>4, <3>1, <3>2, <3>3
  <2> QED BY <2>1, <2>2, CountsSame
<1>5. ASSUME NEW s \in Socket, NEW ip \in IP, Connect(s, ip) PROVE GatewayInv'
  <2>1. /\ known' \subseteq IP /\ active' \in [IP -> Nat] /\ counted' \in [Socket -> IP \cup {NoIP}]
        /\ Recorded' /\ Made' /\ CountsKept'
    BY <1>5, CountsConnect
  <2>2. TypeOK'
    BY <1>0, <1>5, <2>1 DEF TypeOK, Connect, Refused
  <2> QED BY <2>1, <2>2 DEF GatewayInv
<1>6. ASSUME NEW s \in Socket, Closed(s) PROVE GatewayInv'
  <2>1. /\ active' \in [IP -> Nat] /\ counted' \in [Socket -> IP \cup {NoIP}]
        /\ Recorded' /\ Made' /\ CountsKept'
    BY <1>6, CountsClosed
  <2>2. TypeOK'
    BY <1>0, <1>6, <2>1 DEF TypeOK, Closed
  <2> QED BY <2>1, <2>2 DEF GatewayInv
<1>7. ASSUME NEW s \in Socket, Authenticate(s) \/ AuthVerified(s) PROVE GatewayInv'
  <2>1. SameCounts
    BY <1>7 DEF Authenticate, AuthVerified, SameCounts
  <2>2. Kept
    <3>1. CASE Authenticate(s)
      <4>1. server' \in [Socket -> {"none", "open", "closing", "closed"}]
        BY <1>0, <3>1 DEF TypeOK, Authenticate, Redeem, Closes
      <4>2. handling' \in [Socket -> {"idle", "authenticating", "rechecking", "serving"}]
        BY <1>0, <3>1 DEF TypeOK, Authenticate, Redeem, Now
      <4>3. /\ ticket' \in [Socket -> {"none", "verifying", "denied", "granted", "gone"}]
            /\ authed' \in [Socket -> BOOLEAN]
        BY <1>0, <3>1 DEF TypeOK, Authenticate, Redeem
      <4> QED BY <1>0, <3>1, <4>1, <4>2, <4>3 DEF TypeOK, Authenticate, Kept, Rest
    <3>2. CASE AuthVerified(s)
      <4>1. server' \in [Socket -> {"none", "open", "closing", "closed"}]
        BY <1>0, <3>2 DEF TypeOK, AuthVerified, Closes
      <4>2. authed' \in [Socket -> BOOLEAN] /\ fresh' \in [Socket -> BOOLEAN]
        BY <1>0, <3>2 DEF TypeOK, AuthVerified
      <4> QED BY <1>0, <3>2, <4>1, <4>2 DEF TypeOK, AuthVerified, Now, Kept, Rest
    <3> QED BY <1>7, <3>1, <3>2
  <2> QED BY <2>1, <2>2, CountsSame
<1>8. ASSUME NEW s \in Socket, HandleRequest(s) \/ VerdictExpires(s) \/ Rechecked(s) \/ Served(s) PROVE GatewayInv'
  <2>1. SameCounts
    BY <1>8 DEF HandleRequest, VerdictExpires, Rechecked, Served, SameCounts
  <2>2. Kept
    <3>1. CASE HandleRequest(s)
      BY <1>0, <3>1 DEF TypeOK, HandleRequest, Serve, Now, Kept, Rest
    <3>3. CASE VerdictExpires(s)
      BY <1>0, <3>3 DEF TypeOK, VerdictExpires, Kept, Rest
    <3>4. CASE Served(s)
      BY <1>0, <3>4 DEF TypeOK, Served, Now, Kept, Rest
    <3>2. CASE Rechecked(s)
      <4>1. server' \in [Socket -> {"none", "open", "closing", "closed"}]
        BY <1>0, <3>2 DEF TypeOK, Rechecked, Closes
      <4>2. handling' \in [Socket -> {"idle", "authenticating", "rechecking", "serving"}]
        BY <1>0, <3>2 DEF TypeOK, Rechecked, Serve, Now
      <4>3. fresh' \in [Socket -> BOOLEAN]
        BY <1>0, <3>2 DEF TypeOK, Rechecked
      <4> QED BY <1>0, <3>2, <4>1, <4>2, <4>3 DEF TypeOK, Rechecked, Kept, Rest
    <3> QED BY <1>8, <3>1, <3>2, <3>3, <3>4
  <2> QED BY <2>1, <2>2, CountsSame
<1>9. ASSUME NEW s \in Socket, Pong(s) \/ PongVerified(s) PROVE GatewayInv'
  <2>1. SameCounts
    BY <1>9 DEF Pong, PongVerified, SameCounts
  <2>2. Kept
    <3>1. CASE Pong(s)
      <4>1. checking' \in [Socket -> {"no", "runs", "lately"}]
        BY <1>0, <3>1 DEF TypeOK, Pong
      <4> QED BY <1>0, <3>1, <4>1 DEF TypeOK, Pong, Kept, Rest
    <3>2. CASE PongVerified(s)
      BY <1>0, <3>2 DEF TypeOK, PongVerified, Closes, Kept, Rest
    <3> QED BY <1>9, <3>1, <3>2
  <2> QED BY <2>1, <2>2, CountsSame
<1>10. CASE UNCHANGED vars
  <2>1. SameCounts /\ Kept
    BY <1>0, <1>10 DEF TypeOK, vars, SameCounts, Kept, Rest
  <2> QED BY <2>1, CountsSame
<1> QED BY <1>1, <1>2, <1>3, <1>4, <1>5, <1>6, <1>7, <1>8, <1>9, <1>10 DEF Next

-----------------------------------------------------------------------------
(* The theorems. *)

\* The variables of the gateway keep their domains (connectionState and the
\* maps of ws-attach.ts).
THEOREM TypeCorrect == Spec => []TypeOK
<1>1. GatewayInv => TypeOK
  BY DEF GatewayInv
<1> QED BY <1>1, GatewayInit, GatewayStep, PTL DEF Spec

\* Sockets are charged to their address once, and taken back once, over sweeps
\* of ipCounts and reconnections (the connection and close events of
\* ws-attach.ts).
THEOREM CountsKeptAlways == Spec => []CountsKept
<1>1. GatewayInv => CountsKept
  BY DEF GatewayInv
<1> QED BY <1>1, GatewayInit, GatewayStep, PTL DEF Spec

\* A request is handed on only after a verification that is recent, or that
\* has just confirmed the session (the message handler of ws-attach.ts).
THEOREM EndedIsRefusedAlways == Spec => EndedIsRefused
<1> DEFINE Refuses(s) == handling[s] # "serving" /\ handling'[s] = "serving" => user[s] \notin ended \/ fresh[s]
<1>1. TypeOK /\ [Next]_vars => [\A s \in Socket : Refuses(s)]_vars
  <2> SUFFICES ASSUME TypeOK, Next, NEW q \in Socket, handling[q] # "serving", handling'[q] = "serving"
               PROVE  user[q] \notin ended \/ fresh[q]
    OBVIOUS
  <2> USE DEF messages
  <2>1. CASE HandleRequest(q)
    BY <2>1 DEF HandleRequest, Serve, Now, TypeOK
  <2>2. CASE Rechecked(q)
    BY <2>2 DEF Rechecked, Serve, Now, Confirms, Verdicts, TypeOK
  <2>3. ASSUME NEW s \in Socket, s # q, HandleRequest(s) \/ Rechecked(s) PROVE FALSE
    BY <2>3 DEF HandleRequest, Rechecked, Serve, Now, Confirms, TypeOK
  <2>4. ASSUME NEW s \in Socket, Authenticate(s) \/ AuthVerified(s) \/ VerdictExpires(s) \/ Served(s) PROVE FALSE
    BY <2>4 DEF Authenticate, AuthVerified, VerdictExpires, Served, Now, TypeOK
  <2>5. ASSUME NEW s \in Socket,
               \/ \E u \in Session : AskTicket(s, u)
               \/ CreateTicket(s) \/ TicketExpires(s) \/ ClientCloses(s) \/ LinkBreaks(s) \/ TooMany(s)
               \/ \E ip \in IP : Connect(s, ip)
               \/ Closed(s) \/ Pong(s) \/ PongVerified(s)
        PROVE  FALSE
    BY <2>5 DEF AskTicket, CreateTicket, TicketExpires, ClientCloses, LinkBreaks, TooMany, Connect, Closed,
                Pong, PongVerified
  <2>6. CASE (\E u \in Session : EndSession(u)) \/ Cleanup \/ Heartbeat
    BY <2>6 DEF EndSession, Cleanup, Heartbeat
  <2> QED BY <2>1, <2>2, <2>3, <2>4, <2>5, <2>6 DEF Next
<1>2. Spec => []TypeOK
  BY TypeCorrect
<1> QED BY <1>1, <1>2, PTL DEF Spec, EndedIsRefused

=============================================================================
