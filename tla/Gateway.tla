------------------------------ MODULE Gateway ------------------------------
(***************************************************************************)
(* The gateway of the signaling service: tickets, sockets, authentication, *)
(* connection counts, and the heartbeat.                                   *)
(*                                                                         *)
(* Source: services/signaling/src/ws-attach.ts, ws-tickets.ts and index.ts *)
(* (signaling-ticket).  A connection is made once, by a guest or with a    *)
(* ticket asked for it, and a page sends one message at a time (bound).    *)
(* What requests do is the subject of other modules; limits of rates       *)
(* refuse or close, and how long a window or a ticket lasts is left open.  *)
(***************************************************************************)
EXTENDS Naturals, FiniteSets

CONSTANTS
    Socket,       \* connections that pages make
    Session,      \* sessions of the auth service
    Guest,        \* whom a connection without a session is made for
    IP,           \* client addresses
    NoIP,
    MaxPerIp,     \* WS_MAX_CONNECTIONS_PER_IP
    MaxTracked    \* WS_MAX_TRACKED_IPS

ASSUME ConstantAssumption ==
    /\ IsFiniteSet(Socket) /\ Guest \notin Session
    /\ IsFiniteSet(IP) /\ NoIP \notin IP /\ {MaxPerIp, MaxTracked} \subseteq Nat \ {0}

VARIABLES
    requireTerm,  \* QSVC_ENTERPRISE_TERMS_REQUIRED
    ended,        \* sessions that have ended at the auth service
    user,         \* the session each connection is made for
    ticket,       \* progress of the ticket asked for it
    client,       \* the page's end of the socket
    link,         \* the network still carries it
    server,       \* readyState of the service's end
    known,        \* addresses in ipCounts
    active,       \* record.active of each address
    counted,      \* connections: the address a socket is counted for
    handling,     \* what the message that is handled waits for
    authed,       \* authenticated
    fresh,        \* verified less than STREAMING_RECHECK_MS ago
    isAlive,      \* isAlive
    checking      \* the verification of a pong: runs, or ran before nextTermCheck

accounts == <<requireTerm, ended>>
pages    == <<user, client>>
counts   == <<known, active, counted>>
messages == <<handling, authed, fresh>>
beat     == <<isAlive, checking>>
vars == <<accounts, pages, ticket, link, server, counts, messages, beat>>

TypeOK ==
    /\ requireTerm \in BOOLEAN /\ ended \subseteq Session /\ user \in [Socket -> Session \cup {Guest}]
    /\ ticket \in [Socket -> {"none", "verifying", "denied", "granted", "gone"}]
    /\ client \in [Socket -> {"none", "up", "closed"}] /\ link \in [Socket -> BOOLEAN]
    /\ server \in [Socket -> {"none", "open", "closing", "closed"}]
    /\ known \subseteq IP /\ active \in [IP -> Nat] /\ counted \in [Socket -> IP \cup {NoIP}]
    /\ handling \in [Socket -> {"idle", "authenticating", "rechecking", "serving"}]
    /\ authed \in [Socket -> BOOLEAN] /\ fresh \in [Socket -> BOOLEAN]
    /\ isAlive \in [Socket -> BOOLEAN] /\ checking \in [Socket -> {"no", "runs", "lately"}]

Init ==
    /\ requireTerm \in BOOLEAN /\ ended = {}
    /\ user = [s \in Socket |-> Guest] /\ ticket = [s \in Socket |-> "none"]
    /\ client = [s \in Socket |-> "none"] /\ link = [s \in Socket |-> TRUE] /\ server = [s \in Socket |-> "none"]
    /\ known = {} /\ active = [ip \in IP |-> 0] /\ counted = [s \in Socket |-> NoIP]
    /\ handling = [s \in Socket |-> "idle"] /\ authed = [s \in Socket |-> FALSE] /\ fresh = [s \in Socket |-> FALSE]
    /\ isAlive = [s \in Socket |-> FALSE] /\ checking = [s \in Socket |-> "no"]

\* What verifySession may answer: no answer in time, or what the auth service knows.
Verdicts(u) == {"down", IF u \in ended THEN "dead" ELSE "ok"}

\* A session ends: signed out, expired, or revoked.
EndSession(u) ==
    /\ u \notin ended /\ ended' = ended \cup {u}
    /\ UNCHANGED <<requireTerm, pages, ticket, link, server, counts, messages, beat>>

-----------------------------------------------------------------------------
(* Tickets. *)

\* A page asks for a ticket before it connects.
AskTicket(s, u) ==
    /\ client[s] = "none" /\ ticket[s] = "none"
    /\ user' = [user EXCEPT ![s] = u] /\ ticket' = [ticket EXCEPT ![s] = "verifying"]
    /\ UNCHANGED <<accounts, client, link, server, counts, messages, beat>>
\* The session is verified and the ticket stored; the store may be down or full.
CreateTicket(s) ==
    /\ ticket[s] = "verifying"
    /\ \E v \in Verdicts(user[s]) : ticket' = [ticket EXCEPT ![s] = IF v = "ok" THEN "granted" ELSE "denied"]
    /\ UNCHANGED <<accounts, pages, link, server, counts, messages, beat>>
TicketExpires(s) ==
    /\ ticket[s] = "granted" /\ ticket' = [ticket EXCEPT ![s] = "gone"]
    /\ UNCHANGED <<accounts, pages, link, server, counts, messages, beat>>

-----------------------------------------------------------------------------
(* Sockets and their counts. *)

\* The records of ended windows that a sweep deletes.
Idle_Any(ip) == ip \in known                                                   \* mutant
Idle(ip) == ip \in known /\ active[ip] = 0
Idles == {ip \in IP : Idle(ip)}
Deleted(S) == [ip \in IP |-> IF ip \in S THEN 0 ELSE active[ip]]

\* A page connects, as a guest or with its ticket, from ip.  An address without
\* a record is refused when there are too many, after a sweep that runs at most
\* once a second; others for the limits on each address or on all.
Refused(s) == server' = [server EXCEPT ![s] = "closing"] /\ UNCHANGED <<counted, isAlive>>
Full(S, ip) == ip \notin known \ S /\ Cardinality(known \ S) >= MaxTracked
Connect(s, ip) ==
    /\ client[s] = "none" /\ ticket[s] \in {"none", "granted", "gone"} /\ client' = [client EXCEPT ![s] = "up"]
    /\ \E swept \in IF Full({}, ip) THEN SUBSET Idles ELSE {{}} :
         IF Full(swept, ip)
         THEN known' = known \ swept /\ active' = Deleted(swept) /\ Refused(s)
         ELSE /\ known' = (known \ swept) \cup {ip}
              /\ \/ active' = Deleted(swept) /\ Refused(s)  \* the limits on upgrades and on all
                 \/ /\ Deleted(swept)[ip] < MaxPerIp
                    /\ active' = [Deleted(swept) EXCEPT ![ip] = @ + 1] /\ counted' = [counted EXCEPT ![s] = ip]
                    /\ server' = [server EXCEPT ![s] = "open"] /\ isAlive' = [isAlive EXCEPT ![s] = TRUE]
    /\ UNCHANGED <<accounts, user, ticket, link, messages, checking>>

\* ipCleanupInterval, every ten minutes.
Cleanup ==
    /\ \E S \in SUBSET Idles \ {{}} : known' = known \ S /\ active' = Deleted(S)
    /\ UNCHANGED <<accounts, pages, ticket, link, server, counted, messages, beat>>

ClientCloses(s) ==
    /\ client[s] = "up" /\ client' = [client EXCEPT ![s] = "closed"]
    /\ UNCHANGED <<accounts, user, ticket, link, server, counts, messages, beat>>
LinkBreaks(s) ==
    /\ link[s] /\ server[s] \in {"open", "closing"} /\ link' = [link EXCEPT ![s] = FALSE]
    /\ UNCHANGED <<accounts, pages, ticket, server, counts, messages, beat>>

\* The close event: the page's close frame arrived, or the closing ended, in
\* the worst case by its time-out.
Closed(s) ==
    LET ip == counted[s] IN
    /\ \/ server[s] = "closing"
       \/ server[s] = "open" /\ link[s] /\ client[s] = "closed"
    /\ server' = [server EXCEPT ![s] = "closed"] /\ counted' = [counted EXCEPT ![s] = NoIP]
    /\ active' = IF ip \in known /\ active[ip] > 0 THEN [active EXCEPT ![ip] = @ - 1] ELSE active
    /\ UNCHANGED <<accounts, pages, ticket, link, known, messages, beat>>

-----------------------------------------------------------------------------
(* Messages. *)

\* A message arrives; close of a socket that is not open does nothing.
Arrives(s) == handling[s] = "idle" /\ client[s] = "up" /\ link[s] /\ server[s] \in {"open", "closing"}
Now(s, stage) == handling' = [handling EXCEPT ![s] = stage]
Closes(s) == server' = [server EXCEPT ![s] = IF @ = "open" THEN "closing" ELSE @]

\* Too many messages in a second or in the queue: the service closes, and goes
\* on with what it handles.
TooMany(s) ==
    /\ client[s] = "up" /\ link[s] /\ server[s] = "open" /\ Closes(s)
    /\ UNCHANGED <<accounts, pages, ticket, link, counts, messages, beat>>

\* A ticket is read and deleted in one step of the store.
Redeem(s) == ticket[s] = "granted" /\ ticket' = [ticket EXCEPT ![s] = "gone"]

\* The first message, from a guest or with a ticket; without either, or without
\* the store, the service closes.
Authenticate(s) ==
    /\ Arrives(s) /\ server[s] = "open" /\ ~authed[s]
    /\ \/ /\ user[s] = Guest /\ UNCHANGED <<ticket, handling>>
          /\ IF requireTerm THEN Closes(s) /\ UNCHANGED authed
                            ELSE authed' = [authed EXCEPT ![s] = TRUE] /\ UNCHANGED server
       \/ /\ user[s] # Guest /\ Redeem(s)
          /\ Now(s, "authenticating") /\ UNCHANGED <<server, authed>>
       \/ user[s] # Guest /\ Closes(s) /\ UNCHANGED <<ticket, handling, authed>>
    /\ UNCHANGED <<accounts, pages, link, counts, fresh, beat>>
AuthVerified(s) ==
    /\ handling[s] = "authenticating" /\ Now(s, "idle")
    /\ \E v \in Verdicts(user[s]) :
         IF v = "ok"
         THEN authed' = [authed EXCEPT ![s] = TRUE] /\ fresh' = [fresh EXCEPT ![s] = TRUE] /\ UNCHANGED server
         ELSE Closes(s) /\ UNCHANGED <<authed, fresh>>
    /\ UNCHANGED <<accounts, pages, ticket, link, counts, beat>>

\* A request: the session is verified again unless that was done lately; a
\* request of a socket that is closing by now is dropped.
Serve(s) == Now(s, IF server[s] = "open" THEN "serving" ELSE "idle")
HandleRequest(s) ==
    /\ Arrives(s) /\ authed[s]
    /\ IF user[s] # Guest /\ ~fresh[s] THEN Now(s, "rechecking") ELSE Serve(s)
    /\ UNCHANGED <<accounts, pages, ticket, link, server, counts, authed, fresh, beat>>
VerdictExpires(s) ==
    /\ fresh[s] /\ fresh' = [fresh EXCEPT ![s] = FALSE]
    /\ UNCHANGED <<accounts, pages, ticket, link, server, counts, handling, authed, beat>>
\* The verdicts after which the request is served.
Confirms_Unless(v) == v # "dead"                                               \* mutant
Confirms(v) == v = "ok"
Rechecked(s) ==
    /\ handling[s] = "rechecking"
    /\ \E v \in Verdicts(user[s]) :
         CASE Confirms(v) -> Serve(s) /\ fresh' = [fresh EXCEPT ![s] = TRUE] /\ UNCHANGED server
           [] v = "dead"  -> Now(s, "idle") /\ Closes(s) /\ UNCHANGED fresh
           [] OTHER       -> Now(s, "idle") /\ UNCHANGED <<server, fresh>>
    /\ UNCHANGED <<accounts, pages, ticket, link, counts, authed, beat>>
Served(s) ==
    /\ handling[s] = "serving" /\ Now(s, "idle")
    /\ UNCHANGED <<accounts, pages, ticket, link, server, counts, authed, fresh, beat>>

-----------------------------------------------------------------------------
(* Heartbeat. *)

\* A socket that did not answer the last ping is terminated, the others are
\* asked again.
AfterBeat_Stays(s) == isAlive[s]                                               \* mutant
AfterBeat(s) == FALSE
Clients == {s \in Socket : server[s] \in {"open", "closing"}}
Heartbeat ==
    /\ Clients # {}
    /\ LET stale == {s \in Clients : ~isAlive[s]} IN
       /\ server' = [s \in Socket |-> IF s \in stale THEN "closing" ELSE server[s]]
       /\ link' = [s \in Socket |-> link[s] /\ s \notin stale]
       /\ isAlive' = [s \in Socket |-> IF s \in Clients THEN AfterBeat(s) ELSE isAlive[s]]
    /\ UNCHANGED <<accounts, pages, ticket, counts, messages, checking>>

\* The browser answers by itself.  Where terms are required the session is
\* verified, unless the pong came less than 25 s after one that verified it.
Pong(s) ==
    /\ ~isAlive[s] /\ link[s] /\ client[s] = "up" /\ server[s] = "open"
    /\ isAlive' = [isAlive EXCEPT ![s] = TRUE]
    /\ IF requireTerm /\ authed[s]
       THEN \E c \in {"runs"} \cup (IF checking[s] = "lately" THEN {"no"} ELSE {}) : checking' = [checking EXCEPT ![s] = c]
       ELSE UNCHANGED checking
    /\ UNCHANGED <<accounts, pages, ticket, link, server, counts, messages>>
PongVerified(s) ==
    /\ checking[s] = "runs" /\ checking' = [checking EXCEPT ![s] = "lately"]
    /\ \E v \in Verdicts(user[s]) : IF v = "ok" THEN UNCHANGED server ELSE Closes(s)
    /\ UNCHANGED <<accounts, pages, ticket, link, counts, messages, isAlive>>

-----------------------------------------------------------------------------
Next ==
    \/ \E u \in Session : EndSession(u)
    \/ Cleanup
    \/ Heartbeat
    \/ \E s \in Socket :
         \/ \E u \in Session : AskTicket(s, u)
         \/ CreateTicket(s) \/ TicketExpires(s)
         \/ \E ip \in IP : Connect(s, ip)
         \/ ClientCloses(s) \/ LinkBreaks(s) \/ Closed(s)
         \/ TooMany(s) \/ Authenticate(s) \/ AuthVerified(s)
         \/ HandleRequest(s) \/ VerdictExpires(s) \/ Rechecked(s) \/ Served(s)
         \/ Pong(s) \/ PongVerified(s)

Spec == Init /\ [][Next]_vars

\* The timer goes on, a closing ends in time, and so does a verification.
Fairness == WF_vars(Heartbeat) /\ \A s \in Socket : WF_vars(Closed(s)) /\ WF_vars(PongVerified(s))
FairSpec == Spec /\ Fairness

-----------------------------------------------------------------------------
(* Properties. *)

\* Every address is charged for exactly the sockets that are still counted for
\* it: no sweep forgets one, and no close event is charged to a later record.
ChargedTo(ip) == {s \in Socket : counted[s] = ip}
CountsKept == \A ip \in IP : active[ip] = Cardinality(ChargedTo(ip))

\* A request of a session that has ended is served only until the verification
\* before runs out: not by a connection authenticated earlier, nor by one with
\* a ticket handed out earlier, nor while the auth service does not answer.
EndedIsRefused ==
    [][\A s \in Socket : handling[s] # "serving" /\ handling'[s] = "serving" => user[s] \notin ended \/ fresh[s]]_vars

\* A socket whose page is gone, or whose session has ended where terms are
\* required, is eventually closed, though nothing is sent on it.
Abandoned(s) == client[s] = "closed" \/ ~link[s] \/ (requireTerm /\ authed[s] /\ user[s] \in ended)
DeadSocketsGo == \A s \in Socket : server[s] = "open" /\ Abandoned(s) ~> server[s] = "closed"

=============================================================================
