------------------------------ MODULE Accounts ------------------------------
(***************************************************************************)
(* The tabs of one browser that sign in and out of an account and show     *)
(* whose account they use, with the sessions the auth service keeps of it. *)
(*                                                                         *)
(* Source: frontend/web/src/lib/session.ts, and the login, me and logout   *)
(* handlers of services/auth/src/index.ts.  A token is a session of the    *)
(* account.  The tabs share localStorage, keep a copy of their own in      *)
(* sessionStorage, and tell each other through storage events and a        *)
(* broadcast channel, which arrive later and in the order of each.  A      *)
(* request reaches the server once, and its answer may be lost.            *)
(***************************************************************************)
EXTENDS Sessions, Sequences

CONSTANT Tab  \* tabs of the browser

ASSUME ConstantAssumption == IsFiniteSet(Tab)

VARIABLES
    local,     \* the token in localStorage
    own,       \* the token in each tab's sessionStorage
    shown,     \* what each tab publishes, and the session whose profile it shows
    requests,  \* profile requests of each tab
    signin,    \* the sign-in of each tab
    signout,   \* the sign-out of each tab
    messages,  \* channel messages on their way to each tab
    events     \* storage events on their way to each tab: a token was set, or removed

storage == <<local, own, events>>
accountVars == <<server, storage, shown, requests, signin, signout, messages>>

Token   == Session \cup {None}
Request == [token : Session, pending : BOOLEAN, answer : {"none", "ok", "dead"}]
AccountTypeOK ==
    /\ SessionTypeOK
    /\ local \in Token /\ own \in [Tab -> Token]
    /\ shown \in [Tab -> [status : {"checking", "authenticated", "anonymous", "unavailable"}, of : Token]]
    /\ requests \in [Tab -> SUBSET Request]
    /\ \A t \in Tab : \A q, r \in requests[t] : q.pending /\ r.pending => q = r
    /\ signin \in [Tab -> [session : Token, live : BOOLEAN]]
    /\ signout \in [Tab -> [at : {"none", "asked", "ok"}, token : Token]]
    /\ messages \in [Tab -> Seq({"logout", "revalidate"})] /\ events \in [Tab -> Seq({"set", "removed"})]

NotAsking == [session |-> None, live |-> FALSE]
NotLeaving == [at |-> "none", token |-> None]
Anonymous == [status |-> "anonymous", of |-> None]
AccountInit ==
    /\ SessionInit
    /\ local = None /\ own = [t \in Tab |-> None] /\ shown = [t \in Tab |-> Anonymous]
    /\ requests = [t \in Tab |-> {}] /\ signin = [t \in Tab |-> NotAsking] /\ signout = [t \in Tab |-> NotLeaving]
    /\ messages = [t \in Tab |-> <<>>] /\ events = [t \in Tab |-> <<>>]

-----------------------------------------------------------------------------
(* What a tab does with the token. *)

GetToken(t) == IF local # None THEN local ELSE own[t]
Tell(queues, t, m) == [u \in Tab |-> IF u = t THEN queues[u] ELSE Append(queues[u], m)]

\* The storage after tab t wrote token s, None to remove it, in both places.
\* The other tabs are told only of a change of localStorage.
Write(t, s) ==
    /\ local' = s /\ own' = [own EXCEPT ![t] = s]
    /\ events' = IF local = s THEN events ELSE Tell(events, t, IF s = None THEN "removed" ELSE "set")

\* A new generation: no answer under way counts any more, and the tab forgets them.
Forgotten(t) == [requests EXCEPT ![t] = {}]

\* A later intent of the user cancels a sign-in that has no answer yet.
Cancelled(t) == signin' = [signin EXCEPT ![t].live = FALSE]

\* refreshSession with the requests rs under way and token s.
Asking(rs, s) == {[r EXCEPT !.pending = FALSE] : r \in rs}
                 \cup {[token |-> s, pending |-> TRUE, answer |-> "none"]}
Refresh(t) ==
    LET s == GetToken(t) IN
    CASE s = None -> shown' = [shown EXCEPT ![t] = Anonymous] /\ UNCHANGED requests
      [] s # None /\ (\E r \in requests[t] : r.pending /\ r.token = s) -> UNCHANGED <<shown, requests>>
      [] OTHER -> /\ shown' = [shown EXCEPT ![t].status = "checking"]
                  /\ requests' = [requests EXCEPT ![t] = Asking(@, s)]

\* clearSession, with the token the caller expects to be in use.
IsExpected(t, expected) == GetToken(t) = expected
ClearSession(t, expected) ==
    IF IsExpected(t, expected)
    THEN /\ Write(t, None) /\ shown' = [shown EXCEPT ![t] = Anonymous]
         /\ requests' = Forgotten(t)
    ELSE UNCHANGED <<storage, shown, requests>>

-----------------------------------------------------------------------------
(* Signing in and out. *)

\* beginSignIn, and the login it asks for.
SignIn(t) ==
    /\ signin[t].session = None /\ made < MaxSessions /\ CreateSession(made + 1)
    /\ signin' = [signin EXCEPT ![t] = [session |-> made + 1, live |-> TRUE]]
    /\ UNCHANGED <<storage, shown, requests, signout, messages>>
\* The answer arrives: unless it was cancelled, setSessionToken stores it.
FinishSignIn(t) ==
    /\ signin[t].session # None /\ signin' = [signin EXCEPT ![t] = NotAsking]
    /\ IF signin[t].live
       THEN /\ Write(t, signin[t].session) /\ messages' = Tell(messages, t, "revalidate")
            /\ shown' = [shown EXCEPT ![t] = [status |-> "checking", of |-> None]]
            /\ requests' = [requests EXCEPT ![t] = Asking({}, signin[t].session)]
       ELSE UNCHANGED <<storage, shown, requests, messages>>
    /\ UNCHANGED <<server, signout>>
\* The answer is lost.
FailSignIn(t) ==
    /\ signin[t].session # None /\ signin' = [signin EXCEPT ![t] = NotAsking]
    /\ UNCHANGED <<server, storage, shown, requests, signout, messages>>

BeginSignOut(t) ==
    /\ signout[t].at = "none" /\ GetToken(t) # None /\ Cancelled(t)
    /\ signout' = [signout EXCEPT ![t] = [at |-> "asked", token |-> GetToken(t)]]
    /\ UNCHANGED <<server, storage, shown, requests, messages>>
\* Another tab removed the token, and this one has not heard of it yet: it tells
\* everybody again.
SignOutAgain(t) ==
    /\ signout[t].at = "none" /\ GetToken(t) = None /\ shown[t].status # "anonymous"
    /\ Cancelled(t) /\ messages' = Tell(messages, t, "logout")
    /\ shown' = [shown EXCEPT ![t] = Anonymous] /\ requests' = Forgotten(t)
    /\ UNCHANGED <<server, storage, signout>>
\* Ended, or found invalid: both answers count as signed out.  The answer may be lost.
Logout(t) ==
    /\ signout[t].at = "asked"
    /\ IF Valid(signout[t].token) THEN EndSession(signout[t].token) ELSE UNCHANGED server
    /\ signout' = [signout EXCEPT ![t].at = "ok"]
    /\ UNCHANGED <<storage, shown, requests, signin, messages>>
FinishSignOut(t) ==
    LET s == signout[t].token IN
    /\ signout[t].at = "ok" /\ signout' = [signout EXCEPT ![t] = NotLeaving]
    /\ ClearSession(t, s)
    /\ messages' = IF IsExpected(t, s) THEN Tell(messages, t, "logout") ELSE messages
    /\ UNCHANGED <<server, signin>>
FailSignOut(t) ==
    /\ signout[t].at # "none" /\ signout' = [signout EXCEPT ![t] = NotLeaving]
    /\ UNCHANGED <<server, storage, shown, requests, signin, messages>>

-----------------------------------------------------------------------------
(* Profile requests, messages and events. *)

\* The tab gets the focus or is shown again.
Revalidate(t) == Refresh(t) /\ UNCHANGED <<server, storage, signin, signout, messages>>

Answer(t, r) ==
    /\ r \in requests[t] /\ r.answer = "none"
    /\ requests' = [requests EXCEPT ![t] = (@ \ {r}) \cup {[r EXCEPT !.answer = IF Valid(r.token) THEN "ok" ELSE "dead"]}]
    /\ UNCHANGED <<server, storage, shown, signin, signout, messages>>

\* An answer counts only while the tab would still use the token it is about.
IsCurrent_Always(t, r) == TRUE                                                 \* mutant
IsCurrent(t, r) == GetToken(t) = r.token
Conclude(t, r, s) ==
    /\ shown' = IF IsCurrent(t, r) THEN [shown EXCEPT ![t] = s] ELSE shown
    /\ requests' = [requests EXCEPT ![t] = @ \ {r}] /\ UNCHANGED storage
Deliver(t, r) ==
    /\ r \in requests[t] /\ r.answer # "none"
    /\ IF r.answer = "ok" THEN Conclude(t, r, [status |-> "authenticated", of |-> r.token])
       ELSE IF IsCurrent(t, r) THEN ClearSession(t, r.token) ELSE Conclude(t, r, Anonymous)
    /\ UNCHANGED <<server, signin, signout, messages>>
\* No answer in time, or the service is down.
Unavailable(t, r) ==
    /\ r \in requests[t] /\ Conclude(t, r, [status |-> "unavailable", of |-> shown[t].of])
    /\ UNCHANGED <<server, signin, signout, messages>>

\* handleMessage and handleStorage: a removal clears whatever token is there.
Handle(t, cleared) ==
    IF cleared THEN ClearSession(t, GetToken(t)) /\ Cancelled(t)
    ELSE Refresh(t) /\ UNCHANGED <<storage, signin>>
ReceiveMessage(t) ==
    /\ messages[t] # <<>> /\ messages' = [messages EXCEPT ![t] = Tail(@)]
    /\ Handle(t, Head(messages[t]) = "logout") /\ UNCHANGED <<server, signout>>
ReceiveEvent(t) ==
    /\ events[t] # <<>>
    /\ LET rest == [events EXCEPT ![t] = Tail(@)] IN
       IF Head(events[t]) = "removed"
       THEN /\ local' = None /\ own' = [own EXCEPT ![t] = None] /\ Cancelled(t)
            /\ events' = IF local = None THEN rest ELSE Tell(rest, t, "removed")
            /\ shown' = [shown EXCEPT ![t] = Anonymous] /\ requests' = Forgotten(t)
       ELSE Refresh(t) /\ events' = rest /\ UNCHANGED <<local, own, signin>>
    /\ UNCHANGED <<server, signout, messages>>

\* The tab is loaded again: it keeps its sessionStorage, forgets what was under
\* way and what it was sent, and asks for its profile.
Reload(t) ==
    /\ messages' = [messages EXCEPT ![t] = <<>>] /\ events' = [events EXCEPT ![t] = <<>>]
    /\ signin' = [signin EXCEPT ![t] = NotAsking] /\ signout' = [signout EXCEPT ![t] = NotLeaving]
    /\ IF GetToken(t) = None
       THEN shown' = [shown EXCEPT ![t] = Anonymous] /\ requests' = [requests EXCEPT ![t] = {}]
       ELSE /\ shown' = [shown EXCEPT ![t] = [status |-> "checking", of |-> None]]
            /\ requests' = [requests EXCEPT ![t] = Asking({}, GetToken(t))]
    /\ UNCHANGED <<server, local, own>>

\* Other devices and applications of the account go on as well.
Elsewhere == SessionNext /\ UNCHANGED <<storage, shown, requests, signin, signout, messages>>

-----------------------------------------------------------------------------
AccountNext == Elsewhere \/ \E t \in Tab :
    \/ SignIn(t) \/ FinishSignIn(t) \/ FailSignIn(t)
    \/ BeginSignOut(t) \/ SignOutAgain(t) \/ Logout(t) \/ FinishSignOut(t) \/ FailSignOut(t)
    \/ Revalidate(t) \/ ReceiveMessage(t) \/ ReceiveEvent(t) \/ Reload(t)
    \/ \E r \in requests[t] : Answer(t, r) \/ Deliver(t, r) \/ Unavailable(t, r)

AccountSpec == AccountInit /\ [][AccountNext]_accountVars

-----------------------------------------------------------------------------
(* Properties. *)

\* Nothing is on its way to the tab.
Settled(t) == requests[t] = {} /\ messages[t] = <<>> /\ events[t] = <<>>

\* Once nothing is on its way to a tab, it shows the account of the token it
\* would use, whatever the other tabs did meanwhile: it is not stuck while
\* checking, nor does it show an account it was signed out of, or none.
TabsSettle ==
    \A t \in Tab : Settled(t) =>
        IF GetToken(t) = None THEN shown[t].status = "anonymous"
        ELSE shown[t].status = "unavailable" \/ shown[t] = [status |-> "authenticated", of |-> GetToken(t)]

=============================================================================
