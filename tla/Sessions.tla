------------------------------ MODULE Sessions ------------------------------
(***************************************************************************)
(* The sessions the auth service keeps of one account, which live in the   *)
(* account's preferences: a list of them, and apart from it the newest.    *)
(*                                                                         *)
(* Source: services/auth/src/sessions.ts, and of index.ts and profile.ts   *)
(* the handlers that write the row: login, register, logout, and PATCH     *)
(* /api/auth/me, which an application uses to write back the preferences   *)
(* it read with GET.  Each UPDATE of the row is one step; the devices and  *)
(* applications of the account take theirs in any order.                   *)
(***************************************************************************)
EXTENDS Naturals, FiniteSets

CONSTANTS
    None,        \* no session
    MaxKept,     \* sessions the service keeps for an account
    MaxSessions, \* bound: sign-ins
    MaxCopies    \* bound: different lists that are read

ASSUME SessionAssumption ==
    None \notin Nat /\ MaxKept \in Nat \ {0} /\ MaxSessions \in Nat /\ MaxCopies \in Nat

VARIABLES
    sessions,  \* preferences._authSessionIds, which lists them as they were made
    latest,    \* preferences._authSessionId
    made,      \* sessions created
    copies,    \* lists in preferences that applications have read
    updates,   \* lists in updates of the preferences that were let in
    ended,     \* history: sessions signed out
    restored   \* history: of these, the ones a later update put back into the list

server == <<sessions, latest, made, copies, updates, ended, restored>>

Session == 1..MaxSessions
SessionTypeOK ==
    /\ sessions \subseteq Session /\ Cardinality(sessions) <= MaxKept
    /\ latest \in Session \cup {None} /\ made \in 0..MaxSessions
    /\ copies \subseteq SUBSET Session /\ updates \subseteq SUBSET Session
    /\ ended \subseteq Session /\ restored \subseteq ended

SessionInit ==
    /\ sessions = {} /\ latest = None /\ made = 0 /\ copies = {} /\ updates = {}
    /\ ended = {} /\ restored = {}

\* createSession: the list keeps its first MaxKept - 1 entries and the new one.
Before(x) == {y \in sessions : y < x}
Kept(s) == {x \in sessions : Cardinality(Before(x)) < MaxKept - 1} \cup {s}
CreateSession(s) ==
    made' = s /\ sessions' = Kept(s) /\ latest' = s /\ UNCHANGED <<copies, updates, ended, restored>>

\* validateSession, for a token that has not expired.
Valid(s) == s = latest \/ s \in sessions

\* endSession, on the row as it is then.
LatestAfter_Kept(s) == latest                                                  \* mutant
LatestAfter(s) == IF latest = s THEN None ELSE latest
EndSession(s) ==
    /\ sessions' = sessions \ {s} /\ latest' = LatestAfter(s)
    /\ ended' = ended \cup {s} /\ restored' = restored \ {s} /\ UNCHANGED <<made, copies, updates>>

\* GET /api/auth/me answers with the list, but without the newest session.
ReadPreferences ==
    /\ \E s \in Session : Valid(s)
    /\ Cardinality(copies) < MaxCopies
    /\ copies' = copies \cup {sessions} /\ UNCHANGED <<sessions, latest, made, updates, ended, restored>>

\* PATCH /api/auth/me with preferences read earlier: verifyToken lets the update
\* in, and when the UPDATE comes the list it carries replaces the one in the row.
\* The newest session stays the one of the row.
BeginUpdate(list) ==
    /\ \E s \in Session : Valid(s)
    /\ updates' = updates \cup {list} /\ UNCHANGED <<sessions, latest, made, copies, ended, restored>>
NewestAfter_OfBody == None                                                     \* mutant
NewestAfter == latest
UpdatePreferences(list) ==
    /\ sessions' = list /\ latest' = NewestAfter /\ restored' = ended \cap list
    /\ updates' = updates \ {list} /\ UNCHANGED <<made, copies, ended>>

-----------------------------------------------------------------------------
SessionNext ==
    \/ made < MaxSessions /\ CreateSession(made + 1)
    \/ \E s \in Session : Valid(s) /\ EndSession(s)
    \/ ReadPreferences
    \/ \E list \in copies : BeginUpdate(list)
    \/ \E list \in updates : UpdatePreferences(list)

SessionSpec == SessionInit /\ [][SessionNext]_server

-----------------------------------------------------------------------------
(* Properties. *)

\* A session signed out is not accepted again, whichever sign-ins and sign-outs of
\* other devices come before or after, and although the newest session is kept
\* apart from the list: only an application that writes back preferences read
\* before the sign-out brings it back, as PATCH takes _authSessionId out of the
\* body, but not the list.
SignedOutIsOut == \A s \in ended \ restored : ~Valid(s)

\* The newest session is accepted until it is signed out: not even an update with
\* a list read before it was made takes it away.
NewestIsAccepted == made > 0 /\ made \notin ended => Valid(made)

=============================================================================
