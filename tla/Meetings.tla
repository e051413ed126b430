------------------------------ MODULE Meetings ------------------------------
(***************************************************************************)
(* A meeting in the database, with its invitation and its guest link, and  *)
(* the live room that the signaling service holds for it.                  *)
(*                                                                         *)
(* Source: services/meeting/src/index.ts (creation, schedule, status,      *)
(* verify-access, invitations, guest tokens), the SQL functions of         *)
(* db/migrations/007 and 019, and, in services/signaling/src, meeting-     *)
(* policy.ts and what joinRoom and endMeeting of rpc/handler.ts do with    *)
(* it.  Every query is atomic; a handler with several queries, or a call   *)
(* between the services, is interrupted between them.  The admission of    *)
(* who waits, and who leads the room, are MeetingRoom's subject.           *)
(***************************************************************************)
EXTENDS Naturals, FiniteSets

CONSTANTS
    Owner, Member,       \* the host of the row, and a member that may be invited
    Guest,               \* people who have the guest link, Member perhaps among them
    Kinds,               \* how the meeting may be made
    InvitationsVisible,  \* the service's database role reads invitations without a tenant
    MaxUses,             \* max_uses of the guest link
    MaxReports           \* bound: status reports of each kind under way

Person == {Owner, Member} \cup Guest
ASSUME MeetingAssumption ==
    /\ Owner # Member /\ Owner \notin Guest
    /\ Kinds \subseteq {"quick", "instant", "scheduled"} /\ InvitationsVisible \in BOOLEAN
    /\ MaxUses \in Nat \ {0} /\ MaxReports \in Nat

VARIABLES
    kind,        \* "none" before the meeting is made, "quick" (no host), "instant" or "scheduled"
    status,      \* meetings.status
    invitation,  \* meeting_invitations.invitation_status of Member
    response,    \* Member's response between its two queries
    link,        \* the guest token
    started,     \* room.hostStarted
    join,        \* joinRoom of each person, and where they are then
    reports      \* reportMeetingStatus calls under way

vars == <<kind, status, invitation, response, link, started, join, reports>>

Statuses  == {"waiting", "active", "ended", "cancelled"}
NoAnswer  == [to |-> "none", overtaken |-> FALSE]
At(stage) == [at |-> stage, ended |-> FALSE, invited |-> FALSE]
Out       == At("out")
Stages    == {"access", "counting", "entering"}
TypeOK ==
    /\ kind \in Kinds \cup {"none"} /\ status \in Statuses
    /\ invitation \in {"none", "pending", "accepted", "declined", "revoked"}
    /\ response \in [to : {"none", "accepted", "declined"}, overtaken : BOOLEAN]
    /\ link \in [state : {"none", "live", "expired", "revoked"}, uses : Nat]
    /\ started \in BOOLEAN
    /\ join \in [Person -> [at : Stages \cup {"out", "waiting", "inside"}, ended : BOOLEAN, invited : BOOLEAN]]
    /\ reports \in [{"active", "ended"} -> 0..MaxReports]

Init ==
    /\ kind = "none" /\ status = "waiting" /\ invitation = "none" /\ response = NoAnswer
    /\ link = [state |-> "none", uses |-> 0]
    /\ started = FALSE /\ join = [p \in Person |-> Out] /\ reports = [r \in {"active", "ended"} |-> 0]

Owned  == kind \in {"instant", "scheduled"}
Inside == {p \in Person : join[p].at = "inside"}
Go(p, stage) == join' = [join EXCEPT ![p].at = stage]
Arrive(p, place) == join' = [join EXCEPT ![p] = At(place)]

-----------------------------------------------------------------------------
(* The meeting's row. *)

Create(k) ==
    /\ kind = "none" /\ kind' = k
    /\ UNCHANGED <<status, invitation, response, link, started, join, reports>>

\* PATCH schedule: one occurrence is cancelled or moved.
Editable(action) == status = "waiting" \/ (action = "cancel" /\ status = "cancelled")
EditSchedule(action) ==
    /\ kind = "scheduled" /\ Editable(action)
    /\ status' = IF action = "cancel" THEN "cancelled" ELSE "waiting"
    /\ UNCHANGED <<kind, invitation, response, link, started, join, reports>>

\* PATCH status, by the host.
SetStatus(s) ==
    /\ Owned /\ status # "cancelled" /\ status' = s
    /\ UNCHANGED <<kind, invitation, response, link, started, join, reports>>

\* A report of the signaling service arrives, in any order, or is lost.
MayReport_Any(s) == TRUE                                                       \* mutant
MayReport(s) == status # "cancelled"
ReportArrives(s) ==
    /\ reports[s] > 0 /\ reports' = [reports EXCEPT ![s] = @ - 1]
    /\ status' = IF MayReport(s) THEN s ELSE status
    /\ UNCHANGED <<kind, invitation, response, link, started, join>>
ReportLost(s) ==
    /\ reports[s] > 0 /\ reports' = [reports EXCEPT ![s] = @ - 1]
    /\ UNCHANGED <<kind, status, invitation, response, link, started, join>>

-----------------------------------------------------------------------------
(* The invitation and the guest link. *)

\* The host invites, or invites again whatever became of the first invitation.
Invite ==
    /\ Owned /\ invitation' = "pending"
    /\ UNCHANGED <<kind, status, response, link, started, join, reports>>
\* "This invitation has been revoked by the host": read first, written later.
MayRespond(s) == s # "revoked"
Respond(to) ==
    /\ invitation # "none" /\ response = NoAnswer /\ MayRespond(invitation)
    /\ response' = [to |-> to, overtaken |-> FALSE]
    /\ UNCHANGED <<kind, status, invitation, link, started, join, reports>>
RespondWrite ==
    /\ response # NoAnswer /\ invitation' = response.to /\ response' = NoAnswer
    /\ UNCHANGED <<kind, status, link, started, join, reports>>
Revoke ==
    /\ invitation # "none" /\ invitation' = "revoked"
    /\ response' = IF response = NoAnswer THEN response ELSE [response EXCEPT !.overtaken = TRUE]
    /\ UNCHANGED <<kind, status, link, started, join, reports>>

MakeLink ==
    /\ Owned /\ link.state = "none" /\ link' = [link EXCEPT !.state = "live"]
    /\ UNCHANGED <<kind, status, invitation, response, started, join, reports>>
RevokeLink ==
    /\ link.state # "none" /\ link' = [link EXCEPT !.state = "revoked"]
    /\ UNCHANGED <<kind, status, invitation, response, started, join, reports>>
LinkExpires ==
    /\ link.state = "live" /\ link' = [link EXCEPT !.state = "expired"]
    /\ UNCHANGED <<kind, status, invitation, response, started, join, reports>>

-----------------------------------------------------------------------------
(* joinRoom. *)

\* Entry is refused, or given up: the person is out, and may try again.
Refuse(p) == join' = [join EXCEPT ![p] = Out]

\* loadMeetingPolicy: a cancelled meeting is not entered, and no answer is a refusal.
Refused_Never == FALSE                                                         \* mutant
Refused == status = "cancelled"
LoadPolicy(p) ==
    /\ kind # "none" /\ join[p].at = "out" /\ ~Refused
    /\ join' = [join EXCEPT ![p] = [at |-> "access", ended |-> status = "ended", invited |-> FALSE]]
    /\ UNCHANGED <<kind, status, invitation, response, link, started, reports>>

\* qsvc_validate_guest_token, then the invitation of who is signed in.  Signed
\* invite tokens, the third way in, are left out: they have no state to go stale.
LinkValid_AlsoRevoked == link.state \in {"live", "revoked"} /\ link.uses < MaxUses  \* mutant
LinkValid == link.state = "live" /\ link.uses < MaxUses
Invited(p) == p = Member /\ InvitationsVisible /\ invitation \notin {"none", "revoked"}
CheckAccess(p) ==
    /\ join[p].at = "access"
    /\ IF p \in Guest /\ LinkValid THEN Go(p, "counting")
       ELSE join' = [join EXCEPT ![p].at = "entering", ![p].invited = Invited(p)]
    /\ UNCHANGED <<kind, status, invitation, response, link, started, reports>>
\* qsvc_increment_guest_token_use, whose result nobody looks at.
MayCount == LinkValid
CountUse(p) ==
    /\ join[p].at = "counting"
    /\ link' = IF MayCount THEN [link EXCEPT !.uses = @ + 1] ELSE link
    /\ join' = [join EXCEPT ![p].at = "entering", ![p].invited = TRUE]
    /\ UNCHANGED <<kind, status, invitation, response, started, reports>>
\* "null": the signaling service goes on without the answer.
AccessUnknown(p) ==
    /\ join[p].at \in {"access", "counting"} /\ Go(p, "entering")
    /\ UNCHANGED <<kind, status, invitation, response, link, started, reports>>

\* Nobody gets in before the host; the host starts the meeting and reports it.
Enter(p) ==
    /\ join[p].at = "entering"
    /\ IF p = Owner /\ Owned
       THEN /\ Arrive(p, "inside") /\ started' = TRUE
            /\ IF started THEN UNCHANGED reports
               ELSE reports["active"] < MaxReports /\ reports' = [reports EXCEPT !["active"] = @ + 1]
       ELSE /\ UNCHANGED reports
            /\ IF join[p].ended /\ ~started THEN Refuse(p) /\ UNCHANGED started
               ELSE IF (Owned /\ ~started) \/ Inside # {} THEN Arrive(p, "waiting") /\ UNCHANGED started
               ELSE Arrive(p, "inside") /\ started' = TRUE
    /\ UNCHANGED <<kind, status, invitation, response, link>>
Admit(p) ==
    /\ join[p].at = "waiting" /\ started /\ Inside # {} /\ Go(p, "inside")
    /\ UNCHANGED <<kind, status, invitation, response, link, started, reports>>
Leave(p) ==
    /\ join[p].at \in {"waiting", "inside"} /\ Refuse(p)
    /\ UNCHANGED <<kind, status, invitation, response, link, started, reports>>

\* endMeeting by the host, who reports it; everybody is sent away.
EndMeeting(p) ==
    /\ p \in Inside /\ started' = FALSE
    /\ join' = [q \in Person |-> IF join[q].at \in {"waiting", "inside"} THEN Out ELSE join[q]]
    /\ IF Owned THEN reports["ended"] < MaxReports /\ reports' = [reports EXCEPT !["ended"] = @ + 1]
       ELSE UNCHANGED reports
    /\ UNCHANGED <<kind, status, invitation, response, link>>
\* An empty room is removed, a crash of the service empties every room.
RoomForgotten ==
    /\ started' = FALSE /\ join' = [p \in Person |-> Out]
    /\ UNCHANGED <<kind, status, invitation, response, link, reports>>

-----------------------------------------------------------------------------
Next ==
    \/ \E k \in Kinds : Create(k)
    \/ \E a \in {"cancel", "reschedule"} : EditSchedule(a)
    \/ \E s \in {"waiting", "active", "ended"} : SetStatus(s)
    \/ \E s \in {"active", "ended"} : ReportArrives(s) \/ ReportLost(s)
    \/ Invite \/ Revoke \/ RespondWrite \/ \E to \in {"accepted", "declined"} : Respond(to)
    \/ MakeLink \/ RevokeLink \/ LinkExpires \/ RoomForgotten
    \/ \E p \in Person :
         \/ LoadPolicy(p) \/ CheckAccess(p) \/ CountUse(p) \/ AccessUnknown(p)
         \/ Enter(p) \/ Admit(p) \/ Leave(p) \/ EndMeeting(p)

Spec == Init /\ [][Next]_vars

-----------------------------------------------------------------------------
(* Properties. *)

\* Nothing brings a cancelled meeting back: no late report of the signaling
\* service, no status the host sets, no other date.
CancelledIsFinal == [][status = "cancelled" => status' = "cancelled"]_vars

\* A cancelled meeting is never held again: once no join that was under way is
\* left and nobody is in, nobody starts it, not even its host.
NobodyJoins == \A p \in Person : join[p].at \notin Stages
CancelledNeverHeld ==
    [](status = "cancelled" /\ NobodyJoins /\ ~started => []~started)

\* A revoked invitation stays revoked until the host invites again; only a
\* response that was read before the revocation overwrites it.
RevokedStays ==
    [][invitation = "revoked" /\ invitation' \in {"accepted", "declined"} => response.overtaken]_vars

\* However many guests come in at once, no more uses are counted than allowed.
UsesBounded == link.uses <= MaxUses

\* A revoked guest link opens nothing to whoever comes after: no check that
\* begins later calls a guest invited.
RevokedLinkOpensNothing ==
    [](link.state = "revoked" /\ NobodyJoins => []\A g \in Guest \ {Member} : join[g].at = "entering" => ~join[g].invited)

=============================================================================
