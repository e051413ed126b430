--------------------------- MODULE ServiceProofs ---------------------------
(***************************************************************************)
(* Proofs about the two services that keep meetings and recordings.        *)
(*                                                                         *)
(* Meetings, for any guests, ways to make the meeting and bounds: its type *)
(* invariant, the bound on the guest link, and what no step may do to a    *)
(* cancelled meeting, a revoked invitation or a revoked link.              *)
(* RecordingLinks, for any number of requests, slots and failures: its     *)
(* type invariant, the count of upload slots, that access ends when the    *)
(* host is told so, and that a link nobody disturbed works.                *)
(***************************************************************************)
EXTENDS Meetings, RecordingLinks, TLAPS, FiniteSetTheorems

-----------------------------------------------------------------------------
(* Meetings.                                                               *)

USE MeetingAssumption

LEMMA TypeInit == Init => TypeOK
<1> SUFFICES ASSUME Init PROVE TypeOK
  OBVIOUS
<1>1. Out \in [at : Stages \cup {"out", "waiting", "inside"}, ended : BOOLEAN, invited : BOOLEAN]
  BY DEF Out, At
<1>2. join \in [Person -> [at : Stages \cup {"out", "waiting", "inside"}, ended : BOOLEAN, invited : BOOLEAN]]
  BY <1>1 DEF Init
<1>3. reports \in [{"active", "ended"} -> 0..MaxReports]
  BY DEF Init
<1> QED BY <1>2, <1>3 DEF Init, TypeOK, Statuses, NoAnswer

\* The row, the invitation and the link: no action here touches a join.
LEMMA TypeRow ==
  ASSUME TypeOK,
         \/ \E k \in Kinds : Create(k)
         \/ \E a \in {"cancel", "reschedule"} : EditSchedule(a)
         \/ \E s \in {"waiting", "active", "ended"} : SetStatus(s)
         \/ \E s \in {"active", "ended"} : ReportArrives(s) \/ ReportLost(s)
         \/ Invite \/ Revoke \/ RespondWrite \/ \E to \in {"accepted", "declined"} : Respond(to)
         \/ MakeLink \/ RevokeLink \/ LinkExpires
  PROVE  TypeOK'
<1>1. ASSUME NEW k \in Kinds, Create(k) PROVE TypeOK'
  BY <1>1 DEF TypeOK, Create
<1>2. ASSUME NEW a \in {"cancel", "reschedule"}, EditSchedule(a) PROVE TypeOK'
  BY <1>2 DEF TypeOK, EditSchedule, Statuses
<1>3. ASSUME NEW s \in {"waiting", "active", "ended"}, SetStatus(s) PROVE TypeOK'
  BY <1>3 DEF TypeOK, SetStatus, Statuses
<1>4. ASSUME NEW s \in {"active", "ended"}, ReportArrives(s) \/ ReportLost(s) PROVE TypeOK'
  <2>1. reports' = [reports EXCEPT ![s] = @ - 1] /\ reports[s] > 0
    BY <1>4 DEF ReportArrives, ReportLost
  <2>2. reports' \in [{"active", "ended"} -> 0..MaxReports]
    BY <2>1 DEF TypeOK
  <2>3. status' \in Statuses
    BY <1>4 DEF TypeOK, ReportArrives, ReportLost, Statuses
  <2> QED BY <1>4, <2>2, <2>3 DEF TypeOK, ReportArrives, ReportLost
<1>5. CASE Invite
  BY <1>5 DEF TypeOK, Invite
<1>6. CASE Revoke
  BY <1>6 DEF TypeOK, Revoke, NoAnswer
<1>7. CASE RespondWrite
  BY <1>7 DEF TypeOK, RespondWrite, NoAnswer
<1>8. ASSUME NEW to \in {"accepted", "declined"}, Respond(to) PROVE TypeOK'
  BY <1>8 DEF TypeOK, Respond
<1>9. CASE MakeLink \/ RevokeLink \/ LinkExpires
  BY <1>9 DEF TypeOK, MakeLink, RevokeLink, LinkExpires
<1> QED BY <1>1, <1>2, <1>3, <1>4, <1>5, <1>6, <1>7, <1>8, <1>9

\* Joining, being inside and the end of the room.
LEMMA TypeJoin ==
  ASSUME TypeOK,
         \/ RoomForgotten
         \/ \E p \in Person :
              \/ LoadPolicy(p) \/ CheckAccess(p) \/ CountUse(p) \/ AccessUnknown(p)
              \/ Enter(p) \/ Admit(p) \/ Leave(p) \/ EndMeeting(p)
  PROVE  TypeOK'
<1> DEFINE Place == [at : Stages \cup {"out", "waiting", "inside"}, ended : BOOLEAN, invited : BOOLEAN]
<1>a. join \in [Person -> Place] /\ Out \in Place
  BY DEF TypeOK, Out, At
<1>b. \A s \in Stages \cup {"out", "waiting", "inside"} : At(s) \in Place
  BY DEF At
<1>1. CASE RoomForgotten
  <2>1. join' \in [Person -> Place] BY <1>1, <1>a DEF RoomForgotten
  <2> QED BY <1>1, <2>1 DEF TypeOK, RoomForgotten
<1>2. ASSUME NEW p \in Person, LoadPolicy(p) PROVE TypeOK'
  <2>1. join' \in [Person -> Place] BY <1>2, <1>a DEF LoadPolicy, Stages
  <2> QED BY <1>2, <2>1 DEF TypeOK, LoadPolicy
<1>3. ASSUME NEW p \in Person, CheckAccess(p) PROVE TypeOK'
  <2>1. Invited(p) \in BOOLEAN BY DEF Invited
  <2>2. join' \in [Person -> Place] BY <1>3, <1>a, <2>1 DEF CheckAccess, Go, Stages
  <2> QED BY <1>3, <2>2 DEF TypeOK, CheckAccess
<1>4. ASSUME NEW p \in Person, CountUse(p) PROVE TypeOK'
  <2>1. join' \in [Person -> Place] BY <1>4, <1>a DEF CountUse, Stages
  <2>2. link' \in [state : {"none", "live", "expired", "revoked"}, uses : Nat]
    BY <1>4 DEF TypeOK, CountUse
  <2> QED BY <1>4, <2>1, <2>2 DEF TypeOK, CountUse
<1>5. ASSUME NEW p \in Person, AccessUnknown(p) PROVE TypeOK'
  <2>1. join' \in [Person -> Place] BY <1>5, <1>a DEF AccessUnknown, Go, Stages
  <2> QED BY <1>5, <2>1 DEF TypeOK, AccessUnknown
<1>6. ASSUME NEW p \in Person, Enter(p) PROVE TypeOK'
  <2>1. join' \in [Person -> Place] BY <1>6, <1>a, <1>b DEF Enter, Arrive, Refuse
  <2>2. started' \in BOOLEAN BY <1>6 DEF TypeOK, Enter
  <2>3. reports' \in [{"active", "ended"} -> 0..MaxReports] BY <1>6 DEF TypeOK, Enter
  <2> QED BY <1>6, <2>1, <2>2, <2>3 DEF TypeOK, Enter
<1>7. ASSUME NEW p \in Person, Admit(p) PROVE TypeOK'
  <2>1. join' \in [Person -> Place] BY <1>7, <1>a DEF Admit, Go
  <2> QED BY <1>7, <2>1 DEF TypeOK, Admit
<1>8. ASSUME NEW p \in Person, Leave(p) PROVE TypeOK'
  <2>1. join' \in [Person -> Place] BY <1>8, <1>a DEF Leave, Refuse
  <2> QED BY <1>8, <2>1 DEF TypeOK, Leave
<1>9. ASSUME NEW p \in Person, EndMeeting(p) PROVE TypeOK'
  <2>1. join' \in [Person -> Place] BY <1>9, <1>a DEF EndMeeting
  <2>2. reports' \in [{"active", "ended"} -> 0..MaxReports] BY <1>9 DEF TypeOK, EndMeeting
  <2> QED BY <1>9, <2>1, <2>2 DEF TypeOK, EndMeeting
<1> QED BY <1>1, <1>2, <1>3, <1>4, <1>5, <1>6, <1>7, <1>8, <1>9

\* Every variable keeps its domain, whatever queries and joins interleave.
THEOREM MeetingTyped == Spec => []TypeOK
<1>1. TypeOK /\ [Next]_vars => TypeOK'
  <2> SUFFICES ASSUME TypeOK, [Next]_vars PROVE TypeOK'
    OBVIOUS
  <2>1. CASE Next BY <2>1, TypeRow, TypeJoin DEF Next
  <2>2. CASE UNCHANGED vars BY <2>2 DEF TypeOK, vars
  <2> QED BY <2>1, <2>2
<1> QED BY <1>1, TypeInit, PTL DEF Spec

-----------------------------------------------------------------------------
\* Only CountUse adds a use, and only when one is left: guests who come in at
\* once cannot count more than max_uses between them.
THEOREM UsesBoundedAlways == Spec => []UsesBounded
<1>1. Init => UsesBounded
  BY DEF Init, UsesBounded
<1>2. TypeOK /\ UsesBounded /\ [Next]_vars => UsesBounded'
  <2> SUFFICES ASSUME TypeOK, UsesBounded, [Next]_vars PROVE UsesBounded'
    OBVIOUS
  <2>1. ASSUME NEW p \in Person, CountUse(p) PROVE UsesBounded'
    BY <2>1 DEF TypeOK, UsesBounded, CountUse, MayCount, LinkValid
  <2>2. CASE MakeLink \/ RevokeLink \/ LinkExpires
    BY <2>2 DEF TypeOK, UsesBounded, MakeLink, RevokeLink, LinkExpires
  <2>3. CASE UNCHANGED link
    BY <2>3 DEF UsesBounded
  <2>4. CASE UNCHANGED vars
    BY <2>4, <2>3 DEF vars
  <2> QED
    BY <2>1, <2>2, <2>3, <2>4 DEF Next, Create, EditSchedule, SetStatus, ReportArrives, ReportLost, Invite,
       Revoke, RespondWrite, Respond, RoomForgotten, LoadPolicy, CheckAccess, AccessUnknown, Enter, Admit,
       Leave, EndMeeting
<1> QED BY <1>1, <1>2, MeetingTyped, PTL DEF Spec

\* No step of the meeting service, of the host or of a late report takes a
\* cancelled meeting back to another status.
THEOREM CancelledIsFinalAlways == Spec => CancelledIsFinal
<1>1. [Next]_vars => [status = "cancelled" => status' = "cancelled"]_vars
  <2> SUFFICES ASSUME Next, status = "cancelled" PROVE status' = "cancelled"
    BY DEF vars
  <2>1. ASSUME NEW a \in {"cancel", "reschedule"}, EditSchedule(a) PROVE status' = "cancelled"
    BY <2>1 DEF EditSchedule, Editable
  <2>2. ASSUME NEW s \in {"waiting", "active", "ended"}, SetStatus(s) PROVE status' = "cancelled"
    BY <2>2 DEF SetStatus
  <2>3. ASSUME NEW s \in {"active", "ended"}, ReportArrives(s) PROVE status' = "cancelled"
    BY <2>3 DEF ReportArrives, MayReport
  <2> QED
    BY <2>1, <2>2, <2>3 DEF Next, Create, ReportLost, Invite, Revoke, RespondWrite, Respond, MakeLink,
       RevokeLink, LinkExpires, RoomForgotten, LoadPolicy, CheckAccess, CountUse, AccessUnknown, Enter,
       Admit, Leave, EndMeeting
<1> QED BY <1>1, PTL DEF Spec, CancelledIsFinal

\* A response under way was either begun while the invitation stood, or a
\* revocation has overtaken it.
ResponseKnown == invitation = "revoked" /\ response # NoAnswer => response.overtaken

LEMMA ResponseKnownAlways == Spec => []ResponseKnown
<1>1. Init => ResponseKnown
  BY DEF Init, ResponseKnown
<1>2. TypeOK /\ ResponseKnown /\ [Next]_vars => ResponseKnown'
  <2> SUFFICES ASSUME TypeOK, ResponseKnown, [Next]_vars PROVE ResponseKnown'
    OBVIOUS
  <2>1. CASE Invite
    BY <2>1 DEF ResponseKnown, Invite
  <2>2. CASE Revoke
    BY <2>2 DEF ResponseKnown, Revoke, TypeOK, NoAnswer
  <2>3. CASE RespondWrite
    BY <2>3 DEF ResponseKnown, RespondWrite
  <2>4. ASSUME NEW to \in {"accepted", "declined"}, Respond(to) PROVE ResponseKnown'
    BY <2>4 DEF ResponseKnown, Respond, MayRespond
  <2>5. CASE UNCHANGED <<invitation, response>>
    BY <2>5 DEF ResponseKnown
  <2>6. CASE UNCHANGED vars
    BY <2>5, <2>6 DEF vars
  <2> QED
    BY <2>1, <2>2, <2>3, <2>4, <2>5, <2>6 DEF Next, Create, EditSchedule, SetStatus, ReportArrives, ReportLost,
       MakeLink, RevokeLink, LinkExpires, RoomForgotten, LoadPolicy, CheckAccess, CountUse, AccessUnknown,
       Enter, Admit, Leave, EndMeeting
<1> QED BY <1>1, <1>2, MeetingTyped, PTL DEF Spec

\* A revoked invitation is overwritten only by a response that was read before
\* the revocation.
THEOREM RevokedStaysAlways == Spec => RevokedStays
<1>1. TypeOK /\ ResponseKnown /\ [Next]_vars =>
        [invitation = "revoked" /\ invitation' \in {"accepted", "declined"} => response.overtaken]_vars
  <2> SUFFICES ASSUME TypeOK, ResponseKnown, Next, invitation = "revoked", invitation' \in {"accepted", "declined"}
               PROVE  response.overtaken
    BY DEF vars
  <2>1. CASE RespondWrite
    BY <2>1 DEF RespondWrite, ResponseKnown
  <2> QED
    BY <2>1 DEF Next, Create, EditSchedule, SetStatus, ReportArrives, ReportLost, Invite, Revoke, Respond,
       MakeLink, RevokeLink, LinkExpires, RoomForgotten, LoadPolicy, CheckAccess, CountUse, AccessUnknown,
       Enter, Admit, Leave, EndMeeting
<1> QED BY <1>1, MeetingTyped, ResponseKnownAlways, PTL DEF Spec, RevokedStays

-----------------------------------------------------------------------------
(* What can no longer happen. *)

\* Cancelled, with nobody in and nobody on the way in.
CalledOff == status = "cancelled" /\ NobodyJoins /\ ~started

\* The policy of a cancelled meeting lets nobody begin to join, and only who
\* began starts a meeting.
LEMMA CalledOffStays == TypeOK /\ CalledOff /\ [Next]_vars => CalledOff'
<1> SUFFICES ASSUME TypeOK, CalledOff, [Next]_vars PROVE CalledOff'
  OBVIOUS
<1>0. status = "cancelled" /\ NobodyJoins /\ started = FALSE
  BY DEF CalledOff, TypeOK
<1>a. \A p \in Person : join[p].at \notin {"access", "counting", "entering"}
  BY <1>0 DEF NobodyJoins, Stages
<1>b. join \in [Person -> [at : Stages \cup {"out", "waiting", "inside"}, ended : BOOLEAN, invited : BOOLEAN]]
  BY DEF TypeOK
<1>1. ASSUME status' = "cancelled", UNCHANGED <<join, started>> PROVE CalledOff'
  BY <1>0, <1>1 DEF CalledOff, NobodyJoins
<1>2. ASSUME status' = "cancelled", started' \in {started, FALSE}, \A p \in Person : join'[p].at \in {"out", "waiting", "inside"}
      PROVE  CalledOff'
  BY <1>0, <1>2 DEF CalledOff, NobodyJoins, Stages
<1>3. ASSUME NEW a \in {"cancel", "reschedule"}, EditSchedule(a) PROVE CalledOff'
  BY <1>0, <1>1, <1>3 DEF EditSchedule, Editable
<1>4. ASSUME NEW s \in {"active", "ended"}, ReportArrives(s) \/ ReportLost(s) PROVE CalledOff'
  BY <1>0, <1>1, <1>4 DEF ReportArrives, ReportLost, MayReport
<1>5. ASSUME NEW p \in Person, LoadPolicy(p) \/ CheckAccess(p) \/ CountUse(p) \/ AccessUnknown(p) \/ Enter(p)
      PROVE  CalledOff'
  BY <1>0, <1>a, <1>5 DEF LoadPolicy, Refused, CheckAccess, CountUse, AccessUnknown, Enter
<1>6. ASSUME NEW p \in Person, Admit(p) \/ Leave(p) PROVE CalledOff'
  <2>1. /\ join[p].at \in {"waiting", "inside"} /\ UNCHANGED <<status, started>>
        /\ join' = [join EXCEPT ![p].at = "inside"] \/ join' = [join EXCEPT ![p] = Out]
    BY <1>6 DEF Admit, Leave, Go, Refuse
  <2>2. \A q \in Person : join'[q].at \in Stages => join[q].at \in Stages
    BY <1>b, <2>1 DEF Out, At, Stages
  <2> QED BY <1>0, <2>1, <2>2 DEF CalledOff, NobodyJoins
<1>7. ASSUME NEW p \in Person, EndMeeting(p) PROVE CalledOff'
  <2>1. \A q \in Person : join'[q].at \in Stages => join[q].at \in Stages
    BY <1>b, <1>7 DEF EndMeeting, Out, At, Stages
  <2> QED BY <1>0, <1>7, <2>1 DEF EndMeeting, CalledOff, NobodyJoins
<1>8. CASE RoomForgotten
  BY <1>0, <1>2, <1>8 DEF RoomForgotten, Out, At
<1>9. ASSUME NEW s \in {"waiting", "active", "ended"}, SetStatus(s) PROVE CalledOff'
  BY <1>0, <1>9 DEF SetStatus
<1>10. CASE UNCHANGED vars
  BY <1>0, <1>1, <1>10 DEF vars
<1>11. CASE UNCHANGED <<status, join, started>>
  BY <1>0, <1>1, <1>11
<1> QED
  BY <1>3, <1>4, <1>5, <1>6, <1>7, <1>8, <1>9, <1>10, <1>11 DEF Next, Create, Invite, Revoke, RespondWrite, Respond,
     MakeLink, RevokeLink, LinkExpires

\* Once a cancelled meeting is empty and nobody is on the way in, no late report,
\* no host and no link starts it again.
THEOREM NeverHeldAgain == Spec => CancelledNeverHeld
<1>1. CalledOff => ~started
  BY DEF CalledOff
<1>2. CalledOff <=> (status = "cancelled" /\ NobodyJoins /\ ~started)
  BY DEF CalledOff
<1> QED BY <1>1, <1>2, CalledOffStays, MeetingTyped, PTL DEF Spec, CancelledNeverHeld

\* The link is revoked, and no guest has been found invited by it since.
Uninvited ==
    /\ link.state = "revoked"
    /\ \A g \in Guest \ {Member} : join[g].at # "counting" /\ (join[g].at \in {"access", "entering"} => ~join[g].invited)

\* A revoked link is not made again, and a check that begins after it neither
\* counts a use nor finds an invitation.
LEMMA UninvitedStays == TypeOK /\ Uninvited /\ [Next]_vars => Uninvited'
<1> SUFFICES ASSUME TypeOK, Uninvited, [Next]_vars PROVE Uninvited'
  OBVIOUS
<1> DEFINE Fine(j) == j.at # "counting" /\ (j.at \in {"access", "entering"} => ~j.invited)
           Place == [at : Stages \cup {"out", "waiting", "inside"}, ended : BOOLEAN, invited : BOOLEAN]
<1>a. /\ link.state = "revoked" /\ \A g \in Guest \ {Member} : Fine(join[g]) /\ g \in Person
      /\ join \in [Person -> Place] /\ ~LinkValid
  BY DEF Uninvited, TypeOK, LinkValid, Person
<1>b. ASSUME link'.state = "revoked", \A g \in Guest \ {Member} : Fine(join'[g]) PROVE Uninvited'
  BY <1>b DEF Uninvited
<1>c. \A s : Fine(At(s)) \/ s = "counting"
  BY DEF At
<1>1. CASE UNCHANGED <<link, join>>
  BY <1>1, <1>a DEF Uninvited
<1>2. CASE MakeLink \/ RevokeLink \/ LinkExpires
  <2>1. link'.state = "revoked" /\ UNCHANGED join
    BY <1>2, <1>a DEF MakeLink, RevokeLink, LinkExpires, TypeOK
  <2> QED BY <1>a, <1>b, <2>1
<1>3. ASSUME NEW p \in Person, UNCHANGED link, p \in Guest \ {Member} => Fine(join'[p]),
             \A q \in Person \ {p} : join'[q] = join[q]
      PROVE  Uninvited'
  BY <1>3, <1>a DEF Uninvited
<1>4. ASSUME NEW p \in Person, LoadPolicy(p) PROVE Uninvited'
  <2>1. join'[p] = [at |-> "access", ended |-> status = "ended", invited |-> FALSE]
    BY <1>4, <1>a DEF LoadPolicy
  <2>2. UNCHANGED link /\ \A q \in Person \ {p} : join'[q] = join[q]
    BY <1>4, <1>a DEF LoadPolicy
  <2> QED BY <1>3, <2>1, <2>2
<1>5. ASSUME NEW p \in Person, CheckAccess(p) PROVE Uninvited'
  <2>1. UNCHANGED link /\ join' = [join EXCEPT ![p].at = "entering", ![p].invited = Invited(p)]
    BY <1>5, <1>a DEF CheckAccess
  <2>2. p # Member => Invited(p) = FALSE
    BY DEF Invited
  <2>3. p # Member => Fine(join'[p])
    BY <1>a, <2>1, <2>2
  <2> QED BY <1>3, <1>a, <2>1, <2>3
<1>6. ASSUME NEW p \in Person, CountUse(p) PROVE Uninvited'
  <2>1. /\ p \notin Guest \ {Member} /\ UNCHANGED link
        /\ join' = [join EXCEPT ![p].at = "entering", ![p].invited = TRUE]
    BY <1>6, <1>a DEF CountUse, MayCount
  <2> QED BY <1>3, <1>a, <2>1
<1>7. ASSUME NEW p \in Person, AccessUnknown(p) PROVE Uninvited'
  <2>1. /\ UNCHANGED link /\ join' = [join EXCEPT ![p].at = "entering"] /\ join[p].at \in {"access", "counting"}
    BY <1>7 DEF AccessUnknown, Go
  <2>2. p \in Guest \ {Member} => Fine(join'[p])
    BY <1>a, <2>1
  <2> QED BY <1>3, <1>a, <2>1, <2>2
<1>8. ASSUME NEW p \in Person, Enter(p) \/ Admit(p) \/ Leave(p) PROVE Uninvited'
  <2>1. /\ UNCHANGED link
        /\ \/ \E s \in {"out", "waiting", "inside"} : join' = [join EXCEPT ![p] = At(s)]
           \/ join' = [join EXCEPT ![p].at = "inside"]
    BY <1>8 DEF Enter, Admit, Leave, Go, Refuse, Arrive, Out
  <2>2. CASE join' = [join EXCEPT ![p].at = "inside"]
    BY <1>3, <1>a, <2>1, <2>2
  <2>3. ASSUME NEW s \in {"out", "waiting", "inside"}, join' = [join EXCEPT ![p] = At(s)] PROVE Uninvited'
    <3>1. join'[p] = At(s) /\ \A q \in Person \ {p} : join'[q] = join[q]
      BY <1>a, <2>3
    <3>2. Fine(At(s))
      BY <1>c
    <3> HIDE DEF Fine
    <3> QED BY <1>3, <2>1, <3>1, <3>2
  <2> QED BY <2>1, <2>2, <2>3
<1>9. ASSUME RoomForgotten \/ \E p \in Person : EndMeeting(p) PROVE Uninvited'
  <2>1. UNCHANGED link /\ \A q \in Person : join'[q] \in {Out, join[q]}
    BY <1>9 DEF RoomForgotten, EndMeeting
  <2>2. Fine(Out)
    BY <1>c DEF Out
  <2> HIDE DEF Fine
  <2> QED BY <1>a, <1>b, <2>1, <2>2
<1>10. CASE UNCHANGED vars
  BY <1>1, <1>10 DEF vars
<1> QED
  BY <1>1, <1>2, <1>4, <1>5, <1>6, <1>7, <1>8, <1>9, <1>10 DEF Next, Create, EditSchedule, SetStatus, ReportArrives,
     ReportLost, Invite, Revoke, RespondWrite, Respond

\* Who comes after the guest link was revoked is not let in as somebody invited.
THEOREM RevokedLinkIsDead == Spec => RevokedLinkOpensNothing
<1> DEFINE Nobody == \A g \in Guest \ {Member} : join[g].at = "entering" => ~join[g].invited
<1>1. link.state = "revoked" /\ NobodyJoins => Uninvited
  BY DEF Uninvited, NobodyJoins, Stages, Person
<1>2. Uninvited => Nobody
  BY DEF Uninvited
<1> QED BY <1>1, <1>2, UninvitedStays, MeetingTyped, PTL DEF Spec, RevokedLinkOpensNothing

HIDE MeetingAssumption

-----------------------------------------------------------------------------
(* Recording links.                                                        *)

USE RequestAssumption, BoundAssumption

Shape == [kind : Kind, at : Step, token : Token \cup {None}, known : SUBSET Token]

\* What is known of the store, the requests and the history.
Typed ==
    /\ file \in BOOLEAN /\ pointers \subseteq Token /\ marker \in Token \cup {None}
    /\ request \in [Request -> Shape]
    /\ \A r \in Request : request[r].kind \in Changes \/ request[r].at \in {"point", "mark"} => r \in Change
    /\ faults \in 0..MaxFaults
    /\ issued \subseteq Token /\ rivals \subseteq Token /\ withdrawn \subseteq issued

\* What is known of the slots: only an upload that has begun holds one.
Counted ==
    /\ uploads \in 0..MaxUploads /\ held \subseteq Upload
    /\ \A r \in held : request[r].at # "idle"
    /\ UploadSlots

Passed == {"unpoint", "point", "mark"}   \* the old marker is gone

\* A token is issued by the last step of its share; a change remembers tokens
\* issued before it; once it has removed the marker, the marker names none of
\* them again.
Remembered ==
    /\ \A t \in issued : request[t].at = "done"
    /\ \A r \in Request : request[r].kind \in Changes => request[r].known \subseteq issued
    /\ \A r \in Request : request[r].kind \in Changes /\ request[r].at \in Passed => marker \notin request[r].known

\* The marker names no withdrawn token, so a viewer past it does not bring one.
Withdrawal ==
    /\ marker \notin withdrawn
    /\ \A r \in Request : request[r].kind = "view" => request[r].known \subseteq withdrawn
    /\ \A r \in Request : request[r].kind = "view" /\ request[r].at \in {"head", "done"}
                             => request[r].token \notin request[r].known

LinkInv == Typed /\ Remembered /\ Withdrawal

\* A step of request r to stage s leaves the other requests alone.
LEMMA ToStep ==
  ASSUME request \in [Request -> Shape], NEW r \in Request, NEW s \in Step, To(r, s)
  PROVE  /\ request' \in [Request -> Shape]
         /\ \A q \in Request : q # r => request'[q] = request[q]
         /\ request'[r].at = s /\ request'[r].kind = request[r].kind
         /\ request'[r].known \subseteq request[r].known
         /\ request[r].kind = "view" => request'[r].known = request[r].known /\ request'[r].token = request[r].token
<1>1. request[r] \in Shape OBVIOUS
<1>2. request'[r] = IF s \in Over /\ request[r].kind # "view" THEN Finished(request[r], s)
                    ELSE [request[r] EXCEPT !.at = s]
  BY DEF To
<1>3. Finished(request[r], s) = [request[r] EXCEPT !.at = s, !.token = None, !.known = {}]
  BY DEF Finished
<1>4. Finished(request[r], s) \in Shape /\ [request[r] EXCEPT !.at = s] \in Shape
  BY <1>1, <1>3 DEF Shape
<1>5. request' \in [Request -> Shape]
  BY <1>2, <1>4 DEF To
<1>6. \A q \in Request : q # r => request'[q] = request[q]
  BY DEF To
<1>7. CASE s \in Over /\ request[r].kind # "view"
  BY <1>1, <1>2, <1>3, <1>5, <1>6, <1>7 DEF Shape
<1>8. CASE ~(s \in Over /\ request[r].kind # "view")
  BY <1>1, <1>2, <1>5, <1>6, <1>8 DEF Shape
<1> QED BY <1>7, <1>8

\* What the store does for one call: the marker is removed, kept or made to
\* name the share that writes it.
LEMMA ApplyStep ==
  ASSUME Typed, NEW r \in Request, Apply(r), request[r].at = "mark" \/ request[r].at = "point" => r \in Change
  PROVE  /\ file' \in BOOLEAN /\ pointers' \subseteq Token /\ marker' \in Token \cup {None}
         /\ marker' \in {marker, None} \/ (request[r].at = "mark" /\ marker' = r)
         /\ request[r].at = "unmark" => marker' = None
         /\ request[r].at \notin {"unmark", "mark"} => marker' = marker
  BY DEF Typed, Apply, NewMark, Token

-----------------------------------------------------------------------------
(* The links: one lemma for each group of actions. *)

LEMMA LinkInit == LinksInit => LinkInv
<1> SUFFICES ASSUME LinksInit PROVE LinkInv
  OBVIOUS
<1>1. request \in [Request -> Shape]
  BY DEF LinksInit, Shape, Kind, Step
<1>2. file \in BOOLEAN /\ pointers = {} /\ marker = None /\ faults = 0 /\ issued = {} /\ rivals = {} /\ withdrawn = {}
  BY DEF LinksInit
<1>3. \A r \in Request : request[r].kind = "none" /\ request[r].at = "idle"
  BY DEF LinksInit
<1>4. Typed
  BY <1>1, <1>2, <1>3 DEF Typed, Changes
<1> QED BY <1>2, <1>3, <1>4 DEF LinkInv, Remembered, Withdrawal, Changes, Token

\* A request begins.
LEMMA LinkArrive ==
  ASSUME LinkInv,
         \/ \E r \in Upload : BeginUpload(r)
         \/ \E r \in Change, k \in Changes : BeginChange(r, k)
         \/ \E r \in Viewer, t \in issued : BeginView(r, t)
  PROVE  LinkInv'
<1>0. Typed /\ Remembered /\ Withdrawal
  BY DEF LinkInv
<1>1. ASSUME NEW r \in Request, NEW k \in Kind, NEW s \in {"body", "locate", "pointer"},
             NEW t \in Token \cup {None}, NEW known \in SUBSET issued, Receive(r, k, s, t, known),
             k \in Changes => r \in Change, k = "view" => known = withdrawn,
             file' = file, pointers' = pointers, marker' = marker, faults' = faults,
             issued' = issued, withdrawn' = withdrawn, rivals' \subseteq Token
      PROVE  LinkInv'
  <2>1. request' \in [Request -> Shape]
    BY <1>0, <1>1 DEF Typed, Receive, Shape, Step
  <2>2. \A q \in Request : q # r => request'[q] = request[q]
    BY <1>1 DEF Receive, Typed
  <2>3. request'[r] = [kind |-> k, at |-> s, token |-> t, known |-> known] /\ request[r].at = "idle"
    BY <1>0, <1>1 DEF Receive, Typed
  <2>4. Typed'
    BY <1>0, <1>1, <2>1, <2>2, <2>3 DEF Typed
  <2>5. \A q \in issued : q # r
    BY <1>0, <2>3 DEF Remembered
  <2>6. Remembered'
    BY <1>0, <1>1, <2>2, <2>3, <2>5 DEF Typed, Remembered, Passed, Request, Token
  <2>7. Withdrawal'
    BY <1>0, <1>1, <2>2, <2>3 DEF Withdrawal, Changes
  <2> QED BY <2>4, <2>6, <2>7 DEF LinkInv
<1>2. ASSUME NEW r \in Upload, BeginUpload(r) PROVE LinkInv'
  <2>1. r \in Request /\ "upload" \in Kind /\ "upload" \notin Changes /\ {} \in SUBSET issued
    BY DEF Request, Kind, Changes
  <2>2. /\ Receive(r, "upload", "body", None, {}) /\ file' = file /\ pointers' = pointers /\ marker' = marker
        /\ faults' = faults /\ issued' = issued /\ withdrawn' = withdrawn /\ rivals' \subseteq Token
    BY <1>0, <1>2 DEF BeginUpload, store, history, Typed
  <2> QED BY <1>1, <2>1, <2>2
<1>3. ASSUME NEW r \in Change, NEW k \in Changes, BeginChange(r, k) PROVE LinkInv'
  <2>1. rivals' \subseteq Token
    <3>1. Running({"share"}) \subseteq Token
      BY <1>0 DEF Typed, Running, Changes, Token
    <3> QED BY <1>0, <1>3, <3>1 DEF Typed, BeginChange, Token
  <2>2. r \in Request /\ k \in Kind /\ k # "view" /\ issued \in SUBSET issued
    BY DEF Request, Kind, Changes
  <2>3. /\ Receive(r, k, "locate", None, issued) /\ file' = file /\ pointers' = pointers /\ marker' = marker
        /\ faults' = faults /\ issued' = issued /\ withdrawn' = withdrawn
    BY <1>3 DEF BeginChange, store
  <2> QED BY <1>1, <2>1, <2>2, <2>3
<1>4. ASSUME NEW r \in Viewer, NEW t \in issued, BeginView(r, t) PROVE LinkInv'
  <2>1. r \in Request /\ "view" \in Kind /\ "view" \notin Changes /\ t \in Token /\ withdrawn \in SUBSET issued
    BY <1>0 DEF Request, Kind, Changes, Typed
  <2>2. /\ Receive(r, "view", "pointer", t, withdrawn) /\ file' = file /\ pointers' = pointers /\ marker' = marker
        /\ faults' = faults /\ issued' = issued /\ withdrawn' = withdrawn /\ rivals' \subseteq Token
    BY <1>0, <1>4 DEF BeginView, store, history, Typed
  <2> QED BY <1>1, <2>1, <2>2
<1> QED BY <1>2, <1>3, <1>4

\* A request goes from one stage to the next, or fails, with what the store did.
LEMMA LinkStep ==
  ASSUME LinkInv, NEW r \in Request, NEW s \in Step \ {"idle"}, To(r, s), request[r].at \notin Over,
         UNCHANGED store \/ Apply(r), s \in {"point", "mark"} => r \in Change,
         request[r].kind \in Changes /\ s \in Passed => request[r].at \in Passed \/ (request[r].at = "unmark" /\ Apply(r)),
         request[r].kind = "view" /\ s \in {"head", "done"} =>
             request[r].at = "head" \/ (request[r].at = "marker" /\ marker = request[r].token),
         faults' \in 0..MaxFaults, UNCHANGED history
  PROVE  LinkInv'
<1>0. Typed /\ Remembered /\ Withdrawal
  BY DEF LinkInv
<1>1. /\ request' \in [Request -> Shape]
      /\ \A q \in Request : q # r => request'[q] = request[q]
      /\ request'[r].at = s /\ request'[r].kind = request[r].kind
      /\ request'[r].known \subseteq request[r].known
      /\ request[r].kind = "view" => request'[r].known = request[r].known /\ request'[r].token = request[r].token
  BY <1>0, ToStep DEF Typed
<1>2. /\ file' \in BOOLEAN /\ pointers' \subseteq Token /\ marker' \in Token \cup {None}
      /\ marker' \in {marker, None} \/ (request[r].at = "mark" /\ marker' = r)
      /\ request[r].at = "unmark" /\ Apply(r) => marker' = None
      /\ request[r].at \notin {"unmark", "mark"} => marker' = marker
  BY <1>0, ApplyStep DEF store, Typed
<1>3. issued' = issued /\ rivals' = rivals /\ withdrawn' = withdrawn
  BY DEF history
<1>4. Typed'
  BY <1>0, <1>1, <1>2, <1>3 DEF Typed
<1>5. r \notin issued /\ None \notin issued
  BY <1>0 DEF Remembered, Over, Typed, Token
<1>6. Remembered'
  <2>1. \A t \in issued : request'[t].at = "done"
    BY <1>0, <1>1, <1>5 DEF Remembered, Typed, Request, Token
  <2>2. \A q \in Request : request'[q].kind \in Changes => request'[q].known \subseteq issued
    BY <1>0, <1>1 DEF Remembered
  <2>3. ASSUME NEW q \in Request, request'[q].kind \in Changes, request'[q].at \in Passed
        PROVE  marker' \notin request'[q].known
    <3>1. request'[q].known \subseteq request[q].known /\ request[q].known \subseteq issued
      BY <1>0, <1>1, <2>3 DEF Remembered
    <3>2. CASE marker' \in {None, r}
      BY <1>5, <3>1, <3>2
    <3>3. CASE marker' = marker /\ marker # None
      <4>1. request[q].at \in Passed
        BY <1>1, <1>2, <2>3, <3>3
      <4> QED BY <1>0, <1>1, <2>3, <3>1, <3>3, <4>1 DEF Remembered
    <3> QED BY <1>2, <3>2, <3>3
  <2> QED BY <1>3, <2>1, <2>2, <2>3 DEF Remembered
<1>7. Withdrawal'
  <2>1. marker' \notin withdrawn
    BY <1>0, <1>2, <1>5 DEF Withdrawal, Typed
  <2>2. \A q \in Request : request'[q].kind = "view" => request'[q].known \subseteq withdrawn
    BY <1>0, <1>1 DEF Withdrawal
  <2>3. \A q \in Request : request'[q].kind = "view" /\ request'[q].at \in {"head", "done"}
                               => request'[q].token \notin request'[q].known
    BY <1>0, <1>1 DEF Withdrawal
  <2> QED BY <1>3, <2>1, <2>2, <2>3 DEF Withdrawal
<1> QED BY <1>4, <1>6, <1>7 DEF LinkInv

LEMMA LinkRead == ASSUME LinkInv, NEW r \in Change, ReadMarker(r) PROVE LinkInv'
<1>0. Typed /\ Remembered /\ Withdrawal
  BY DEF LinkInv
<1>1. /\ r \in Request /\ request[r].kind \in Changes /\ request[r].at = "read"
      /\ request' = [request EXCEPT ![r].at = "unmark", ![r].token = marker]
      /\ UNCHANGED <<file, pointers, marker, faults, issued, rivals, withdrawn>>
  BY DEF ReadMarker, IsAt, Request, store, history
<1>2. request[r] \in Shape
  BY <1>0, <1>1 DEF Typed
<1>3. request'[r] = [request[r] EXCEPT !.at = "unmark", !.token = marker]
  BY <1>0, <1>1 DEF Typed
<1>4. request' \in [Request -> Shape] /\ request'[r].at = "unmark" /\ request'[r].kind = request[r].kind
      /\ request'[r].known = request[r].known /\ \A q \in Request : q # r => request'[q] = request[q]
  BY <1>0, <1>1, <1>2, <1>3 DEF Typed, Shape, Step
<1>5. Typed'
  BY <1>0, <1>1, <1>4 DEF Typed
<1>6. Remembered'
  BY <1>0, <1>1, <1>4 DEF Typed, Remembered, Passed, Request, Token
<1>7. Withdrawal'
  BY <1>0, <1>1, <1>4 DEF Withdrawal, Changes
<1> QED BY <1>5, <1>6, <1>7 DEF LinkInv

\* A change is confirmed: what it withdraws the marker no longer names.
LEMMA LinkConfirm ==
  ASSUME LinkInv, NEW r \in Change,
         (Unpoint(r) /\ request[r].kind # "share") \/ Mark(r)
  PROVE  LinkInv'
<1>0. Typed /\ Remembered /\ Withdrawal
  BY DEF LinkInv
<1>1. /\ r \in Request /\ request[r].kind \in Changes /\ request[r].at \in {"unpoint", "mark"}
      /\ To(r, "done") /\ Apply(r) /\ faults' = faults /\ rivals' = rivals
      /\ withdrawn' = withdrawn \cup request[r].known
      /\ issued' = IF request[r].at = "mark" THEN issued \cup {r} ELSE issued
  BY DEF Unpoint, Mark, Confirmed, IsAt, Request, history, Changes
<1>2. /\ request' \in [Request -> Shape]
      /\ \A q \in Request : q # r => request'[q] = request[q]
      /\ request'[r].at = "done" /\ request'[r].kind = request[r].kind
      /\ request'[r].known \subseteq request[r].known
  BY <1>0, <1>1, ToStep DEF Typed, Step
<1>3. /\ file' \in BOOLEAN /\ pointers' \subseteq Token /\ marker' \in Token \cup {None}
      /\ marker' \in {marker, None} \/ (request[r].at = "mark" /\ marker' = r)
      /\ request[r].at \notin {"unmark", "mark"} => marker' = marker
      /\ request[r].at = "mark" => marker' = r
  BY <1>0, <1>1, ApplyStep DEF Typed, Apply, NewMark
<1>4. r \notin issued /\ None \notin issued /\ request[r].known \subseteq issued /\ marker \notin request[r].known
      /\ issued' \subseteq Token
  BY <1>0, <1>1 DEF Remembered, Typed, Token, Passed
<1>5. Typed'
  BY <1>0, <1>1, <1>2, <1>3, <1>4 DEF Typed
<1>6. Remembered'
  <2>1. \A t \in issued' : request'[t].at = "done"
    BY <1>0, <1>1, <1>2, <1>4 DEF Remembered, Typed, Request, Token
  <2>2. \A q \in Request : request'[q].kind \in Changes => request'[q].known \subseteq issued'
    BY <1>0, <1>1, <1>2 DEF Remembered
  <2>3. ASSUME NEW q \in Request, request'[q].kind \in Changes, request'[q].at \in Passed
        PROVE  marker' \notin request'[q].known
    <3>1. q # r /\ request'[q] = request[q]
      BY <1>2, <2>3 DEF Passed
    <3> QED BY <1>0, <1>3, <1>4, <2>3, <3>1 DEF Remembered
  <2> QED BY <2>1, <2>2, <2>3 DEF Remembered
<1>7. Withdrawal'
  <2>1. marker' \notin withdrawn'
    BY <1>0, <1>1, <1>3, <1>4 DEF Withdrawal, Typed
  <2>2. \A q \in Request : request'[q].kind = "view" => q # r
    BY <1>1, <1>2 DEF Changes
  <2> QED BY <1>0, <1>1, <1>2, <2>1, <2>2 DEF Withdrawal
<1> QED BY <1>5, <1>6, <1>7 DEF LinkInv

LEMMA LinkRestart == ASSUME LinkInv, Restart PROVE LinkInv'
<1>0. Typed /\ Remembered /\ Withdrawal
  BY DEF LinkInv
<1>1. /\ request' = [r \in Request |-> IF request[r].at \in Over THEN request[r] ELSE Finished(request[r], "failed")]
      /\ faults' \in 0..MaxFaults /\ UNCHANGED <<file, pointers, marker, issued, rivals, withdrawn>>
  BY <1>0 DEF Restart, store, history, Typed
<1>2. ASSUME NEW r \in Request
      PROVE  /\ request'[r] \in Shape /\ request'[r].kind = request[r].kind
             /\ request'[r] = request[r] \/ (request'[r].at = "failed" /\ request'[r].known = {})
             /\ request[r].at = "done" => request'[r] = request[r]
  <2>1. request[r] \in Shape
    BY <1>0 DEF Typed
  <2>2. request'[r] = IF request[r].at \in Over THEN request[r]
                      ELSE [request[r] EXCEPT !.at = "failed", !.token = None, !.known = {}]
    BY <1>1 DEF Finished
  <2> QED BY <2>1, <2>2 DEF Shape, Over, Step
<1>3. request' \in [Request -> Shape]
  BY <1>1, <1>2
<1>4. Typed'
  BY <1>0, <1>1, <1>2, <1>3 DEF Typed
<1>5. Remembered'
  BY <1>0, <1>1, <1>2 DEF Typed, Remembered, Passed, Request, Token
<1>6. Withdrawal'
  BY <1>0, <1>1, <1>2 DEF Withdrawal
<1> QED BY <1>4, <1>5, <1>6 DEF LinkInv

LEMMA LinkNext == LinkInv /\ [LinksNext]_linkVars => LinkInv'
<1> SUFFICES ASSUME LinkInv, [LinksNext]_linkVars PROVE LinkInv'
  OBVIOUS
<1>0. faults \in 0..MaxFaults
  BY DEF LinkInv, Typed
<1>1. ASSUME NEW r \in Upload, ReadBody(r) \/ PutFile(r) \/ Compare(r) PROVE LinkInv'
  <2>1. PICK s \in {"put", "failed", "compare", "done"} : To(r, s)
    BY <1>1 DEF ReadBody, PutFile, Compare
  <2>2. /\ r \in Request /\ request[r].kind = "upload" /\ request[r].at \in {"body", "put", "compare"}
        /\ (UNCHANGED store \/ Apply(r)) /\ UNCHANGED history /\ faults' = faults
    BY <1>1 DEF ReadBody, PutFile, Compare, IsAt, Request
  <2> QED BY <1>0, <2>1, <2>2, LinkStep DEF Step, Over, Changes
<1>2. ASSUME NEW r \in Change, Locate(r) \/ Erase(r) PROVE LinkInv'
  <2>1. PICK s \in {"failed", "erase", "read"} : To(r, s)
    BY <1>2 DEF Locate, Erase
  <2>2. /\ r \in Request /\ request[r].kind \in Changes /\ request[r].at \in {"locate", "erase"}
        /\ (UNCHANGED store \/ Apply(r)) /\ UNCHANGED history /\ faults' = faults
    BY <1>2 DEF Locate, Erase, IsAt, Request, Changes
  <2> QED BY <1>0, <2>1, <2>2, LinkStep DEF Step, Over, Changes, Passed
<1>3. ASSUME NEW r \in Change, Unmark(r) \/ Point(r) \/ (Unpoint(r) /\ request[r].kind = "share") PROVE LinkInv'
  <2>1. PICK s \in {"unpoint", "point", "mark"} : To(r, s)
    BY <1>3 DEF Unmark, Point, Unpoint
  <2>2. /\ r \in Request /\ request[r].kind \in Changes /\ request[r].at \in {"unmark", "unpoint", "point"}
        /\ Apply(r) /\ UNCHANGED history /\ faults' = faults
    BY <1>3 DEF Unmark, Point, Unpoint, IsAt, Request, Changes, history
  <2> QED BY <1>0, <2>1, <2>2, LinkStep DEF Step, Over, Changes, Passed
<1>4. ASSUME NEW r \in Viewer, View(r) PROVE LinkInv'
  <2>1. PICK s \in {"marker", "failed", "head", "done"} :
          /\ To(r, s)
          /\ s = "head" => request[r].at = "marker" /\ marker = request[r].token
          /\ s = "done" => request[r].at = "head"
    BY <1>4 DEF View, IsAt, MarkerNames
  <2>2. /\ r \in Request /\ request[r].kind = "view" /\ request[r].at \in {"pointer", "marker", "head"}
        /\ UNCHANGED store /\ UNCHANGED history /\ faults' = faults
    BY <1>4 DEF View, IsAt, Request
  <2> QED BY <1>0, <2>1, <2>2, LinkStep DEF Step, Over, Changes
<1>5. ASSUME NEW r \in Request, StoreFails(r) PROVE LinkInv'
  <2>1. /\ To(r, "failed") /\ (UNCHANGED store \/ Apply(r)) /\ UNCHANGED history
        /\ faults' \in 0..MaxFaults /\ request[r].at \notin Over
    BY <1>0, <1>5 DEF StoreFails
  <2>2. "failed" \in Step \ {"idle"} /\ "failed" \notin Passed
    BY DEF Step, Passed
  <2> QED BY <2>1, <2>2, LinkStep
<1>6. ASSUME UNCHANGED <<store, request, faults, history>> PROVE LinkInv'
  BY <1>6 DEF LinkInv, Typed, Remembered, Withdrawal, store, history
<1>7. ASSUME NEW r \in Upload, Release(r) PROVE LinkInv'
  BY <1>6, <1>7 DEF Release
<1>8. CASE UNCHANGED linkVars
  BY <1>6, <1>8 DEF linkVars
<1>9. ASSUME NEW r \in Change, Unpoint(r) \/ Mark(r) PROVE LinkInv'
  BY <1>3, <1>9, LinkConfirm
<1> QED
  BY <1>1, <1>2, <1>3, <1>4, <1>5, <1>7, <1>8, <1>9, LinkArrive, LinkRead, LinkRestart DEF LinksNext

-----------------------------------------------------------------------------
(* The slots. *)

LEMMA SlotsInit == LinksInit => Counted
  BY FS_EmptySet DEF LinksInit, Counted, UploadSlots

LEMMA SlotsStep == Typed /\ Counted /\ [LinksNext]_linkVars => Counted'
<1> SUFFICES ASSUME Typed, Counted, [LinksNext]_linkVars PROVE Counted'
  OBVIOUS
<1>a. IsFiniteSet(held) /\ Cardinality(held) = uploads /\ held \subseteq Request
  BY FS_Subset DEF Counted, UploadSlots, Request
<1>b. request \in [Request -> Shape]
  BY DEF Typed
<1>1. ASSUME NEW r \in Upload, BeginUpload(r) PROVE Counted'
  <2>1. r \notin held
    BY <1>1 DEF Counted, BeginUpload, Receive
  <2>2. Cardinality(held \cup {r}) = uploads + 1
    BY <1>a, <2>1, FS_AddElement
  <2>3. \A q \in held' : request'[q].at # "idle"
    BY <1>1, <1>a, <1>b DEF Counted, BeginUpload, Receive, Request
  <2>4. uploads' = uploads + 1 /\ held' = held \cup {r} /\ uploads < MaxUploads
    BY <1>1 DEF BeginUpload
  <2> QED BY <2>2, <2>3, <2>4 DEF Counted, UploadSlots
<1>2. ASSUME NEW r \in Upload, Release(r) PROVE Counted'
  <2>1. CASE r \in held
    <3>1. Cardinality(held \ {r}) = uploads - 1
      BY <1>a, <2>1, FS_RemoveElement
    <3>2. Cardinality(held \ {r}) \in Nat
      BY <1>a, FS_RemoveElement, FS_CardinalityType, FS_Subset
    <3> QED BY <1>2, <2>1, <3>1, <3>2 DEF Counted, UploadSlots, Release, Releases
  <2>2. CASE r \notin held
    <3>1. held' = held /\ uploads' = uploads /\ request' = request
      BY <1>2, <2>2 DEF Release, Releases
    <3> QED BY <3>1 DEF Counted, UploadSlots
  <2> QED BY <2>1, <2>2
<1>3. CASE Restart
  BY <1>3, FS_EmptySet DEF Counted, UploadSlots, Restart
<1>4. ASSUME UNCHANGED slots, \A q \in held : request'[q].at # "idle" PROVE Counted'
  BY <1>4 DEF Counted, UploadSlots, slots
<1>5. ASSUME NEW r \in Request, NEW s \in Step \ {"idle"}, To(r, s), UNCHANGED slots PROVE Counted'
  <2>1. \A q \in held : request'[q].at # "idle"
    BY <1>5, <1>a, <1>b, ToStep DEF Counted
  <2> QED BY <1>4, <1>5, <2>1
<1>6. ASSUME NEW r \in Upload, ReadBody(r) \/ PutFile(r) \/ Compare(r) PROVE Counted'
  BY <1>6, <1>5 DEF ReadBody, PutFile, Compare, Request, Step
<1>7. ASSUME NEW r \in Change, NEW k \in Changes, BeginChange(r, k) PROVE Counted'
  <2>1. \A q \in held : request'[q].at # "idle"
    BY <1>7, <1>a, <1>b DEF Counted, BeginChange, Receive, Request
  <2> QED BY <1>4, <1>7, <2>1 DEF BeginChange, slots
<1>8. ASSUME NEW r \in Change, ReadMarker(r) PROVE Counted'
  <2>1. \A q \in held : request'[q].at # "idle"
    BY <1>8, <1>a, <1>b DEF Counted, ReadMarker, Request, Shape
  <2> QED BY <1>4, <1>8, <2>1 DEF ReadMarker, slots
<1>9. ASSUME NEW r \in Change, Locate(r) \/ Erase(r) \/ Unmark(r) \/ Point(r) \/ Unpoint(r) \/ Mark(r)
      PROVE  Counted'
  BY <1>9, <1>5 DEF Locate, Erase, Unmark, Point, Unpoint, Mark, Confirmed, Request, Step
<1>10. ASSUME NEW r \in Viewer, View(r) PROVE Counted'
  BY <1>10, <1>5 DEF View, Request, Step
<1>11. ASSUME NEW r \in Viewer, NEW t \in issued, BeginView(r, t) PROVE Counted'
  <2>1. \A q \in held : request'[q].at # "idle"
    BY <1>11, <1>a, <1>b DEF Counted, BeginView, Receive, Request
  <2> QED BY <1>4, <1>11, <2>1 DEF BeginView, slots
<1>12. ASSUME NEW r \in Request, StoreFails(r) PROVE Counted'
  BY <1>12, <1>5 DEF StoreFails, Step
<1>13. CASE UNCHANGED linkVars
  BY <1>13, <1>4 DEF linkVars, slots, Counted
<1> QED BY <1>1, <1>2, <1>3, <1>6, <1>7, <1>8, <1>9, <1>10, <1>11, <1>12, <1>13 DEF LinksNext

-----------------------------------------------------------------------------
(* Undisturbed links. *)

\* Only a change of the links is at one of their steps.
ChangeSteps == {"locate", "erase", "read", "unmark", "unpoint", "point", "mark"}
Staged == \A r \in Request : request[r].at \in ChangeSteps => request[r].kind \in Changes

\* No other change of the links is under way.
Alone(t) == \A q \in Request : request[q].kind \in Changes /\ request[q].at \notin Over => q = t

\* A share that met no other change found the file, and writes what nothing else
\* touches; once its link is handed out, any change makes it a rival.
Creating(t) ==
    request[t].kind = "share" /\ request[t].at \notin Over =>
        Alone(t) /\ (request[t].at # "locate" => file) /\ (request[t].at = "mark" => t \in pointers)
Created(t) == t \in issued => Alone(t) /\ file /\ t \in pointers /\ marker = t
Undisturbed == Staged /\ \A t \in Change \ rivals : Creating(t) /\ Created(t)

\* The store, for a call that no step of a change makes.
LEMMA ApplyElsewhere ==
  ASSUME NEW r \in Request, Apply(r), request[r].at \notin ChangeSteps
  PROVE  (file => file') /\ marker' = marker /\ pointers' = pointers
  BY DEF Apply, ChangeSteps

\* A request goes from one stage to the next, or fails.
LEMMA UndisturbedStep ==
  ASSUME LinkInv, Undisturbed, NEW r \in Request, NEW s \in Step \ {"idle", "locate"}, To(r, s),
         request[r].at \notin Over, UNCHANGED store \/ Apply(r),
         s \in ChangeSteps => request[r].kind \in Changes,
         request[r].kind = "share" /\ s \notin Over =>
             (file => file') /\ (request[r].at = "locate" => file') /\ (s = "mark" => r \in pointers'),
         UNCHANGED <<issued, rivals>>
  PROVE  Undisturbed'
<1>0. Typed /\ Remembered
  BY DEF LinkInv
<1>1. /\ \A q \in Request : q # r => request'[q] = request[q]
      /\ request'[r].at = s /\ request'[r].kind = request[r].kind
  BY <1>0, ToStep DEF Typed
<1>2. Staged'
  BY <1>1 DEF Undisturbed, Staged
<1>3. \A t \in Request : Alone(t) => Alone(t)'
  BY <1>1 DEF Alone
<1>4. r \notin issued
  BY <1>0 DEF Remembered, Over
<1>5. ASSUME NEW t \in Change \ rivals, t # r, Alone(t)
      PROVE  (file => file') /\ marker' = marker /\ pointers' = pointers
  <2>1. request[r].at \notin ChangeSteps
    BY <1>5 DEF Alone, Undisturbed, Staged
  <2> QED BY <2>1, ApplyElsewhere DEF store
<1>6. ASSUME NEW t \in Change \ rivals PROVE Creating(t)' /\ Created(t)'
  <2>0. Creating(t) /\ Created(t) /\ t \in Request
    BY DEF Undisturbed, Request
  <2>1. CASE t = r
    <3>1. Created(t)'
      BY <1>4, <2>1 DEF Created
    <3>2. Creating(t)'
      BY <1>1, <1>3, <2>0, <2>1 DEF Creating
    <3> QED BY <3>1, <3>2
  <2>2. CASE t # r
    <3>1. request'[t] = request[t]
      BY <1>1, <2>0, <2>2
    <3>2. Creating(t)'
      BY <1>3, <1>5, <2>0, <2>2, <3>1 DEF Creating
    <3>3. Created(t)'
      BY <1>3, <1>5, <2>0, <2>2 DEF Created
    <3> QED BY <3>2, <3>3
  <2> QED BY <2>1, <2>2
<1> QED BY <1>2, <1>6 DEF Undisturbed

\* A change that begins makes rivals of the links handed out, of the shares under
\* way and, if it is a share that meets a change, of itself.
LEMMA UndisturbedChange ==
  ASSUME LinkInv, Undisturbed, NEW r \in Change, NEW k \in Changes, BeginChange(r, k)
  PROVE  Undisturbed'
<1>0. Typed /\ Remembered /\ r \in Request
  BY DEF LinkInv, Request
<1>1. /\ request[r].at = "idle" /\ \A q \in Request : q # r => request'[q] = request[q]
      /\ request'[r].at = "locate" /\ request'[r].kind = k
  BY <1>0 DEF BeginChange, Receive, Typed
<1>2. /\ issued' = issued /\ rivals \cup issued \cup Running({"share"}) \subseteq rivals'
      /\ k = "share" /\ r \notin rivals' => Running(Changes) = {}
  BY DEF BeginChange
<1>3. Staged'
  BY <1>1 DEF Undisturbed, Staged
<1>4. ASSUME NEW t \in Change \ rivals' PROVE Creating(t)' /\ Created(t)'
  <2>1. t \notin issued' /\ t \notin Running({"share"}) /\ t \in Request
    BY <1>2 DEF Request
  <2>2. CASE t = r
    <3>1. k = "share" => Alone(t)'
      BY <1>1, <1>2, <2>2 DEF Alone, Running
    <3> QED BY <1>1, <2>1, <2>2, <3>1 DEF Creating, Created
  <2>3. CASE t # r
    BY <1>1, <2>1, <2>3 DEF Creating, Created, Running
  <2> QED BY <2>2, <2>3
<1> QED BY <1>3, <1>4 DEF Undisturbed

\* Another request begins.
LEMMA UndisturbedArrival ==
  ASSUME LinkInv, Undisturbed, NEW r \in Request, NEW k \in {"upload", "view"}, NEW s \in {"body", "pointer"},
         NEW t, NEW known, Receive(r, k, s, t, known), UNCHANGED <<file, pointers, marker, issued, rivals>>
  PROVE  Undisturbed'
<1>0. Typed
  BY DEF LinkInv
<1>1. /\ request[r].at = "idle" /\ \A q \in Request : q # r => request'[q] = request[q]
      /\ request'[r].at = s /\ request'[r].kind = k /\ k \notin Changes /\ s \notin ChangeSteps
  BY <1>0 DEF Receive, Typed, Changes, ChangeSteps
<1>2. Staged'
  BY <1>1 DEF Undisturbed, Staged
<1>3. \A q \in Request : Alone(q) => Alone(q)'
  BY <1>1 DEF Alone
<1>4. \A q \in Change \ rivals : Creating(q)' /\ Created(q)'
  BY <1>1, <1>3 DEF Undisturbed, Creating, Created, Request, Changes
<1> QED BY <1>2, <1>4 DEF Undisturbed

LEMMA UndisturbedRead == ASSUME LinkInv, Undisturbed, NEW r \in Change, ReadMarker(r) PROVE Undisturbed'
<1>0. Typed
  BY DEF LinkInv
<1>1. /\ r \in Request /\ request[r].kind \in Changes /\ request[r].at = "read"
      /\ request' = [request EXCEPT ![r].at = "unmark", ![r].token = marker]
      /\ UNCHANGED <<file, pointers, marker, issued, rivals>>
  BY DEF ReadMarker, IsAt, Request, store, history
<1>2. /\ \A q \in Request : request'[q].kind = request[q].kind
      /\ \A q \in Request : request'[q].at = IF q = r THEN "unmark" ELSE request[q].at
  BY <1>0, <1>1 DEF Typed, Shape
<1>3. Staged'
  BY <1>1, <1>2 DEF Undisturbed, Staged
<1>4. \A q \in Request : Alone(q) => Alone(q)'
  BY <1>1, <1>2 DEF Alone, Over
<1>5. ASSUME NEW q \in Change \ rivals PROVE Creating(q)' /\ Created(q)'
  <2>1. q \in Request /\ Creating(q) /\ Created(q)
    BY DEF Undisturbed, Request
  <2>2. Creating(q)'
    <3>1. /\ request'[q].kind = request[q].kind /\ file' = file /\ pointers' = pointers
          /\ request'[q].at \notin Over => request[q].at \notin Over
          /\ request'[q].at # "locate" => request[q].at # "locate"
          /\ request'[q].at = "mark" => request[q].at = "mark"
      <4>1. /\ request'[q].kind = request[q].kind /\ file' = file /\ pointers' = pointers
            /\ request'[q].at = IF q = r THEN "unmark" ELSE request[q].at
            /\ q = r => request[q].at = "read"
        BY <1>1, <1>2, <2>1
      <4> QED BY <4>1 DEF Over
    <3> QED BY <1>4, <2>1, <3>1 DEF Creating
  <2>3. Created(q)'
    BY <1>1, <1>4, <2>1 DEF Created
  <2> QED BY <2>2, <2>3
<1> QED BY <1>1, <1>3, <1>5 DEF Undisturbed

\* The last step of a share: nobody else was there, so all of it is in the store.
LEMMA UndisturbedMark == ASSUME LinkInv, Undisturbed, NEW r \in Change, Mark(r) PROVE Undisturbed'
<1>0. Typed /\ Remembered
  BY DEF LinkInv
<1>1. /\ r \in Request /\ request[r].kind = "share" /\ request[r].at = "mark" /\ To(r, "done") /\ Apply(r)
      /\ issued' = issued \cup {r} /\ rivals' = rivals
  BY DEF Mark, Confirmed, IsAt, Request
<1>2. /\ \A q \in Request : q # r => request'[q] = request[q]
      /\ request'[r].at = "done" /\ request'[r].kind = request[r].kind
  BY <1>0, <1>1, ToStep DEF Typed, Step
<1>3. file' = file /\ marker' = r /\ pointers' = pointers
  BY <1>1 DEF Apply, NewMark
<1>4. Staged'
  BY <1>2 DEF Undisturbed, Staged, ChangeSteps
<1>5. \A q \in Request : Alone(q) => Alone(q)'
  BY <1>2 DEF Alone, Over
<1>6. ASSUME NEW t \in Change \ rivals PROVE Creating(t)' /\ Created(t)'
  <2>0. Creating(t) /\ Created(t) /\ t \in Request
    BY DEF Undisturbed, Request
  <2>1. CASE t = r
    BY <1>1, <1>2, <1>3, <1>5, <2>0, <2>1 DEF Creating, Created, Over
  <2>2. CASE t # r
    <3>1. ~Alone(t)
      BY <1>1, <2>2 DEF Alone, Changes, Over
    <3> QED BY <1>1, <1>2, <2>0, <2>2, <3>1 DEF Creating, Created
  <2> QED BY <2>1, <2>2
<1> QED BY <1>1, <1>4, <1>6 DEF Undisturbed

LEMMA UndisturbedRestart == ASSUME LinkInv, Undisturbed, Restart PROVE Undisturbed'
<1>0. Typed
  BY DEF LinkInv
<1>1. /\ request' = [r \in Request |-> IF request[r].at \in Over THEN request[r] ELSE Finished(request[r], "failed")]
      /\ UNCHANGED <<file, pointers, marker, issued, rivals>>
  BY DEF Restart, store, history
<1>2. \A r \in Request : request'[r].at \in Over
  BY <1>0, <1>1 DEF Finished, Over, Typed, Shape
<1>3. Staged' /\ \A t \in Request : Alone(t)'
  BY <1>2 DEF Staged, Alone, ChangeSteps, Over
<1>4. \A t \in Change \ rivals : Creating(t)' /\ Created(t)'
  BY <1>1, <1>2, <1>3 DEF Undisturbed, Creating, Created, Request
<1> QED BY <1>1, <1>3, <1>4 DEF Undisturbed

LEMMA UndisturbedNext == LinkInv /\ Undisturbed /\ [LinksNext]_linkVars => Undisturbed'
<1> SUFFICES ASSUME LinkInv, Undisturbed, [LinksNext]_linkVars PROVE Undisturbed'
  OBVIOUS
<1>1. ASSUME NEW r \in Upload, BeginUpload(r) PROVE Undisturbed'
  BY <1>1, UndisturbedArrival DEF BeginUpload, store, history, Request
<1>2. ASSUME NEW r \in Viewer, NEW t \in issued, BeginView(r, t) PROVE Undisturbed'
  BY <1>2, UndisturbedArrival DEF BeginView, store, history, Request
<1>3. ASSUME NEW r \in Upload, ReadBody(r) \/ PutFile(r) \/ Compare(r) PROVE Undisturbed'
  <2>1. PICK s \in {"put", "failed", "compare", "done"} : To(r, s)
    BY <1>3 DEF ReadBody, PutFile, Compare
  <2>2. /\ r \in Request /\ request[r].kind = "upload" /\ request[r].at \in {"body", "put", "compare"}
        /\ (UNCHANGED store \/ Apply(r)) /\ UNCHANGED <<issued, rivals>>
    BY <1>3 DEF ReadBody, PutFile, Compare, IsAt, Request, history
  <2> QED BY <2>1, <2>2, UndisturbedStep DEF Step, Over, ChangeSteps
<1>4. ASSUME NEW r \in Change, Locate(r) PROVE Undisturbed'
  <2>1. PICK s \in {"failed", "erase", "read"} : To(r, s) /\ (s # "failed" => file)
    BY <1>4 DEF Locate
  <2>2. /\ r \in Request /\ request[r].kind \in Changes /\ request[r].at = "locate"
        /\ UNCHANGED store /\ file' = file /\ UNCHANGED <<issued, rivals>>
    BY <1>4 DEF Locate, IsAt, Request, store, history
  <2> QED BY <2>1, <2>2, UndisturbedStep DEF Step, Over
<1>5. ASSUME NEW r \in Change, Erase(r) \/ Unmark(r) \/ Unpoint(r) \/ Point(r) PROVE Undisturbed'
  <2>1. PICK s \in {"read", "unpoint", "point", "mark", "done"} :
          To(r, s) /\ (s = "mark" => request[r].at = "point")
    BY <1>5 DEF Erase, Unmark, Unpoint, Point, Confirmed, IsAt
  <2>2. /\ r \in Request /\ request[r].kind \in Changes /\ request[r].at \in {"erase", "unmark", "unpoint", "point"}
        /\ request[r].kind = "share" => request[r].at # "erase"
        /\ Apply(r) /\ UNCHANGED <<issued, rivals>>
    BY <1>5 DEF Erase, Unmark, Unpoint, Point, IsAt, Request, Changes, history
  <2>3. /\ request[r].at # "erase" => file' = file
        /\ request[r].at = "point" => r \in pointers'
    BY <2>2 DEF Apply
  <2> QED BY <2>1, <2>2, <2>3, UndisturbedStep DEF Step, Over
<1>6. ASSUME NEW r \in Viewer, View(r) PROVE Undisturbed'
  <2>1. PICK s \in {"marker", "failed", "head", "done"} : To(r, s)
    BY <1>6 DEF View
  <2>2. /\ r \in Request /\ request[r].kind = "view" /\ request[r].at \in {"pointer", "marker", "head"}
        /\ UNCHANGED store /\ UNCHANGED <<issued, rivals>>
    BY <1>6 DEF View, IsAt, Request, history
  <2> QED BY <2>1, <2>2, UndisturbedStep DEF Step, Over, ChangeSteps
<1>7. ASSUME NEW r \in Request, StoreFails(r) PROVE Undisturbed'
  <2>1. /\ To(r, "failed") /\ (UNCHANGED store \/ Apply(r)) /\ UNCHANGED <<issued, rivals>>
        /\ request[r].at \notin Over
    BY <1>7 DEF StoreFails, history
  <2>2. "failed" \in Step \ {"idle", "locate"} /\ "failed" \notin ChangeSteps /\ "failed" \in Over
    BY DEF Step, ChangeSteps, Over
  <2> QED BY <2>1, <2>2, UndisturbedStep
<1>8. ASSUME UNCHANGED <<store, request, history>> PROVE Undisturbed'
  BY <1>8 DEF Undisturbed, Staged, Creating, Created, Alone, store, history
<1>9. ASSUME NEW r \in Upload, Release(r) PROVE Undisturbed'
  BY <1>8, <1>9 DEF Release
<1>10. CASE UNCHANGED linkVars
  BY <1>8, <1>10 DEF linkVars
<1> QED
  BY <1>1, <1>2, <1>3, <1>4, <1>5, <1>6, <1>7, <1>9, <1>10,
     UndisturbedChange, UndisturbedRead, UndisturbedMark, UndisturbedRestart DEF LinksNext

LEMMA UndisturbedInit == LinksInit => Undisturbed
  BY DEF LinksInit, Undisturbed, Staged, Creating, Created, ChangeSteps, Over, Request

-----------------------------------------------------------------------------
(* The theorems. *)

\* In every reachable state the marker of a shared link names no withdrawn token,
\* no viewer is let past it with one, and each upload under way holds one slot
\* (the share and upload requests of the recording service).
THEOREM LinksInvariance == LinksSpec => [](LinkInv /\ Counted)
<1>1. LinksInit => LinkInv /\ Counted
  BY LinkInit, SlotsInit
<1>2. LinkInv /\ Counted /\ [LinksNext]_linkVars => LinkInv' /\ Counted'
  BY LinkNext, SlotsStep DEF LinkInv
<1> QED BY <1>1, <1>2, PTL DEF LinksSpec

\* Every variable keeps its domain, whatever requests, failures and restarts
\* interleave.
THEOREM LinksTyped == LinksSpec => []LinksTypeOK
<1>1. LinkInv /\ Counted => LinksTypeOK
  BY DEF LinkInv, Counted, Typed, LinksTypeOK, Shape, Request
<1> QED BY <1>1, LinksInvariance, PTL

\* The count of upload slots is that of the uploads that hold one.
THEOREM UploadSlotsAlways == LinksSpec => []UploadSlots
<1>1. Counted => UploadSlots
  BY DEF Counted
<1> QED BY <1>1, LinksInvariance, PTL

\* After the host is told of a change, no link handed out before it is of use
\* to a viewer who comes later.
THEOREM AccessEndsAlways == LinksSpec => []AccessEnds
<1>1. LinkInv => AccessEnds
  BY DEF LinkInv, Withdrawal, AccessEnds, IsAt
<1> QED BY <1>1, LinksInvariance, PTL

\* A link handed to the host while no other change of the links ran opens the
\* recording: the file, its pointer and the marker are those of its share, in
\* spite of failed calls, restarts and repeated uploads before or beside it.
THEOREM LinkOpensAlways == LinksSpec => []LinkOpens
<1>1. LinksInit => Undisturbed
  BY UndisturbedInit
<1>2. LinkInv /\ Undisturbed /\ [LinksNext]_linkVars => Undisturbed'
  BY UndisturbedNext
<1>3. LinkInv /\ Undisturbed => LinkOpens
  BY DEF LinkInv, Typed, Token, Undisturbed, Created, LinkOpens
<1> QED BY <1>1, <1>2, <1>3, LinksInvariance, PTL DEF LinksSpec

=============================================================================
