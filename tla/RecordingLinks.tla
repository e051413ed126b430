--------------------------- MODULE RecordingLinks ---------------------------
(***************************************************************************)
(* One cloud recording: its upload, its share links, their revocation and  *)
(* its deletion, over an object store.                                     *)
(*                                                                         *)
(* Source: services/recording/src/app.ts and storage.ts.  A request runs   *)
(* from one call of the store to the next; the store answers single calls  *)
(* atomically, and a call may fail, applied or not, which ends its request *)
(* with 503.  The host works from several tabs, a client that lost an      *)
(* answer uploads again under the same id, and viewers bring tokens.       *)
(***************************************************************************)
EXTENDS Naturals, FiniteSets

CONSTANTS
    Upload,      \* uploads of the recording: the first, and repetitions
    Change,      \* requests to share, to revoke or to delete
    Viewer,      \* requests to see the shared recording
    None,        \* no token
    MaxUploads,  \* uploads served at once
    MaxFaults    \* bound: failures of the store and restarts of the service

ASSUME RequestAssumption == IsFiniteSet(Upload) /\ IsFiniteSet(Change) /\ IsFiniteSet(Viewer) /\ None \notin Change
ASSUME BoundAssumption == MaxUploads \in Nat /\ MaxFaults \in Nat

VARIABLES
    \* the object store
    file,       \* the recording is stored
    pointers,   \* tokens with an object shares/<hash>.json
    marker,     \* the token named by <id>.share.json, or None
    \* the service
    request,    \* each request: its kind, where it is, the token it read or brought
    uploads,    \* upload slots taken
    held,       \* uploads whose response has not released its slot
    faults,     \* failures so far
    \* history
    issued,     \* tokens handed to the host
    rivals,     \* tokens whose share met another change, then or later
    withdrawn   \* tokens issued before a change of the links that was confirmed began

store   == <<file, pointers, marker>>
slots   == <<uploads, held>>
history == <<issued, rivals, withdrawn>>
linkVars == <<store, request, slots, faults, history>>

\* A token is named after the share that makes it: tokens are random and never
\* repeat.
Request == Upload \cup Change \cup Viewer
Token == Change
Changes == {"share", "revoke", "delete"}
Kind == {"none", "upload", "view"} \cup Changes
Step == {"idle", "body", "put", "compare", "locate", "erase", "read", "unmark", "unpoint", "point", "mark",
         "pointer", "marker", "head", "done", "failed"}
Over == {"idle", "done", "failed"}
LinksTypeOK ==
    /\ file \in BOOLEAN /\ pointers \subseteq Token /\ marker \in Token \cup {None}
    /\ request \in [Request -> [kind : Kind, at : Step, token : Token \cup {None}, known : SUBSET Token]]
    /\ uploads \in 0..MaxUploads /\ held \subseteq Request /\ faults \in 0..MaxFaults
    /\ issued \subseteq Token /\ rivals \subseteq Token /\ withdrawn \subseteq issued

LinksInit ==
    /\ file = FALSE /\ pointers = {} /\ marker = None
    /\ request = [r \in Request |-> [kind |-> "none", at |-> "idle", token |-> None, known |-> {}]]
    /\ uploads = 0 /\ held = {} /\ faults = 0
    /\ issued = {} /\ rivals = {} /\ withdrawn = {}

-----------------------------------------------------------------------------
(* The steps of a request. *)

IsAt(r, kinds, s) == request[r].kind \in kinds /\ request[r].at = s
Finished(q, s) == [q EXCEPT !.at = s, !.token = None, !.known = {}]
To(r, s) == request' = [request EXCEPT ![r] = IF s \in Over /\ @.kind # "view" THEN Finished(@, s)
                                              ELSE [@ EXCEPT !.at = s]]
Running(kinds) == {r \in Request : request[r].kind \in kinds /\ request[r].at \notin Over}

\* A request arrives.  "known" are the tokens the host was given by then, or
\* for a viewer the tokens withdrawn by then.
Receive(r, k, s, t, known) ==
    /\ request[r].at = "idle"
    /\ request' = [request EXCEPT ![r] = [kind |-> k, at |-> s, token |-> t, known |-> known]]

\* What the store does for the call request r is at.
NewMark_Stale(r) == request[r].token                                           \* mutant
NewMark(r) == r
Apply(r) ==
    LET s == request[r].at IN
    /\ file' = CASE s = "put" -> TRUE [] s = "erase" -> FALSE [] OTHER -> file
    /\ marker' = CASE s = "unmark" -> None [] s = "mark" -> NewMark(r) [] OTHER -> marker
    /\ pointers' = CASE s = "unpoint" -> pointers \ {request[r].token} [] s = "point" -> pointers \cup {r}
                     [] OTHER -> pointers

-----------------------------------------------------------------------------
(* Uploading. *)

\* The check and the count are one step: nothing is awaited in between.
BeginUpload(r) ==
    /\ uploads < MaxUploads /\ Receive(r, "upload", "body", None, {})
    /\ uploads' = uploads + 1 /\ held' = held \cup {r}
    /\ UNCHANGED <<store, faults, history>>

\* The response is finished, or its connection closes, early or afterwards:
\* the first of these events gives the slot back.
Releases(r) == r \in held
Release(r) ==
    /\ request[r].kind = "upload" /\ (r \in held \/ request[r].at \in Over)
    /\ uploads' = IF Releases(r) THEN uploads - 1 ELSE uploads
    /\ held' = held \ {r}
    /\ UNCHANGED <<store, request, faults, history>>

\* The body is read and recognised, or the request is refused.
ReadBody(r) ==
    /\ IsAt(r, {"upload"}, "body") /\ \E s \in {"put", "failed"} : To(r, s)
    /\ UNCHANGED <<store, slots, faults, history>>

\* storage.put with IfNoneMatch: the first upload of an id wins, a repetition
\* is compared with what is there.
PutFile(r) ==
    /\ IsAt(r, {"upload"}, "put") /\ Apply(r) /\ To(r, IF file THEN "compare" ELSE "done")
    /\ UNCHANGED <<slots, faults, history>>
Compare(r) ==
    /\ IsAt(r, {"upload"}, "compare") /\ To(r, IF file THEN "done" ELSE "failed")
    /\ UNCHANGED <<store, slots, faults, history>>

-----------------------------------------------------------------------------
(* Sharing, revoking, deleting. *)

BeginChange(r, k) ==
    /\ Receive(r, k, "locate", None, issued)
    /\ rivals' = rivals \cup issued \cup Running({"share"})
                        \cup (IF k = "share" /\ Running(Changes) # {} THEN {r} ELSE {})
    /\ UNCHANGED <<store, slots, faults, issued, withdrawn>>

\* locate: the recording must be there.
Locate(r) ==
    /\ IsAt(r, Changes, "locate")
    /\ To(r, IF ~file THEN "failed" ELSE IF request[r].kind = "delete" THEN "erase" ELSE "read")
    /\ UNCHANGED <<store, slots, faults, history>>
Erase(r) ==
    /\ IsAt(r, {"delete"}, "erase") /\ Apply(r) /\ To(r, "read")
    /\ UNCHANGED <<slots, faults, history>>

\* revoke: read the marker, remove it, then remove the pointer it named.
ReadMarker(r) ==
    /\ IsAt(r, Changes, "read") /\ request' = [request EXCEPT ![r].at = "unmark", ![r].token = marker]
    /\ UNCHANGED <<store, slots, faults, history>>
Unmark(r) ==
    /\ IsAt(r, Changes, "unmark") /\ Apply(r) /\ To(r, "unpoint")
    /\ UNCHANGED <<slots, faults, history>>
\* The change is confirmed to the host.
Confirmed(r) == To(r, "done") /\ withdrawn' = withdrawn \cup request[r].known
Unpoint(r) ==
    /\ IsAt(r, Changes, "unpoint") /\ Apply(r)
    /\ IF request[r].kind = "share" THEN To(r, "point") /\ UNCHANGED withdrawn ELSE Confirmed(r)
    /\ UNCHANGED <<slots, faults, issued, rivals>>

\* share: the new pointer, then the marker that makes it count.
Point(r) ==
    /\ IsAt(r, {"share"}, "point") /\ Apply(r) /\ To(r, "mark")
    /\ UNCHANGED <<slots, faults, history>>
Mark(r) ==
    /\ IsAt(r, {"share"}, "mark") /\ Apply(r) /\ Confirmed(r) /\ issued' = issued \cup {r}
    /\ UNCHANGED <<slots, faults, rivals>>

-----------------------------------------------------------------------------
(* Viewing a shared recording. *)

BeginView(r, t) ==
    /\ Receive(r, "view", "pointer", t, withdrawn)
    /\ UNCHANGED <<store, slots, faults, history>>
MarkerNames_Unasked(t) == TRUE                                                 \* mutant
MarkerNames(t) == marker = t
View(r) ==
    /\ request[r].kind = "view"
    /\ LET t == request[r].token IN
       \/ IsAt(r, {"view"}, "pointer") /\ To(r, IF t \in pointers THEN "marker" ELSE "failed")
       \/ IsAt(r, {"view"}, "marker") /\ To(r, IF MarkerNames(t) THEN "head" ELSE "failed")
       \/ IsAt(r, {"view"}, "head") /\ To(r, IF file THEN "done" ELSE "failed")
    /\ UNCHANGED <<store, slots, faults, history>>

-----------------------------------------------------------------------------
(* Failures. *)

\* A call of the store fails, after or without having had its effect.
StoreFails(r) ==
    /\ faults < MaxFaults /\ faults' = faults + 1
    /\ request[r].at \notin Over \cup {"body"}
    /\ To(r, "failed") /\ (UNCHANGED store \/ Apply(r))
    /\ UNCHANGED <<slots, history>>
Restart ==
    /\ faults < MaxFaults /\ faults' = faults + 1
    /\ request' = [r \in Request |-> IF request[r].at \in Over THEN request[r]
                                     ELSE Finished(request[r], "failed")]
    /\ uploads' = 0 /\ held' = {}
    /\ UNCHANGED <<store, history>>

-----------------------------------------------------------------------------
LinksNext ==
    \/ \E r \in Upload : BeginUpload(r) \/ ReadBody(r) \/ PutFile(r) \/ Compare(r) \/ Release(r)
    \/ \E r \in Change :
        \/ \E k \in Changes : BeginChange(r, k)
        \/ Locate(r) \/ Erase(r) \/ ReadMarker(r) \/ Unmark(r) \/ Unpoint(r) \/ Point(r) \/ Mark(r)
    \/ \E r \in Viewer : (\E t \in issued : BeginView(r, t)) \/ View(r)
    \/ \E r \in Request : StoreFails(r)
    \/ Restart

LinksSpec == LinksInit /\ [][LinksNext]_linkVars

-----------------------------------------------------------------------------
(* Properties. *)

\* Once a new share, a revocation or a deletion is confirmed to the host, no
\* viewer who comes afterwards with a link handed out before it sees the
\* recording, whatever other shares ran beside it and left behind.
AccessEnds == \A r \in Request : IsAt(r, {"view"}, "done") => request[r].token \notin request[r].known

\* A link handed to the host opens the recording as long as no other change of
\* the links ran during its creation or since, even after failed changes
\* and repeated uploads before it.
LinkOpens == \A t \in issued \ rivals : file /\ t \in pointers /\ marker = t

\* The slots taken are those of the uploads still connected: none is lost to a
\* failure or given back twice, so uploads are neither shut out nor unbounded.
UploadSlots == uploads = Cardinality(held)

=============================================================================
