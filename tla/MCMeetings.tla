---------------------------- MODULE MCMeetings ----------------------------
(* Meetings with a host, a member who was also given the guest link, and a *)
(* guest.                                                                  *)
EXTENDS Meetings
=============================================================================
