--------------------------- MODULE MCMeetingRoom ---------------------------
(* MeetingRoom on small sets of connections. *)
EXTENDS MeetingRoom
=============================================================================
