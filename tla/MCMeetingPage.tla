---------------------------- MODULE MCMeetingPage ----------------------------
(* The meeting page of a participant whose host may forbid screens, or     *)
(* microphones and cameras.                                                *)
EXTENDS MeetingPage
MCSettings == {{"mic", "camera", "screen"}, {}}
=============================================================================
