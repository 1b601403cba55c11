---------------------------- MODULE MCPictureJob ----------------------------
(**************************************************************************)
(* One job after the other.  Two reads confirm a stop or do not, and one  *)
(* failed read is survived, so that each limit is met and passed.  Of the *)
(* stops, a client's own has no listener and a timeout has one.           *)
(**************************************************************************)
EXTENDS PictureJob, PictureChecks
=============================================================================
