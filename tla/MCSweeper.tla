------------------------------ MODULE MCSweeper -----------------------------
(*************************************************************************)
(* A picture and an upload.  A pass may take longer than the grace, and  *)
(* the record of the picture may come after a read that began before it  *)
(* and before the walk that follows.                                     *)
(*************************************************************************)
EXTENDS Sweeper
=============================================================================
