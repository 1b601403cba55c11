---------------------------- MODULE MCPictureLane ---------------------------
(*************************************************************************)
(* Two readers' pictures that both have room on the card, so that they   *)
(* have an order, and two experiments' that have not.                    *)
(*************************************************************************)
EXTENDS PictureLane

MCJob    == {"r1", "r2", "i1", "i2"}
MCcls    == [j \in MCJob |-> IF j \in {"r1", "r2"} THEN "reader" ELSE "internal"]
MCLIMITS == [c \in Class |-> IF c = "reader" THEN 2 ELSE 1]
=============================================================================
