----------------------------- MODULE MCTextLane -----------------------------
(**************************************************************************)
(* A generation of ours, one of an outside key and a reader's count, each *)
(* again and again, with one place for generations and one for counts: as *)
(* a generation counts before it waits, two wait in line for the counts.  *)
(**************************************************************************)
EXTENDS TextLane

CONSTANTS g1, x1, n1, k1

MCRequest == {g1, x1, n1}
MCKey == {k1}
MCKindOf == [r \in Request |-> IF r = n1 THEN "count" ELSE "generation"]
MCClassOf == [r \in Request |-> IF r = g1 THEN "agent" ELSE IF r = n1 THEN "reader" ELSE "external"]
MCOwnerOf == [r \in Request |-> IF r = x1 THEN k1 ELSE NoKey]
MCOne == [c \in {"reader", "agent", "internal", "external"} |-> 1]
MCTimeout == {"timeout"}

(* For drains, and for liveness.                                         *)
MCGenerations == {g1, x1}
MCOwnReason == {"timeout", "disconnect"}
=============================================================================
