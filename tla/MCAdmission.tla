---------------------------- MODULE MCAdmission ----------------------------
(*************************************************************************)
(* Ten requests over four classes and two outside keys.  Caps are small  *)
(* enough that every one of them binds: one reader place, two shared     *)
(* places, one active agent, one active request per outside key.         *)
(*************************************************************************)
EXTENDS Admission

CONSTANTS r1, r2, a1, a2, i1, x1, x2, y1, w1, w2, k1, k2

MCTicket == {r1, r2, a1, a2, i1, x1, x2, y1, w1, w2}
MCKey == {k1, k2}

MCClassOf ==
  [t \in MCTicket |-> CASE t \in {r1, r2} -> "reader"
                        [] t \in {a1, a2} -> "agent"
                        [] t = i1 -> "internal"
                        [] OTHER -> "external"]
MCOwnerOf ==
  [t \in MCTicket |-> CASE t \in {x1, x2} -> k1
                        [] t = y1 -> k2
                        [] OTHER -> NoKey]
MCActiveCap ==
  [c \in Class |-> IF c = "external" THEN 2 ELSE 1]
MCWaitingCap ==
  [c \in Class |-> IF c = "external" THEN 2 ELSE 1]
=============================================================================
