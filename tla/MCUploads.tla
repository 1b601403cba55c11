----------------------------- MODULE MCUploads -----------------------------
(**************************************************************************)
(* Two scopes, and PUTs and a DELETE that come again and again, with a    *)
(* sweep: two PUTs and a DELETE of one name (uploads), or one PUT that    *)
(* either goes from name to name, or contends for one of them with the    *)
(* DELETE (uploads_names).                                                *)
(**************************************************************************)
EXTENDS Uploads

CONSTANTS n1, n2, p1, p2, d1, s1, s2

MCName == {n1}
MCNames == {n1, n2}
MCPut == {p1, p2}
MCOnePut == {p1}
MCDel == {d1}
MCScope == {s1, s2}
MCCap == [s \in Scope |-> 1]

(* uploads_names: the DELETE's name, drawn at the start, tells which of the *)
(* two.  If it is n1 then n2 is never claimed; else there is no DELETE.  It *)
(* cuts off only claims and DELETEs: no action that has fairness.           *)
Within ==
  /\ name'[d1] = name[d1]
  /\ IF name[d1] = n1 THEN entry'[n2] = NoScope ELSE stage'[d1] = "none"
=============================================================================
