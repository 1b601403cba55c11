------------------------------- MODULE Line -------------------------------
(*************************************************************************)
(* Tickets and the line they wait in (src/simple_serving/admission.py,   *)
(* classes Ticket and Line), shared by Admission and CountPlaces.        *)
(*                                                                       *)
(* A Ticket object is used once; a member of Ticket here is one of the   *)
(* requests that may be alive together, and takes part again, with a new *)
(* object, once it has left.  Its class and its owner are fixed.         *)
(*                                                                       *)
(* A Line holds one deque per class.  It is represented by the set of    *)
(* tickets ahead of each waiting one in its deque, so that appending and *)
(* removing are set operations.                                          *)
(*************************************************************************)
EXTENDS Naturals, FiniteSets

CONSTANTS
  Ticket,         \* the requests that may hold a ticket
  Key,            \* the outside keys
  NoKey,          \* the owner of a ticket of ours
  ClassOf,        \* the class of each ticket
  OwnerOf         \* the outside key whose own caps apply to it, or NoKey

Class  == {"reader", "agent", "internal", "external"}
SHARED == {"agent", "internal", "external"}

ASSUME TicketsAssumption ==
  /\ IsFiniteSet(Ticket)
  /\ NoKey \notin Key
  /\ ClassOf \in [Ticket -> Class]
  /\ OwnerOf \in [Ticket -> Key \cup {NoKey}]

(* What config._key enforces: an outside key has the class `external` and *)
(* no other.                                                              *)
ASSUME OutsideIsExternal ==
  \A t \in Ticket : OwnerOf[t] # NoKey => ClassOf[t] = "external"

TicketState == {"left", "waiting", "active"}

(* CLASSES: the order of section 2, in which Line.in_order goes.         *)
Sooner(c, d) ==
  \/ c = "reader" /\ d # "reader"
  \/ c = "agent" /\ d \in {"internal", "external"}
  \/ c = "internal" /\ d = "external"

-----------------------------------------------------------------------------
(* The operations work on a record s whose field `state` is Ticket.state *)
(* of each ticket and whose field `ahead` is the line.                   *)

WaitingIn(s, c) == {t \in Ticket : s.state[t] = "waiting" /\ ClassOf[t] = c}

(* Line.add                                                              *)
Added(s, t) == [s.ahead EXCEPT ![t] = WaitingIn(s, ClassOf[t])]

(* Line.remove                                                           *)
Removed(s, t) == [u \in Ticket |-> IF u = t THEN {} ELSE s.ahead[u] \ {t}]

(* Line.in_order                                                         *)
Precedes(s, u, t) ==
  Sooner(ClassOf[u], ClassOf[t]) \/ u \in s.ahead[t]

(* A key's counter, for a ticket that an outside key owns.               *)
Counted(counter, t) ==
  IF OwnerOf[t] = NoKey THEN counter
  ELSE [counter EXCEPT ![OwnerOf[t]] = @ + 1]

Uncounted(counter, t) ==
  IF OwnerOf[t] = NoKey THEN counter
  ELSE [counter EXCEPT ![OwnerOf[t]] = @ - 1]
=============================================================================
