---------------------------- MODULE CountPlaces ----------------------------
(*************************************************************************)
(* The places of counts (src/simple_serving/admission.py, class          *)
(* CountPlaces), shared by all classes.  `enter` and `leave` are one     *)
(* atomic step each, as in Admission.                                    *)
(*************************************************************************)
EXTENDS Line

CONSTANTS     \* config.CountLimits, section 5
  Places,     \* count_limits.active
  PerKey      \* count_limits.per_outside_key, waiting counts included

VARIABLES
  state,     \* Ticket.state
  ahead,     \* Line._queues
  running,   \* CountPlaces._running, by class
  byOwner    \* CountPlaces._by_owner

vars == <<state, ahead, running, byOwner>>

Now == [state |-> state, ahead |-> ahead, running |-> running, byOwner |-> byOwner]

Become(s) ==
  /\ state' = s.state
  /\ ahead' = s.ahead
  /\ running' = s.running
  /\ byOwner' = s.byOwner

-----------------------------------------------------------------------------
(* The property `running`: the sum over the classes.                     *)
Running(s) ==
  s.running["reader"] + s.running["agent"] + s.running["internal"] + s.running["external"]

HasPlace(s) == Running(s) < Places

KeyFull(s, t) == OwnerOf[t] # NoKey /\ s.byOwner[OwnerOf[t]] >= PerKey

(* enter past the key's cap: a place at once, or the end of the line.    *)
Placed(s, t) ==
  [state |-> [s.state EXCEPT ![t] = "active"],
   ahead |-> s.ahead,
   running |-> [s.running EXCEPT ![ClassOf[t]] = @ + 1],
   byOwner |-> Counted(s.byOwner, t)]

Queued(s, t) ==
  [state |-> [s.state EXCEPT ![t] = "waiting"],
   ahead |-> Added(s, t),
   running |-> s.running,
   byOwner |-> Counted(s.byOwner, t)]

(* leave, before the freed place is given on.                            *)
Gone(s, t) ==
  [state |-> [s.state EXCEPT ![t] = "left"],
   ahead |-> IF s.state[t] = "waiting" THEN Removed(s, t) ELSE s.ahead,
   running |-> IF s.state[t] = "waiting" THEN s.running
               ELSE [s.running EXCEPT ![ClassOf[t]] = @ - 1],
   byOwner |-> Uncounted(s.byOwner, t)]

(* A grant to the first in line: its key has counted it since it entered. *)
Granted(s, t) ==
  [state |-> [s.state EXCEPT ![t] = "active"],
   ahead |-> Removed(s, t),
   running |-> [s.running EXCEPT ![ClassOf[t]] = @ + 1],
   byOwner |-> s.byOwner]

(* Fault: any count in line goes.                                        *)
FirstInLine_AnyOrder(s, t) == s.state[t] = "waiting"

FirstInLine(s, t) ==
  /\ s.state[t] = "waiting"
  /\ \A u \in Ticket : s.state[u] = "waiting" => ~Precedes(s, u, t)

(*************************************************************************)
(* The loop at the end of leave, at most one grant: one place at most is *)
(* free while a count waits, as NoIdlePlace says and TextLaneProofs      *)
(* proves.                                                               *)
(*************************************************************************)
Dispatch(s) ==
  \/ /\ ~HasPlace(s) \/ \A u \in Ticket : s.state[u] # "waiting"
     /\ Become(s)
  \/ /\ HasPlace(s)
     /\ \E u \in Ticket : FirstInLine(s, u) /\ Become(Granted(s, u))

-----------------------------------------------------------------------------
Init ==
  /\ state = [t \in Ticket |-> "left"]
  /\ ahead = [t \in Ticket |-> {}]
  /\ running = [c \in Class |-> 0]
  /\ byOwner = [k \in Key |-> 0]

Enter(t) ==
  /\ state[t] = "left"
  /\ ~KeyFull(Now, t)
  /\ \/ HasPlace(Now) /\ Become(Placed(Now, t))
     \/ ~HasPlace(Now) /\ Become(Queued(Now, t))

(* 429 queue_full                                                        *)
EnterRefused(t) ==
  /\ state[t] = "left"
  /\ KeyFull(Now, t)
  /\ UNCHANGED vars

(* Fault: a freed place is offered to nobody.                            *)
Leave_NoDispatch(t) ==
  /\ state[t] # "left"
  /\ Become(Gone(Now, t))

(* The call on a ticket that has left returns at once.                   *)
Leave(t) ==
  /\ state[t] # "left"
  /\ Dispatch(Gone(Now, t))

Next == \E t \in Ticket : Enter(t) \/ EnterRefused(t) \/ Leave(t)

Spec == Init /\ [][Next]_vars

-----------------------------------------------------------------------------
WaitingSet == {t \in Ticket : state[t] = "waiting"}
RunningSet == {t \in Ticket : state[t] = "active"}
RunningIn(c) == {t \in Ticket : state[t] = "active" /\ ClassOf[t] = c}
CountsOf(k) == {t \in Ticket : state[t] # "left" /\ OwnerOf[t] = k}

(* The types of the fields: no counter goes below zero.                  *)
TypeOK ==
  /\ state \in [Ticket -> TicketState]
  /\ ahead \in [Ticket -> SUBSET Ticket]
  /\ running \in [Class -> Nat]
  /\ byOwner \in [Key -> Nat]

(* No leak on any path: each class counts its running tickets, each key  *)
(* its tickets, waiting ones included.                                   *)
CountersExact ==
  /\ \A c \in Class : running[c] = Cardinality(RunningIn(c))
  /\ \A k \in Key : byOwner[k] = Cardinality(CountsOf(k))

(* At most Places counts run at once and at most PerKey are one key's.   *)
CapsHeld ==
  /\ Cardinality(RunningSet) <= Places
  /\ \A k \in Key : Cardinality(CountsOf(k)) <= PerKey

(* While a count waits, every place is taken.                            *)
NoIdlePlace ==
  WaitingSet # {} => Cardinality(RunningSet) = Places

(* A place never goes to a count while another waits that is of a class  *)
(* served before, or of the same class and came before it.               *)
NoOvertaking ==
  [][\A t, u \in Ticket :
       /\ state[t] # "active" /\ state'[t] = "active"
       /\ state[u] = "waiting" /\ state'[u] = "waiting"
       => /\ state[t] = "waiting"
          /\ ~Sooner(ClassOf[u], ClassOf[t])
          /\ u \notin ahead[t]]_vars
=============================================================================
