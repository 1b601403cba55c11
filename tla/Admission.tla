----------------------------- MODULE Admission -----------------------------
(***************************************************************************)
(* The places of generations (src/simple_serving/admission.py, class       *)
(* Admission): a ticket enters and is active at once, waits in line, or is *)
(* refused; a ticket that leaves gives its place to the next in line.      *)
(*                                                                         *)
(* The gateway runs on one event loop and neither `enter` nor `leave`      *)
(* awaits, so each call is one atomic step.                                *)
(***************************************************************************)
EXTENDS Line

CONSTANTS
  ActiveCap,      \* limits[class].active
  WaitingCap,     \* limits[class].waiting
  SharedPlaces,   \* shared_places
  PerKeyActive,   \* per_key_active
  PerKeyWaiting   \* per_key_waiting

ASSUME CapsAssumption ==
  /\ ActiveCap \in [Class -> Nat]
  /\ WaitingCap \in [Class -> Nat]
  /\ SharedPlaces \in Nat
  /\ PerKeyActive \in Nat
  /\ PerKeyWaiting \in Nat

VARIABLES
  state,         \* Ticket.state
  ahead,         \* Line._queues: the tickets before a waiting ticket in its class's queue
  active,        \* Admission._active
  ownerActive,   \* Admission._owner_active
  ownerWaiting   \* Admission._owner_waiting

vars == <<state, ahead, active, ownerActive, ownerWaiting>>

Now == [state |-> state, ahead |-> ahead, active |-> active,
        ownerActive |-> ownerActive, ownerWaiting |-> ownerWaiting]

Become(s) ==
  /\ state' = s.state
  /\ ahead' = s.ahead
  /\ active' = s.active
  /\ ownerActive' = s.ownerActive
  /\ ownerWaiting' = s.ownerWaiting

-----------------------------------------------------------------------------
(* The parts of a call, on the state s they work on.                     *)

(* Fault: the shared places are not looked at.                           *)
HasRoom_NotShared(s, t) ==
  /\ s.active[ClassOf[t]] < ActiveCap[ClassOf[t]]
  /\ OwnerOf[t] # NoKey => s.ownerActive[OwnerOf[t]] < PerKeyActive

HasRoom(s, t) ==
  /\ s.active[ClassOf[t]] < ActiveCap[ClassOf[t]]
  /\ OwnerOf[t] # NoKey => s.ownerActive[OwnerOf[t]] < PerKeyActive
  /\ ClassOf[t] \in SHARED =>
       s.active["agent"] + s.active["internal"] + s.active["external"] < SharedPlaces

QueueFull(s, t) ==
  \/ Cardinality(WaitingIn(s, ClassOf[t])) >= WaitingCap[ClassOf[t]]
  \/ OwnerOf[t] # NoKey /\ s.ownerWaiting[OwnerOf[t]] >= PerKeyWaiting

Queued(s, t) ==
  [state |-> [s.state EXCEPT ![t] = "waiting"],
   ahead |-> Added(s, t),
   active |-> s.active,
   ownerActive |-> s.ownerActive,
   ownerWaiting |-> Counted(s.ownerWaiting, t)]

OutOfLine(s, t) ==
  [state |-> [s.state EXCEPT ![t] = "left"],
   ahead |-> Removed(s, t),
   active |-> s.active,
   ownerActive |-> s.ownerActive,
   ownerWaiting |-> Uncounted(s.ownerWaiting, t)]

Activated(s, t) ==
  [state |-> [s.state EXCEPT ![t] = "active"],
   ahead |-> s.ahead,
   active |-> [s.active EXCEPT ![ClassOf[t]] = @ + 1],
   ownerActive |-> Counted(s.ownerActive, t),
   ownerWaiting |-> s.ownerWaiting]

Freed(s, t) ==
  [state |-> [s.state EXCEPT ![t] = "left"],
   ahead |-> s.ahead,
   active |-> [s.active EXCEPT ![ClassOf[t]] = @ - 1],
   ownerActive |-> Uncounted(s.ownerActive, t),
   ownerWaiting |-> s.ownerWaiting]

CanGo(s, t) == s.state[t] = "waiting" /\ HasRoom(s, t)

(* Fault: any waiting ticket with room goes, whatever its place in line. *)
NextToGo_AnyOrder(s, t) == CanGo(s, t)

(* Fault: the newest ticket of the first class goes.                     *)
NextToGo_Newest(s, t) ==
  CanGo(s, t) /\ \A u \in Ticket : CanGo(s, u) =>
    ~Sooner(ClassOf[u], ClassOf[t]) /\ t \notin s.ahead[u]

NextToGo(s, t) ==
  CanGo(s, t) /\ \A u \in Ticket : CanGo(s, u) => ~Precedes(s, u, t)

(***************************************************************************)
(* Admission._dispatch.  The code's loop grants while a waiting ticket has *)
(* room.  It is written here as at most one grant: that nobody has room    *)
(* after it, the loop's exit condition, is the invariant WorkConserving,   *)
(* proved in AdmissionProofs from OutsideIsExternal.                       *)
(***************************************************************************)
Dispatch(s) ==
  \/ /\ \A u \in Ticket : ~CanGo(s, u)
     /\ Become(s)
  \/ \E u \in Ticket : /\ NextToGo(s, u)
                       /\ Become(Activated(OutOfLine(s, u), u))

-----------------------------------------------------------------------------
Init ==
  /\ state = [t \in Ticket |-> "left"]
  /\ ahead = [t \in Ticket |-> {}]
  /\ active = [c \in Class |-> 0]
  /\ ownerActive = [k \in Key |-> 0]
  /\ ownerWaiting = [k \in Key |-> 0]

EnterActive(t) ==
  /\ state[t] = "left"
  /\ HasRoom(Now, t)
  /\ Become(Activated(Now, t))

EnterLine(t) ==
  /\ state[t] = "left"
  /\ ~HasRoom(Now, t)
  /\ ~QueueFull(Now, t)
  /\ Become(Queued(Now, t))

(* 429 queue_full: the call changes nothing.                             *)
EnterRefused(t) ==
  /\ state[t] = "left"
  /\ ~HasRoom(Now, t)
  /\ QueueFull(Now, t)
  /\ UNCHANGED vars

(* The call on a ticket that has left returns at once.                   *)
LeaveWaiting(t) ==
  /\ state[t] = "waiting"
  /\ Dispatch(OutOfLine(Now, t))

(* Fault: a freed place is offered to nobody.                            *)
LeaveActive_NoDispatch(t) ==
  /\ state[t] = "active"
  /\ Become(Freed(Now, t))

LeaveActive(t) ==
  /\ state[t] = "active"
  /\ Dispatch(Freed(Now, t))

Next ==
  \E t \in Ticket :
    \/ EnterActive(t)
    \/ EnterLine(t)
    \/ EnterRefused(t)
    \/ LeaveWaiting(t)
    \/ LeaveActive(t)

Spec == Init /\ [][Next]_vars

(*************************************************************************)
(* An active generation ends: its wall time stops it, its cleanup closes *)
(* its engine request and leaves (inference.py, Work.serve and           *)
(* Generation.cleanup).  A waiting one may also leave, at any time, but  *)
(* nothing here relies on it.                                            *)
(*************************************************************************)
FairSpec == Spec /\ \A t \in Ticket : WF_vars(LeaveActive(t))

-----------------------------------------------------------------------------
(* The state as sets, which the counters stand for.                      *)

WaitingSet == {t \in Ticket : state[t] = "waiting"}
ActiveIn(c) == {t \in Ticket : state[t] = "active" /\ ClassOf[t] = c}
ActiveOf(k) == {t \in Ticket : state[t] = "active" /\ OwnerOf[t] = k}
WaitingOf(k) == {t \in Ticket : state[t] = "waiting" /\ OwnerOf[t] = k}
SharedActive == {t \in Ticket : state[t] = "active" /\ ClassOf[t] \in SHARED}

ClassFull(c) == Cardinality(ActiveIn(c)) >= ActiveCap[c]
KeyFull(k) == k # NoKey /\ Cardinality(ActiveOf(k)) >= PerKeyActive
SharedFull == Cardinality(SharedActive) >= SharedPlaces

(* Every counter is a natural number, never below zero, and a queue holds *)
(* tickets: the types of Admission's fields.                              *)
TypeOK ==
  /\ state \in [Ticket -> TicketState]
  /\ ahead \in [Ticket -> SUBSET Ticket]
  /\ active \in [Class -> Nat]
  /\ ownerActive \in [Key -> Nat]
  /\ ownerWaiting \in [Key -> Nat]

(* No leak: on every path through enter, leave and _dispatch the counters *)
(* that decide admission stay equal to the tickets they count.            *)
CountersExact ==
  /\ \A c \in Class : active[c] = Cardinality(ActiveIn(c))
  /\ \A k \in Key : /\ ownerActive[k] = Cardinality(ActiveOf(k))
                    /\ ownerWaiting[k] = Cardinality(WaitingOf(k))

(* No cap of section 7 is ever passed, by newcomers or by grants: a      *)
(* class's places, the shared places, a key's places, the waiting caps.  *)
CapsHeld ==
  /\ \A c \in Class : /\ Cardinality(ActiveIn(c)) <= ActiveCap[c]
                      /\ Cardinality({t \in WaitingSet : ClassOf[t] = c}) <= WaitingCap[c]
  /\ Cardinality(SharedActive) <= SharedPlaces
  /\ \A k \in Key : /\ Cardinality(ActiveOf(k)) <= PerKeyActive
                    /\ Cardinality(WaitingOf(k)) <= PerKeyWaiting

(* No place stays free under a ticket that could take it: a ticket still *)
(* waiting is held by a cap of its own class or key, or by full shared   *)
(* places (the module comment's last promise about places).              *)
WorkConserving ==
  \A t \in WaitingSet :
    \/ ClassFull(ClassOf[t])
    \/ KeyFull(OwnerOf[t])
    \/ ClassOf[t] \in SHARED /\ SharedFull

(* Nobody is overtaken except behind a cap of its own: when a ticket gets  *)
(* a place, a waiting one of a class before its own, or ahead of it in its *)
(* class, is held by its class's own cap (another class) or its key's.     *)
OvertakenOnlyBehindOwnCap ==
  [][\A t, u \in Ticket :
       /\ state[t] # "active" /\ state'[t] = "active"
       /\ state[u] = "waiting" /\ state'[u] = "waiting"
       /\ \/ Sooner(ClassOf[u], ClassOf[t])
          \/ ClassOf[u] = ClassOf[t] /\ (state[t] = "left" \/ u \in ahead[t])
       => \/ KeyFull(OwnerOf[u])'
          \/ ClassOf[u] # ClassOf[t] /\ ClassFull(ClassOf[u])']_vars

(* No ticket waits for ever unless tickets of a class served before it     *)
(* keep waiting too: strict priority may starve `internal` and `external`, *)
(* never `reader` or `agent`, and never one ticket of a class behind later *)
(* ones of the same class.                                                 *)
StarvedOnlyByPriority ==
  \A t \in Ticket :
    []<>(\/ state[t] # "waiting"
         \/ \E u \in WaitingSet : /\ {ClassOf[t], ClassOf[u]} \subseteq SHARED
                                  /\ Sooner(ClassOf[u], ClassOf[t]))
=============================================================================
