-------------------------- MODULE AdmissionProofs --------------------------
(***************************************************************************)
(* Proofs about Admission for every set of tickets and every cap.          *)
(*                                                                         *)
(* The inductive invariant is IInv: the state is well typed, every counter *)
(* equals the tickets it counts, no cap is passed, and nobody in line has  *)
(* room.  The first three hold of every state a call passes through, so    *)
(* they are stated of a state record s and proved part by part; the last   *)
(* holds only between calls, and is what makes one grant enough.           *)
(***************************************************************************)
EXTENDS Admission, FiniteSetTheorems, TLAPS

(* Counting tickets by state, class and owner.                           *)
In(s, st, c) == {t \in Ticket : s.state[t] = st /\ ClassOf[t] = c}
Of(s, st, k) == {t \in Ticket : s.state[t] = st /\ OwnerOf[t] = k}

-----------------------------------------------------------------------------
(* A set of tickets loses or gains one ticket when that ticket changes.  *)

LEMMA TicketSets ==
  ASSUME NEW S \in SUBSET Ticket
  PROVE  /\ IsFiniteSet(S)
         /\ Cardinality(S) \in Nat
         /\ \A t \in S : Cardinality(S \ {t}) = Cardinality(S) - 1 /\ Cardinality(S) >= 1
         /\ \A t \in Ticket \ S : Cardinality(S \cup {t}) = Cardinality(S) + 1
<1>1. IsFiniteSet(S)
  BY FS_Subset, TicketsAssumption
<1>2. Cardinality(S) \in Nat
  BY <1>1, FS_CardinalityType
<1>3. ASSUME NEW t \in S
      PROVE  Cardinality(S \ {t}) = Cardinality(S) - 1 /\ Cardinality(S) >= 1
  <2>1. Cardinality(S \ {t}) = Cardinality(S) - 1
    BY <1>1, FS_RemoveElement
  <2>2. Cardinality(S) # 0
    BY <1>1, <1>3, FS_EmptySet
  <2> QED  BY <1>2, <2>1, <2>2
<1>4. ASSUME NEW t \in Ticket \ S
      PROVE  Cardinality(S \cup {t}) = Cardinality(S) + 1
  BY <1>1, FS_AddElement
<1> QED  BY <1>1, <1>2, <1>3, <1>4

(* When one ticket changes its state to new, the sets of its class and of *)
(* its owner change by it alone, and no other set changes.                *)
MovesOne(s, z, t, new) ==
  /\ \A c \in Class, st \in TicketState :
       Cardinality(In(z, st, c)) =
         IF ClassOf[t] # c THEN Cardinality(In(s, st, c))
         ELSE IF st = new THEN Cardinality(In(s, st, c)) + 1
         ELSE IF st = s.state[t] THEN Cardinality(In(s, st, c)) - 1
         ELSE Cardinality(In(s, st, c))
  /\ \A k \in Key, st \in TicketState :
       Cardinality(Of(z, st, k)) =
         IF OwnerOf[t] # k THEN Cardinality(Of(s, st, k))
         ELSE IF st = new THEN Cardinality(Of(s, st, k)) + 1
         ELSE IF st = s.state[t] THEN Cardinality(Of(s, st, k)) - 1
         ELSE Cardinality(Of(s, st, k))
  /\ \A c \in Class, st \in TicketState : Cardinality(In(s, st, c)) \in Nat
  /\ Cardinality(In(s, s.state[t], ClassOf[t])) >= 1
  /\ OwnerOf[t] \in Key => Cardinality(Of(s, s.state[t], OwnerOf[t])) >= 1

LEMMA OneTicketMoves ==
  ASSUME NEW s, NEW z, NEW t \in Ticket, NEW new \in TicketState,
         s.state \in [Ticket -> TicketState],
         z.state = [s.state EXCEPT ![t] = new],
         s.state[t] # new
  PROVE  MovesOne(s, z, t, new)
<1>1. ASSUME NEW c \in Class, NEW st \in TicketState
      PROVE  /\ In(z, st, c) \in SUBSET Ticket /\ In(s, st, c) \in SUBSET Ticket
             /\ In(z, st, c) = IF ClassOf[t] # c THEN In(s, st, c)
                               ELSE IF st = new THEN In(s, st, c) \cup {t}
                               ELSE IF st = s.state[t] THEN In(s, st, c) \ {t}
                               ELSE In(s, st, c)
             /\ ClassOf[t] = c /\ st = new => t \in Ticket \ In(s, st, c)
             /\ ClassOf[t] = c /\ st = s.state[t] => t \in In(s, st, c)
  BY DEF In
<1>2. ASSUME NEW k \in Key, NEW st \in TicketState
      PROVE  /\ Of(z, st, k) \in SUBSET Ticket /\ Of(s, st, k) \in SUBSET Ticket
             /\ Of(z, st, k) = IF OwnerOf[t] # k THEN Of(s, st, k)
                               ELSE IF st = new THEN Of(s, st, k) \cup {t}
                               ELSE IF st = s.state[t] THEN Of(s, st, k) \ {t}
                               ELSE Of(s, st, k)
             /\ OwnerOf[t] = k /\ st = new => t \in Ticket \ Of(s, st, k)
             /\ OwnerOf[t] = k /\ st = s.state[t] => t \in Of(s, st, k)
  BY DEF Of
<1>3. ASSUME NEW c \in Class, NEW st \in TicketState
      PROVE  Cardinality(In(z, st, c)) =
                IF ClassOf[t] # c THEN Cardinality(In(s, st, c))
                ELSE IF st = new THEN Cardinality(In(s, st, c)) + 1
                ELSE IF st = s.state[t] THEN Cardinality(In(s, st, c)) - 1
                ELSE Cardinality(In(s, st, c))
  BY <1>1, TicketSets
<1>4. ASSUME NEW k \in Key, NEW st \in TicketState
      PROVE  Cardinality(Of(z, st, k)) =
                IF OwnerOf[t] # k THEN Cardinality(Of(s, st, k))
                ELSE IF st = new THEN Cardinality(Of(s, st, k)) + 1
                ELSE IF st = s.state[t] THEN Cardinality(Of(s, st, k)) - 1
                ELSE Cardinality(Of(s, st, k))
  BY <1>2, TicketSets
<1>5. ASSUME NEW c \in Class, NEW st \in TicketState
      PROVE  Cardinality(In(s, st, c)) \in Nat
  BY <1>1, TicketSets
<1>6. Cardinality(In(s, s.state[t], ClassOf[t])) >= 1
  BY <1>1, TicketSets, TicketsAssumption
<1>7. OwnerOf[t] \in Key => Cardinality(Of(s, s.state[t], OwnerOf[t])) >= 1
  BY <1>2, TicketSets
<1> QED  BY <1>3, <1>4, <1>5, <1>6, <1>7 DEF MovesOne

(* WaitingIn is the set of waiting tickets of a class.                   *)
LEMMA WaitingInIsIn == \A s, c : WaitingIn(s, c) = In(s, "waiting", c)
  BY DEF WaitingIn, In

LEMMA DisjointUnion ==
  ASSUME NEW S, NEW T, IsFiniteSet(S), IsFiniteSet(T), S \cap T = {}
  PROVE  Cardinality(S \cup T) = Cardinality(S) + Cardinality(T)
<1>1. Cardinality(S \cup T) = Cardinality(S) + Cardinality(T) - Cardinality(S \cap T)
  BY FS_Union
<1>2. Cardinality(S \cap T) = 0
  BY FS_EmptySet
<1>3. Cardinality(S) \in Nat /\ Cardinality(T) \in Nat
  BY FS_CardinalityType
<1> QED  BY <1>1, <1>2, <1>3

-----------------------------------------------------------------------------

Typed(s) ==
  /\ s \in [state : [Ticket -> TicketState], ahead : [Ticket -> SUBSET Ticket],
            active : [Class -> Nat], ownerActive : [Key -> Nat], ownerWaiting : [Key -> Nat]]

Exact(s) ==
  /\ \A c \in Class : s.active[c] = Cardinality(In(s, "active", c))
  /\ \A k \in Key : /\ s.ownerActive[k] = Cardinality(Of(s, "active", k))
                    /\ s.ownerWaiting[k] = Cardinality(Of(s, "waiting", k))

Capped(s) ==
  /\ \A c \in Class : /\ s.active[c] <= ActiveCap[c]
                      /\ Cardinality(WaitingIn(s, c)) <= WaitingCap[c]
  /\ s.active["agent"] + s.active["internal"] + s.active["external"] <= SharedPlaces
  /\ \A k \in Key : /\ s.ownerActive[k] <= PerKeyActive
                    /\ s.ownerWaiting[k] <= PerKeyWaiting

Good(s) == Typed(s) /\ Exact(s) /\ Capped(s)

NobodyCanGo(s) == \A u \in Ticket : ~CanGo(s, u)

IInv == Good(Now) /\ NobodyCanGo(Now)

-----------------------------------------------------------------------------
(* Each part of a call keeps the state good.                             *)

(* _activate and _grant, for a newcomer: a ticket with room takes a place. *)
LEMMA ActivatedGood ==
  ASSUME NEW s, Good(s), NEW t \in Ticket, s.state[t] = "left", HasRoom(s, t)
  PROVE  Good(Activated(s, t))
<1> DEFINE z == Activated(s, t)
<1>1. /\ s.state \in [Ticket -> TicketState]
      /\ z.state = [s.state EXCEPT ![t] = "active"]
      /\ z.active = [s.active EXCEPT ![ClassOf[t]] = @ + 1]
      /\ z.ownerActive = Counted(s.ownerActive, t)
      /\ z.ownerWaiting = s.ownerWaiting
  BY DEF Good, Typed, Activated
<1>2. Typed(z)
  BY TicketsAssumption DEF Good, Typed, Activated, Counted, TicketState
<1> HIDE DEF z
<1>3. MovesOne(s, z, t, "active")
  <2>1. "active" \in TicketState /\ s.state[t] # "active"
    BY DEF TicketState
  <2> QED  BY <1>1, <2>1, OneTicketMoves
<1>4. Exact(z)
  <2>1. \A c \in Class : z.active[c] = Cardinality(In(z, "active", c))
    BY <1>1, <1>3, TicketsAssumption DEF Good, Typed, Exact, TicketState, MovesOne
  <2>2. ASSUME NEW k \in Key
        PROVE  /\ z.ownerActive[k] = Cardinality(Of(z, "active", k))
               /\ z.ownerWaiting[k] = Cardinality(Of(z, "waiting", k))
    BY <1>1, <1>3, TicketsAssumption
       DEF Good, Typed, Exact, TicketState, Counted, MovesOne
  <2> QED  BY <2>1, <2>2 DEF Exact
<1>5. Capped(z)
  <2>1. ASSUME NEW c \in Class PROVE z.active[c] <= ActiveCap[c]
    BY <1>1, CapsAssumption, TicketsAssumption DEF Good, Typed, Capped, HasRoom
  <2>2. ASSUME NEW c \in Class PROVE Cardinality(WaitingIn(z, c)) <= WaitingCap[c]
    BY <1>3, WaitingInIsIn DEF Good, Capped, TicketState, MovesOne
  <2>3. z.active["agent"] + z.active["internal"] + z.active["external"] <= SharedPlaces
    BY <1>1, CapsAssumption, TicketsAssumption
       DEF Good, Typed, Capped, HasRoom, Class, SHARED
  <2>4. ASSUME NEW k \in Key
        PROVE  z.ownerActive[k] <= PerKeyActive /\ z.ownerWaiting[k] <= PerKeyWaiting
    BY <1>1, CapsAssumption, TicketsAssumption
       DEF Good, Typed, Capped, HasRoom, Counted
  <2> QED  BY <2>1, <2>2, <2>3, <2>4 DEF Capped
<1> QED  BY <1>2, <1>4, <1>5 DEF z, Good
(* leave of an active ticket, before _dispatch.                          *)
LEMMA FreedGood ==
  ASSUME NEW s, Good(s), NEW t \in Ticket, s.state[t] = "active"
  PROVE  Good(Freed(s, t))
<1> DEFINE z == Freed(s, t)
<1>1. /\ s.state \in [Ticket -> TicketState]
      /\ z.state = [s.state EXCEPT ![t] = "left"]
      /\ z.active = [s.active EXCEPT ![ClassOf[t]] = @ - 1]
      /\ z.ownerActive = Uncounted(s.ownerActive, t)
      /\ z.ownerWaiting = s.ownerWaiting
  BY DEF Good, Typed, Freed
<1>2. MovesOne(s, z, t, "left")
  <2> HIDE DEF z
  <2>1. "left" \in TicketState /\ s.state[t] # "left"
    BY DEF TicketState
  <2> QED  BY <1>1, <2>1, OneTicketMoves
<1>3. Typed(z)
  <2> HIDE DEF z
  <2>1. z.active \in [Class -> Nat] /\ z.ownerActive \in [Key -> Nat]
    BY <1>1, <1>2, TicketsAssumption DEF Good, Typed, Exact, MovesOne, Uncounted
  <2> QED  BY <1>1, <2>1 DEF z, Good, Typed, Freed, TicketState
<1> HIDE DEF z
<1>4. Exact(z)
  <2>1. \A c \in Class : z.active[c] = Cardinality(In(z, "active", c))
    BY <1>1, <1>2, TicketsAssumption DEF Good, Typed, Exact, TicketState, MovesOne
  <2>2. ASSUME NEW k \in Key
        PROVE  /\ z.ownerActive[k] = Cardinality(Of(z, "active", k))
               /\ z.ownerWaiting[k] = Cardinality(Of(z, "waiting", k))
    BY <1>1, <1>2, TicketsAssumption
       DEF Good, Typed, Exact, TicketState, Uncounted, MovesOne
  <2> QED  BY <2>1, <2>2 DEF Exact
<1>5. Capped(z)
  <2>1. ASSUME NEW c \in Class PROVE z.active[c] <= ActiveCap[c]
    BY <1>1, CapsAssumption, TicketsAssumption DEF Good, Typed, Capped
  <2>2. ASSUME NEW c \in Class PROVE Cardinality(WaitingIn(z, c)) <= WaitingCap[c]
    BY <1>2, CapsAssumption, WaitingInIsIn
       DEF Good, Capped, TicketState, MovesOne
  <2>3. z.active["agent"] + z.active["internal"] + z.active["external"] <= SharedPlaces
    BY <1>1, CapsAssumption, TicketsAssumption
       DEF Good, Typed, Capped, Class
  <2>4. ASSUME NEW k \in Key
        PROVE  z.ownerActive[k] <= PerKeyActive /\ z.ownerWaiting[k] <= PerKeyWaiting
    BY <1>1, CapsAssumption, TicketsAssumption
       DEF Good, Typed, Capped, Uncounted
  <2> QED  BY <2>1, <2>2, <2>3, <2>4 DEF Capped
<1> QED  BY <1>3, <1>4, <1>5 DEF z, Good

(* A ticket taken out of the line, by leave or by _dispatch.             *)
LEMMA OutOfLineGood ==
  ASSUME NEW s, Good(s), NEW t \in Ticket, s.state[t] = "waiting"
  PROVE  Good(OutOfLine(s, t))
<1> DEFINE z == OutOfLine(s, t)
<1>1. /\ s.state \in [Ticket -> TicketState]
      /\ z.state = [s.state EXCEPT ![t] = "left"]
      /\ z.active = s.active
      /\ z.ownerActive = s.ownerActive
      /\ z.ownerWaiting = Uncounted(s.ownerWaiting, t)
  BY DEF Good, Typed, OutOfLine
<1>2. MovesOne(s, z, t, "left")
  <2> HIDE DEF z
  <2>1. "left" \in TicketState /\ s.state[t] # "left"
    BY DEF TicketState
  <2> QED  BY <1>1, <2>1, OneTicketMoves
<1>3. Typed(z)
  <2> HIDE DEF z
  <2>1. z.ownerWaiting \in [Key -> Nat]
    BY <1>1, <1>2, TicketsAssumption DEF Good, Typed, Exact, MovesOne, Uncounted
  <2> QED  BY <1>1, <2>1 DEF z, Good, Typed, OutOfLine, Removed, TicketState
<1> HIDE DEF z
<1>4. Exact(z)
  <2>1. \A c \in Class : z.active[c] = Cardinality(In(z, "active", c))
    BY <1>1, <1>2, TicketsAssumption DEF Good, Typed, Exact, TicketState, MovesOne
  <2>2. ASSUME NEW k \in Key
        PROVE  /\ z.ownerActive[k] = Cardinality(Of(z, "active", k))
               /\ z.ownerWaiting[k] = Cardinality(Of(z, "waiting", k))
    BY <1>1, <1>2, TicketsAssumption
       DEF Good, Typed, Exact, TicketState, Uncounted, MovesOne
  <2> QED  BY <2>1, <2>2 DEF Exact
<1>5. Capped(z)
  <2>1. ASSUME NEW c \in Class PROVE z.active[c] <= ActiveCap[c]
    BY <1>1, CapsAssumption, TicketsAssumption DEF Good, Typed, Capped
  <2>2. ASSUME NEW c \in Class PROVE Cardinality(WaitingIn(z, c)) <= WaitingCap[c]
    BY <1>2, CapsAssumption, WaitingInIsIn
       DEF Good, Capped, TicketState, MovesOne
  <2>3. z.active["agent"] + z.active["internal"] + z.active["external"] <= SharedPlaces
    BY <1>1, CapsAssumption, TicketsAssumption
       DEF Good, Typed, Capped, Class
  <2>4. ASSUME NEW k \in Key
        PROVE  z.ownerActive[k] <= PerKeyActive /\ z.ownerWaiting[k] <= PerKeyWaiting
    BY <1>1, CapsAssumption, TicketsAssumption
       DEF Good, Typed, Capped, Uncounted
  <2> QED  BY <2>1, <2>2, <2>3, <2>4 DEF Capped
<1> QED  BY <1>3, <1>4, <1>5 DEF z, Good

(* enter, for a ticket without room and with a place in line.            *)
LEMMA QueuedGood ==
  ASSUME NEW s, Good(s), NEW t \in Ticket, s.state[t] = "left",
         ~QueueFull(s, t)
  PROVE  Good(Queued(s, t))
<1> DEFINE z == Queued(s, t)
<1>1. /\ s.state \in [Ticket -> TicketState]
      /\ z.state = [s.state EXCEPT ![t] = "waiting"]
      /\ z.active = s.active
      /\ z.ownerActive = s.ownerActive
      /\ z.ownerWaiting = Counted(s.ownerWaiting, t)
  BY DEF Good, Typed, Queued
<1>2. MovesOne(s, z, t, "waiting")
  <2> HIDE DEF z
  <2>1. "waiting" \in TicketState /\ s.state[t] # "waiting"
    BY DEF TicketState
  <2> QED  BY <1>1, <2>1, OneTicketMoves
<1>3. Typed(z)
  <2> HIDE DEF z
  <2>1. z.ownerWaiting \in [Key -> Nat]
    BY <1>1, TicketsAssumption DEF Good, Typed, Counted
  <2> QED  BY <1>1, <2>1 DEF z, Good, Typed, Queued, Added, TicketState, WaitingIn
<1> HIDE DEF z
<1>4. Exact(z)
  <2>1. \A c \in Class : z.active[c] = Cardinality(In(z, "active", c))
    BY <1>1, <1>2, TicketsAssumption DEF Good, Typed, Exact, TicketState, MovesOne
  <2>2. ASSUME NEW k \in Key
        PROVE  /\ z.ownerActive[k] = Cardinality(Of(z, "active", k))
               /\ z.ownerWaiting[k] = Cardinality(Of(z, "waiting", k))
    BY <1>1, <1>2, TicketsAssumption
       DEF Good, Typed, Exact, TicketState, Counted, MovesOne
  <2> QED  BY <2>1, <2>2 DEF Exact
<1>5. Capped(z)
  <2>1. ASSUME NEW c \in Class PROVE z.active[c] <= ActiveCap[c]
    BY <1>1, CapsAssumption, TicketsAssumption DEF Good, Typed, Capped
  <2>2. ASSUME NEW c \in Class PROVE Cardinality(WaitingIn(z, c)) <= WaitingCap[c]
    BY <1>2, CapsAssumption, WaitingInIsIn
       DEF Good, Capped, TicketState, MovesOne, QueueFull
  <2>3. z.active["agent"] + z.active["internal"] + z.active["external"] <= SharedPlaces
    BY <1>1, CapsAssumption, TicketsAssumption
       DEF Good, Typed, Capped, Class
  <2>4. ASSUME NEW k \in Key
        PROVE  z.ownerActive[k] <= PerKeyActive /\ z.ownerWaiting[k] <= PerKeyWaiting
    BY <1>1, CapsAssumption, TicketsAssumption
       DEF Good, Typed, Capped, Counted, QueueFull
  <2> QED  BY <2>1, <2>2, <2>3, <2>4 DEF Capped
<1> QED  BY <1>3, <1>4, <1>5 DEF z, Good

-----------------------------------------------------------------------------
(* _dispatch: what it grants, and that one grant is enough.              *)

(* A waiting ticket that has room takes a place.                         *)
LEMMA GrantGood ==
  ASSUME NEW s, Good(s), NEW u \in Ticket, CanGo(s, u)
  PROVE  Good(Activated(OutOfLine(s, u), u))
<1>1. Good(OutOfLine(s, u))
  BY OutOfLineGood DEF CanGo
<1>2. OutOfLine(s, u).state[u] = "left"
  BY DEF OutOfLine, Good, Typed
<1>3. HasRoom(OutOfLine(s, u), u)
  BY DEF OutOfLine, HasRoom, CanGo
<1> QED  BY <1>1, <1>2, <1>3, ActivatedGood

LEMMA BecomeNow ==
  ASSUME NEW s, Typed(s), Become(s)
  PROVE  Now' = s
BY DEF Typed, Become, Now

LEMMA DispatchGood ==
  ASSUME NEW s, Good(s), Dispatch(s)
  PROVE  Good(Now')
<1>1. CASE Become(s)
  BY <1>1, BecomeNow DEF Good
<1>2. CASE \E u \in Ticket : NextToGo(s, u) /\ Become(Activated(OutOfLine(s, u), u))
  <2>1. PICK u \in Ticket : NextToGo(s, u) /\ Become(Activated(OutOfLine(s, u), u))
    BY <1>2
  <2>2. Good(Activated(OutOfLine(s, u), u))
    BY <2>1, GrantGood DEF NextToGo
  <2> QED  BY <2>1, <2>2, BecomeNow DEF Good
<1> QED  BY <1>1, <1>2 DEF Dispatch

(***************************************************************************)
(* One grant is enough.  While nobody in line had room, one place was      *)
(* freed by t.  Whoever u is that takes it, a w left with room would have  *)
(* had room before: if u is of t's class, both w and u were held by t's    *)
(* key alone, and u has taken that back; if it is not, u was held by the   *)
(* shared places alone, and has taken the one that t gave back.  The       *)
(* second case is where OutsideIsExternal is needed: a key with tickets of *)
(* two classes could free room for one of each.                            *)
(***************************************************************************)
LEMMA OneGrantIsEnough ==
  ASSUME NEW s, Good(s), NobodyCanGo(s),
         NEW t \in Ticket, s.state[t] = "active",
         NEW u \in Ticket, CanGo(Freed(s, t), u)
  PROVE  NobodyCanGo(Activated(OutOfLine(Freed(s, t), u), u))
<1> DEFINE z == Activated(OutOfLine(Freed(s, t), u), u)
<1> SUFFICES ASSUME NEW w \in Ticket, CanGo(z, w)
             PROVE  FALSE
  BY DEF NobodyCanGo
<1> DEFINE before == [s.active EXCEPT ![ClassOf[t]] = @ - 1]
           ownerBefore == Uncounted(s.ownerActive, t)
<1>1. /\ s.state[u] = "waiting" /\ s.state[w] = "waiting"
      /\ u # w
  BY DEF CanGo, Activated, OutOfLine, Freed, Good, Typed
<1>2. ~HasRoom(s, u) /\ ~HasRoom(s, w)
  BY <1>1 DEF NobodyCanGo, CanGo
<1>3. /\ before[ClassOf[u]] < ActiveCap[ClassOf[u]]
      /\ OwnerOf[u] # NoKey => ownerBefore[OwnerOf[u]] < PerKeyActive
      /\ ClassOf[u] \in SHARED =>
           before["agent"] + before["internal"] + before["external"] < SharedPlaces
  BY DEF CanGo, HasRoom, Freed
<1> DEFINE after == [before EXCEPT ![ClassOf[u]] = @ + 1]
           ownerAfter == Counted(ownerBefore, u)
<1>4. /\ after[ClassOf[w]] < ActiveCap[ClassOf[w]]
      /\ OwnerOf[w] # NoKey => ownerAfter[OwnerOf[w]] < PerKeyActive
      /\ ClassOf[w] \in SHARED =>
           after["agent"] + after["internal"] + after["external"] < SharedPlaces
  BY DEF CanGo, HasRoom, Freed, OutOfLine, Activated
<1>5. /\ s.active \in [Class -> Nat] /\ s.ownerActive \in [Key -> Nat]
      /\ \A x \in {t, u, w} : /\ ClassOf[x] \in Class
                              /\ OwnerOf[x] # NoKey => /\ OwnerOf[x] \in Key
                                                       /\ ClassOf[x] = "external"
  BY TicketsAssumption, OutsideIsExternal DEF Good, Typed
<1>6. CASE ClassOf[u] = ClassOf[t]
  <2>1. after = s.active
    BY <1>5, <1>6
  <2>2. OwnerOf[w] # NoKey /\ s.ownerActive[OwnerOf[w]] >= PerKeyActive
    BY <1>2, <1>4, <2>1, <1>5, CapsAssumption DEF HasRoom
  <2>3. OwnerOf[w] = OwnerOf[t] /\ OwnerOf[u] # OwnerOf[w]
    BY <1>4, <1>5, <2>2, CapsAssumption DEF Counted, Uncounted
  <2>4. ClassOf[w] = ClassOf[u]
    BY <1>5, <1>6, <2>2, <2>3
  <2>5. /\ s.active[ClassOf[u]] < ActiveCap[ClassOf[u]]
        /\ ClassOf[u] \in SHARED =>
             s.active["agent"] + s.active["internal"] + s.active["external"] < SharedPlaces
    BY <1>4, <2>1, <2>4
  <2>6. OwnerOf[u] # NoKey /\ ~(s.ownerActive[OwnerOf[u]] < PerKeyActive)
    BY <1>2, <2>5 DEF HasRoom
  <2>7. OwnerOf[u] = OwnerOf[t]
    BY <1>3, <1>5, <2>6 DEF Uncounted
  <2> QED  BY <2>3, <2>7
<1>7. CASE ClassOf[u] # ClassOf[t]
  <2>1. before[ClassOf[u]] = s.active[ClassOf[u]]
    BY <1>5, <1>7
  <2>2. OwnerOf[u] # NoKey => ownerBefore[OwnerOf[u]] = s.ownerActive[OwnerOf[u]]
    BY <1>5, <1>7 DEF Uncounted
  <2>3. /\ ClassOf[u] \in SHARED
        /\ ~(s.active["agent"] + s.active["internal"] + s.active["external"] < SharedPlaces)
    BY <1>2, <1>3, <2>1, <2>2 DEF HasRoom
  <2>4. ClassOf[t] \in SHARED
    BY <1>3, <2>3, <1>5 DEF SHARED, Class
  <2>5. after["agent"] + after["internal"] + after["external"]
          = s.active["agent"] + s.active["internal"] + s.active["external"]
    BY <1>5, <1>7, <2>3, <2>4 DEF SHARED, Class
  <2>6. ClassOf[w] = "reader"
    BY <1>4, <1>5, <2>3, <2>5 DEF SHARED, Class
  <2>7. after["reader"] = s.active["reader"]
    BY <1>5, <2>3, <2>4 DEF SHARED, Class
  <2> QED  BY <1>2, <1>4, <1>5, <2>6, <2>7 DEF HasRoom, SHARED
<1> QED  BY <1>6, <1>7
-----------------------------------------------------------------------------
(* The invariant.                                                        *)

LEMMA InitIInv == Init => IInv
<1> SUFFICES ASSUME Init PROVE IInv
  OBVIOUS
<1>1. Typed(Now)
  BY DEF Typed, Now, Init, TicketState
<1>2. \A st \in {"active", "waiting"} :
        /\ \A c \in Class : In(Now, st, c) = {}
        /\ \A k \in Key : Of(Now, st, k) = {}
  BY DEF In, Of, Now, Init
<1>3. Exact(Now)
  BY <1>2, FS_EmptySet DEF Exact, Now, Init
<1>4. \A c \in Class : Cardinality(WaitingIn(Now, c)) = 0
  BY <1>2, WaitingInIsIn, FS_EmptySet
<1>5. Capped(Now)
  <2>1. /\ \A c \in Class : Now.active[c] = 0
        /\ \A k \in Key : Now.ownerActive[k] = 0 /\ Now.ownerWaiting[k] = 0
    BY DEF Now, Init
  <2>2. Now.active["agent"] + Now.active["internal"] + Now.active["external"] = 0
    BY <2>1 DEF Class
  <2> QED  BY <1>4, <2>1, <2>2, CapsAssumption DEF Capped
<1>6. NobodyCanGo(Now)
  BY DEF NobodyCanGo, CanGo, Now, Init
<1> QED  BY <1>1, <1>3, <1>5, <1>6 DEF IInv, Good

LEMMA NextIInv == IInv /\ [Next]_vars => IInv'
<1> SUFFICES ASSUME IInv, [Next]_vars
             PROVE  Good(Now') /\ NobodyCanGo(Now')
  BY DEF IInv
<1>0. Good(Now) /\ NobodyCanGo(Now) /\ Now.state = state
  BY DEF IInv, Now
<1>1. ASSUME NEW t \in Ticket, EnterActive(t)
      PROVE  Good(Now') /\ NobodyCanGo(Now')
  <2>1. Good(Activated(Now, t))
    BY <1>0, <1>1, ActivatedGood DEF EnterActive
  <2>2. Now' = Activated(Now, t)
    BY <1>1, <2>1, BecomeNow DEF EnterActive, Good
  <2>3. NobodyCanGo(Activated(Now, t))
    <3> SUFFICES ASSUME NEW u \in Ticket, CanGo(Activated(Now, t), u)
                 PROVE  CanGo(Now, u)
      BY <1>0 DEF NobodyCanGo
    <3>1. u # t /\ Now.state[u] = "waiting"
      BY <1>0 DEF CanGo, Activated, Good, Typed
    <3>2. HasRoom(Now, u)
      BY <1>0, TicketsAssumption, CapsAssumption
         DEF CanGo, HasRoom, Activated, Counted, Good, Typed, Class
    <3> QED  BY <3>1, <3>2 DEF CanGo
  <2> QED  BY <2>1, <2>2, <2>3
<1>2. ASSUME NEW t \in Ticket, EnterLine(t)
      PROVE  Good(Now') /\ NobodyCanGo(Now')
  <2>1. Good(Queued(Now, t))
    BY <1>0, <1>2, QueuedGood DEF EnterLine
  <2>2. Now' = Queued(Now, t)
    BY <1>2, <2>1, BecomeNow DEF EnterLine, Good
  <2>3. ASSUME NEW u \in Ticket PROVE HasRoom(Queued(Now, t), u) <=> HasRoom(Now, u)
    BY DEF HasRoom, Queued
  <2>4. NobodyCanGo(Queued(Now, t))
    BY <1>0, <1>2, <2>3 DEF NobodyCanGo, CanGo, Queued, EnterLine, Good, Typed
  <2> QED  BY <2>1, <2>2, <2>4
<1>3. ASSUME NEW t \in Ticket, LeaveWaiting(t)
      PROVE  Good(Now') /\ NobodyCanGo(Now')
  <2>1. Good(OutOfLine(Now, t))
    BY <1>0, <1>3, OutOfLineGood DEF LeaveWaiting
  <2>2. Good(Now')
    BY <1>3, <2>1, DispatchGood DEF LeaveWaiting
  <2>3. ASSUME NEW u \in Ticket PROVE HasRoom(OutOfLine(Now, t), u) <=> HasRoom(Now, u)
    BY DEF HasRoom, OutOfLine
  <2>4. NobodyCanGo(OutOfLine(Now, t))
    BY <1>0, <2>3 DEF NobodyCanGo, CanGo, OutOfLine, Good, Typed
  <2>5. Now' = OutOfLine(Now, t)
    BY <1>3, <2>1, <2>4, BecomeNow
       DEF LeaveWaiting, Dispatch, NobodyCanGo, NextToGo, Good
  <2> QED  BY <2>2, <2>4, <2>5
<1>4. ASSUME NEW t \in Ticket, LeaveActive(t)
      PROVE  Good(Now') /\ NobodyCanGo(Now')
  <2>1. Good(Freed(Now, t))
    BY <1>0, <1>4, FreedGood DEF LeaveActive
  <2>2. Good(Now')
    BY <1>4, <2>1, DispatchGood DEF LeaveActive
  <2>3. CASE NobodyCanGo(Freed(Now, t)) /\ Become(Freed(Now, t))
    BY <2>1, <2>2, <2>3, BecomeNow DEF Good
  <2>4. ASSUME NEW u \in Ticket, NextToGo(Freed(Now, t), u),
               Become(Activated(OutOfLine(Freed(Now, t), u), u))
        PROVE  NobodyCanGo(Now')
    <3>1. CanGo(Freed(Now, t), u)
      BY <2>4 DEF NextToGo
    <3>2. Typed(Activated(OutOfLine(Freed(Now, t), u), u))
      BY <2>1, <3>1, GrantGood DEF Good
    <3>3. NobodyCanGo(Activated(OutOfLine(Freed(Now, t), u), u))
      BY <1>0, <1>4, <3>1, OneGrantIsEnough DEF LeaveActive
    <3> QED  BY <2>4, <3>2, <3>3, BecomeNow
  <2> QED  BY <1>4, <2>2, <2>3, <2>4 DEF LeaveActive, Dispatch, NobodyCanGo
<1>5. CASE UNCHANGED vars
  BY <1>0, <1>5 DEF Now, vars
<1> QED  BY <1>1, <1>2, <1>3, <1>4, <1>5 DEF Next, EnterRefused

(* The places of the three shared classes add up to the shared ones.     *)
LEMMA SharedSum ==
  ASSUME IInv
  PROVE  Cardinality(SharedActive) = active["agent"] + active["internal"] + active["external"]
<1> DEFINE A == ActiveIn("agent")  B == ActiveIn("internal")  C == ActiveIn("external")
<1>1. /\ active["agent"] = Cardinality(A) /\ active["internal"] = Cardinality(B)
      /\ active["external"] = Cardinality(C)
  BY DEF IInv, Good, Exact, Now, In, ActiveIn, Class
<1>2. IsFiniteSet(A) /\ IsFiniteSet(B) /\ IsFiniteSet(C) /\ IsFiniteSet(A \cup B)
  BY TicketSets DEF ActiveIn
<1>3. A \cap B = {} /\ (A \cup B) \cap C = {} /\ SharedActive = (A \cup B) \cup C
  BY DEF ActiveIn, SharedActive, SHARED
<1> HIDE DEF A, B, C
<1>5. Cardinality(A \cup B) = Cardinality(A) + Cardinality(B)
  BY <1>2, <1>3, DisjointUnion
<1>6. Cardinality((A \cup B) \cup C) = Cardinality(A \cup B) + Cardinality(C)
  BY <1>2, <1>3, DisjointUnion
<1> QED  BY <1>1, <1>3, <1>5, <1>6

LEMMA IInvImplies ==
  IInv => TypeOK /\ CountersExact /\ CapsHeld /\ WorkConserving
<1> SUFFICES ASSUME IInv PROVE TypeOK /\ CountersExact /\ CapsHeld /\ WorkConserving
  OBVIOUS
<1>1. TypeOK
  BY DEF IInv, Good, Typed, Now, TypeOK, TicketState
<1>2. CountersExact
  BY DEF IInv, Good, Exact, Now, In, Of, CountersExact, ActiveIn, ActiveOf, WaitingOf
<1>3. CapsHeld
  <2>1. \A c \in Class : WaitingIn(Now, c) = {t \in WaitingSet : ClassOf[t] = c}
    BY DEF WaitingIn, WaitingSet, Now
  <2> QED  BY <1>2, <2>1, SharedSum DEF IInv, Good, Capped, Now, CapsHeld, CountersExact
<1>4. WorkConserving
  <2> SUFFICES ASSUME NEW t \in WaitingSet
               PROVE  \/ ClassFull(ClassOf[t])
                      \/ KeyFull(OwnerOf[t])
                      \/ ClassOf[t] \in SHARED /\ SharedFull
    BY DEF WorkConserving
  <2>1. t \in Ticket /\ ~HasRoom(Now, t)
    BY DEF WaitingSet, IInv, NobodyCanGo, CanGo, Now
  <2>2. CASE active[ClassOf[t]] >= ActiveCap[ClassOf[t]]
    BY <1>2, <2>1, <2>2, TicketsAssumption DEF CountersExact, ClassFull
  <2>3. CASE OwnerOf[t] # NoKey /\ ownerActive[OwnerOf[t]] >= PerKeyActive
    BY <1>2, <2>1, <2>3, TicketsAssumption DEF CountersExact, KeyFull
  <2>4. CASE /\ ClassOf[t] \in SHARED
             /\ active["agent"] + active["internal"] + active["external"] >= SharedPlaces
    BY <2>4, SharedSum DEF SharedFull
  <2> QED  BY <1>1, <2>1, <2>2, <2>3, <2>4, TicketsAssumption, CapsAssumption
              DEF HasRoom, Now, TypeOK, Class
<1> QED  BY <1>1, <1>2, <1>3, <1>4

LEMMA IInvAlways == Spec => []IInv
  BY InitIInv, NextIInv, PTL DEF Spec

(* Admission._active, _owner_active and _owner_waiting equal the tickets *)
(* they count, whatever path of enter, leave and grant led there.        *)
THEOREM CountersAreExact == Spec => [](TypeOK /\ CountersExact)
<1>1. IInv => TypeOK /\ CountersExact
  BY IInvImplies
<1> QED  BY <1>1, IInvAlways, PTL

(* No cap of a class, of the shared places or of a key is passed, for    *)
(* every set of requests, every key and every value of the caps.         *)
THEOREM CapsAreHeld == Spec => []CapsHeld
<1>1. IInv => CapsHeld
  BY IInvImplies
<1> QED  BY <1>1, IInvAlways, PTL

(* A ticket waits only behind a full class, key or shared pool: one pass *)
(* of _dispatch leaves no place free that a waiting ticket may take.     *)
THEOREM AdmissionConservesWork == Spec => []WorkConserving
<1>1. IInv => WorkConserving
  BY IInvImplies
<1> QED  BY <1>1, IInvAlways, PTL
-----------------------------------------------------------------------------
(* Who may be overtaken.                                                 *)

(* Where t had room and u had none, u is before t in line or of a class  *)
(* served before, and t has taken a place: u is held by its own cap.     *)
LEMMA HeldByOwnCap ==
  ASSUME NEW s, Typed(s), NEW t \in Ticket, NEW u \in Ticket,
         HasRoom(s, t), ~HasRoom(s, u),
         Sooner(ClassOf[u], ClassOf[t]) \/ ClassOf[u] = ClassOf[t],
         NEW act, act = [s.active EXCEPT ![ClassOf[t]] = @ + 1],
         NEW oact, oact = Counted(s.ownerActive, t)
  PROVE  \/ OwnerOf[u] # NoKey /\ oact[OwnerOf[u]] >= PerKeyActive
         \/ ClassOf[u] # ClassOf[t] /\ act[ClassOf[u]] >= ActiveCap[ClassOf[u]]
<1>1. /\ s.active \in [Class -> Nat] /\ s.ownerActive \in [Key -> Nat]
      /\ \A x \in {t, u} : ClassOf[x] \in Class /\ OwnerOf[x] \in Key \cup {NoKey}
  BY TicketsAssumption DEF Typed
<1>2. CASE OwnerOf[u] # NoKey /\ ~(s.ownerActive[OwnerOf[u]] < PerKeyActive)
  BY <1>1, <1>2, CapsAssumption DEF Counted
<1>3. CASE ~(s.active[ClassOf[u]] < ActiveCap[ClassOf[u]])
  BY <1>1, <1>3, CapsAssumption DEF HasRoom
<1>4. CASE /\ ClassOf[u] \in SHARED
           /\ ~(s.active["agent"] + s.active["internal"] + s.active["external"] < SharedPlaces)
  BY <1>1, <1>4 DEF HasRoom, SHARED, Sooner
<1> QED  BY <1>2, <1>3, <1>4 DEF HasRoom

LEMMA ActiveSets ==
  ASSUME IInv'
  PROVE  /\ \A k \in Key : Cardinality(ActiveOf(k))' = ownerActive'[k]
         /\ \A c \in Class : Cardinality(ActiveIn(c))' = active'[c]
  BY DEF IInv, Good, Exact, Now, Of, In, ActiveOf, ActiveIn

LEMMA StepOvertakesOnlyBehindOwnCap ==
  ASSUME IInv, Next, IInv', NEW t \in Ticket, NEW u \in Ticket,
         state[t] # "active", state'[t] = "active",
         state[u] = "waiting", state'[u] = "waiting",
         \/ Sooner(ClassOf[u], ClassOf[t])
         \/ ClassOf[u] = ClassOf[t] /\ (state[t] = "left" \/ u \in ahead[t])
  PROVE  \/ KeyFull(OwnerOf[u])'
         \/ ClassOf[u] # ClassOf[t] /\ ClassFull(ClassOf[u])'
<1> DEFINE held == \/ OwnerOf[u] # NoKey /\ ownerActive'[OwnerOf[u]] >= PerKeyActive
                   \/ ClassOf[u] # ClassOf[t] /\ active'[ClassOf[u]] >= ActiveCap[ClassOf[u]]
<1>1. SUFFICES held
  BY ActiveSets, TicketsAssumption DEF KeyFull, ClassFull
<1>2. Good(Now) /\ NobodyCanGo(Now) /\ Now.state = state /\ Now.ahead = ahead
  BY DEF IInv, Now
<1>3. t # u /\ Typed(Now) /\ state \in [Ticket -> TicketState]
  BY <1>2 DEF Good, Typed
<1>4. ASSUME NEW x \in Ticket, EnterActive(x)
      PROVE  held
  <2>1. x = t
    BY <1>2, <1>3, <1>4 DEF EnterActive, Become, Activated
  <2>2. HasRoom(Now, t) /\ ~HasRoom(Now, u)
    BY <1>2, <1>4, <2>1 DEF EnterActive, NobodyCanGo, CanGo
  <2>3. /\ active' = [Now.active EXCEPT ![ClassOf[t]] = @ + 1]
        /\ ownerActive' = Counted(Now.ownerActive, t)
    BY <1>4, <2>1 DEF EnterActive, Become, Activated
  <2> QED  BY <1>3, <2>2, <2>3, HeldByOwnCap
<1>5. ASSUME NEW x \in Ticket, EnterLine(x)
      PROVE  held
  BY <1>2, <1>3, <1>5 DEF EnterLine, Become, Queued
<1>6. ASSUME NEW x \in Ticket, LeaveWaiting(x) \/ LeaveActive(x)
      PROVE  held
  <2> DEFINE s == IF state[x] = "waiting" THEN OutOfLine(Now, x) ELSE Freed(Now, x)
  <2>1. Good(s) /\ Dispatch(s)
    BY <1>2, <1>6, OutOfLineGood, FreedGood DEF LeaveWaiting, LeaveActive
  <2>2. s.state = [state EXCEPT ![x] = "left"]
    BY <1>2 DEF OutOfLine, Freed
  <2>3. ~Become(s)
    BY <1>3, <2>2 DEF Become
  <2>4. PICK y \in Ticket : NextToGo(s, y) /\ Become(Activated(OutOfLine(s, y), y))
    BY <2>1, <2>3 DEF Dispatch
  <2>5. state' = [s.state EXCEPT ![y] = "active"]
    BY <1>3, <2>2, <2>4 DEF Become, Activated, OutOfLine
  <2>6. y = t
    BY <1>3, <2>2, <2>5
  <2>7. s.state[t] = "waiting" /\ HasRoom(s, t) /\ t # x /\ state[t] = "waiting"
    BY <1>3, <2>2, <2>4, <2>6 DEF NextToGo, CanGo
  <2>8. u # x /\ s.state[u] = "waiting"
    BY <1>3, <2>2, <2>5, <2>6
  <2>9. u \in ahead[t] => u \in s.ahead[t]
    BY <1>2, <2>7, <2>8 DEF OutOfLine, Removed, Freed
  <2>10. ~HasRoom(s, u)
    BY <2>4, <2>6, <2>7, <2>8, <2>9 DEF NextToGo, CanGo, Precedes
  <2>11. /\ active' = [s.active EXCEPT ![ClassOf[t]] = @ + 1]
         /\ ownerActive' = Counted(s.ownerActive, t)
    BY <2>4, <2>6 DEF Become, Activated, OutOfLine
  <2> HIDE DEF s
  <2> QED  BY <2>1, <2>7, <2>10, <2>11, HeldByOwnCap DEF Good
<1>7. ASSUME NEW x \in Ticket, EnterRefused(x)
      PROVE  held
  BY <1>7 DEF EnterRefused, vars
<1> QED  BY <1>4, <1>5, <1>6, <1>7 DEF Next

(**************************************************************************)
(* Nobody in line is overtaken by a ticket of its class that came later,  *)
(* or by one of a class served after its own, unless its own class or key *)
(* is at its cap.                                                         *)
(**************************************************************************)
THEOREM NoUnfairOvertaking == Spec => OvertakenOnlyBehindOwnCap
<1> DEFINE A == \A t, u \in Ticket :
       /\ state[t] # "active" /\ state'[t] = "active"
       /\ state[u] = "waiting" /\ state'[u] = "waiting"
       /\ \/ Sooner(ClassOf[u], ClassOf[t])
          \/ ClassOf[u] = ClassOf[t] /\ (state[t] = "left" \/ u \in ahead[t])
       => \/ KeyFull(OwnerOf[u])'
          \/ ClassOf[u] # ClassOf[t] /\ ClassFull(ClassOf[u])'
<1>2. IInv /\ IInv' /\ [Next]_vars => [A]_vars
  BY StepOvertakesOnlyBehindOwnCap
<1> HIDE DEF A
<1>3. Spec => [][A]_vars
  BY IInvAlways, <1>2, PTL DEF Spec
<1> QED  BY <1>3 DEF OvertakenOnlyBehindOwnCap, A
=============================================================================
