--------------------------- MODULE TextLaneProofs ---------------------------
(***************************************************************************)
(* Proofs about TextLane for any requests, keys, caps and stops.           *)
(*                                                                         *)
(* The inductive invariant, Fits, says of each request which tickets and   *)
(* which engine request it may hold at each step of its code.  A step is a *)
(* request's own or a stop of several; a request's own step moves another  *)
(* one only by a grant: its ticket goes from waiting to active.            *)
(*                                                                         *)
(* Then the count places: every step of the lane is a call of CountPlaces  *)
(* or none, so CInv, the invariant of its calls, holds in the lane.  Last, *)
(* the lane implements Lifecycle: its requests take only the steps that    *)
(* the service allows them.                                                *)
(***************************************************************************)
EXTENDS TextLane, FiniteSetTheorems, TLAPS

TicketState == {"left", "waiting", "active"}

Typed ==
  /\ step \in [Request -> Step]
  /\ engine \in [Request -> BOOLEAN]
  /\ stop_reason \in [Request -> L!Reason]
  /\ c_state \in [Request -> TicketState]
  /\ a_state \in [Request -> TicketState]

Fits(r) ==
  /\ c_state[r] = "waiting" => step[r] = "count_wait"
  /\ c_state[r] = "active" => step[r] \in {"count_wait", "counting"}
  /\ step[r] = "counting" => c_state[r] = "active"
  /\ a_state[r] = "waiting" => step[r] = "place_wait" /\ stop_reason[r] = "none"
  /\ a_state[r] = "active" => step[r] \in {"place_wait", "opening", "streaming", "done", "closing"}
  /\ engine[r] => a_state[r] = "active" /\ step[r] \in {"opening", "streaming", "done", "closing"}

IInv == Typed /\ \A r \in Request : Fits(r)

-----------------------------------------------------------------------------
(* What a call of a component does to the tickets: the caller's goes to  *)
(* `to`, another may be granted.                                         *)
Granting(old, new, r, to) ==
  /\ new \in [Request -> TicketState]
  /\ new[r] = to
  /\ \A x \in Request \ {r} : new[x] = old[x] \/ (old[x] = "waiting" /\ new[x] = "active")

(* The calls of the two queues, seen as moves of tickets: the caller's *)
(* own ticket, and a grant or none.                                    *)
LEMMA CountEnters ==
  ASSUME c_state \in [Request -> TicketState], NEW r \in Request, Cnt!Enter(r)
  PROVE  Granting(c_state, c_state', r, "active") \/ Granting(c_state, c_state', r, "waiting")
<1>1. c_state' = [c_state EXCEPT ![r] = "active"] \/ c_state' = [c_state EXCEPT ![r] = "waiting"]
  BY DEF Cnt!Enter, Cnt!Become, Cnt!Placed, Cnt!Queued, Cnt!Now
<1> QED  BY <1>1 DEF Granting, TicketState

LEMMA CountLeaves ==
  ASSUME c_state \in [Request -> TicketState], NEW r \in Request, Cnt!Leave(r)
  PROVE  Granting(c_state, c_state', r, "left")
<1>1. \/ c_state' = [c_state EXCEPT ![r] = "left"]
      \/ \E u \in Request : /\ [c_state EXCEPT ![r] = "left"][u] = "waiting"
                            /\ c_state' = [[c_state EXCEPT ![r] = "left"] EXCEPT ![u] = "active"]
  BY DEF Cnt!Leave, Cnt!Dispatch, Cnt!FirstInLine, Cnt!Granted, Cnt!Gone, Cnt!Become, Cnt!Now
<1> QED  BY <1>1 DEF Granting, TicketState

LEMMA PlaceEntered ==
  ASSUME a_state \in [Request -> TicketState], NEW r \in Request
  PROVE  /\ Adm!EnterActive(r) => Granting(a_state, a_state', r, "active")
         /\ Adm!EnterLine(r) => Granting(a_state, a_state', r, "waiting")
<1>1. Adm!EnterActive(r) => a_state' = [a_state EXCEPT ![r] = "active"]
  BY DEF Adm!EnterActive, Adm!Become, Adm!Activated, Adm!Now
<1>2. Adm!EnterLine(r) => a_state' = [a_state EXCEPT ![r] = "waiting"]
  BY DEF Adm!EnterLine, Adm!Become, Adm!Queued, Adm!Now
<1> QED  BY <1>1, <1>2 DEF Granting, TicketState

LEMMA PlaceLeaves ==
  ASSUME a_state \in [Request -> TicketState], NEW r \in Request, PlaceLeft(r)
  PROVE  Granting(a_state, a_state', r, "left")
<1>1. CASE a_state[r] = "left"
  BY <1>1 DEF PlaceLeft, placeVars, Granting
<1>2. CASE a_state[r] # "left"
  <2>1. Adm!LeaveActive(r)
    BY <1>2 DEF PlaceLeft
  <2> DEFINE f == Adm!Freed(Adm!Now, r)
  <2>2. Adm!Dispatch(f) /\ f.state = [a_state EXCEPT ![r] = "left"]
    BY <2>1 DEF Adm!LeaveActive, Adm!Freed, Adm!Now
  <2> HIDE DEF f
  <2>3. CASE Adm!Become(f)
    BY <2>2, <2>3 DEF Adm!Become, Granting, TicketState
  <2>4. ASSUME NEW u \in Request, Adm!NextToGo(f, u),
               Adm!Become(Adm!Activated(Adm!OutOfLine(f, u), u))
        PROVE  Granting(a_state, a_state', r, "left")
    <3>1. f.state[u] = "waiting"
      BY <2>4 DEF Adm!NextToGo, Adm!CanGo
    <3>2. a_state' = [[f.state EXCEPT ![u] = "left"] EXCEPT ![u] = "active"]
      BY <2>4 DEF Adm!Activated, Adm!OutOfLine, Adm!Become
    <3> QED  BY <2>2, <3>1, <3>2 DEF Granting, TicketState
  <2> QED  BY <2>2, <2>3, <2>4 DEF Adm!Dispatch
<1> QED  BY <1>1, <1>2

-----------------------------------------------------------------------------
(* A request's own step, seen from the others.                           *)
Aside(r) ==
  /\ Typed'
  /\ \A x \in Request \ {r} :
       /\ step'[x] = step[x] /\ engine'[x] = engine[x] /\ stop_reason'[x] = stop_reason[x]
       /\ c_state'[x] = c_state[x] \/ (c_state[x] = "waiting" /\ c_state'[x] = "active")
       /\ a_state'[x] = a_state[x] \/ (a_state[x] = "waiting" /\ a_state'[x] = "active")

LEMMA AsideFits ==
  ASSUME IInv, NEW r \in Request, Aside(r), Fits(r)'
  PROVE  IInv'
BY DEF IInv, Aside, Fits, Typed

LEMMA TicketsKept ==
  /\ UNCHANGED countVars => c_state' = c_state
  /\ UNCHANGED placeVars => a_state' = a_state
BY DEF countVars, placeVars

(* One lemma per step of a request that calls a component.               *)
LEMMA StartFits ==
  ASSUME IInv, NEW r \in Request, Start(r)
  PROVE  Aside(r) /\ Fits(r)'
<1>1. CASE Cnt!Enter(r)
  <2>1. Granting(c_state, c_state', r, "active") \/ Granting(c_state, c_state', r, "waiting")
    BY <1>1, CountEnters DEF IInv, Typed
  <2>2. step' = [step EXCEPT ![r] = IF c_state'[r] = "active" THEN "counting" ELSE "count_wait"]
    BY <1>1 DEF Start, Goes, Cnt!Enter, Cnt!EnterRefused, Cnt!KeyFull
  <2>3. /\ step[r] = "accepted" /\ UNCHANGED <<engine, stop_reason, a_state>>
    BY DEF Start, placeVars
  <2> QED  BY <2>1, <2>2, <2>3 DEF IInv, Typed, Fits, Aside, Granting, Step, TaskStep
<1>2. CASE ~Cnt!Enter(r)
  BY <1>2 DEF Start, Done, Goes, Cnt!EnterRefused, Cnt!vars, placeVars,
              IInv, Typed, Fits, Aside, Step, TaskStep, AfterTask
<1> QED  BY <1>1, <1>2

(* The steps of a request's own code: what they leave the request with *)
(* fits, and the others keep their own.                                *)
LEMMA CountEndsFits ==
  ASSUME IInv, NEW r \in Request, CountFails(r) \/ CountTaken(r)
  PROVE  Aside(r) /\ Fits(r)'
<1>1. Granting(c_state, c_state', r, "left")
  BY CountLeaves DEF CountFails, CountTaken, IInv, Typed
<1>2. step[r] = "counting" /\ stop_reason[r] = "none" /\ stop_reason' = stop_reason
  BY DEF CountFails, CountTaken, GoesOn
<1>3. ASSUME UNCHANGED <<placeVars, engine>>, Done(r)
      PROVE  Aside(r) /\ Fits(r)'
  BY <1>1, <1>2, <1>3, TicketsKept DEF Done, Goes, Granting, IInv, Typed, Fits, Aside, Step, AfterTask
<1>4. ASSUME Adm!EnterActive(r), Opens(r)
      PROVE  Aside(r) /\ Fits(r)'
  <2>1. Granting(a_state, a_state', r, "active")
    BY <1>4, PlaceEntered DEF IInv, Typed
  <2> QED  BY <1>1, <1>2, <1>4, <2>1 DEF Opens, Goes, Granting, IInv, Typed, Fits, Aside, Step, TaskStep
<1>5. ASSUME Adm!EnterLine(r), Goes(r, "place_wait"), UNCHANGED engine
      PROVE  Aside(r) /\ Fits(r)'
  <2>1. Granting(a_state, a_state', r, "waiting")
    BY <1>5, PlaceEntered DEF IInv, Typed
  <2> QED  BY <1>1, <1>2, <1>5, <2>1 DEF Goes, Granting, IInv, Typed, Fits, Aside, Step, TaskStep
<1>6. Adm!EnterRefused(r) => UNCHANGED placeVars
  BY DEF Adm!EnterRefused, Adm!vars, placeVars
<1>7. CASE CountFails(r)
  BY <1>3, <1>7 DEF CountFails
<1>8. CASE CountTaken(r)
  BY <1>3, <1>4, <1>5, <1>6, <1>8 DEF CountTaken, AfterCount
<1> QED  BY <1>7, <1>8

LEMMA CancelFits ==
  ASSUME IInv, NEW r \in Request, Cancel(r)
  PROVE  Aside(r) /\ Fits(r)'
<1>1. Granting(c_state, c_state', r, "left")
  <2>1. CASE step[r] \in {"count_wait", "counting"}
    BY <2>1, CountLeaves DEF Cancel, CountLeft, IInv, Typed
  <2>2. CASE step[r] \notin {"count_wait", "counting"}
    BY <2>2, TicketsKept DEF Cancel, CountLeft, IInv, Typed, Fits, Granting, TicketState
  <2> QED  BY <2>1, <2>2
<1>2. /\ step[r] \in TaskStep /\ stop_reason[r] # "none"
      /\ step' = [step EXCEPT ![r] = "done"]
      /\ engine' = [engine EXCEPT ![r] = engine[r] /\ step[r] = "streaming"]
      /\ stop_reason' = stop_reason /\ a_state' = a_state
  BY TicketsKept DEF Cancel, GoesOn, Goes
<1> QED  BY <1>1, <1>2 DEF Granting, IInv, Typed, Fits, Aside, Step, TaskStep, AfterTask

(* The handler leaves the place once the engine request has ended.       *)
LEMMA CleanupFits ==
  ASSUME IInv, NEW r \in Request, Cleanup(r) \/ Closed(r) \/ CutLate(r)
  PROVE  Aside(r) /\ Fits(r)'
<1> DEFINE Left == /\ Granting(a_state, a_state', r, "left") /\ c_state' = c_state
                   /\ step[r] \in AfterTask
                   /\ engine' = [engine EXCEPT ![r] = FALSE]
                   /\ \/ Ends(r)
                      \/ Goes(r, "terminal") /\ UNCHANGED stop_reason
<1>1. ASSUME Left
      PROVE  Aside(r) /\ Fits(r)'
  BY <1>1 DEF Ends, Goes, Granting, IInv, Typed, Fits, Aside, Step, AfterTask, L!Reason
<1>2. Closed(r) \/ CutLate(r) => Left
  BY PlaceLeaves, TicketsKept DEF Closed, CutLate, Terminal, AfterTask, IInv, Typed
<1>3. ASSUME Cleanup(r), engine[r], ~PlaceLeft(r) \/ step'[r] = "closing"
      PROVE  Aside(r) /\ Fits(r)'
  BY <1>3, TicketsKept DEF Cleanup, Goes, IInv, Typed, Fits, Aside, Step, AfterTask
<1>4. Cleanup(r) /\ ~engine[r] => Left
  BY PlaceLeaves, TicketsKept DEF Cleanup, Terminal, AfterTask, IInv, Typed
<1>5. Cleanup(r) /\ engine[r] => step'[r] = "closing"
  BY DEF Cleanup, Goes, IInv, Typed
<1> QED  BY <1>1, <1>2, <1>3, <1>4, <1>5

(* The steps that leave the tickets alone.                               *)
LEMMA PlainFits ==
  ASSUME IInv, NEW r \in Request,
         \/ Authorize(r) \/ EndRefused(r) \/ Accept(r) \/ CountGranted(r) \/ PlaceGranted(r)
         \/ Opened(r) \/ StreamEnds(r) \/ TerminalSent(r) \/ TerminalCut(r) \/ CutDone(r)
  PROVE  Aside(r) /\ Fits(r)'
<1>1. /\ c_state' = c_state /\ a_state' = a_state
  BY TicketsKept DEF Authorize, EndRefused, Accept, CountGranted, PlaceGranted, Opened,
                     StreamEnds, TerminalSent, TerminalCut, CutDone
<1>2. CASE EndRefused(r) \/ TerminalSent(r) \/ TerminalCut(r)
  BY <1>1, <1>2 DEF EndRefused, TerminalSent, TerminalCut, Ends, Goes,
                    IInv, Typed, Fits, Aside, Step, AfterTask, L!Reason
<1>3. CASE Authorize(r) \/ Accept(r) \/ CutDone(r)
  BY <1>1, <1>3 DEF Authorize, Accept, CutDone, Goes, IInv, Typed, Fits, Aside, Step, TaskStep
<1>4. CASE CountGranted(r) \/ PlaceGranted(r)
  BY <1>1, <1>4 DEF CountGranted, PlaceGranted, Opens, Goes, IInv, Typed, Fits, Aside, Step, TaskStep
<1>5. CASE Opened(r) \/ StreamEnds(r)
  BY <1>1, <1>5 DEF Opened, StreamEnds, Done, Goes, IInv, Typed, Fits, Aside, Step, TaskStep, AfterTask
<1> QED  BY <1>2, <1>3, <1>4, <1>5

LEMMA OpenFailsFits ==
  ASSUME IInv, NEW r \in Request, OpenFails(r)
  PROVE  Aside(r) /\ Fits(r)'
<1>1. /\ c_state' = c_state /\ a_state' = a_state /\ stop_reason' = stop_reason
      /\ step[r] = "opening" /\ step' = [step EXCEPT ![r] = "done"]
      /\ engine' = [engine EXCEPT ![r] = FALSE]
  BY TicketsKept DEF OpenFails, Done, Goes
<1> QED  BY <1>1 DEF IInv, Typed, Fits, Aside, Step, AfterTask

(* A stop: what it is the first for leaves the line.                     *)
LEMMA StopAllFits ==
  ASSUME IInv, NEW S \in SUBSET Request, NEW reason \in L!Reason \ {"none"}, StopAll(S, reason)
  PROVE  IInv'
<1> DEFINE out == {r \in S : stop_reason[r] = "none" /\ a_state[r] = "waiting"}
<1>1. /\ step' = step /\ engine' = engine /\ c_state' = c_state
      /\ a_state' = [r \in Request |-> IF r \in out THEN "left" ELSE a_state[r]]
      /\ stop_reason' = [r \in Request |-> IF r \in S /\ stop_reason[r] = "none" THEN reason
                                           ELSE stop_reason[r]]
  BY TicketsKept DEF StopAll, LineLeft, L!Stopped
<1>2. Typed'
  BY <1>1 DEF IInv, Typed, TicketState
<1>3. ASSUME NEW r \in Request
      PROVE  Fits(r)'
  BY <1>1 DEF IInv, Typed, Fits
<1> QED  BY <1>2, <1>3 DEF IInv

LEMMA Reasons ==
  {"draining", "engine_changed", "shutdown"} \cup OwnReason \subseteq L!Reason \ {"none"}
BY TextLaneAssumption DEF L!Reason

StopStep ==
  \/ \E r \in Request : CutTask(r) \/ \E reason \in OwnReason : StopOwn(r, reason)
  \/ Drain \/ DrainDeadline \/ EngineChanges

LEMMA StopStepFits == IInv /\ StopStep => IInv'
<1> SUFFICES ASSUME IInv, StopStep PROVE IInv'
  OBVIOUS
<1>1. PICK S \in SUBSET Request, reason \in L!Reason \ {"none"} : StopAll(S, reason)
  <2>1. ASSUME NEW r \in Request, CutTask(r)
        PROVE  StopAll({r}, "shutdown")
    BY <2>1 DEF CutTask
  <2>2. ASSUME NEW r \in Request, NEW reason \in OwnReason, StopOwn(r, reason)
        PROVE  StopAll({r}, reason)
    BY <2>2 DEF StopOwn
  <2>3. CASE Drain
    BY <2>3, Reasons DEF Drain, Work
  <2>4. CASE DrainDeadline
    BY <2>4, Reasons DEF DrainDeadline, Work
  <2>5. CASE EngineChanges
    BY <2>5, Reasons DEF EngineChanges, Work
  <2> QED  BY <2>1, <2>2, <2>3, <2>4, <2>5, Reasons DEF StopStep
<1> QED  BY <1>1, StopAllFits

OwnStep(r) ==
  \/ Authorize(r) \/ EndRefused(r) \/ Accept(r)
  \/ Cleanup(r) \/ Closed(r) \/ TerminalSent(r) \/ TerminalCut(r) \/ CutDone(r) \/ CutLate(r)
  \/ Task(r)

LEMMA OwnStepFits ==
  ASSUME IInv, NEW r \in Request, OwnStep(r)
  PROVE  Aside(r) /\ Fits(r)'
BY StartFits, CountEndsFits, CancelFits, CleanupFits, PlainFits, OpenFailsFits DEF OwnStep, Task

(* The steps that leave the requests alone.                              *)
QuietStep == Open \/ EngineReady \/ ShutDown

LEMMA Steps == Next => StopStep \/ QuietStep \/ \E r \in Request : OwnStep(r)
BY DEF Next, Handler, StopStep, QuietStep, OwnStep

LEMMA QuietFits == IInv /\ (QuietStep \/ UNCHANGED vars) => IInv'
<1> SUFFICES ASSUME IInv, QuietStep \/ UNCHANGED vars PROVE IInv'
  OBVIOUS
<1>1. UNCHANGED <<step, engine, stop_reason, c_state, a_state>>
  BY DEF QuietStep, Open, EngineReady, ShutDown, RequestsKept, vars, workVars, countVars, placeVars
<1> QED  BY <1>1 DEF IInv, Typed, Fits

LEMMA InitIInv == Init => IInv
BY DEF Init, Cnt!Init, Adm!Init, IInv, Typed, Fits, Step, L!Reason, TicketState

LEMMA NextIInv == IInv /\ [Next]_vars => IInv'
BY Steps, StopStepFits, QuietFits, OwnStepFits, AsideFits

LEMMA IInvAlways == Spec => []IInv
BY InitIInv, NextIInv, PTL DEF Spec

-----------------------------------------------------------------------------
(* The engine never has a generation without an active ticket, nor a count *)
(* without a granted place: with the caps of Admission and CountPlaces it  *)
(* has no more than the configuration allows.                              *)
THEOREM EngineStaysWithinPlaces == Spec => []EngineWithinPlaces
<1>1. IInv => EngineWithinPlaces
  BY DEF IInv, Fits, EngineWithinPlaces
<1> QED  BY <1>1, IInvAlways, PTL

(* Every place is back at the latest when the terminal message is sent:  *)
(* cleanup and the `finally` of count reach it on every path.            *)
THEOREM AllPlacesComeBack == Spec => []PlacesComeBack
<1>1. IInv => PlacesComeBack
  BY DEF IInv, Typed, Fits, PlacesComeBack, TicketState
<1> QED  BY <1>1, IInvAlways, PTL

(* Whoever stops a request, it is out of the line in the same step.      *)
THEOREM StoppedWorkLeavesLine == Spec => []StoppedLeavesLine
<1>1. IInv => StoppedLeavesLine
  BY DEF IInv, Fits, StoppedLeavesLine
<1> QED  BY <1>1, IInvAlways, PTL

LEMMA StepStartsNothing ==
  IInv /\ [Next]_vars =>
    \A r \in Request : stop_reason[r] # "none" /\ step'[r] # "none" =>
      /\ engine'[r] => engine[r]
      /\ step'[r] = "counting" => step[r] = "counting"
<1> SUFFICES ASSUME IInv, [Next]_vars, NEW r \in Request, stop_reason[r] # "none"
             PROVE  /\ engine'[r] => engine[r]
                    /\ step'[r] = "counting" => step[r] = "counting"
  OBVIOUS
<1>1. CASE StopStep \/ QuietStep \/ UNCHANGED vars
  <2>1. UNCHANGED <<step, engine>>
    BY <1>1 DEF StopStep, CutTask, StopOwn, Drain, DrainDeadline, EngineChanges, StopAll,
                QuietStep, Open, EngineReady, ShutDown, RequestsKept, vars, workVars
  <2> QED  BY <2>1
<1>2. ASSUME NEW x \in Request \ {r}, OwnStep(x)
      PROVE  step'[r] = step[r] /\ engine'[r] = engine[r]
  BY <1>2, OwnStepFits DEF Aside
<1>3. CASE Task(r)
  <2>1. Cancel(r)
    BY <1>3 DEF Task, Start, CountGranted, CountFails, CountTaken, PlaceGranted, OpenFails, Opened,
                StreamEnds, GoesOn
  <2> QED  BY <2>1 DEF Cancel, Goes, IInv, Typed
<1>4. CASE OwnStep(r) /\ ~Task(r)
  BY <1>4 DEF OwnStep, Authorize, EndRefused, Accept, Cleanup, Closed, Terminal, TerminalSent,
              TerminalCut, CutDone, CutLate, Ends, Goes, IInv, Typed
<1> QED  BY <1>1, <1>2, <1>3, <1>4, Steps

(* A stopped request opens no stream and begins no count, even when its  *)
(* place was granted before its task could see the stop.                 *)
THEOREM NoStoppedWorkStarts == Spec => StoppedWorkStartsNothing
BY IInvAlways, StepStartsNothing, PTL DEF Spec, StoppedWorkStartsNothing

-----------------------------------------------------------------------------
(* The places of counts.  The inductive invariant: the state is typed, the *)
(* counters equal the counts they stand for, the caps hold, and nobody     *)
(* waits while a place is free.                                            *)
CountIn(s, st, c) == {r \in Request : s.state[r] = st /\ ClassOf[r] = c}

CountTyped(s) ==
  s \in [state : [Request -> TicketState], ahead : [Request -> SUBSET Request],
         running : [Cnt!Class -> Nat], byOwner : [Key -> Nat]]

Alive(s, k) == {t \in Request : s.state[t] # "left" /\ OwnerOf[t] = k}

CountExact(s) ==
  /\ \A c \in Cnt!Class : s.running[c] = Cardinality(CountIn(s, "active", c))
  /\ \A k \in Key : s.byOwner[k] = Cardinality(Alive(s, k))

CountCapped(s) == Cnt!Running(s) <= Places /\ \A k \in Key : s.byOwner[k] <= PerKey

CountGood(s) == CountTyped(s) /\ CountExact(s) /\ CountCapped(s)

NobodyKeptWaiting(s) == Cnt!HasPlace(s) => \A t \in Request : s.state[t] # "waiting"

CInv == CountGood(Cnt!Now) /\ NobodyKeptWaiting(Cnt!Now)

-----------------------------------------------------------------------------
(* A set of requests loses or gains one request.                         *)
LEMMA RequestSets ==
  ASSUME NEW S \in SUBSET Request
  PROVE  /\ IsFiniteSet(S)
         /\ Cardinality(S) \in Nat
         /\ \A t \in S : Cardinality(S \ {t}) = Cardinality(S) - 1 /\ Cardinality(S) >= 1
         /\ \A t \in Request \ S : Cardinality(S \cup {t}) = Cardinality(S) + 1
<1>1. IsFiniteSet(S)
  BY FS_Subset, TextLaneAssumption
<1>2. Cardinality(S) \in Nat
  BY <1>1, FS_CardinalityType
<1>3. ASSUME NEW t \in S
      PROVE  Cardinality(S \ {t}) = Cardinality(S) - 1 /\ Cardinality(S) >= 1
  <2>1. Cardinality(S \ {t}) = Cardinality(S) - 1
    BY <1>1, FS_RemoveElement
  <2>2. Cardinality(S) # 0
    BY <1>1, <1>3, FS_EmptySet
  <2> QED  BY <1>2, <2>1, <2>2
<1>4. ASSUME NEW t \in Request \ S
      PROVE  Cardinality(S \cup {t}) = Cardinality(S) + 1
  BY <1>1, FS_AddElement
<1> QED  BY <1>1, <1>2, <1>3, <1>4

LEMMA DisjointUnion ==
  ASSUME NEW S, NEW T, IsFiniteSet(S), IsFiniteSet(T), S \cap T = {}
  PROVE  Cardinality(S \cup T) = Cardinality(S) + Cardinality(T)
<1>1. Cardinality(S \cup T) = Cardinality(S) + Cardinality(T) - Cardinality(S \cap T)
  BY FS_Union
<1>2. Cardinality(S \cap T) = 0
  BY FS_EmptySet
<1>3. Cardinality(S) \in Nat /\ Cardinality(T) \in Nat
  BY FS_CardinalityType
<1> QED  BY <1>1, <1>2, <1>3

(* The counts of a class that run, when one request's ticket changes.    *)
RunsMove(s, z, t, new) ==
  /\ \A c \in Cnt!Class :
       Cardinality(CountIn(z, "active", c)) =
         IF ClassOf[t] = c /\ new = "active" /\ s.state[t] # "active"
         THEN Cardinality(CountIn(s, "active", c)) + 1
         ELSE IF ClassOf[t] = c /\ new # "active" /\ s.state[t] = "active"
         THEN Cardinality(CountIn(s, "active", c)) - 1
         ELSE Cardinality(CountIn(s, "active", c))
  /\ s.state[t] = "active" => Cardinality(CountIn(s, "active", ClassOf[t])) >= 1

LEMMA RunningSets ==
  ASSUME NEW s, NEW z, NEW t \in Request, NEW new \in TicketState,
         s.state \in [Request -> TicketState],
         z.state = [s.state EXCEPT ![t] = new]
  PROVE  RunsMove(s, z, t, new)
<1>1. ASSUME NEW c \in Cnt!Class
      PROVE  /\ CountIn(s, "active", c) \in SUBSET Request
             /\ CountIn(z, "active", c) =
                  IF ClassOf[t] = c /\ new = "active" /\ s.state[t] # "active"
                  THEN CountIn(s, "active", c) \cup {t}
                  ELSE IF ClassOf[t] = c /\ new # "active" /\ s.state[t] = "active"
                  THEN CountIn(s, "active", c) \ {t}
                  ELSE CountIn(s, "active", c)
             /\ ClassOf[t] = c /\ s.state[t] # "active" => t \in Request \ CountIn(s, "active", c)
             /\ ClassOf[t] = c /\ s.state[t] = "active" => t \in CountIn(s, "active", c)
  BY DEF CountIn
<1>2. ASSUME NEW c \in Cnt!Class
      PROVE  Cardinality(CountIn(z, "active", c)) =
               IF ClassOf[t] = c /\ new = "active" /\ s.state[t] # "active"
               THEN Cardinality(CountIn(s, "active", c)) + 1
               ELSE IF ClassOf[t] = c /\ new # "active" /\ s.state[t] = "active"
               THEN Cardinality(CountIn(s, "active", c)) - 1
               ELSE Cardinality(CountIn(s, "active", c))
  BY <1>1, RequestSets
<1>3. ClassOf[t] \in Cnt!Class
  BY KeysAssumption
<1>4. s.state[t] = "active" => Cardinality(CountIn(s, "active", ClassOf[t])) >= 1
  BY <1>1, <1>3, RequestSets
<1> QED  BY <1>2, <1>4 DEF RunsMove

(* One ticket enters, leaves, or goes from the line to a place.          *)
AliveMoves(s, z, t, new) ==
  /\ \A k \in Key :
       Cardinality(Alive(z, k)) =
         IF OwnerOf[t] = k /\ s.state[t] = "left" /\ new # "left"
         THEN Cardinality(Alive(s, k)) + 1
         ELSE IF OwnerOf[t] = k /\ s.state[t] # "left" /\ new = "left"
         THEN Cardinality(Alive(s, k)) - 1
         ELSE Cardinality(Alive(s, k))
  /\ OwnerOf[t] \in Key /\ s.state[t] # "left" => Cardinality(Alive(s, OwnerOf[t])) >= 1

LEMMA AliveSets ==
  ASSUME NEW s, NEW z, NEW t \in Request, NEW new \in TicketState,
         s.state \in [Request -> TicketState],
         z.state = [s.state EXCEPT ![t] = new]
  PROVE  AliveMoves(s, z, t, new)
<1>1. ASSUME NEW k \in Key
      PROVE  /\ Alive(s, k) \in SUBSET Request
             /\ Alive(z, k) = IF OwnerOf[t] = k /\ s.state[t] = "left" /\ new # "left"
                              THEN Alive(s, k) \cup {t}
                              ELSE IF OwnerOf[t] = k /\ s.state[t] # "left" /\ new = "left"
                              THEN Alive(s, k) \ {t}
                              ELSE Alive(s, k)
             /\ OwnerOf[t] = k /\ s.state[t] = "left" => t \in Request \ Alive(s, k)
             /\ OwnerOf[t] = k /\ s.state[t] # "left" => t \in Alive(s, k)
  BY DEF Alive
<1> QED  BY <1>1, RequestSets DEF AliveMoves

(* A newcomer takes a place.                                             *)
LEMMA PlacedKeeps ==
  ASSUME NEW s, CountGood(s), NEW t \in Request, s.state[t] = "left", Cnt!HasPlace(s), ~Cnt!KeyFull(s, t)
  PROVE  CountGood(Cnt!Placed(s, t))
<1> DEFINE z == Cnt!Placed(s, t)
<1>1. /\ s.state \in [Request -> TicketState]
      /\ z.state = [s.state EXCEPT ![t] = "active"]
      /\ z.running = [s.running EXCEPT ![ClassOf[t]] = @ + 1]
      /\ z.byOwner = Cnt!Counted(s.byOwner, t)
  BY DEF CountGood, CountTyped, Cnt!Placed
<1>2. CountTyped(z)
  BY KeysAssumption DEF CountGood, CountTyped, Cnt!Placed, Cnt!Counted, TicketState
<1> HIDE DEF z
<1>3. "active" \in TicketState /\ s.state[t] # "active"
  BY DEF TicketState
<1>31. RunsMove(s, z, t, "active")
  BY <1>1, <1>3, RunningSets
<1>32. AliveMoves(s, z, t, "active")
  BY <1>1, <1>3, AliveSets
<1>4. \A c \in Cnt!Class : z.running[c] = Cardinality(CountIn(z, "active", c))
  BY <1>1, <1>3, <1>31, KeysAssumption DEF CountGood, CountTyped, CountExact, RunsMove
<1>5. \A k \in Key : z.byOwner[k] = Cardinality(Alive(z, k))
  BY <1>1, <1>3, <1>32, KeysAssumption DEF AliveMoves, CountGood, CountTyped, CountExact, Cnt!Counted
<1>6. Cnt!Running(z) <= Places
  BY <1>1, KeysAssumption, PlacesAssumption
     DEF CountGood, CountTyped, CountCapped, Cnt!Running, Cnt!HasPlace, Cnt!Class
<1>7. \A k \in Key : z.byOwner[k] <= PerKey
  BY <1>1, KeysAssumption, PlacesAssumption DEF CountGood, CountTyped, CountCapped, Cnt!KeyFull, Cnt!Counted
<1> QED  BY <1>2, <1>4, <1>5, <1>6, <1>7 DEF z, CountGood, CountExact, CountCapped

(* A newcomer joins the line.                                            *)
LEMMA QueuedKeeps ==
  ASSUME NEW s, CountGood(s), NEW t \in Request, s.state[t] = "left", ~Cnt!KeyFull(s, t)
  PROVE  CountGood(Cnt!Queued(s, t))
<1> DEFINE z == Cnt!Queued(s, t)
<1>1. /\ s.state \in [Request -> TicketState]
      /\ z.state = [s.state EXCEPT ![t] = "waiting"]
      /\ z.running = s.running
      /\ z.byOwner = Cnt!Counted(s.byOwner, t)
  BY DEF CountGood, CountTyped, Cnt!Queued
<1>2. CountTyped(z)
  BY KeysAssumption DEF CountGood, CountTyped, Cnt!Queued, Cnt!Added, Cnt!WaitingIn, Cnt!Counted, TicketState
<1> HIDE DEF z
<1>3. "waiting" \in TicketState /\ s.state[t] # "waiting" /\ "active" \in TicketState
  BY DEF TicketState
<1>31. RunsMove(s, z, t, "waiting")
  BY <1>1, <1>3, RunningSets
<1>32. AliveMoves(s, z, t, "waiting")
  BY <1>1, <1>3, AliveSets
<1>4. \A c \in Cnt!Class : z.running[c] = Cardinality(CountIn(z, "active", c))
  BY <1>1, <1>3, <1>31, KeysAssumption DEF CountGood, CountTyped, CountExact, RunsMove
<1>5. \A k \in Key : z.byOwner[k] = Cardinality(Alive(z, k))
  BY <1>1, <1>3, <1>32, KeysAssumption DEF AliveMoves, CountGood, CountTyped, CountExact, Cnt!Counted
<1>6. \A k \in Key : z.byOwner[k] <= PerKey
  BY <1>1, KeysAssumption, PlacesAssumption DEF CountGood, CountTyped, CountCapped, Cnt!KeyFull, Cnt!Counted
<1> QED  BY <1>1, <1>2, <1>4, <1>5, <1>6 DEF z, CountGood, CountExact, CountCapped, Cnt!Running

(* A count leaves, from the line or from a place.                        *)
LEMMA GoneKeeps ==
  ASSUME NEW s, CountGood(s), NEW t \in Request, s.state[t] # "left"
  PROVE  CountGood(Cnt!Gone(s, t))
<1> DEFINE z == Cnt!Gone(s, t)
<1>1. /\ s.state \in [Request -> TicketState]
      /\ z.state = [s.state EXCEPT ![t] = "left"]
      /\ z.running = IF s.state[t] = "waiting" THEN s.running
                     ELSE [s.running EXCEPT ![ClassOf[t]] = @ - 1]
      /\ z.byOwner = Cnt!Uncounted(s.byOwner, t)
  BY DEF CountGood, CountTyped, Cnt!Gone
<1>2. "left" \in TicketState /\ "active" \in TicketState /\ s.state[t] \in {"waiting", "active"}
  BY <1>1 DEF TicketState
<1> HIDE DEF z
<1>3. RunsMove(s, z, t, "left")
  BY <1>1, <1>2, RunningSets
<1>31. AliveMoves(s, z, t, "left")
  BY <1>1, <1>2, AliveSets
<1>4. /\ z.running \in [Cnt!Class -> Nat]
      /\ \A c \in Cnt!Class : z.running[c] = Cardinality(CountIn(z, "active", c))
  BY <1>1, <1>2, <1>3, KeysAssumption DEF CountGood, CountTyped, CountExact, RunsMove
<1>5. /\ z.byOwner \in [Key -> Nat]
      /\ \A k \in Key : z.byOwner[k] = Cardinality(Alive(z, k))
  BY <1>1, <1>2, <1>31, KeysAssumption DEF AliveMoves, CountGood, CountTyped, CountExact, Cnt!Uncounted
<1>6. CountTyped(z)
  BY <1>1, <1>4, <1>5 DEF z, CountGood, CountTyped, Cnt!Gone, Cnt!Removed, TicketState
<1>7. Cnt!Running(z) <= Places /\ \A k \in Key : z.byOwner[k] <= PerKey
  BY <1>1, KeysAssumption, PlacesAssumption
     DEF CountGood, CountTyped, CountCapped, Cnt!Running, Cnt!Class, Cnt!Uncounted
<1> QED  BY <1>4, <1>5, <1>6, <1>7 DEF z, CountGood, CountExact, CountCapped

(* The first in line takes the free place.                               *)
LEMMA GrantedKeeps ==
  ASSUME NEW s, CountGood(s), NEW t \in Request, s.state[t] = "waiting", Cnt!HasPlace(s)
  PROVE  CountGood(Cnt!Granted(s, t))
<1> DEFINE z == Cnt!Granted(s, t)
<1>1. /\ s.state \in [Request -> TicketState]
      /\ z.state = [s.state EXCEPT ![t] = "active"]
      /\ z.running = [s.running EXCEPT ![ClassOf[t]] = @ + 1]
      /\ z.byOwner = s.byOwner
  BY DEF CountGood, CountTyped, Cnt!Granted
<1>2. CountTyped(z)
  BY KeysAssumption DEF CountGood, CountTyped, Cnt!Granted, Cnt!Removed, TicketState
<1> HIDE DEF z
<1>3. "active" \in TicketState /\ s.state[t] # "active"
  BY DEF TicketState
<1>31. RunsMove(s, z, t, "active")
  BY <1>1, <1>3, RunningSets
<1>32. AliveMoves(s, z, t, "active")
  BY <1>1, <1>3, AliveSets
<1>4. \A c \in Cnt!Class : z.running[c] = Cardinality(CountIn(z, "active", c))
  BY <1>1, <1>3, <1>31, KeysAssumption DEF CountGood, CountTyped, CountExact, RunsMove
<1>5. \A k \in Key : z.byOwner[k] = Cardinality(Alive(z, k))
  BY <1>1, <1>3, <1>32 DEF AliveMoves, CountGood, CountExact
<1>6. Cnt!Running(z) <= Places
  BY <1>1, KeysAssumption, PlacesAssumption
     DEF CountGood, CountTyped, CountCapped, Cnt!Running, Cnt!HasPlace, Cnt!Class
<1> QED  BY <1>1, <1>2, <1>4, <1>5, <1>6 DEF z, CountGood, CountExact, CountCapped
-----------------------------------------------------------------------------
LEMMA BecomeNow == \A s : CountTyped(s) /\ Cnt!Become(s) => Cnt!Now' = s
  BY DEF CountTyped, Cnt!Become, Cnt!Now

(* One place is free at most while somebody waits, so one grant is enough. *)
LEMMA DispatchKeeps ==
  ASSUME NEW s, CountGood(s), Cnt!Dispatch(s),
         NobodyKeptWaiting(s) \/ Cnt!Running(s) + 1 = Places
  PROVE  CountGood(Cnt!Now') /\ NobodyKeptWaiting(Cnt!Now')
<1>1. CASE ~Cnt!HasPlace(s) \/ \A u \in Request : s.state[u] # "waiting"
  <2>1. Cnt!Become(s)
    BY <1>1 DEF Cnt!Dispatch, Cnt!FirstInLine
  <2> QED  BY <1>1, <2>1, BecomeNow DEF CountGood, NobodyKeptWaiting
<1>2. ASSUME NEW u \in Request, Cnt!HasPlace(s), Cnt!FirstInLine(s, u), Cnt!Become(Cnt!Granted(s, u))
      PROVE  CountGood(Cnt!Now') /\ NobodyKeptWaiting(Cnt!Now')
  <2>1. CountGood(Cnt!Granted(s, u))
    BY <1>2, GrantedKeeps DEF Cnt!FirstInLine
  <2>2. Cnt!Now' = Cnt!Granted(s, u)
    BY <1>2, <2>1, BecomeNow DEF CountGood
  <2>3. Cnt!Running(s) + 1 = Places
    BY <1>2 DEF Cnt!FirstInLine, NobodyKeptWaiting
  <2>4. Cnt!Running(Cnt!Granted(s, u)) = Cnt!Running(s) + 1
    BY KeysAssumption DEF Cnt!Granted, Cnt!Running, Cnt!Class, CountGood, CountTyped
  <2>5. ~Cnt!HasPlace(Cnt!Granted(s, u))
    BY <2>3, <2>4, PlacesAssumption DEF Cnt!HasPlace
  <2> QED  BY <2>1, <2>2, <2>5 DEF NobodyKeptWaiting
<1> QED  BY <1>1, <1>2 DEF Cnt!Dispatch

LEMMA InitCInv == Cnt!Init => CInv
<1> SUFFICES ASSUME Cnt!Init PROVE CInv
  OBVIOUS
<1>1. CountTyped(Cnt!Now)
  BY DEF CountTyped, Cnt!Now, Cnt!Init, TicketState
<1>2. /\ \A c \in Cnt!Class : CountIn(Cnt!Now, "active", c) = {}
      /\ \A k \in Key : Alive(Cnt!Now, k) = {}
  BY DEF CountIn, Alive, Cnt!Now, Cnt!Init
<1>3. CountExact(Cnt!Now)
  BY <1>2, FS_EmptySet DEF CountExact, Cnt!Now, Cnt!Init
<1>4. CountCapped(Cnt!Now)
  BY PlacesAssumption DEF CountCapped, Cnt!Running, Cnt!Class, Cnt!Now, Cnt!Init
<1>5. NobodyKeptWaiting(Cnt!Now)
  BY DEF NobodyKeptWaiting, Cnt!Now, Cnt!Init
<1> QED  BY <1>1, <1>3, <1>4, <1>5 DEF CInv, CountGood

LEMMA NextCInv == CInv /\ [Cnt!Next]_(Cnt!vars) => CInv'
<1> SUFFICES ASSUME CInv, [Cnt!Next]_(Cnt!vars)
             PROVE  CountGood(Cnt!Now') /\ NobodyKeptWaiting(Cnt!Now')
  BY DEF CInv
<1>0. CountGood(Cnt!Now) /\ NobodyKeptWaiting(Cnt!Now) /\ Cnt!Now.state = c_state
  BY DEF CInv, Cnt!Now
<1>1. ASSUME NEW t \in Request, Cnt!Enter(t)
      PROVE  CountGood(Cnt!Now') /\ NobodyKeptWaiting(Cnt!Now')
  <2>1. CASE Cnt!HasPlace(Cnt!Now) /\ Cnt!Become(Cnt!Placed(Cnt!Now, t))
    <3>1. CountGood(Cnt!Placed(Cnt!Now, t))
      BY <1>0, <1>1, <2>1, PlacedKeeps DEF Cnt!Enter
    <3>2. Cnt!Now' = Cnt!Placed(Cnt!Now, t)
      BY <2>1, <3>1, BecomeNow DEF CountGood
    <3>3. NobodyKeptWaiting(Cnt!Placed(Cnt!Now, t))
      BY <1>0, <2>1 DEF NobodyKeptWaiting, Cnt!Placed, CountGood, CountTyped
    <3> QED  BY <3>1, <3>2, <3>3
  <2>2. CASE ~Cnt!HasPlace(Cnt!Now) /\ Cnt!Become(Cnt!Queued(Cnt!Now, t))
    <3>1. CountGood(Cnt!Queued(Cnt!Now, t))
      BY <1>0, <1>1, QueuedKeeps DEF Cnt!Enter
    <3>2. Cnt!Now' = Cnt!Queued(Cnt!Now, t)
      BY <2>2, <3>1, BecomeNow DEF CountGood
    <3>3. ~Cnt!HasPlace(Cnt!Queued(Cnt!Now, t))
      BY <2>2 DEF Cnt!HasPlace, Cnt!Running, Cnt!Queued
    <3> QED  BY <3>1, <3>2, <3>3 DEF NobodyKeptWaiting
  <2> QED  BY <1>1, <2>1, <2>2 DEF Cnt!Enter
<1>2. ASSUME NEW t \in Request, Cnt!Leave(t)
      PROVE  CountGood(Cnt!Now') /\ NobodyKeptWaiting(Cnt!Now')
  <2>1. CountGood(Cnt!Gone(Cnt!Now, t)) /\ Cnt!Dispatch(Cnt!Gone(Cnt!Now, t))
    BY <1>0, <1>2, GoneKeeps DEF Cnt!Leave
  <2>2. Cnt!Gone(Cnt!Now, t).state = [c_state EXCEPT ![t] = "left"]
    BY <1>0 DEF Cnt!Gone
  <2>3. \A u \in Request : Cnt!Gone(Cnt!Now, t).state[u] = "waiting" => c_state[u] = "waiting"
    BY <1>0, <2>2 DEF CountGood, CountTyped
  <2>4. CASE c_state[t] = "waiting"
    <3>1. Cnt!Running(Cnt!Gone(Cnt!Now, t)) = Cnt!Running(Cnt!Now)
      BY <1>0, <2>4 DEF Cnt!Running, Cnt!Gone
    <3>2. NobodyKeptWaiting(Cnt!Gone(Cnt!Now, t))
      BY <1>0, <2>3, <3>1 DEF NobodyKeptWaiting, Cnt!HasPlace
    <3> QED  BY <2>1, <3>2, DispatchKeeps
  <2>5. CASE c_state[t] # "waiting"
    <3>1. Cnt!Running(Cnt!Gone(Cnt!Now, t)) + 1 = Cnt!Running(Cnt!Now)
      BY <1>0, <2>5, KeysAssumption DEF Cnt!Running, Cnt!Gone, Cnt!Class, CountGood, CountTyped
    <3>2. Cnt!Running(Cnt!Now) <= Places /\ Cnt!Running(Cnt!Now) \in Nat
      BY <1>0 DEF CountGood, CountTyped, CountCapped, Cnt!Running, Cnt!Class
    <3>3. CASE Cnt!HasPlace(Cnt!Now)
      BY <1>0, <2>1, <2>3, <3>3, DispatchKeeps DEF NobodyKeptWaiting
    <3>4. CASE ~Cnt!HasPlace(Cnt!Now)
      BY <2>1, <3>1, <3>2, <3>4, PlacesAssumption, DispatchKeeps DEF Cnt!HasPlace
    <3> QED  BY <3>3, <3>4
  <2> QED  BY <2>4, <2>5
<1>3. CASE UNCHANGED Cnt!vars
  BY <1>0, <1>3 DEF Cnt!Now, Cnt!vars
<1> QED  BY <1>1, <1>2, <1>3 DEF Cnt!Next, Cnt!EnterRefused

-----------------------------------------------------------------------------
(* The sum over the classes is the number of counts that run.            *)
LEMMA RunningSum ==
  ASSUME CInv
  PROVE  Cardinality(Cnt!RunningSet) = Cnt!Running(Cnt!Now)
<1> DEFINE A == Cnt!RunningIn("reader")  B == Cnt!RunningIn("agent")
           C == Cnt!RunningIn("internal")  D == Cnt!RunningIn("external")
<1>1. /\ c_running["reader"] = Cardinality(A) /\ c_running["agent"] = Cardinality(B)
      /\ c_running["internal"] = Cardinality(C) /\ c_running["external"] = Cardinality(D)
  BY DEF CInv, CountGood, CountExact, Cnt!Now, CountIn, Cnt!RunningIn, Cnt!Class
<1>2. /\ IsFiniteSet(A) /\ IsFiniteSet(B) /\ IsFiniteSet(C) /\ IsFiniteSet(D)
      /\ IsFiniteSet(A \cup B) /\ IsFiniteSet((A \cup B) \cup C)
  BY RequestSets DEF Cnt!RunningIn
<1>3. /\ A \cap B = {} /\ (A \cup B) \cap C = {} /\ ((A \cup B) \cup C) \cap D = {}
      /\ Cnt!RunningSet = ((A \cup B) \cup C) \cup D
  BY KeysAssumption DEF Cnt!RunningIn, Cnt!RunningSet, Cnt!Class
<1>4. Cnt!Running(Cnt!Now) = c_running["reader"] + c_running["agent"] + c_running["internal"] + c_running["external"]
  BY DEF Cnt!Running, Cnt!Now
<1> HIDE DEF A, B, C, D
<1>5. Cardinality(A \cup B) = Cardinality(A) + Cardinality(B)
  BY <1>2, <1>3, DisjointUnion
<1>6. Cardinality((A \cup B) \cup C) = Cardinality(A \cup B) + Cardinality(C)
  BY <1>2, <1>3, DisjointUnion
<1>7. Cardinality(((A \cup B) \cup C) \cup D) = Cardinality((A \cup B) \cup C) + Cardinality(D)
  BY <1>2, <1>3, DisjointUnion
<1> QED  BY <1>1, <1>3, <1>4, <1>5, <1>6, <1>7

LEMMA CountLeftStep ==
  ASSUME NEW r \in Request, CountLeft(r)
  PROVE  Cnt!Leave(r) \/ UNCHANGED countVars
BY DEF CountLeft

(* Each step of a request is one of the counts', or leaves them alone.   *)
LEMMA CountSteps ==
  [Next]_vars => [Cnt!Next]_(Cnt!vars)
<1> SUFFICES ASSUME [Next]_vars, ~ UNCHANGED countVars PROVE Cnt!Next
  BY DEF Cnt!vars, countVars
<1>1. ASSUME NEW r \in Request, Handler(r) PROVE FALSE
  BY <1>1 DEF Handler, Authorize, EndRefused, Accept, Cleanup, Closed, TerminalSent, TerminalCut,
              CutTask, CutDone, CutLate, StopAll
<1>2. ASSUME NEW r \in Request, Task(r) PROVE Cnt!Enter(r) \/ Cnt!EnterRefused(r) \/ Cnt!Leave(r)
  BY <1>2, CountLeftStep
     DEF Task, Start, CountGranted, CountFails, CountTaken, PlaceGranted, OpenFails, Opened,
         StreamEnds, Cancel
<1>3. ASSUME NEW r \in Request, NEW reason \in OwnReason, StopOwn(r, reason) PROVE FALSE
  BY <1>3 DEF StopOwn, StopAll
<1>4. CASE Drain \/ Open \/ DrainDeadline \/ EngineChanges \/ EngineReady \/ ShutDown
  BY <1>4 DEF Drain, Open, DrainDeadline, EngineChanges, EngineReady, ShutDown, StopAll, RequestsKept
<1>5. CASE UNCHANGED vars
  BY <1>5 DEF vars
<1> QED  BY <1>1, <1>2, <1>3, <1>4, <1>5 DEF Next, Cnt!Next

LEMMA CInvAlways == Spec => []CInv
<1>1. Init => CInv
  BY InitCInv DEF Init
<1>2. CInv /\ [Next]_vars => CInv'
  BY NextCInv, CountSteps
<1> QED  BY <1>1, <1>2, PTL DEF Spec

-----------------------------------------------------------------------------
LEMMA SameCardinality == \A S : Cnt!Cardinality(S) = Cardinality(S)
BY DEF Cnt!Cardinality, Cardinality

LEMMA CInvCapsHeld == CInv => Cnt!CapsHeld
<1> SUFFICES ASSUME CInv PROVE Cnt!CapsHeld
  OBVIOUS
<1>1. Cnt!Cardinality(Cnt!RunningSet) <= Places
  BY RunningSum, SameCardinality DEF CInv, CountGood, CountCapped
<1>2. ASSUME NEW k \in Key PROVE Cnt!Cardinality(Cnt!CountsOf(k)) <= PerKey
  <2>1. Cnt!CountsOf(k) = Alive(Cnt!Now, k)
    BY DEF Cnt!CountsOf, Alive, Cnt!Now
  <2> QED  BY <2>1, SameCardinality DEF CInv, CountGood, CountCapped, CountExact
<1> QED  BY <1>1, <1>2 DEF Cnt!CapsHeld

LEMMA CInvNoIdlePlace == CInv => Cnt!NoIdlePlace
<1> SUFFICES ASSUME CInv, Cnt!WaitingSet # {} PROVE Cardinality(Cnt!RunningSet) = Places
  BY SameCardinality DEF Cnt!NoIdlePlace
<1>1. ~Cnt!HasPlace(Cnt!Now)
  BY DEF CInv, NobodyKeptWaiting, Cnt!WaitingSet, Cnt!Now
<1>2. Cnt!Running(Cnt!Now) \in Nat /\ Cnt!Running(Cnt!Now) <= Places
  BY DEF CInv, CountGood, CountTyped, CountCapped, Cnt!Running, Cnt!Class
<1> QED  BY <1>1, <1>2, RunningSum, PlacesAssumption DEF Cnt!HasPlace

LEMMA CInvExact == CInv => Cnt!TypeOK /\ Cnt!CountersExact
<1> SUFFICES ASSUME CInv PROVE Cnt!TypeOK /\ Cnt!CountersExact
  OBVIOUS
<1>1. Cnt!TypeOK
  <2>1. TicketState = Cnt!TicketState
    BY DEF TicketState, Cnt!TicketState
  <2> QED  BY <2>1 DEF CInv, CountGood, CountTyped, Cnt!Now, Cnt!TypeOK
<1>2. ASSUME NEW c \in Cnt!Class PROVE c_running[c] = Cnt!Cardinality(Cnt!RunningIn(c))
  <2>1. Cnt!RunningIn(c) = CountIn(Cnt!Now, "active", c)
    BY DEF Cnt!RunningIn, CountIn, Cnt!Now
  <2>2. c_running[c] = Cardinality(CountIn(Cnt!Now, "active", c))
    BY DEF CInv, CountGood, CountExact, Cnt!Now
  <2> QED  BY <2>1, <2>2, SameCardinality
<1>3. ASSUME NEW k \in Key PROVE c_byOwner[k] = Cnt!Cardinality(Cnt!CountsOf(k))
  <2>1. Cnt!CountsOf(k) = Alive(Cnt!Now, k)
    BY DEF Cnt!CountsOf, Alive, Cnt!Now
  <2>2. c_byOwner[k] = Cardinality(Alive(Cnt!Now, k))
    BY DEF CInv, CountGood, CountExact, Cnt!Now
  <2> QED  BY <2>1, <2>2, SameCardinality
<1> QED  BY <1>1, <1>2, <1>3 DEF Cnt!CountersExact

(* The counters of the count places equal the counts they stand for, on  *)
(* every path of a request through enter, leave and grant.               *)
THEOREM CountCountersAreExact == Spec => [](Cnt!TypeOK /\ Cnt!CountersExact)
BY CInvAlways, CInvExact, PTL

(* No more counts of the text lane run, and no key has more of them, than *)
(* the caps allow: whatever stops, drains and shutdowns do to requests.   *)
THEOREM CountsStayWithinCaps == Spec => []Cnt!CapsHeld
BY CInvAlways, CInvCapsHeld, PTL

(* A count of the text lane waits only while every place is taken: what  *)
(* makes the loop of CountPlaces.leave one grant long.                   *)
THEOREM CountsKeepNoPlaceIdle == Spec => []NoIdlePlace
BY CInvAlways, CInvNoIdlePlace, PTL DEF NoIdlePlace

LEMMA StepServesFirst ==
  ASSUME CInv, Cnt!Next, NEW t \in Request, NEW u \in Request,
         c_state[t] # "active", c_state'[t] = "active",
         c_state[u] = "waiting", c_state'[u] = "waiting"
  PROVE  c_state[t] = "waiting" /\ ~Cnt!Sooner(ClassOf[u], ClassOf[t]) /\ u \notin c_ahead[t]
<1>0. /\ CountGood(Cnt!Now) /\ NobodyKeptWaiting(Cnt!Now) /\ Cnt!Now.state = c_state /\ Cnt!Now.ahead = c_ahead
      /\ c_state \in [Request -> TicketState]
  BY DEF CInv, Cnt!Now, CountGood, CountTyped
<1>1. ASSUME NEW x \in Request, Cnt!Enter(x)
      PROVE  FALSE
  <2>1. ~Cnt!HasPlace(Cnt!Now)
    BY <1>0 DEF NobodyKeptWaiting
  <2>2. Cnt!Become(Cnt!Queued(Cnt!Now, x))
    BY <1>1, <2>1 DEF Cnt!Enter
  <2> QED  BY <1>0, <2>2 DEF Cnt!Become, Cnt!Queued
<1>2. ASSUME NEW x \in Request, Cnt!Leave(x)
      PROVE  c_state[t] = "waiting" /\ ~Cnt!Sooner(ClassOf[u], ClassOf[t]) /\ u \notin c_ahead[t]
  <2> DEFINE s == Cnt!Gone(Cnt!Now, x)
  <2>1. s.state = [c_state EXCEPT ![x] = "left"]
    BY <1>0 DEF Cnt!Gone
  <2>2. Cnt!Dispatch(s) /\ ~Cnt!Become(s)
    BY <1>0, <1>2, <2>1 DEF Cnt!Leave, Cnt!Become
  <2>3. PICK y \in Request : Cnt!FirstInLine(s, y) /\ Cnt!Become(Cnt!Granted(s, y))
    BY <2>2 DEF Cnt!Dispatch
  <2>4. c_state' = [s.state EXCEPT ![y] = "active"]
    BY <2>3 DEF Cnt!Become, Cnt!Granted
  <2>5. y = t /\ t # x /\ u # x /\ c_state[t] = "waiting" /\ s.state[u] = "waiting"
    BY <1>0, <2>1, <2>3, <2>4 DEF Cnt!FirstInLine
  <2>6. ~Cnt!Precedes(s, u, t)
    BY <2>3, <2>5 DEF Cnt!FirstInLine
  <2>7. u \in c_ahead[t] => u \in s.ahead[t]
    BY <1>0, <2>5 DEF Cnt!Gone, Cnt!Removed
  <2> QED  BY <2>5, <2>6, <2>7 DEF Cnt!Precedes
<1>3. ASSUME NEW x \in Request, Cnt!EnterRefused(x)
      PROVE  FALSE
  BY <1>3 DEF Cnt!EnterRefused, Cnt!vars
<1> QED  BY <1>1, <1>2, <1>3 DEF Cnt!Next

(* No count of the text lane goes before one that came before it or is of a *)
(* class served before: with a place free, nobody is in line to overtake.   *)
THEOREM CountsGoInOrder == Spec => NoOvertaking
<1> DEFINE A == \A t, u \in Request :
       /\ c_state[t] # "active" /\ c_state'[t] = "active"
       /\ c_state[u] = "waiting" /\ c_state'[u] = "waiting"
       => /\ c_state[t] = "waiting"
          /\ ~Cnt!Sooner(ClassOf[u], ClassOf[t])
          /\ u \notin c_ahead[t]
<1>1. CInv /\ [Next]_vars => [A]_(Cnt!vars)
  BY StepServesFirst, CountSteps
<1> HIDE DEF A
<1>2. Spec => [][A]_(Cnt!vars)
  BY <1>1, CInvAlways, PTL DEF Spec
<1> QED  BY <1>2 DEF NoOvertaking, Cnt!NoOvertaking, A

-----------------------------------------------------------------------------
(* TextLane implements Lifecycle, for any requests, keys, caps and stops: *)
(* its initial state is one of Lifecycle's, and each of its steps is a    *)
(* step of Lifecycle or changes nothing that Lifecycle sees.              *)

(* What Lifecycle sees of the requests.                                  *)
Phases == [r \in Request |-> PhaseOf(r)]
OursOn == {r \in OursSet : step[r] # "none"}
WorkStep == TaskStep \cup AfterTask

(* The service's own part of the invariant.                              *)
ServiceInv ==
  /\ draining \in BOOLEAN /\ drain_generation \in Nat
  /\ draining = TRUE => drain_generation >= 1
  /\ engine_changed \in BOOLEAN /\ verified \in BOOLEAN
  /\ verified = FALSE => engine_changed = FALSE

LEMMA OwnStepKeepsService ==
  ASSUME NEW r \in Request, OwnStep(r)
  PROVE  UNCHANGED serviceVars
<1>1. Task(r) => UNCHANGED serviceVars
  BY DEF Task, Start, CountGranted, CountFails, CountTaken, PlaceGranted, OpenFails, Opened,
         StreamEnds, Cancel
<1>2. Authorize(r) \/ EndRefused(r) \/ Accept(r) \/ Cleanup(r) \/ Closed(r) => UNCHANGED serviceVars
  BY DEF Authorize, EndRefused, Accept, Cleanup, Closed
<1>3. TerminalSent(r) \/ TerminalCut(r) \/ CutDone(r) \/ CutLate(r) => UNCHANGED serviceVars
  BY DEF TerminalSent, TerminalCut, CutDone, CutLate
<1> QED  BY <1>1, <1>2, <1>3 DEF OwnStep

LEMMA ServiceAlways == Spec => []ServiceInv
<1>1. Init => ServiceInv
  <2>1. Init => /\ draining = FALSE /\ drain_generation = 0
                /\ verified = FALSE /\ engine_changed = FALSE
    BY Zenon DEF Init
  <2>2. Init => drain_generation \in Nat
    BY <2>1
  <2> QED  BY <2>1, <2>2, Zenon DEF ServiceInv
<1>2. ServiceInv /\ [Next]_vars => ServiceInv'
  <2> SUFFICES ASSUME ServiceInv, [Next]_vars PROVE ServiceInv'
    OBVIOUS
  <2>1. CASE UNCHANGED serviceVars
    BY <2>1 DEF serviceVars, ServiceInv
  <2>2. CASE Drain \/ Open \/ DrainDeadline \/ EngineChanges \/ EngineReady
    <3>1. Drain => ServiceInv'
      BY DEF Drain, ServiceInv
    <3>2. Open => ServiceInv'
      BY DEF Open, ServiceInv
    <3>3. DrainDeadline => ServiceInv'
      BY DEF DrainDeadline, ServiceInv
    <3>4. EngineChanges => ServiceInv'
      BY DEF EngineChanges, ServiceInv
    <3>5. EngineReady => ServiceInv'
      BY DEF EngineReady, ServiceInv
    <3> QED  BY <2>2, <3>1, <3>2, <3>3, <3>4, <3>5
  <2>3. ASSUME NEW r \in Request, OwnStep(r)
        PROVE  UNCHANGED serviceVars
    BY <2>3, OwnStepKeepsService
  <2>4. ASSUME NEW r \in Request, CutTask(r) \/ \E reason \in OwnReason : StopOwn(r, reason)
        PROVE  UNCHANGED serviceVars
    BY <2>4 DEF StopOwn, CutTask
  <2>5. CASE ShutDown \/ UNCHANGED vars
    BY <2>1, <2>5 DEF ShutDown, vars
  <2>6. ASSUME NEW r \in Request, OwnStep(r) \/ CutTask(r) \/ \E reason \in OwnReason : StopOwn(r, reason)
        PROVE  ServiceInv'
    BY <2>1, <2>3, <2>4, <2>6
  <2> QED  BY <2>2, <2>5, <2>6, Steps DEF StopStep, QuietStep
<1> QED  BY <1>1, <1>2, PTL DEF Spec

-----------------------------------------------------------------------------
(* A request's own step: the grants it makes, as Lifecycle sees them.    *)
GivenBy(r) == {x \in Request \ {r} : PhaseOf(x) = "waiting" /\ PhaseOf(x)' = "active"}

LEMMA OwnStepPhases ==
  ASSUME IInv, NEW r \in Request, OwnStep(r)
  PROVE  /\ GivenBy(r) \in SUBSET (L!Waiting \ {r})
         /\ Phases' = L!Given([Phases EXCEPT ![r] = PhaseOf(r)'], GivenBy(r))
<1>1. Aside(r)
  BY OwnStepFits
<1>2. ASSUME NEW x \in Request \ {r}
      PROVE  PhaseOf(x)' = PhaseOf(x) \/ (PhaseOf(x) = "waiting" /\ PhaseOf(x)' = "active")
  BY <1>1 DEF Aside, PhaseOf, Active
<1>3. GivenBy(r) \in SUBSET (L!Waiting \ {r})
  BY DEF GivenBy, L!Waiting
<1>4. Phases' = [x \in Request |-> PhaseOf(x)']
  BY DEF Phases
<1>5. L!Given([Phases EXCEPT ![r] = PhaseOf(r)'], GivenBy(r))
        = [x \in Request |-> IF x \in GivenBy(r) THEN "active"
                             ELSE IF x = r THEN PhaseOf(r)' ELSE PhaseOf(x)]
  BY DEF L!Given, Phases
<1>6. ASSUME NEW x \in Request
      PROVE  PhaseOf(x)' = IF x \in GivenBy(r) THEN "active"
                           ELSE IF x = r THEN PhaseOf(r)' ELSE PhaseOf(x)
  BY <1>2 DEF GivenBy
<1> QED  BY <1>3, <1>4, <1>5, <1>6

LEMMA OwnStepStands ==
  ASSUME IInv, NEW r \in Request, OwnStep(r), step'[r] # "none", step[r] # "none"
  PROVE  OursOn' = OursOn
BY OwnStepFits DEF Aside, OursOn, OursSet, IInv, Typed

(* The steps of a request that stays in the work set: it may get its place *)
(* or end its task.                                                        *)
LEMMA MovesImplement ==
  ASSUME IInv, NEW r \in Request, OwnStep(r),
         step[r] \in WorkStep, step'[r] \in WorkStep, UNCHANGED stop_reason,
         PhaseOf(r)' = PhaseOf(r) \/ (PhaseOf(r) = "waiting" /\ PhaseOf(r)' = "active")
           \/ (PhaseOf(r) \in {"waiting", "active"} /\ PhaseOf(r)' = "ending")
  PROVE  [L!Next]_L!vars
<1>1. Aside(r)
  BY OwnStepFits
<1>2. Work' = Work
  BY <1>1 DEF Aside, Work, WorkStep, IInv, Typed
<1>3. OursOn' = OursOn
  BY OwnStepStands DEF WorkStep, TaskStep, AfterTask
<1>4. UNCHANGED serviceVars
  BY OwnStepKeepsService
<1>5. /\ GivenBy(r) \in SUBSET (L!Waiting \ {r})
      /\ Phases' = L!Given([Phases EXCEPT ![r] = PhaseOf(r)'], GivenBy(r))
  BY OwnStepPhases
<1> DEFINE Rest == UNCHANGED <<L!vastVars, L!drainVars, L!sleepVars, L!idleVars, L!engineVars,
                               Work, Cardinality(OursOn), stop_reason, OpenCalls, 0>>
<1>6. Rest
  BY <1>2, <1>3, <1>4 DEF serviceVars, L!vastVars, L!drainVars, L!sleepVars, L!idleVars, L!engineVars, OpenCalls
<1>7. CASE PhaseOf(r)' = "ending" /\ PhaseOf(r) \in {"waiting", "active"}
  <2>1. L!TaskEnds(r)
    BY <1>5, <1>6, <1>7 DEF L!TaskEnds, Phases, OursOn
  <2> QED  BY <2>1 DEF L!Next, L!RequestStep, L!Up
<1>8. ASSUME NEW x \in Request, PhaseOf(x) = "waiting",
             Phases' = L!Given([Phases EXCEPT ![x] = "active"], GivenBy(r))
      PROVE  L!Next
  <2>1. L!Hand(x)
    BY <1>5, <1>6, <1>8 DEF L!Hand, Phases, OursOn
  <2> QED  BY <2>1 DEF L!Next, L!RequestStep, L!Up
<1>9. CASE PhaseOf(r) = "waiting" /\ PhaseOf(r)' = "active"
  BY <1>5, <1>8, <1>9
<1>10. ASSUME PhaseOf(r)' = PhaseOf(r), NEW x \in GivenBy(r)
       PROVE  L!Next
  <2>1. x \in Request /\ PhaseOf(x) = "waiting"
    BY <1>10 DEF GivenBy
  <2>2. Phases' = L!Given([Phases EXCEPT ![x] = "active"], GivenBy(r))
    BY <1>5, <1>10, <2>1 DEF L!Given, Phases
  <2> QED  BY <1>8, <2>1, <2>2
<1>11. CASE PhaseOf(r)' = PhaseOf(r) /\ GivenBy(r) = {}
  <2>1. Phases' = Phases
    BY <1>5, <1>11 DEF L!Given, Phases
  <2> QED  BY <1>6, <2>1 DEF L!vars, L!workVars, Phases, OursOn
<1> QED  BY <1>7, <1>9, <1>10, <1>11

-----------------------------------------------------------------------------
(* The service's count of requests of ours.                              *)
Counts(r, now) == Cardinality(OursOn') = IF r \in OursSet THEN now ELSE Cardinality(OursOn)

LEMMA OursOnMoves ==
  ASSUME IInv, NEW r \in Request, OwnStep(r)
  PROVE  /\ step[r] = "none" /\ step'[r] # "none" => Counts(r, Cardinality(OursOn) + 1)
         /\ step[r] # "none" /\ step'[r] = "none" => Counts(r, Cardinality(OursOn) - 1)
<1>1. IsFiniteSet(OursOn)
  <2>1. OursOn \subseteq Request
    BY DEF OursOn, OursSet
  <2> QED  BY <2>1, TextLaneAssumption, FS_Subset
<1>2. \A x \in Request \ {r} : step'[x] = step[x]
  BY OwnStepFits DEF Aside
<1>3. r \notin OursSet => OursOn' = OursOn
  BY <1>2 DEF OursOn, OursSet
<1>4. ASSUME r \in OursSet, step[r] = "none", step'[r] # "none"
      PROVE  Cardinality(OursOn') = Cardinality(OursOn) + 1
  <2>1. OursOn' = OursOn \cup {r} /\ r \notin OursOn
    BY <1>2, <1>4 DEF OursOn, OursSet
  <2> QED  BY <1>1, <2>1, FS_AddElement
<1>5. ASSUME r \in OursSet, step[r] # "none", step'[r] = "none"
      PROVE  Cardinality(OursOn') = Cardinality(OursOn) - 1
  <2>1. OursOn' = OursOn \ {r} /\ r \in OursOn
    BY <1>2, <1>5 DEF OursOn, OursSet
  <2> QED  BY <1>1, <2>1, FS_RemoveElement
<1> QED  BY <1>3, <1>4, <1>5 DEF Counts

(* What of Lifecycle's state a request's own step leaves alone.          *)
ServiceSeen == <<L!vastVars, L!drainVars, L!sleepVars, L!engineVars, L!idleVars, OpenCalls>>

LEMMA ServiceSeenKept == UNCHANGED serviceVars => UNCHANGED ServiceSeen
BY DEF serviceVars, ServiceSeen, L!vastVars, L!drainVars, L!sleepVars, L!engineVars, L!idleVars, OpenCalls

LEMMA AuthorizeImplements ==
  ASSUME IInv, NEW r \in Request, Authorize(r)
  PROVE  L!Authorize(r)
<1>1. OwnStep(r) /\ UNCHANGED ServiceSeen
  BY OwnStepKeepsService, ServiceSeenKept DEF OwnStep
<1>2. /\ step[r] = "none" /\ step' = [step EXCEPT ![r] = "preparing"] /\ L!Status = "ready"
      /\ c_state' = c_state /\ a_state' = a_state /\ stop_reason' = stop_reason
  BY TicketsKept DEF Authorize, Goes
<1>3. Counts(r, Cardinality(OursOn) + 1)
  BY <1>1, <1>2, OursOnMoves DEF IInv, Typed
<1>4. Phases' = [Phases EXCEPT ![r] = "preparing"] /\ PhaseOf(r) = "none"
  BY <1>2 DEF Phases, PhaseOf, Active, IInv, Typed, TaskStep, AfterTask
<1>5. Work' = Work
  BY <1>2 DEF Work, IInv, Typed, TaskStep, AfterTask
<1> QED  BY <1>1, <1>2, <1>3, <1>4, <1>5 DEF L!Authorize, Counts, OursOn, Phases, ServiceSeen

LEMMA AcceptImplements ==
  ASSUME IInv, NEW r \in Request, Accept(r)
  PROVE  L!Accept(r)
<1>1. OwnStep(r) /\ UNCHANGED ServiceSeen
  BY OwnStepKeepsService, ServiceSeenKept DEF OwnStep
<1>2. /\ step[r] = "preparing" /\ step' = [step EXCEPT ![r] = "accepted"] /\ L!Status = "ready"
      /\ c_state' = c_state /\ a_state' = a_state /\ stop_reason' = stop_reason
  BY TicketsKept DEF Accept, Goes
<1>3. OursOn' = OursOn
  BY <1>1, <1>2, OwnStepStands DEF IInv, Typed
<1>4. Phases' = [Phases EXCEPT ![r] = "waiting"] /\ PhaseOf(r) = "preparing"
  BY <1>2 DEF Phases, PhaseOf, Active, IInv, Typed, Fits, TaskStep, AfterTask
<1>5. Work' = Work \cup {r}
  BY <1>2 DEF Work, IInv, Typed, TaskStep, AfterTask
<1> QED  BY <1>1, <1>2, <1>3, <1>4, <1>5 DEF L!Accept, OursOn, Phases, ServiceSeen

(* release, on any path that ends.                                       *)
LEMMA EndsImplements ==
  ASSUME IInv, NEW r \in Request, OwnStep(r), Ends(r), step[r] # "none"
  PROVE  L!End(r) /\ UNCHANGED ServiceSeen
<1>1. UNCHANGED ServiceSeen
  BY OwnStepKeepsService, ServiceSeenKept
<1>2. step' = [step EXCEPT ![r] = "none"] /\ stop_reason' = [stop_reason EXCEPT ![r] = "none"]
  BY DEF Ends, Goes
<1>3. Counts(r, Cardinality(OursOn) - 1)
  BY <1>2, OursOnMoves DEF IInv, Typed
<1>4. Work' = Work \ {r}
  BY <1>2 DEF Work, IInv, Typed, TaskStep, AfterTask
<1> QED  BY <1>1, <1>2, <1>3, <1>4 DEF L!End, Counts, OursOn

LEMMA EndRefusedImplements ==
  ASSUME IInv, NEW r \in Request, EndRefused(r)
  PROVE  L!EndRefused(r)
<1>1. OwnStep(r) /\ Ends(r) /\ step[r] = "preparing"
  BY DEF OwnStep, EndRefused
<1>2. L!End(r) /\ UNCHANGED ServiceSeen
  BY <1>1, EndsImplements
<1>3. c_state' = c_state /\ a_state' = a_state /\ step' = [step EXCEPT ![r] = "none"]
  BY TicketsKept DEF EndRefused, Ends, Goes
<1>4. Phases' = [Phases EXCEPT ![r] = "none"] /\ PhaseOf(r) = "preparing"
  BY <1>1, <1>3 DEF Phases, PhaseOf, Active, IInv, Typed, TaskStep, AfterTask
<1> QED  BY <1>2, <1>4 DEF L!EndRefused, Phases, ServiceSeen, L!idleVars

LEMMA ReleaseImplements ==
  ASSUME IInv, NEW r \in Request, OwnStep(r), Ends(r), step[r] \in AfterTask
  PROVE  L!Release(r)
<1>1. L!End(r) /\ UNCHANGED ServiceSeen
  BY EndsImplements DEF AfterTask
<1>2. PhaseOf(r) = "ending" /\ PhaseOf(r)' = "none"
  BY DEF PhaseOf, Ends, Goes, IInv, Typed, TaskStep, AfterTask
<1>3. /\ GivenBy(r) \in SUBSET L!Waiting
      /\ Phases' = L!Given([Phases EXCEPT ![r] = "none"], GivenBy(r))
  BY <1>2, OwnStepPhases
<1> QED  BY <1>1, <1>2, <1>3 DEF L!Release, Phases, ServiceSeen, L!idleVars

(* The task never gives its place back before it ends.                   *)
LEMMA TaskMoves ==
  ASSUME IInv, NEW r \in Request, Task(r)
  PROVE  /\ step[r] \in TaskStep /\ UNCHANGED stop_reason
         /\ step'[r] = "done" \/ (step'[r] \in TaskStep /\ (Active(r) => Active(r)'))
<1>1. CASE Start(r)
  BY <1>1 DEF Start, Goes, Done, Cnt!EnterRefused, Cnt!Enter, Active, IInv, Typed, Fits, TaskStep
<1>2. CASE CountGranted(r) \/ PlaceGranted(r) \/ Opened(r)
  BY <1>2, TicketsKept DEF CountGranted, PlaceGranted, Opened, Opens, Goes, Active, IInv, Typed, TaskStep
<1>3. CASE CountFails(r) \/ OpenFails(r) \/ StreamEnds(r) \/ Cancel(r)
  BY <1>3 DEF CountFails, OpenFails, StreamEnds, Cancel, Done, Goes, IInv, Typed, TaskStep
<1>4. CASE CountTaken(r)
  <2>1. KindOf[r] = "generation" => ~Active(r)
    BY <1>4 DEF CountTaken, Active, IInv, Typed, Fits
  <2> QED  BY <1>4, <2>1 DEF CountTaken, AfterCount, Opens, Done, Goes, IInv, Typed, TaskStep
<1> QED  BY <1>1, <1>2, <1>3, <1>4 DEF Task

LEMMA HandlerMoves ==
  ASSUME IInv, NEW r \in Request, Cleanup(r) \/ Closed(r) \/ CutDone(r), ~Ends(r)
  PROVE  step[r] \in AfterTask /\ step'[r] \in AfterTask /\ UNCHANGED stop_reason
BY DEF Cleanup, Closed, CutDone, Terminal, Goes, IInv, Typed, AfterTask

LEMMA OwnStepImplements ==
  ASSUME IInv, NEW r \in Request, OwnStep(r)
  PROVE  [L!Next]_L!vars
<1>1. CASE Authorize(r) \/ EndRefused(r) \/ Accept(r)
  BY <1>1, AuthorizeImplements, EndRefusedImplements, AcceptImplements DEF L!Next, L!RequestStep, L!Up
<1>2. CASE Task(r)
  <2>1. step[r] \in WorkStep /\ step'[r] \in WorkStep /\ UNCHANGED stop_reason
    BY <1>2, TaskMoves DEF WorkStep, AfterTask
  <2>2. \/ PhaseOf(r)' = PhaseOf(r)
        \/ PhaseOf(r) = "waiting" /\ PhaseOf(r)' = "active"
        \/ PhaseOf(r) \in {"waiting", "active"} /\ PhaseOf(r)' = "ending"
    BY <1>2, TaskMoves DEF PhaseOf, TaskStep, AfterTask
  <2> QED  BY <2>1, <2>2, MovesImplement
<1>3. CASE (Cleanup(r) \/ Closed(r) \/ CutDone(r)) /\ ~Ends(r)
  <2>1. step[r] \in AfterTask /\ step'[r] \in AfterTask /\ UNCHANGED stop_reason
    BY <1>3, HandlerMoves
  <2>2. PhaseOf(r)' = PhaseOf(r)
    BY <2>1 DEF PhaseOf
  <2> QED  BY <2>1, <2>2, MovesImplement DEF WorkStep
<1>4. CASE \/ (Cleanup(r) \/ Closed(r)) /\ Ends(r)
           \/ TerminalSent(r) \/ TerminalCut(r) \/ CutLate(r)
  <2>1. Ends(r) /\ step[r] \in AfterTask
    BY <1>4 DEF Cleanup, Closed, TerminalSent, TerminalCut, CutLate, AfterTask
  <2> QED  BY <2>1, ReleaseImplements DEF L!Next, L!RequestStep, L!Up
<1>5. CASE CutDone(r) /\ Ends(r)
  BY <1>5 DEF CutDone, Ends, Goes, IInv, Typed
<1> QED  BY <1>1, <1>2, <1>3, <1>4, <1>5 DEF OwnStep

-----------------------------------------------------------------------------
(* A stop moves no request.                                              *)
LEMMA StopAllStands ==
  ASSUME IInv, NEW S \in SUBSET Request, NEW reason, StopAll(S, reason)
  PROVE  /\ stop_reason' = L!Stopped(S, reason)
         /\ Phases' = Phases /\ Work' = Work /\ OursOn' = OursOn
<1>1. /\ step' = step /\ c_state' = c_state
      /\ \A r \in Request : a_state'[r] = "active" <=> a_state[r] = "active"
  BY TicketsKept DEF StopAll, LineLeft, IInv, Typed
<1>2. \A r \in Request : PhaseOf(r)' = PhaseOf(r)
  BY <1>1 DEF PhaseOf, Active
<1>3. Phases' = Phases
  BY <1>2 DEF Phases
<1> QED  BY <1>1, <1>3 DEF Work, OursOn, StopAll

LEMMA StopOwnImplements ==
  ASSUME IInv, NEW r \in Request, NEW reason \in OwnReason \cup {"shutdown"},
         r \in Work, stop_reason[r] = "none", StopAll({r}, reason), UNCHANGED serviceVars
  PROVE  L!Next
<1>1. /\ stop_reason' = L!Stopped({r}, reason)
      /\ Phases' = Phases /\ Work' = Work /\ OursOn' = OursOn
  BY StopAllStands
<1>2. UNCHANGED ServiceSeen
  BY ServiceSeenKept
<1>3. L!StopOwn(r, reason)
  BY <1>1, <1>2 DEF L!StopOwn, Phases, OursOn, ServiceSeen
<1> QED  BY <1>3 DEF L!Next, L!RequestStep, L!Up

(* The shutdown of a request that was stopped already.                   *)
LEMMA CutTaskImplements ==
  ASSUME IInv, NEW r \in Request, CutTask(r)
  PROVE  [L!Next]_L!vars
<1>1. StopAll({r}, "shutdown") /\ UNCHANGED serviceVars /\ r \in Work
  BY DEF CutTask, Work
<1>2. CASE stop_reason[r] = "none"
  BY <1>1, <1>2, StopOwnImplements
<1>3. CASE stop_reason[r] # "none"
  <2>1. /\ stop_reason' = L!Stopped({r}, "shutdown")
        /\ Phases' = Phases /\ Work' = Work /\ OursOn' = OursOn
    BY <1>1, StopAllStands
  <2>2. stop_reason' = stop_reason
    BY <1>3, <2>1 DEF L!Stopped, IInv, Typed
  <2>3. UNCHANGED ServiceSeen
    BY <1>1, ServiceSeenKept
  <2> QED  BY <2>1, <2>2, <2>3 DEF L!vars, L!workVars, Phases, OursOn, ServiceSeen
<1> QED  BY <1>2, <1>3

-----------------------------------------------------------------------------
(* The service's own steps.                                              *)

(* What a drain stops is what Lifecycle says: Work.waiting goes by the   *)
(* tickets.                                                              *)
LEMMA DrainSet == {r \in Work : WaitsFor(r) \/ OwnerOf[r] # NoKey} = L!StoppedByDrain
<1>1. ASSUME NEW r \in Work
      PROVE  WaitsFor(r) <=> PhaseOf(r) = "waiting"
  BY DEF WaitsFor, PhaseOf, Work, TaskStep, AfterTask
<1>2. \A r \in Work : r \in Request
  BY DEF Work
<1> QED  BY <1>1, <1>2 DEF L!StoppedByDrain, OursSet

LEMMA DrainImplements ==
  ASSUME IInv, ServiceInv, Drain
  PROVE  L!Next
<1> DEFINE S == {r \in Work : WaitsFor(r) \/ OwnerOf[r] # NoKey}
<1>1. /\ stop_reason' = L!Stopped(L!StoppedByDrain, "draining")
      /\ Phases' = Phases /\ Work' = Work /\ OursOn' = OursOn
  <2>1. StopAll(S, "draining") /\ S \in SUBSET Request
    BY DEF Drain, Work
  <2> HIDE DEF S
  <2>2. /\ stop_reason' = L!Stopped(S, "draining")
        /\ Phases' = Phases /\ Work' = Work /\ OursOn' = OursOn
    BY <2>1, StopAllStands
  <2> QED  BY <2>2, DrainSet DEF S
<1>2. /\ draining = FALSE /\ draining' = TRUE
      /\ drain_generation < MaxDrains /\ drain_generation' = drain_generation + 1
      /\ deadline' = 0 /\ UNCHANGED <<verified, engine_status, engine_changed>>
  BY DEF Drain, ServiceInv
<1>3. OpenCalls' = OpenCalls \cup
        {[boot |-> 1, generation |-> drain_generation', drain |-> drain_generation']}
  <2>1. 1..drain_generation' = 1..drain_generation \cup {drain_generation'}
    BY <1>2 DEF ServiceInv
  <2> QED  BY <2>1 DEF OpenCalls
<1>4. L!Close
  BY <1>1, <1>2 DEF L!Close
<1>5. L!Drain(TRUE)
  BY <1>1, <1>2, <1>3, <1>4 DEF L!Drain, L!vastVars, L!sleepVars, L!idleVars, L!engineVars, Phases, OursOn
<1> QED  BY <1>5 DEF L!Next, L!ControlStep, L!Up

LEMMA DrainDeadlineImplements ==
  ASSUME IInv, ServiceInv, DrainDeadline
  PROVE  L!Next
<1>1. /\ stop_reason' = L!Stopped(Work, "draining")
      /\ Phases' = Phases /\ Work' = Work /\ OursOn' = OursOn
  <2>1. StopAll(Work, "draining") /\ Work \in SUBSET Request
    BY DEF DrainDeadline, Work
  <2> QED  BY <2>1, StopAllStands
<1>2. L!DrainDeadline
  BY <1>1 DEF DrainDeadline, L!DrainDeadline, L!vastVars, L!sleepVars, L!idleVars, L!engineVars,
              OpenCalls, Phases, OursOn
<1> QED  BY <1>2 DEF L!Next, L!ServiceStep, L!Up

LEMMA EngineChangesImplements ==
  ASSUME IInv, ServiceInv, EngineChanges
  PROVE  L!Next
<1>1. /\ stop_reason' = L!Stopped(Work, "engine_changed")
      /\ Phases' = Phases /\ Work' = Work /\ OursOn' = OursOn
  <2>1. StopAll(Work, "engine_changed") /\ Work \in SUBSET Request
    BY DEF EngineChanges, Work
  <2> QED  BY <2>1, StopAllStands
<1>2. L!EngineChanges
  BY <1>1 DEF EngineChanges, L!EngineChanges, L!vastVars, L!drainVars, L!sleepVars, L!idleVars,
              OpenCalls, Phases, OursOn
<1> QED  BY <1>2 DEF L!Next, L!EngineStep, L!Up

LEMMA RequestsKeptStand ==
  RequestsKept => Phases' = Phases /\ Work' = Work /\ OursOn' = OursOn /\ stop_reason' = stop_reason
BY DEF RequestsKept, workVars, countVars, placeVars, Phases, PhaseOf, Active, Work, OursOn

LEMMA OpenImplements ==
  ASSUME IInv, ServiceInv, Open
  PROVE  L!Next
<1>1. Phases' = Phases /\ Work' = Work /\ OursOn' = OursOn /\ stop_reason' = stop_reason
  BY RequestsKeptStand DEF Open
<1>2. /\ draining = TRUE /\ draining' = FALSE /\ deadline' = Off
      /\ UNCHANGED <<drain_generation, verified, engine_status, engine_changed>>
  BY DEF Open, ServiceInv
<1> DEFINE o == [boot |-> 1, generation |-> drain_generation, drain |-> drain_generation]
<1>3. o \in OpenCalls
  BY <1>2 DEF OpenCalls, ServiceInv
<1>4. L!Open(o)
  BY <1>1, <1>2 DEF L!Open, L!vastVars, L!sleepVars, L!idleVars, L!engineVars, L!workVars,
                    OpenCalls, Phases, OursOn
<1> QED  BY <1>3, <1>4 DEF L!Next, L!ControlStep, L!Up

LEMMA EngineReadyImplements ==
  ASSUME IInv, ServiceInv, EngineReady
  PROVE  L!Next
<1>1. Phases' = Phases /\ Work' = Work /\ OursOn' = OursOn /\ stop_reason' = stop_reason
  BY RequestsKeptStand DEF EngineReady
<1>2. /\ verified' = TRUE /\ engine_status' = "ready" /\ engine_changed' = FALSE
      /\ UNCHANGED <<draining, drain_generation, deadline>>
  BY DEF EngineReady
<1>3. CASE verified = TRUE
  <2>1. L!EngineReady
    BY <1>1, <1>2, <1>3 DEF L!EngineReady, L!vastVars, L!drainVars, L!sleepVars, L!idleVars,
                            L!workVars, OpenCalls, Phases, OursOn
  <2> QED  BY <2>1 DEF L!Next, L!EngineStep, L!Up
<1>4. CASE verified = FALSE
  <2>1. L!FirstVerified
    BY <1>1, <1>2, <1>4 DEF L!FirstVerified, L!vastVars, L!drainVars, L!sleepVars, L!workVars,
                            OpenCalls, Phases, OursOn, ServiceInv
  <2> QED  BY <2>1 DEF L!Next, L!EngineStep, L!Up
<1> QED  BY <1>3, <1>4 DEF ServiceInv

LEMMA StutterImplements ==
  ASSUME ShutDown \/ UNCHANGED vars
  PROVE  UNCHANGED L!vars
<1>1. UNCHANGED <<workVars, countVars, placeVars, serviceVars>>
  BY DEF ShutDown, vars
<1>2. Phases' = Phases /\ Work' = Work /\ OursOn' = OursOn /\ stop_reason' = stop_reason
  BY <1>1 DEF workVars, countVars, placeVars, Phases, PhaseOf, Active, Work, OursOn
<1>3. UNCHANGED ServiceSeen
  BY <1>1, ServiceSeenKept
<1> QED  BY <1>2, <1>3 DEF L!vars, L!workVars, ServiceSeen, Phases, OursOn

-----------------------------------------------------------------------------
LEMMA InitImplements == Init => L!Init
<1> SUFFICES ASSUME Init PROVE L!Init
  OBVIOUS
<1>1. /\ step = [r \in Request |-> "none"] /\ stop_reason = [r \in Request |-> "none"]
      /\ draining = FALSE /\ drain_generation = 0 /\ deadline = Off
      /\ verified = FALSE /\ engine_status = "starting" /\ engine_changed = FALSE
  BY Zenon DEF Init
<1>2. Phases = [r \in Request |-> "none"] /\ Work = {}
  BY <1>1 DEF Phases, PhaseOf, Work, TaskStep, AfterTask
<1>3. OursOn = {}
  BY <1>1 DEF OursOn, OursSet
<1>4. Cardinality(OursOn) = 0
  BY <1>3, FS_EmptySet
<1>5. OpenCalls = {}
  BY <1>1 DEF OpenCalls
<1> QED  BY <1>1, <1>2, <1>4, <1>5 DEF L!Init, Phases, OursOn

LEMMA NextImplements == IInv /\ ServiceInv /\ [Next]_vars => [L!Next]_L!vars
<1> SUFFICES ASSUME IInv, ServiceInv, [Next]_vars PROVE [L!Next]_L!vars
  OBVIOUS
<1>1. ASSUME NEW r \in Request, OwnStep(r) \/ CutTask(r)
      PROVE  [L!Next]_L!vars
  BY <1>1, OwnStepImplements, CutTaskImplements
<1>2. ASSUME NEW r \in Request, NEW reason \in OwnReason, StopOwn(r, reason)
      PROVE  L!Next
  BY <1>2, StopOwnImplements DEF StopOwn
<1>3. Drain \/ DrainDeadline \/ EngineChanges \/ Open \/ EngineReady => L!Next
  BY DrainImplements, DrainDeadlineImplements, EngineChangesImplements, OpenImplements,
     EngineReadyImplements
<1>4. ShutDown \/ UNCHANGED vars => UNCHANGED L!vars
  BY StutterImplements
<1> QED  BY <1>1, <1>2, <1>3, <1>4, Steps DEF StopStep, QuietStep

(* The text lane's requests take only the steps that the service's module *)
(* allows them: what Lifecycle promises, TextLane keeps.                  *)
THEOREM TextLaneImplementsLifecycle == Spec => ImplementsLifecycle
BY IInvAlways, ServiceAlways, InitImplements, NextImplements, PTL DEF Spec, L!Spec, ImplementsLifecycle
=============================================================================
