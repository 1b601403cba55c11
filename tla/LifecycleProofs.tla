-------------------------- MODULE LifecycleProofs --------------------------
(***************************************************************************)
(* Proofs about Lifecycle for every set of requests, every timer length    *)
(* and every number of drains and boots.                                   *)
(*                                                                         *)
(* The inductive invariant adds to the invariants the runs check what they *)
(* lean on: a sleep keeps the drain on (SleepDrains), and the engine is    *)
(* "failed" while it is changed and "starting" until it is verified        *)
(* (EngineConsistent), so that nothing is accepted then.                   *)
(***************************************************************************)
EXTENDS Lifecycle, FiniteSetTheorems, TLAPS

SleepDrains ==
  /\ sleep_requested => draining
  /\ sleeper # "none" => sleep_requested

EngineConsistent ==
  /\ engine_changed => engine_status = "failed"
  /\ ~verified => engine_status = "starting" /\ ~engine_changed

IInv ==
  /\ TypeOK
  /\ HoldsExact
  /\ SleepDrains
  /\ EngineConsistent
  /\ DrainStopsTheRest
  /\ ChangedEngineKeepsNoWork

-----------------------------------------------------------------------------
(* The requests of ours, counted.                                        *)

Holding(p) == {r \in Ours : p[r] # "none"}

(* How the count changes when one request goes from one phase to another. *)
CountMoves(p, r, q) ==
  /\ Cardinality(Holding(p)) \in Nat
  /\ r \in Ours /\ p[r] = "none" /\ q[r] # "none"
       => Cardinality(Holding(q)) = Cardinality(Holding(p)) + 1
  /\ r \in Ours /\ p[r] # "none" /\ q[r] = "none"
       => /\ Cardinality(Holding(q)) = Cardinality(Holding(p)) - 1
          /\ Cardinality(Holding(p)) >= 1
  /\ r \notin Ours \/ (p[r] = "none" <=> q[r] = "none")
       => Cardinality(Holding(q)) = Cardinality(Holding(p))

LEMMA HoldingMoves ==
  ASSUME NEW p, NEW q, NEW r \in Request,
         \A x \in Request \ {r} : p[x] = "none" <=> q[x] = "none"
  PROVE  CountMoves(p, r, q)
<1>1. IsFiniteSet(Holding(p)) /\ IsFiniteSet(Holding(q))
  BY LifecycleAssumption, FS_Subset DEF Holding
<1>2. Cardinality(Holding(p)) \in Nat
  BY <1>1, FS_CardinalityType
<1>3. CASE r \in Ours /\ p[r] = "none" /\ q[r] # "none"
  <2>1. Holding(q) = Holding(p) \cup {r} /\ r \notin Holding(p)
    BY <1>3, LifecycleAssumption DEF Holding
  <2>2. Cardinality(Holding(q)) = Cardinality(Holding(p)) + 1
    BY <1>1, <2>1, FS_AddElement
  <2> QED  BY <1>2, <1>3, <2>2 DEF CountMoves
<1>4. CASE r \in Ours /\ p[r] # "none" /\ q[r] = "none"
  <2>1. Holding(q) = Holding(p) \ {r} /\ r \in Holding(p)
    BY <1>4, LifecycleAssumption DEF Holding
  <2>2. Cardinality(Holding(q)) = Cardinality(Holding(p)) - 1
    BY <1>1, <2>1, FS_RemoveElement
  <2>3. Cardinality(Holding(p)) # 0
    BY <1>1, <2>1, FS_EmptySet
  <2> QED  BY <1>2, <1>4, <2>2, <2>3 DEF CountMoves
<1>5. CASE r \notin Ours \/ (p[r] = "none" <=> q[r] = "none")
  <2>1. Holding(q) = Holding(p)
    BY <1>5, LifecycleAssumption DEF Holding
  <2> QED  BY <1>2, <1>5, <2>1 DEF CountMoves
<1> QED  BY <1>3, <1>4, <1>5

(* A request's step moves the others at most from waiting to active.     *)
OthersStand(r) ==
  /\ phase' \in [Request -> Phase]
  /\ \A x \in Request \ {r} :
       phase'[x] = phase[x] \/ (phase[x] = "waiting" /\ phase'[x] = "active")

LEMMA GivenStands ==
  ASSUME NEW r \in Request, NEW new \in Phase, NEW S \in SUBSET Waiting,
         phase \in [Request -> Phase], phase' = Given([phase EXCEPT ![r] = new], S)
  PROVE  OthersStand(r) /\ (r \notin S => phase'[r] = new) /\ (r \in S => phase'[r] = "active")
<1>1. \A x \in Request : x \in S => phase[x] = "waiting"
  BY DEF Waiting
<1>2. "active" \in Phase
  BY DEF Phase
<1>3. \A x \in Request : phase'[x] = IF x \in S THEN "active" ELSE IF x = r THEN new ELSE phase[x]
  BY DEF Given
<1>4. phase' \in [Request -> Phase]
  BY <1>2 DEF Given
<1> QED  BY <1>1, <1>3, <1>4 DEF OthersStand

LEMMA RequestStands ==
  ASSUME phase \in [Request -> Phase], NEW r \in Request, RequestStep(r)
  PROVE  /\ OthersStand(r)
         /\ Authorize(r) => phase[r] = "none" /\ phase'[r] = "preparing"
         /\ Refuse(r) => phase[r] = "preparing" /\ phase'[r] = "refusing"
         /\ Accept(r) => phase[r] = "preparing" /\ phase'[r] = "waiting"
         /\ Hand(r) => phase[r] = "waiting" /\ phase'[r] = "active"
         /\ TaskEnds(r) => phase[r] \in {"waiting", "active"} /\ phase'[r] = "ending"
         /\ EndRefused(r) => phase[r] \in {"preparing", "refusing"} /\ phase'[r] = "none"
         /\ Release(r) => phase[r] = "ending" /\ phase'[r] = "none"
<1> DEFINE Phases == {"none", "preparing", "refusing", "waiting", "active", "ending"}
<1>0. Phases = Phase
  BY DEF Phase
<1>1. ASSUME NEW new \in Phase, phase' = [phase EXCEPT ![r] = new]
      PROVE  OthersStand(r) /\ phase'[r] = new
  BY <1>1 DEF OthersStand
<1>2. Authorize(r) => OthersStand(r) /\ phase[r] = "none" /\ phase'[r] = "preparing"
  BY <1>0, <1>1 DEF Authorize
<1>3. Refuse(r) => OthersStand(r) /\ phase[r] = "preparing" /\ phase'[r] = "refusing"
  BY <1>0, <1>1 DEF Refuse
<1>4. Accept(r) => OthersStand(r) /\ phase[r] = "preparing" /\ phase'[r] = "waiting"
  BY <1>0, <1>1 DEF Accept
<1>5. ASSUME Hand(r)
      PROVE  OthersStand(r) /\ phase[r] = "waiting" /\ phase'[r] = "active"
  <2>1. PICK S \in SUBSET Waiting : phase' = Given([phase EXCEPT ![r] = "active"], S)
    BY <1>5 DEF Hand
  <2> QED  BY <1>0, <1>5, <2>1, GivenStands DEF Hand
<1>6. ASSUME TaskEnds(r)
      PROVE  OthersStand(r) /\ phase[r] \in {"waiting", "active"} /\ phase'[r] = "ending"
  <2>1. PICK S \in SUBSET (Waiting \ {r}) : phase' = Given([phase EXCEPT ![r] = "ending"], S)
    BY <1>6 DEF TaskEnds
  <2>2. S \in SUBSET Waiting /\ r \notin S
    BY <2>1
  <2> QED  BY <1>0, <1>6, <2>1, <2>2, GivenStands DEF TaskEnds
<1>7. EndRefused(r) => OthersStand(r) /\ phase[r] \in {"preparing", "refusing"} /\ phase'[r] = "none"
  BY <1>0, <1>1 DEF EndRefused
<1>8. ASSUME Release(r)
      PROVE  OthersStand(r) /\ phase[r] = "ending" /\ phase'[r] = "none"
  <2>1. PICK S \in SUBSET Waiting : phase' = Given([phase EXCEPT ![r] = "none"], S)
    BY <1>8 DEF Release
  <2>2. r \notin S
    BY <1>8, <2>1 DEF Release, Waiting
  <2> QED  BY <1>0, <1>8, <2>1, <2>2, GivenStands DEF Release
<1>9. ASSUME NEW reason \in OwnReason, StopOwn(r, reason)
      PROVE  OthersStand(r)
  BY <1>9 DEF StopOwn, OthersStand
<1>10. OthersStand(r)
  BY <1>2, <1>3, <1>4, <1>5, <1>6, <1>7, <1>8, <1>9 DEF RequestStep
<1> QED  BY <1>2, <1>3, <1>4, <1>5, <1>6, <1>7, <1>8, <1>10

(* A step that moves no request keeps the sets exact.                    *)
LEMMA HoldsKept ==
  ASSUME HoldsExact, UNCHANGED <<work, ours_inflight, phase>>
  PROVE  HoldsExact'
BY DEF HoldsExact, HoldingCard

LEMMA RequestHoldsExact ==
  ASSUME TypeOK, HoldsExact, NEW r \in Request, RequestStep(r)
  PROVE  HoldsExact' /\ ours_inflight' \in Nat
<1>1. /\ phase \in [Request -> Phase] /\ HoldingCard = Holding(phase)
      /\ ours_inflight \in Nat /\ ours_inflight = Cardinality(Holding(phase))
      /\ work = {x \in Request : phase[x] \in AcceptedPhase}
  BY DEF TypeOK, HoldsExact, HoldingCard, Holding
<1>2. HoldingCard' = Holding(phase')
  BY DEF HoldingCard, Holding
<1>3. OthersStand(r) /\ phase' \in [Request -> Phase]
  BY <1>1, RequestStands DEF OthersStand
<1>4. CountMoves(phase, r, phase')
  <2>1. \A x \in Request \ {r} : phase[x] = "none" <=> phase'[x] = "none"
    BY <1>3 DEF OthersStand
  <2> QED  BY <2>1, HoldingMoves
<1>5. \A x \in Request \ {r} : phase[x] \in AcceptedPhase <=> phase'[x] \in AcceptedPhase
  BY <1>3 DEF OthersStand, AcceptedPhase
<1>6. CASE Authorize(r)
  <2>1. /\ phase[r] = "none" /\ phase'[r] = "preparing" /\ work' = work
        /\ ours_inflight' = IF r \in Ours THEN ours_inflight + 1 ELSE ours_inflight
    BY <1>1, <1>6, RequestStands DEF Authorize
  <2>2. ours_inflight' = Cardinality(Holding(phase')) /\ ours_inflight' \in Nat
    BY <1>1, <1>4, <2>1 DEF CountMoves
  <2>3. work' = {x \in Request : phase'[x] \in AcceptedPhase}
    BY <1>1, <1>5, <2>1 DEF AcceptedPhase
  <2> QED  BY <1>2, <2>2, <2>3 DEF HoldsExact
<1>7. CASE Refuse(r) \/ Accept(r) \/ Hand(r) \/ TaskEnds(r)
  <2>1. phase[r] # "none" /\ phase'[r] # "none" /\ ours_inflight' = ours_inflight
    BY <1>1, <1>7, RequestStands DEF Refuse, Accept, Hand, TaskEnds
  <2>2. ours_inflight' = Cardinality(Holding(phase')) /\ ours_inflight' \in Nat
    BY <1>1, <1>4, <2>1 DEF CountMoves
  <2>3. work' = IF phase'[r] \in AcceptedPhase THEN work \cup {r} ELSE work
    BY <1>1, <1>7, RequestStands DEF Refuse, Accept, Hand, TaskEnds, AcceptedPhase
  <2>4. phase'[r] \notin AcceptedPhase => phase[r] \notin AcceptedPhase
    BY <1>1, <1>7, RequestStands DEF AcceptedPhase
  <2>5. work' = {x \in Request : phase'[x] \in AcceptedPhase}
    BY <1>1, <1>5, <2>3, <2>4
  <2> QED  BY <1>2, <2>2, <2>5 DEF HoldsExact
<1>8. CASE EndRefused(r) \/ Release(r)
  <2>1. /\ phase[r] # "none" /\ phase'[r] = "none" /\ work' = work \ {r}
        /\ ours_inflight' = IF r \in Ours THEN ours_inflight - 1 ELSE ours_inflight
    BY <1>1, <1>8, RequestStands DEF EndRefused, Release, End
  <2>2. ours_inflight' = Cardinality(Holding(phase')) /\ ours_inflight' \in Nat
    BY <1>1, <1>4, <2>1 DEF CountMoves
  <2>3. work' = {x \in Request : phase'[x] \in AcceptedPhase}
    BY <1>1, <1>5, <2>1 DEF AcceptedPhase
  <2> QED  BY <1>2, <2>2, <2>3 DEF HoldsExact
<1>9. ASSUME NEW reason \in OwnReason, StopOwn(r, reason)
      PROVE  HoldsExact' /\ ours_inflight' \in Nat
  BY <1>1, <1>9, HoldsKept DEF StopOwn
<1> QED  BY <1>6, <1>7, <1>8, <1>9 DEF RequestStep
-----------------------------------------------------------------------------
(* Types.                                                                *)

LEMMA Constants ==
  /\ IDLE_TIMEOUT \in Nat /\ DRAIN_DEADLINE \in Nat /\ FORCED_STOP \in Nat
  /\ Off \notin Nat /\ Ours \subseteq Request
  BY LifecycleAssumption

LEMMA TimerSet == \A d \in Nat : d \in Timer(d) /\ Off \in Timer(d)
  BY DEF Timer

LEMMA StoppedType ==
  ASSUME TypeOK, NEW S, NEW reason \in Reason
  PROVE  Stopped(S, reason) \in [Request -> Reason]
BY DEF Stopped, TypeOK

(* The parts of TypeOK that one group of actions may change.             *)
DrainTyped ==
  /\ draining \in BOOLEAN /\ drain_generation \in Nat /\ drains \in Nat
  /\ deadline \in Timer(DRAIN_DEADLINE) /\ stop_reason \in [Request -> Reason]

SleepTyped ==
  /\ sleep_requested \in BOOLEAN
  /\ sleeper \in {"none", "draining", "stopping", "accepted"}
  /\ forced \in Timer(FORCED_STOP)

LEMMA CloseTyped ==
  ASSUME TypeOK, Close
  PROVE  DrainTyped'
<1>1. CASE draining /\ UNCHANGED <<drainVars, stop_reason>>
  BY <1>1 DEF TypeOK, DrainTyped, drainVars
<1>2. CASE ~draining
  <2>1. Stopped(StoppedByDrain, "draining") \in [Request -> Reason]
    BY StoppedType DEF Reason
  <2>2. deadline' = DRAIN_DEADLINE
    BY <1>2 DEF Close
  <2>3. deadline' \in Timer(DRAIN_DEADLINE)
    BY <2>2, Constants, TimerSet
  <2>4. draining' \in BOOLEAN
    BY <1>2 DEF Close
  <2>6. drain_generation' \in Nat /\ drains' \in Nat
    BY <1>2 DEF Close, TypeOK
  <2>5. stop_reason' \in [Request -> Reason]
    BY <1>2, <2>1 DEF Close
  <2> QED  BY <2>3, <2>4, <2>5, <2>6 DEF DrainTyped
<1> QED  BY <1>1, <1>2 DEF Close

LEMMA FallAsleepTyped ==
  ASSUME TypeOK, FallAsleep
  PROVE  DrainTyped' /\ SleepTyped'
<1>1. CASE sleep_requested
  BY <1>1 DEF FallAsleep, TypeOK, DrainTyped, SleepTyped, sleepVars, drainVars
<1>2. CASE ~sleep_requested
  <2>1. forced' = FORCED_STOP
    BY <1>2 DEF FallAsleep
  <2>2. forced' \in Timer(FORCED_STOP)
    BY <2>1, Constants, TimerSet
  <2>3. SleepTyped'
    BY <1>2, <2>2 DEF FallAsleep, SleepTyped
  <2> QED  BY <1>2, <2>3, CloseTyped DEF FallAsleep
<1> QED  BY <1>1, <1>2

LEMMA RequestTyped ==
  ASSUME TypeOK, HoldsExact, NEW r \in Request, RequestStep(r)
  PROVE  TypeOK'
<1>0. /\ phase \in [Request -> Phase] /\ stop_reason \in [Request -> Reason]
      /\ work \subseteq Request /\ alone \in 0..IDLE_TIMEOUT /\ quiet \in 0..IDLE_TIMEOUT
  BY DEF TypeOK
<1>1. /\ phase' \in [Request -> Phase] /\ stop_reason' \in [Request -> Reason]
      /\ work' \subseteq Request /\ alone' \in 0..IDLE_TIMEOUT /\ quiet' \in 0..IDLE_TIMEOUT
  <2>0. phase' \in [Request -> Phase]
    BY <1>0, RequestStands DEF OthersStand
  <2>1. CASE \/ Authorize(r) \/ Refuse(r) \/ Accept(r) \/ Hand(r) \/ TaskEnds(r)
    BY <1>0, <2>0, <2>1, Constants
       DEF Authorize, Refuse, Accept, Hand, TaskEnds, idleVars
  <2>2. CASE EndRefused(r) \/ Release(r)
    BY <1>0, <2>0, <2>2, Constants DEF EndRefused, Release, End, Reason
  <2>3. ASSUME NEW reason \in OwnReason, StopOwn(r, reason)
        PROVE  /\ phase' \in [Request -> Phase] /\ stop_reason' \in [Request -> Reason]
               /\ work' \subseteq Request /\ alone' \in 0..IDLE_TIMEOUT
               /\ quiet' \in 0..IDLE_TIMEOUT
    BY <1>0, <2>3, StoppedType DEF StopOwn, Reason, idleVars
  <2> QED  BY <2>1, <2>2, <2>3 DEF RequestStep
<1>2. UNCHANGED <<vastVars, drainVars, sleepVars, idle, engineVars, opens>>
  BY DEF RequestStep, Authorize, Refuse, Accept, Hand, TaskEnds, EndRefused, Release,
         StopOwn, idleVars
<1>3. ours_inflight' \in Nat
  BY RequestHoldsExact
<1> QED  BY <1>1, <1>2, <1>3
            DEF TypeOK, vastVars, drainVars, sleepVars, engineVars

LEMMA OtherTyped ==
  ASSUME TypeOK, ControlStep \/ ServiceStep \/ EngineStep \/ Tick \/ InstanceStops \/ Resume
  PROVE  TypeOK'
<1> USE Constants
<1>1. ASSUME NEW answered \in BOOLEAN, Drain(answered)
      PROVE  TypeOK'
  <2>1. DrainTyped'
    BY <1>1, CloseTyped DEF Drain
  <2>2. opens' \subseteq OpenCall
    BY <1>1, <2>1 DEF Drain, TypeOK, OpenCall, DrainTyped
  <2> QED  BY <1>1, <2>1, <2>2
              DEF Drain, TypeOK, DrainTyped, vastVars, sleepVars, idleVars, engineVars
<1>2. ASSUME NEW o \in opens, Open(o)
      PROVE  TypeOK'
  BY <1>2 DEF Open, TypeOK, Timer, vastVars, sleepVars, idleVars, engineVars, workVars
<1>3. CASE Sleep
  <2>1. DrainTyped' /\ SleepTyped'
    BY <1>3, FallAsleepTyped DEF Sleep
  <2>2. idle' \in Timer(IDLE_TIMEOUT)
    BY <1>3 DEF Sleep, TypeOK, Timer
  <2> QED  BY <1>3, <2>1, <2>2
              DEF Sleep, TypeOK, DrainTyped, SleepTyped, vastVars, engineVars
<1>4. CASE IdleCheck
  <2>1. DrainTyped' /\ SleepTyped'
    BY <1>4, FallAsleepTyped
       DEF IdleCheck, TypeOK, DrainTyped, SleepTyped, drainVars, sleepVars
  <2>2. idle' \in Timer(IDLE_TIMEOUT)
    BY <1>4 DEF IdleCheck, TypeOK, Timer
  <2> QED  BY <1>4, <2>1, <2>2
              DEF IdleCheck, TypeOK, DrainTyped, SleepTyped, vastVars, engineVars
<1>5. CASE DrainDeadline
  <2>1. stop_reason' \in [Request -> Reason]
    BY <1>5, StoppedType DEF DrainDeadline, Reason
  <2> QED  BY <1>5, <2>1 DEF DrainDeadline, TypeOK, Timer, vastVars, sleepVars, idleVars, engineVars
<1>6. CASE SleepDrained \/ SleepForced
  BY <1>6 DEF SleepDrained, SleepForced, TypeOK, Timer, vastVars, drainVars, idleVars,
              engineVars, workVars
<1>7. ASSUME NEW answered \in BOOLEAN, StopAttempt(answered)
      PROVE  TypeOK'
  BY <1>7 DEF StopAttempt, TypeOK, drainVars, idleVars, engineVars, workVars
<1>8. CASE StopFails
  BY <1>8 DEF StopFails, TypeOK, vars, vastVars, drainVars, sleepVars, idleVars, engineVars, workVars
<1>9. CASE FirstVerified
  <2>1. idle' = IDLE_TIMEOUT
    BY <1>9 DEF FirstVerified
  <2>2. idle' \in Timer(IDLE_TIMEOUT)
    BY <2>1, TimerSet
  <2>3. quiet' \in 0..IDLE_TIMEOUT /\ alone' \in 0..IDLE_TIMEOUT
    BY <1>9 DEF FirstVerified
  <2> QED  BY <1>9, <2>2, <2>3
              DEF FirstVerified, TypeOK, vastVars, drainVars, sleepVars, workVars
<1>14. CASE EngineReady \/ CheckFailed
  BY <1>14 DEF EngineReady, CheckFailed, TypeOK, vastVars, drainVars,
               sleepVars, idleVars, workVars
<1>10. CASE EngineChanges
  <2>1. stop_reason' \in [Request -> Reason]
    BY <1>10, StoppedType DEF EngineChanges, Reason
  <2> QED  BY <1>10, <2>1 DEF EngineChanges, TypeOK, vastVars, drainVars, sleepVars, idleVars
<1>11. CASE Tick
  <2>1. /\ idle' \in Timer(IDLE_TIMEOUT) /\ deadline' \in Timer(DRAIN_DEADLINE)
        /\ forced' \in Timer(FORCED_STOP)
    BY <1>11 DEF Tick, TypeOK, Timer, Left
  <2>2. quiet' \in 0..IDLE_TIMEOUT /\ alone' \in 0..IDLE_TIMEOUT
    BY <1>11 DEF Tick, TypeOK, Passed
  <2> QED  BY <1>11, <2>1, <2>2 DEF Tick, TypeOK, vastVars, engineVars, workVars
<1>12. CASE InstanceStops
  BY <1>12 DEF InstanceStops, TypeOK, drainVars, sleepVars, idleVars, engineVars, workVars
<1>13. CASE Resume
  <2>1. /\ deadline' \in Timer(DRAIN_DEADLINE) /\ forced' \in Timer(FORCED_STOP)
        /\ idle' \in Timer(IDLE_TIMEOUT)
    BY <1>13, TimerSet DEF Resume, FreshBoot
  <2>2. quiet' \in 0..IDLE_TIMEOUT /\ alone' \in 0..IDLE_TIMEOUT
    BY <1>13 DEF Resume, FreshBoot
  <2>3. phase' \in [Request -> Phase] /\ stop_reason' \in [Request -> Reason]
    BY <1>13 DEF Resume, FreshBoot, Phase, Reason
  <2>4. boot' \in Nat /\ instance' = "running" /\ work' = {} /\ ours_inflight' = 0
    BY <1>13 DEF Resume, FreshBoot, TypeOK
  <2>5. /\ draining' \in BOOLEAN /\ sleep_requested' \in BOOLEAN
        /\ verified' \in BOOLEAN /\ engine_changed' \in BOOLEAN
    BY <1>13 DEF Resume, FreshBoot
  <2>6. /\ drain_generation' = 0 /\ sleeper' = "none" /\ engine_status' = "starting"
        /\ UNCHANGED <<opens, drains>>
    BY <1>13 DEF Resume, FreshBoot
  <2> QED  BY <2>1, <2>2, <2>3, <2>4, <2>5, <2>6 DEF TypeOK
<1> QED  BY <1>1, <1>2, <1>3, <1>4, <1>5, <1>6, <1>7, <1>8, <1>9, <1>10, <1>11, <1>12, <1>13, <1>14
            DEF ControlStep, ServiceStep, EngineStep
-----------------------------------------------------------------------------
(* What is stopped.                                                      *)

(* A stop stops what it names and takes no stop back.                    *)
LEMMA StoppedStays ==
  ASSUME TypeOK, NEW S, NEW reason \in Reason \ {"none"}
  PROVE  \A r \in Request :
           /\ stop_reason[r] # "none" => Stopped(S, reason)[r] # "none"
           /\ r \in S => Stopped(S, reason)[r] # "none"
BY DEF Stopped, TypeOK

LEMMA Stops == {"draining", "engine_changed"} \subseteq Reason \ {"none"}
  BY DEF Reason

(* After _close the drain is on, and leaves only active work of ours.    *)
LEMMA CloseStops ==
  ASSUME TypeOK, DrainStopsTheRest, Close, UNCHANGED <<work, phase>>
  PROVE  /\ draining' /\ DrainStopsTheRest'
         /\ \A r \in Request : stop_reason[r] # "none" => stop_reason'[r] # "none"
<1>1. CASE draining /\ UNCHANGED <<drainVars, stop_reason>>
  BY <1>1 DEF drainVars, DrainStopsTheRest
<1>2. CASE ~draining
  <2>1. draining' /\ deadline' = DRAIN_DEADLINE /\ stop_reason' = Stopped(StoppedByDrain, "draining")
    BY <1>2 DEF Close
  <2>2. \A r \in Request :
           /\ stop_reason[r] # "none" => stop_reason'[r] # "none"
           /\ r \in StoppedByDrain => stop_reason'[r] # "none"
    BY <2>1, StoppedStays, Stops
  <2>3. deadline' # Off
    BY <2>1, Constants
  <2>4. DrainStopsTheRest'
    BY <2>2, <2>3 DEF DrainStopsTheRest, StoppedByDrain, TypeOK
  <2> QED  BY <2>1, <2>2, <2>4
<1> QED  BY <1>1, <1>2 DEF Close

LEMMA FallAsleepStops ==
  ASSUME TypeOK, DrainStopsTheRest, SleepDrains, FallAsleep, UNCHANGED <<work, phase>>
  PROVE  /\ draining' /\ DrainStopsTheRest' /\ SleepDrains'
         /\ \A r \in Request : stop_reason[r] # "none" => stop_reason'[r] # "none"
<1>1. CASE sleep_requested
  BY <1>1 DEF FallAsleep, SleepDrains, sleepVars, drainVars, DrainStopsTheRest
<1>2. CASE ~sleep_requested
  BY <1>2, CloseStops DEF FallAsleep, SleepDrains
<1> QED  BY <1>1, <1>2

(* The four parts of the invariant that are about the gate.              *)
Gate == SleepDrains /\ EngineConsistent /\ DrainStopsTheRest /\ ChangedEngineKeepsNoWork

(* Taking no stop back, with the engine as it was, keeps the last part.  *)
LEMMA ChangedEngineKept ==
  ASSUME TypeOK, ChangedEngineKeepsNoWork, UNCHANGED <<work, engineVars>>,
         \A r \in Request : stop_reason[r] # "none" => stop_reason'[r] # "none"
  PROVE  ChangedEngineKeepsNoWork'
BY DEF ChangedEngineKeepsNoWork, engineVars, TypeOK

LEMMA RequestKeepsGate ==
  ASSUME TypeOK, HoldsExact, Gate, NEW r \in Request, RequestStep(r)
  PROVE  Gate'
<1>1. SleepDrains' /\ EngineConsistent' /\ UNCHANGED <<draining, deadline, engine_changed>>
  BY DEF Gate, SleepDrains, EngineConsistent, RequestStep, Authorize, Refuse, Accept, Hand,
         TaskEnds, EndRefused, Release, StopOwn, drainVars, sleepVars, engineVars
<1>2. /\ phase \in [Request -> Phase] /\ stop_reason \in [Request -> Reason]
      /\ work = {x \in Request : phase[x] \in AcceptedPhase}
      /\ DrainStopsTheRest /\ ChangedEngineKeepsNoWork /\ EngineConsistent
  BY DEF TypeOK, HoldsExact, Gate
<1>0. OthersStand(r)
  BY <1>2, RequestStands
<1>3. CASE Authorize(r) \/ Refuse(r)
  BY <1>1, <1>2, <1>3
     DEF Authorize, Refuse, Gate, DrainStopsTheRest, ChangedEngineKeepsNoWork, AcceptedPhase
<1>4. CASE Accept(r)
  <2>1. ~draining /\ ~engine_changed
    BY <1>2, <1>4 DEF Accept, Status, EngineConsistent
  <2> QED  BY <1>1, <2>1 DEF Gate, DrainStopsTheRest, ChangedEngineKeepsNoWork
<1>5. CASE Hand(r) \/ TaskEnds(r)
  <2>1. /\ UNCHANGED <<work, stop_reason>>
        /\ phase[r] \in {"waiting", "active"} /\ phase'[r] \in {"active", "ending"}
    BY <1>2, <1>5, RequestStands DEF Hand, TaskEnds
  <2>2. \A x \in Request : phase[x] # "waiting" => phase'[x] # "waiting"
    BY <1>0, <2>1 DEF OthersStand
  <2>3. DrainStopsTheRest'
    BY <1>1, <1>2, <2>1, <2>2 DEF DrainStopsTheRest
  <2> QED  BY <1>1, <1>2, <2>1, <2>3 DEF Gate, ChangedEngineKeepsNoWork
<1>6. CASE EndRefused(r) \/ Release(r)
  <2>1. work' = work \ {r} /\ stop_reason' = [stop_reason EXCEPT ![r] = "none"]
    BY <1>6 DEF EndRefused, Release, End
  <2>2. \A x \in work' : /\ x \in work /\ x \in Request /\ stop_reason'[x] = stop_reason[x]
                         /\ phase[x] # "waiting" => phase'[x] # "waiting"
    BY <1>0, <1>2, <2>1 DEF OthersStand
  <2> QED  BY <1>1, <1>2, <2>2 DEF Gate, DrainStopsTheRest, ChangedEngineKeepsNoWork
<1>7. ASSUME NEW reason \in OwnReason, StopOwn(r, reason)
      PROVE  Gate'
  <2>1. /\ UNCHANGED <<work, phase>> /\ stop_reason' = Stopped({r}, reason)
        /\ reason \in Reason \ {"none"}
    BY <1>7, LifecycleAssumption DEF StopOwn, Reason
  <2>2. \A x \in Request : stop_reason[x] # "none" => stop_reason'[x] # "none"
    BY <2>1, StoppedStays
  <2> QED  BY <1>1, <1>2, <2>1, <2>2 DEF Gate, DrainStopsTheRest, ChangedEngineKeepsNoWork
<1> QED  BY <1>3, <1>4, <1>5, <1>6, <1>7 DEF RequestStep

LEMMA OtherKeepsGate ==
  ASSUME TypeOK, Gate,
         ControlStep \/ ServiceStep \/ EngineStep \/ Tick \/ InstanceStops \/ Resume
  PROVE  Gate'
<1>0. /\ SleepDrains /\ EngineConsistent /\ DrainStopsTheRest /\ ChangedEngineKeepsNoWork
      /\ work \subseteq Request
  BY DEF Gate, TypeOK
<1>1. ASSUME NEW answered \in BOOLEAN, Drain(answered)
      PROVE  Gate'
  <2>1. Close /\ UNCHANGED <<work, phase, engineVars, sleepVars>>
    BY <1>1 DEF Drain
  <2>2. EngineConsistent'
    BY <1>0, <2>1 DEF EngineConsistent, engineVars
  <2>3. SleepDrains'
    BY <1>0, <2>1, CloseStops DEF SleepDrains, sleepVars
  <2>4. ChangedEngineKeepsNoWork'
    BY <1>0, <2>1, CloseStops, ChangedEngineKept
  <2> QED  BY <1>0, <2>1, <2>2, <2>3, <2>4, CloseStops DEF Gate
<1>2. ASSUME NEW o \in opens, Open(o)
      PROVE  Gate'
  BY <1>0, <1>2 DEF Open, Gate, SleepDrains, EngineConsistent, DrainStopsTheRest,
                    ChangedEngineKeepsNoWork, sleepVars, engineVars, workVars
<1>3. CASE Sleep \/ IdleCheck
  <2>1. /\ UNCHANGED <<work, phase, engineVars>>
        /\ FallAsleep \/ UNCHANGED <<sleepVars, drainVars, stop_reason>>
    BY <1>3 DEF Sleep, IdleCheck
  <2>2. EngineConsistent'
    BY <1>0, <2>1 DEF EngineConsistent, engineVars
  <2>3. SleepDrains' /\ DrainStopsTheRest'
    BY <1>0, <2>1, FallAsleepStops DEF SleepDrains, sleepVars, drainVars, DrainStopsTheRest
  <2>4. ChangedEngineKeepsNoWork'
    BY <1>0, <2>1, FallAsleepStops, ChangedEngineKept
  <2> QED  BY <2>2, <2>3, <2>4 DEF Gate
<1>4. CASE DrainDeadline
  <2>1. /\ stop_reason' = Stopped(work, "draining")
        /\ UNCHANGED <<work, phase, draining, sleepVars, engineVars>>
    BY <1>4 DEF DrainDeadline
  <2>2. \A r \in Request : r \in work \/ stop_reason[r] # "none" => stop_reason'[r] # "none"
    BY <2>1, StoppedStays, Stops
  <2> QED  BY <1>0, <2>1, <2>2 DEF Gate, SleepDrains, EngineConsistent, DrainStopsTheRest,
                                   ChangedEngineKeepsNoWork, sleepVars, engineVars
<1>5. CASE \/ SleepDrained \/ SleepForced \/ StopFails \/ InstanceStops
           \/ \E answered \in BOOLEAN : StopAttempt(answered)
  <2>1. /\ UNCHANGED <<draining, deadline, sleep_requested, engineVars, work, phase, stop_reason>>
        /\ sleeper' # "none" => sleeper # "none"
    BY <1>5 DEF SleepDrained, SleepForced, StopFails, InstanceStops, StopAttempt,
                drainVars, sleepVars, workVars, vars
  <2> QED  BY <1>0, <2>1 DEF Gate, SleepDrains, EngineConsistent, DrainStopsTheRest,
                             ChangedEngineKeepsNoWork, engineVars
<1>6. CASE FirstVerified \/ EngineReady \/ CheckFailed
  <2>1. UNCHANGED <<draining, deadline, sleep_requested, sleeper, work, phase, stop_reason>>
    BY <1>6 DEF FirstVerified, EngineReady, CheckFailed, drainVars, sleepVars, workVars
  <2>2. EngineConsistent' /\ (engine_changed' => engine_changed)
    BY <1>0, <1>6 DEF FirstVerified, EngineReady, CheckFailed, EngineConsistent
  <2> QED  BY <1>0, <2>1, <2>2 DEF Gate, SleepDrains, DrainStopsTheRest, ChangedEngineKeepsNoWork
<1>7. CASE EngineChanges
  <2>1. /\ stop_reason' = Stopped(work, "engine_changed")
        /\ verified' /\ engine_status' = "failed"
        /\ UNCHANGED <<work, phase, draining, deadline, sleepVars>>
    BY <1>7 DEF EngineChanges, drainVars
  <2>2. \A r \in Request : r \in work \/ stop_reason[r] # "none" => stop_reason'[r] # "none"
    BY <2>1, StoppedStays, Stops
  <2> QED  BY <1>0, <2>1, <2>2 DEF Gate, SleepDrains, EngineConsistent, DrainStopsTheRest,
                                   ChangedEngineKeepsNoWork, sleepVars
<1>8. CASE Tick
  <2>1. /\ UNCHANGED <<draining, sleep_requested, sleeper, engineVars, work, phase, stop_reason>>
        /\ deadline' = Left(deadline)
    BY <1>8 DEF Tick, workVars
  <2>2. deadline # Off => deadline' # Off
    BY <1>8, <2>1, Constants DEF Left, Tick, TypeOK, Timer
  <2> QED  BY <1>0, <2>1, <2>2 DEF Gate, SleepDrains, EngineConsistent, DrainStopsTheRest,
                                   ChangedEngineKeepsNoWork, engineVars
<1>9. CASE Resume
  BY <1>9 DEF Resume, FreshBoot, Gate, SleepDrains, EngineConsistent, DrainStopsTheRest,
              ChangedEngineKeepsNoWork
<1> QED  BY <1>1, <1>2, <1>3, <1>4, <1>5, <1>6, <1>7, <1>8, <1>9
            DEF ControlStep, ServiceStep, EngineStep
-----------------------------------------------------------------------------
(* The invariant.                                                        *)

LEMMA InitIInv == Init => IInv
<1> SUFFICES ASSUME Init PROVE IInv
  OBVIOUS
<1>1. TypeOK
  <2>1. /\ deadline \in Timer(DRAIN_DEADLINE) /\ forced \in Timer(FORCED_STOP)
        /\ idle \in Timer(IDLE_TIMEOUT)
    BY Constants, TimerSet DEF Init
  <2>2. quiet \in 0..IDLE_TIMEOUT /\ alone \in 0..IDLE_TIMEOUT
    BY Constants DEF Init
  <2>3. phase \in [Request -> Phase] /\ stop_reason \in [Request -> Reason]
    BY DEF Init, Phase, Reason
  <2>4. /\ draining \in BOOLEAN /\ sleep_requested \in BOOLEAN
        /\ verified \in BOOLEAN /\ engine_changed \in BOOLEAN
    BY DEF Init
  <2> QED  BY <2>1, <2>2, <2>3, <2>4 DEF Init, TypeOK
<1>2. HoldsExact
  <2>1. HoldingCard = {}
    BY Constants DEF Init, HoldingCard
  <2> QED  BY <2>1, FS_EmptySet DEF Init, HoldsExact, AcceptedPhase
<1>3. SleepDrains /\ EngineConsistent /\ DrainStopsTheRest /\ ChangedEngineKeepsNoWork
  BY DEF Init, SleepDrains, EngineConsistent, DrainStopsTheRest, ChangedEngineKeepsNoWork
<1> QED  BY <1>1, <1>2, <1>3 DEF IInv

LEMMA OtherHoldsExact ==
  ASSUME HoldsExact,
         ControlStep \/ ServiceStep \/ EngineStep \/ Tick \/ InstanceStops \/ Resume
  PROVE  HoldsExact'
<1>1. CASE Resume
  <2>1. /\ work' = {} /\ ours_inflight' = 0
        /\ phase' = [r \in Request |-> "none"]
    BY <1>1 DEF Resume, FreshBoot
  <2>2. HoldingCard' = {}
    BY <2>1, Constants DEF HoldingCard
  <2> QED  BY <2>1, <2>2, FS_EmptySet DEF HoldsExact, AcceptedPhase
<1>2. CASE ControlStep \/ ServiceStep \/ EngineStep \/ Tick \/ InstanceStops
  <2>1. UNCHANGED <<work, ours_inflight, phase>>
    BY <1>2 DEF ControlStep, ServiceStep, EngineStep, Tick, InstanceStops, Drain, Open, Sleep,
                DrainDeadline, IdleCheck, SleepDrained, SleepForced, StopAttempt, StopFails,
                FirstVerified, EngineReady, CheckFailed, EngineChanges, workVars, vars
  <2> QED  BY <2>1, HoldsKept
<1> QED  BY <1>1, <1>2

(* A step is one of a request, or one of the others.                     *)
OtherStep == ControlStep \/ ServiceStep \/ EngineStep \/ Tick \/ InstanceStops \/ Resume

LEMMA Steps == Next => OtherStep \/ \E r \in Request : RequestStep(r)
  BY DEF Next, OtherStep

LEMMA NextIInv == IInv /\ [Next]_vars => IInv'
<1> SUFFICES ASSUME IInv, [Next]_vars PROVE IInv'
  OBVIOUS
<1>0. TypeOK /\ HoldsExact /\ Gate
  BY DEF IInv, Gate
<1>1. ASSUME NEW r \in Request, RequestStep(r)
      PROVE  IInv'
  BY <1>0, <1>1, RequestTyped, RequestHoldsExact, RequestKeepsGate DEF IInv, Gate
<1>2. CASE OtherStep
  BY <1>0, <1>2, OtherTyped, OtherHoldsExact, OtherKeepsGate DEF IInv, Gate, OtherStep
<1>3. CASE UNCHANGED vars
  BY <1>3 DEF vars, vastVars, drainVars, sleepVars, idleVars, engineVars, workVars, IInv, TypeOK,
              HoldsExact, HoldingCard, SleepDrains, EngineConsistent, DrainStopsTheRest,
              ChangedEngineKeepsNoWork
<1> QED  BY <1>1, <1>2, <1>3, Steps

LEMMA IInvAlways == Spec => []IInv
  BY InitIInv, NextIInv, PTL DEF Spec

(**************************************************************************)
(* The work set and the count of requests that hold the card are exact on *)
(* every path a request may take, for every set of requests.              *)
(**************************************************************************)
THEOREM HoldsAreExact == Spec => [](TypeOK /\ HoldsExact)
<1>1. IInv => TypeOK /\ HoldsExact
  BY DEF IInv
<1> QED  BY <1>1, IInvAlways, PTL

(*************************************************************************)
(* While a drain is on, work that goes on is active work of ours before  *)
(* the deadline: nothing slips in between authorize and accept, and no   *)
(* open and drain in turn leaves an older request unstopped.             *)
(*************************************************************************)
THEOREM DrainsStopTheRest == Spec => []DrainStopsTheRest
<1>1. IInv => DrainStopsTheRest
  BY DEF IInv
<1> QED  BY <1>1, IInvAlways, PTL

(**************************************************************************)
(* No work goes on while the engine is another than the verified one, nor *)
(* is any taken on.                                                       *)
(**************************************************************************)
THEOREM ChangedEnginesKeepNoWork == Spec => []ChangedEngineKeepsNoWork
<1>1. IInv => ChangedEngineKeepsNoWork
  BY DEF IInv
<1> QED  BY <1>1, IInvAlways, PTL

-----------------------------------------------------------------------------
(* A sleep is final.                                                     *)

LEMMA StepKeepsSleep ==
  ASSUME IInv, [Next]_vars, sleep_requested, boot' = boot
  PROVE  sleep_requested' /\ work' \subseteq work
<1>0. draining /\ boot \in Nat
  BY DEF IInv, SleepDrains, TypeOK
<1>1. ASSUME NEW r \in Request, RequestStep(r)
      PROVE  sleep_requested' /\ work' \subseteq work
  <2>1. Status # "ready"
    BY <1>0 DEF Status
  <2>2. sleep_requested' = sleep_requested
    BY <1>1 DEF RequestStep, Authorize, Refuse, Accept, Hand, TaskEnds, EndRefused, Release,
                StopOwn, sleepVars
  <2>3. work' \subseteq work
    BY <1>1, <2>1 DEF RequestStep, Authorize, Refuse, Accept, Hand, TaskEnds, EndRefused,
                      Release, End, StopOwn
  <2> QED  BY <2>2, <2>3
<1>2. CASE OtherStep
  <2>1. ~Resume
    BY <1>0 DEF Resume
  <2>2. UNCHANGED <<work, sleep_requested>>
    BY <1>2, <2>1 DEF OtherStep, ControlStep, ServiceStep, EngineStep, Tick, InstanceStops,
         Drain, Open, Sleep, FallAsleep, DrainDeadline, IdleCheck, SleepDrained, SleepForced,
         StopAttempt, StopFails, FirstVerified, EngineReady, CheckFailed, EngineChanges,
         sleepVars, workVars, vars
  <2> QED  BY <2>2
<1>3. CASE UNCHANGED vars
  BY <1>3 DEF vars, sleepVars, workVars
<1> QED  BY <1>1, <1>2, <1>3, Steps

(*************************************************************************)
(* Once the service falls asleep its gate stays closed until the next    *)
(* boot, whatever opens, drains, checks and requests come in what order. *)
(*************************************************************************)
THEOREM SleepsAreFinal == Spec => SleepIsFinal
<1> DEFINE A == sleep_requested /\ boot' = boot
                  => sleep_requested' /\ draining' /\ work' \subseteq work
<1>1. IInv /\ IInv' /\ [Next]_vars => [A]_vars
  <2> SUFFICES ASSUME IInv, IInv', [Next]_vars, sleep_requested, boot' = boot
               PROVE  sleep_requested' /\ draining' /\ work' \subseteq work
    OBVIOUS
  <2>1. sleep_requested' /\ work' \subseteq work
    BY StepKeepsSleep
  <2> QED  BY <2>1 DEF IInv, SleepDrains
<1> HIDE DEF A
<1>2. Spec => [][A]_vars
  BY <1>1, IInvAlways, PTL DEF Spec
<1> QED  BY <1>2 DEF SleepIsFinal, A
-----------------------------------------------------------------------------
(* An open undoes the drain it is for.                                   *)

(* An open that a client may send is of a boot so far, and if it is of    *)
(* this one, of a drain so far; only the newest drain has the generation. *)
OpensKnown ==
  \A o \in opens :
    /\ o.boot <= boot
    /\ o.boot = boot => o.generation <= drain_generation
    /\ o.boot = boot /\ o.generation = drain_generation => o.drain = drains

LEMMA OpensKept ==
  ASSUME TypeOK, OpensKnown, Close, UNCHANGED boot, opens' \subseteq opens
  PROVE  OpensKnown'
<1>1. CASE draining /\ UNCHANGED <<drainVars, stop_reason>>
  BY <1>1 DEF OpensKnown, drainVars
<1>2. CASE ~draining
  <2>1. drain_generation' = drain_generation + 1 /\ drain_generation \in Nat
    BY <1>2 DEF Close, TypeOK
  <2>2. \A o \in opens : o.generation \in Nat
    BY DEF TypeOK, OpenCall
  <2> QED  BY <2>1, <2>2 DEF OpensKnown
<1> QED  BY <1>1, <1>2 DEF Close

LEMMA NextOpensKnown == TypeOK /\ TypeOK' /\ OpensKnown /\ [Next]_vars => OpensKnown'
<1> SUFFICES ASSUME TypeOK, TypeOK', OpensKnown, [Next]_vars PROVE OpensKnown'
  OBVIOUS
<1>1. ASSUME NEW answered \in BOOLEAN, Drain(answered)
      PROVE  OpensKnown'
  <2>1. Close /\ UNCHANGED boot
    BY <1>1 DEF Drain, vastVars
  <2>2. \A o \in opens : /\ o.boot <= boot'
                         /\ o.boot = boot' => o.generation <= drain_generation'
                         /\ o.boot = boot' /\ o.generation = drain_generation' => o.drain = drains'
    <3>1. CASE draining /\ UNCHANGED <<drainVars, stop_reason>>
      BY <2>1, <3>1 DEF OpensKnown, drainVars
    <3>2. CASE ~draining
      <4>1. drain_generation' = drain_generation + 1 /\ drain_generation \in Nat
        BY <2>1, <3>2 DEF Close, TypeOK
      <4>2. \A o \in opens : o.generation \in Nat
        BY DEF TypeOK, OpenCall
      <4> QED  BY <2>1, <4>1, <4>2 DEF OpensKnown
    <3> QED  BY <2>1, <3>1, <3>2 DEF Close
  <2>3. boot' = boot /\ boot' \in Nat /\ drain_generation' \in Nat
    BY <2>1 DEF TypeOK
  <2>4. opens' \subseteq opens \cup
          {[boot |-> boot, generation |-> drain_generation', drain |-> drains']}
    BY <1>1 DEF Drain
  <2> QED  BY <2>2, <2>3, <2>4 DEF OpensKnown
<1>2. CASE Resume
  <2>1. boot' = boot + 1 /\ boot \in Nat /\ opens' = opens
    BY <1>2 DEF Resume, TypeOK
  <2>2. \A o \in opens : o.boot \in Nat /\ o.boot <= boot
    BY DEF TypeOK, OpenCall, OpensKnown
  <2> QED  BY <2>1, <2>2 DEF OpensKnown
<1>3. CASE Sleep \/ IdleCheck
  <2>1. UNCHANGED <<boot, opens>> /\ (Close \/ UNCHANGED drainVars)
    BY <1>3 DEF Sleep, IdleCheck, FallAsleep, vastVars
  <2> QED  BY <2>1, OpensKept DEF OpensKnown, drainVars
<1>4. CASE UNCHANGED <<boot, opens, drain_generation, drains>>
  BY <1>4 DEF OpensKnown
<1>5. ASSUME NEW r \in Request, RequestStep(r)
      PROVE  UNCHANGED <<boot, opens, drain_generation, drains>>
  BY <1>5 DEF RequestStep, Authorize, Refuse, Accept, Hand, TaskEnds, EndRefused, Release,
              StopOwn, vastVars, drainVars
<1>6. CASE OtherStep /\ ~Resume /\ ~Sleep /\ ~IdleCheck
           /\ ~\E answered \in BOOLEAN : Drain(answered)
  <2>1. UNCHANGED <<boot, opens, drain_generation, drains>>
    BY <1>6 DEF OtherStep, ControlStep, ServiceStep, EngineStep, Tick, InstanceStops, Open,
         DrainDeadline, SleepDrained, SleepForced, StopAttempt, StopFails, FirstVerified,
         EngineReady, CheckFailed, EngineChanges, vastVars, drainVars, vars
  <2> QED  BY <1>4, <2>1
<1>7. CASE UNCHANGED vars
  BY <1>4, <1>7 DEF vars, vastVars, drainVars
<1> QED  BY <1>1, <1>2, <1>3, <1>4, <1>5, <1>6, <1>7, Steps

LEMMA OpensAlwaysKnown == Spec => []OpensKnown
<1>1. Init => OpensKnown
  BY DEF Init, OpensKnown
<1>2. IInv => TypeOK
  BY DEF IInv
<1> QED  BY <1>1, <1>2, NextOpensKnown, IInvAlways, PTL DEF Spec

LEMMA StepOpens ==
  ASSUME IInv, OpensKnown, [Next]_vars, draining, ~draining', boot' = boot
  PROVE  \E o \in opens : o.drain = drains
<1>0. boot \in Nat
  BY DEF IInv, TypeOK
<1>1. ASSUME NEW o \in opens, Open(o)
      PROVE  \E x \in opens : x.drain = drains
  BY <1>1 DEF Open, OpensKnown
<1>2. ASSUME NEW r \in Request, RequestStep(r)
      PROVE  FALSE
  BY <1>2 DEF RequestStep, Authorize, Refuse, Accept, Hand, TaskEnds, EndRefused, Release,
              StopOwn, drainVars
<1>3. CASE OtherStep /\ ~\E o \in opens : Open(o)
  <2>1. ~Resume
    BY <1>0 DEF Resume
  <2>2. draining' = draining
    BY <1>3, <2>1 DEF OtherStep, ControlStep, ServiceStep, EngineStep, Tick, InstanceStops,
         Drain, Sleep, FallAsleep, Close, DrainDeadline, IdleCheck, SleepDrained, SleepForced,
         StopAttempt, StopFails, FirstVerified, EngineReady, CheckFailed, EngineChanges,
         drainVars, vars
  <2> QED  BY <2>2
<1>4. CASE UNCHANGED vars
  BY <1>4 DEF vars, drainVars
<1> QED  BY <1>1, <1>2, <1>3, <1>4, Steps

(*************************************************************************)
(* A drain is undone only by an open that was meant for it, for every    *)
(* number of drains, boots and repeated or late opens.                   *)
(*************************************************************************)
THEOREM OpensUndoTheirOwnDrain == Spec => OpenUndoesItsOwnDrain
<1> DEFINE A == draining /\ ~draining' /\ boot' = boot => \E o \in opens : o.drain = drains
<1>1. IInv /\ OpensKnown /\ [Next]_vars => [A]_vars
  BY StepOpens
<1> HIDE DEF A
<1>2. Spec => [][A]_vars
  BY <1>1, IInvAlways, OpensAlwaysKnown, PTL DEF Spec
<1> QED  BY <1>2 DEF OpenUndoesItsOwnDrain, A
-----------------------------------------------------------------------------
(* The idle interval.                                                    *)

(* The gateway's clock is the observer's while no request of ours is     *)
(* alive, and the timer never outlasts the interval.                     *)
IdleExact ==
  /\ HoldingCard # {} => alone = 0
  /\ HoldingCard = {} => quiet = alone
  /\ IdleTimerCovers

LEMMA NoHolding ==
  ASSUME IInv
  PROVE  ours_inflight = 0 <=> HoldingCard = {}
<1>1. IsFiniteSet(HoldingCard)
  BY LifecycleAssumption, FS_Subset DEF HoldingCard
<1> QED  BY <1>1, FS_EmptySet DEF IInv, HoldsExact

LEMMA RequestIdleExact ==
  ASSUME IInv, IdleExact, NEW r \in Request, RequestStep(r)
  PROVE  IdleExact'
<1>0. /\ phase \in [Request -> Phase] /\ idle \in Timer(IDLE_TIMEOUT)
      /\ idle # Off => idle \in Nat /\ idle <= IDLE_TIMEOUT
      /\ alone \in Nat /\ IDLE_TIMEOUT \in Nat
  BY Constants DEF IInv, TypeOK, Timer
<1>1. UNCHANGED <<verified, sleep_requested, idle>>
  BY DEF RequestStep, Authorize, Refuse, Accept, Hand, TaskEnds, EndRefused, Release, StopOwn,
         sleepVars, idleVars, engineVars
<1>2. CASE Authorize(r)
  <2>1. /\ phase' = [phase EXCEPT ![r] = "preparing"] /\ quiet' = quiet
        /\ alone' = IF r \in Ours THEN 0 ELSE alone
    BY <1>2 DEF Authorize, idleVars
  <2>2. CASE r \in Ours
    <3>1. r \in HoldingCard'
      BY <1>0, <2>1, <2>2, Constants DEF HoldingCard
    <3> QED  BY <1>1, <2>1, <2>2, <3>1 DEF IdleExact, IdleTimerCovers
  <2>3. CASE r \notin Ours
    <3>1. HoldingCard' = HoldingCard
      BY <1>0, <2>1, <2>3, Constants DEF HoldingCard
    <3> QED  BY <1>1, <2>1, <2>3, <3>1 DEF IdleExact, IdleTimerCovers
  <2> QED  BY <2>2, <2>3
<1>3. CASE Refuse(r) \/ Accept(r) \/ Hand(r) \/ TaskEnds(r)
  <2>1. phase[r] # "none" /\ phase'[r] # "none"
    BY <1>0, <1>3, RequestStands
  <2>2. HoldingCard' = HoldingCard
    BY <1>0, <2>1, RequestStands, Constants DEF HoldingCard, OthersStand
  <2>3. UNCHANGED <<quiet, alone>>
    BY <1>3 DEF Refuse, Accept, Hand, TaskEnds, idleVars
  <2> QED  BY <1>1, <2>2, <2>3 DEF IdleExact, IdleTimerCovers
<1>4. CASE EndRefused(r) \/ Release(r)
  <2>1. /\ phase[r] # "none" /\ phase'[r] = "none" /\ alone' = alone
        /\ quiet' = IF r \in Ours THEN 0 ELSE quiet
    BY <1>0, <1>4, RequestStands DEF EndRefused, Release, End
  <2>2. CASE r \in Ours
    <3>1. alone = 0
      BY <2>1, <2>2 DEF IdleExact, HoldingCard
    <3>2. verified /\ ~sleep_requested => idle # Off
      BY DEF IdleExact, IdleTimerCovers
    <3> QED  BY <1>0, <1>1, <2>1, <2>2, <3>1, <3>2 DEF IdleExact, IdleTimerCovers
  <2>3. CASE r \notin Ours
    <3>1. HoldingCard' = HoldingCard
      BY <1>0, <2>1, <2>3, RequestStands, Constants DEF HoldingCard, OthersStand
    <3> QED  BY <1>1, <2>1, <2>3, <3>1 DEF IdleExact, IdleTimerCovers
  <2> QED  BY <2>2, <2>3
<1>5. ASSUME NEW reason \in OwnReason, StopOwn(r, reason)
      PROVE  IdleExact'
  BY <1>1, <1>5 DEF StopOwn, IdleExact, IdleTimerCovers, HoldingCard, idleVars
<1> QED  BY <1>2, <1>3, <1>4, <1>5 DEF RequestStep

LEMMA OtherIdleExact ==
  ASSUME IInv, IdleExact, OtherStep
  PROVE  IdleExact'
<1>0. /\ idle \in Timer(IDLE_TIMEOUT) /\ IDLE_TIMEOUT \in Nat
      /\ idle # Off => idle \in Nat /\ idle <= IDLE_TIMEOUT
      /\ alone \in Nat /\ quiet \in Nat /\ Off \notin Nat
      /\ alone <= IDLE_TIMEOUT /\ quiet <= IDLE_TIMEOUT
  BY Constants DEF IInv, TypeOK, Timer
<1>1. CASE Tick
  <2>1. HoldingCard' = HoldingCard /\ UNCHANGED <<verified, sleep_requested>>
    BY <1>1 DEF Tick, HoldingCard, workVars, engineVars
  <2>2. /\ idle # 0 /\ idle' = Left(idle) /\ quiet' = Passed(quiet)
        /\ alone' = IF HoldingCard = {} THEN Passed(alone) ELSE 0
    BY <1>1 DEF Tick
  <2>3. idle # Off => idle' # Off /\ idle' = idle - 1
    BY <1>0, <2>2 DEF Left
  <2>4. CASE HoldingCard = {}
    <3>1. quiet' = alone' /\ alone' <= alone + 1 /\ alone' \in Nat
      BY <1>0, <2>2, <2>4 DEF IdleExact, Passed
    <3> QED  BY <1>0, <2>1, <2>3, <2>4, <3>1 DEF IdleExact, IdleTimerCovers
  <2>5. CASE HoldingCard # {}
    BY <2>1, <2>2, <2>3, <2>5 DEF IdleExact, IdleTimerCovers
  <2> QED  BY <2>4, <2>5
<1>2. CASE IdleCheck
  <2>1. /\ HoldingCard' = HoldingCard /\ UNCHANGED <<verified, quiet, alone>>
        /\ sleep_requested => sleep_requested'
    BY <1>2 DEF IdleCheck, FallAsleep, HoldingCard, engineVars, sleepVars
  <2>2. CASE ours_inflight > 0 /\ idle' = IDLE_TIMEOUT
    <3>1. HoldingCard # {}
      BY <2>2, NoHolding
    <3> QED  BY <1>0, <2>1, <2>2, <3>1 DEF IdleExact, IdleTimerCovers
  <2>3. CASE ours_inflight = 0 /\ quiet < IDLE_TIMEOUT /\ idle' = IDLE_TIMEOUT - quiet
    <3>1. idle' # Off /\ idle' + quiet <= IDLE_TIMEOUT
      BY <1>0, <2>3
    <3> QED  BY <1>0, <2>1, <3>1 DEF IdleExact, IdleTimerCovers
  <2>4. CASE FallAsleep
    <3>1. sleep_requested'
      BY <2>4 DEF FallAsleep, sleepVars
    <3> QED  BY <2>1, <3>1 DEF IdleExact, IdleTimerCovers
  <2> QED  BY <1>2, <2>2, <2>3, <2>4 DEF IdleCheck
<1>3. CASE Sleep
  <2>1. HoldingCard' = HoldingCard /\ UNCHANGED <<verified, quiet, alone>> /\ sleep_requested'
    BY <1>3 DEF Sleep, FallAsleep, HoldingCard, engineVars, sleepVars
  <2> QED  BY <2>1 DEF IdleExact, IdleTimerCovers
<1>4. CASE FirstVerified
  <2>1. /\ HoldingCard' = HoldingCard /\ quiet' = 0 /\ alone' = 0 /\ idle' = IDLE_TIMEOUT
    BY <1>4 DEF FirstVerified, HoldingCard, workVars
  <2> QED  BY <1>0, <2>1 DEF IdleExact, IdleTimerCovers
<1>5. CASE Resume
  <2>1. HoldingCard' = {} /\ quiet' = 0 /\ alone' = 0 /\ ~verified'
    BY <1>5, Constants DEF Resume, FreshBoot, HoldingCard
  <2> QED  BY <2>1 DEF IdleExact, IdleTimerCovers
<1>6. CASE OtherStep /\ ~Tick /\ ~IdleCheck /\ ~Sleep /\ ~FirstVerified /\ ~Resume
  <2>1. UNCHANGED <<phase, quiet, alone, idle, verified, sleep_requested>>
    BY <1>6 DEF OtherStep, ControlStep, ServiceStep, EngineStep, InstanceStops, Drain, Open,
         DrainDeadline, SleepDrained, SleepForced, StopAttempt, StopFails, EngineReady,
         CheckFailed, EngineChanges, sleepVars, idleVars, engineVars, workVars, vars
  <2> QED  BY <2>1 DEF IdleExact, IdleTimerCovers, HoldingCard
<1> QED  BY <1>1, <1>2, <1>3, <1>4, <1>5, <1>6

LEMMA IdleAlwaysExact == Spec => []IdleExact
<1>1. Init => IdleExact
  BY Constants DEF Init, IdleExact, IdleTimerCovers, HoldingCard
<1>2. IInv /\ IdleExact /\ [Next]_vars => IdleExact'
  <2> SUFFICES ASSUME IInv, IdleExact, [Next]_vars PROVE IdleExact'
    OBVIOUS
  <2>1. CASE UNCHANGED vars
    BY <2>1 DEF vars, workVars, idleVars, sleepVars, engineVars, IdleExact, IdleTimerCovers,
                HoldingCard
  <2> QED  BY <2>1, RequestIdleExact, OtherIdleExact, Steps
<1> QED  BY <1>1, <1>2, IInvAlways, PTL DEF Spec

(**************************************************************************)
(* While the service is awake its idle timer is set, and comes due by the *)
(* end of the interval: no card stays up unwatched.                       *)
(**************************************************************************)
THEOREM IdleTimersCover == Spec => []IdleTimerCovers
<1>1. IdleExact => IdleTimerCovers
  BY DEF IdleExact
<1> QED  BY <1>1, IdleAlwaysExact, PTL

(**************************************************************************)
(* The service falls asleep by itself only after a whole interval without *)
(* a request of ours, those whose body is still read included.            *)
(**************************************************************************)
THEOREM IdleSleepsAfterInterval == Spec => IdleSleepAfterInterval
<1> DEFINE A == IdleCheck /\ ~sleep_requested /\ sleep_requested'
                  => HoldingCard = {} /\ alone = IDLE_TIMEOUT
<1>1. IInv /\ IdleExact /\ [Next]_vars => [A]_vars
  <2> SUFFICES ASSUME IInv, IdleExact, IdleCheck, ~sleep_requested, sleep_requested'
               PROVE  HoldingCard = {} /\ alone = IDLE_TIMEOUT
    OBVIOUS
  <2>1. ours_inflight = 0 /\ quiet >= IDLE_TIMEOUT
    BY DEF IdleCheck, sleepVars
  <2>2. quiet \in Nat /\ quiet <= IDLE_TIMEOUT /\ IDLE_TIMEOUT \in Nat
    BY Constants DEF IInv, TypeOK
  <2> QED  BY <2>1, <2>2, NoHolding DEF IdleExact
<1> HIDE DEF A
<1>2. Spec => [][A]_vars
  BY <1>1, IInvAlways, IdleAlwaysExact, PTL DEF Spec
<1> QED  BY <1>2 DEF IdleSleepAfterInterval, A
-----------------------------------------------------------------------------
(* The stop that does not wait.                                          *)

AllStopped == \A r \in work : stop_reason[r] # "none"

(* While the sleep waits for its drain, the drain's deadline comes first; *)
(* once it waits no more, all the work there is was stopped.              *)
StopOrder ==
  DRAIN_DEADLINE < FORCED_STOP =>
    /\ sleeper = "draining" => forced # Off /\ (deadline # Off => deadline < forced)
    /\ sleeper \in {"stopping", "accepted"} => AllStopped
    /\ sleeper = "none" => ~sleep_requested
    /\ instance # "running" => sleeper \in {"stopping", "accepted"}

LEMMA NextStopOrder == IInv /\ IInv' /\ StopOrder /\ [Next]_vars => StopOrder'
<1> SUFFICES ASSUME IInv, IInv', StopOrder, [Next]_vars, DRAIN_DEADLINE < FORCED_STOP
             PROVE  StopOrder'
  BY DEF StopOrder
<1>0. /\ deadline \in 0..DRAIN_DEADLINE \cup {Off} /\ forced \in 0..FORCED_STOP \cup {Off}
      /\ DRAIN_DEADLINE \in Nat /\ FORCED_STOP \in Nat /\ Off \notin Nat
      /\ TypeOK /\ SleepDrains /\ DrainStopsTheRest
      /\ work \subseteq Request
  BY Constants DEF IInv, TypeOK, Timer
<1>1. ASSUME NEW r \in Request, RequestStep(r)
      PROVE  StopOrder'
  <2>1. UNCHANGED <<sleeper, forced, deadline, sleep_requested, instance>>
    BY <1>1 DEF RequestStep, Authorize, Refuse, Accept, Hand, TaskEnds, EndRefused, Release,
                StopOwn, drainVars, sleepVars, vastVars
  <2>2. ASSUME draining, AllStopped PROVE AllStopped'
    <3>1. Status # "ready"
      BY <2>2 DEF Status
    <3>2. CASE Authorize(r) \/ Refuse(r) \/ Hand(r) \/ TaskEnds(r)
      BY <2>2, <3>2 DEF Authorize, Refuse, Hand, TaskEnds, AllStopped
    <3>3. CASE EndRefused(r) \/ Release(r)
      BY <1>0, <2>2, <3>3 DEF EndRefused, Release, End, AllStopped, TypeOK
    <3>4. ASSUME NEW reason \in OwnReason, StopOwn(r, reason) PROVE AllStopped'
      BY <2>2, <3>4 DEF StopOwn, Stopped, AllStopped, TypeOK
    <3> QED  BY <1>1, <3>1, <3>2, <3>3, <3>4 DEF RequestStep, Accept
  <2> QED  BY <1>0, <2>1, <2>2 DEF StopOrder, SleepDrains
<1>2. ASSUME NEW answered \in BOOLEAN, Drain(answered)
      PROVE  StopOrder'
  <2>1. UNCHANGED <<sleeper, forced, sleep_requested, work, instance>>
    BY <1>2 DEF Drain, sleepVars, vastVars
  <2>2. CASE sleeper = "none"
    BY <2>1, <2>2 DEF StopOrder
  <2>3. CASE sleeper # "none"
    <3>1. UNCHANGED <<deadline, stop_reason>>
      BY <1>0, <1>2, <2>3 DEF Drain, Close, SleepDrains, drainVars
    <3> QED  BY <2>1, <3>1 DEF StopOrder, AllStopped
  <2> QED  BY <2>2, <2>3
<1>3. ASSUME NEW o \in opens, Open(o)
      PROVE  StopOrder'
  BY <1>0, <1>3 DEF Open, StopOrder, SleepDrains, sleepVars, workVars, vastVars
<1>4. CASE Sleep \/ IdleCheck
  <2>1. FallAsleep \/ UNCHANGED <<sleepVars, drainVars, stop_reason>>
    BY <1>4 DEF Sleep, IdleCheck
  <2>2. UNCHANGED <<work, instance>>
    BY <1>4 DEF Sleep, IdleCheck, vastVars
  <2>3. CASE UNCHANGED <<sleepVars, drainVars, stop_reason>>
    BY <2>2, <2>3 DEF StopOrder, AllStopped, sleepVars, drainVars
  <2>4. CASE ~sleep_requested /\ FallAsleep
    <3>1. sleeper' = "draining" /\ forced' = FORCED_STOP /\ Close /\ sleep_requested'
      BY <2>4 DEF FallAsleep
    <3>2. deadline' = deadline \/ deadline' = DRAIN_DEADLINE
      BY <3>1 DEF Close, drainVars
    <3>3. sleeper = "none"
      BY <1>0, <2>4 DEF SleepDrains
    <3>4. instance' = "running"
      BY <2>2, <3>3 DEF StopOrder
    <3>5. forced' # Off /\ (deadline' # Off => deadline' < forced')
      BY <1>0, <3>1, <3>2
    <3> QED  BY <3>1, <3>4, <3>5 DEF StopOrder
  <2> QED  BY <2>1, <2>3, <2>4 DEF FallAsleep
<1>5. CASE DrainDeadline
  <2>1. /\ deadline' = Off /\ stop_reason' = Stopped(work, "draining")
        /\ UNCHANGED <<work, sleeper, forced, sleep_requested, instance>>
    BY <1>5 DEF DrainDeadline, sleepVars, vastVars
  <2>2. AllStopped'
    BY <1>0, <2>1, StoppedStays, Stops DEF AllStopped
  <2> QED  BY <2>1, <2>2 DEF StopOrder
<1>6. CASE SleepDrained \/ SleepForced
  <2>1. /\ sleeper = "draining" /\ sleeper' = "stopping" /\ (work = {} \/ forced = 0)
        /\ UNCHANGED <<work, stop_reason, instance>>
    BY <1>6 DEF SleepDrained, SleepForced, workVars, vastVars
  <2>2. AllStopped
    <3>1. CASE work = {}
      BY <3>1 DEF AllStopped
    <3>2. CASE forced = 0
      <4>1. deadline = Off
        BY <1>0, <2>1, <3>2 DEF StopOrder
      <4>2. draining
        BY <1>0, <2>1 DEF SleepDrains
      <4> QED  BY <1>0, <4>1, <4>2 DEF DrainStopsTheRest, AllStopped
    <3> QED  BY <2>1, <3>1, <3>2
  <2> QED  BY <2>1, <2>2 DEF StopOrder, AllStopped
<1>7. CASE \/ \E answered \in BOOLEAN : StopAttempt(answered)
           \/ StopFails
  <2>1. /\ sleeper = "stopping" /\ sleeper' \in {"stopping", "accepted"}
        /\ UNCHANGED <<work, stop_reason>>
    BY <1>7 DEF StopAttempt, StopFails, workVars, vars, sleepVars
  <2> QED  BY <2>1 DEF StopOrder, AllStopped
<1>8. CASE InstanceStops
  BY <1>8 DEF InstanceStops, StopOrder, AllStopped, drainVars, sleepVars, workVars
<1>9. CASE EngineStep
  <2>1. UNCHANGED <<sleeper, forced, deadline, sleep_requested, instance, work>>
    BY <1>9 DEF EngineStep, FirstVerified, EngineReady, CheckFailed, EngineChanges, drainVars,
                sleepVars, workVars, vastVars
  <2>2. \A r \in work : stop_reason[r] # "none" => stop_reason'[r] # "none"
    <3>1. CASE EngineChanges
      BY <1>0, <3>1, StoppedStays, Stops DEF EngineChanges
    <3> QED  BY <1>9, <3>1 DEF EngineStep, FirstVerified, EngineReady, CheckFailed, workVars
  <2> QED  BY <2>1, <2>2 DEF StopOrder, AllStopped
<1>10. CASE Tick
  <2>1. /\ forced # 0 /\ deadline # 0 /\ forced' = Left(forced) /\ deadline' = Left(deadline)
        /\ UNCHANGED <<sleeper, sleep_requested, work, stop_reason, instance>>
    BY <1>10 DEF Tick, workVars, vastVars
  <2>2. /\ forced # Off => forced' # Off
        /\ forced # Off /\ deadline' # Off /\ (deadline # Off => deadline < forced)
             => deadline' < forced'
    BY <1>0, <2>1 DEF Left
  <2> QED  BY <2>1, <2>2 DEF StopOrder, AllStopped
<1>11. CASE Resume
  BY <1>11 DEF Resume, FreshBoot, StopOrder
<1>12. CASE UNCHANGED vars
  BY <1>12 DEF vars, vastVars, drainVars, sleepVars, workVars, StopOrder, AllStopped
<1> QED  BY <1>1, <1>2, <1>3, <1>4, <1>5, <1>6, <1>7, <1>8, <1>9, <1>10, <1>11, <1>12, Steps
            DEF OtherStep, ControlStep, ServiceStep

LEMMA StopAlwaysInOrder == Spec => []StopOrder
<1>1. Init => StopOrder
  BY DEF Init, StopOrder
<1> QED  BY <1>1, NextStopOrder, IInvAlways, PTL DEF Spec

(***************************************************************************)
(* With a drain deadline under FORCED_STOP_S the instance is never stopped *)
(* under work that was left to finish.                                     *)
(***************************************************************************)
THEOREM StopsCutOnlyStoppedWork == Spec => StopCutsOnlyStoppedWork
<1> DEFINE A == /\ DRAIN_DEADLINE < FORCED_STOP
                /\ instance = "running" /\ instance' # "running"
                => \A r \in work : stop_reason[r] # "none"
<1>1. IInv /\ StopOrder /\ [Next]_vars => [A]_vars
  <2> SUFFICES ASSUME IInv, StopOrder, Next, DRAIN_DEADLINE < FORCED_STOP,
                      instance = "running", instance' # "running"
               PROVE  AllStopped
    BY DEF AllStopped
  <2>1. ASSUME NEW r \in Request, RequestStep(r) PROVE FALSE
    BY <2>1 DEF RequestStep, Authorize, Refuse, Accept, Hand, TaskEnds, EndRefused, Release,
                StopOwn, vastVars
  <2>2. CASE OtherStep
    <3>1. PICK answered \in BOOLEAN : StopAttempt(answered)
      BY <2>2 DEF OtherStep, ControlStep, ServiceStep, EngineStep, Tick, InstanceStops,
           Resume, Drain, Open, Sleep, DrainDeadline, IdleCheck, SleepDrained, SleepForced,
           StopFails, FirstVerified, EngineReady, CheckFailed, EngineChanges, vastVars, vars
    <3> QED  BY <3>1 DEF StopAttempt, StopOrder
  <2> QED  BY <2>1, <2>2, Steps
<1> HIDE DEF A
<1>2. Spec => [][A]_vars
  BY <1>1, IInvAlways, StopAlwaysInOrder, PTL DEF Spec
<1> QED  BY <1>2 DEF StopCutsOnlyStoppedWork, A
=============================================================================
