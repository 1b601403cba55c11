----------------------------- MODULE Lifecycle -----------------------------
(***************************************************************************)
(* The service of a lane (src/simple_serving/service.py, class Lifecycle): *)
(* what it accepts, how it drains, opens and falls asleep, and how its     *)
(* instance is stopped.  A request is seen as the service sees it: where   *)
(* it stands, and why it was stopped.  TextLane shows the text lane's      *)
(* requests to behave so.                                                  *)
(*                                                                         *)
(* The gateway is one event loop, so the code between two awaits is one    *)
(* step.  Time goes in ticks, and a timer that is due runs before the next *)
(* tick.  Each clock is kept as what is left of it, or, for idle_since, as *)
(* what has passed.                                                        *)
(***************************************************************************)
EXTENDS Naturals, FiniteSets

CONSTANTS
  Request,          \* the requests that may be alive together
  Ours,             \* those whose key is not an outside key
  OwnReason,        \* the stops that come to one request: see the assumption
  IDLE_TIMEOUT,     \* config.idle_timeout_s, in ticks
  DRAIN_DEADLINE,   \* config.drain_deadline_s, in ticks
  FORCED_STOP,      \* FORCED_STOP_S, in ticks
  Off,              \* a timer that is not set
  MaxDrains,        \* bound: drains that a control call begins
  MaxBoots          \* bound: boots of the instance

ASSUME LifecycleAssumption ==
  /\ IsFiniteSet(Request)
  /\ Ours \subseteq Request
  /\ OwnReason \subseteq {"disconnect", "timeout", "shutdown"}
  /\ {IDLE_TIMEOUT, DRAIN_DEADLINE, FORCED_STOP, MaxDrains, MaxBoots} \subseteq Nat
  /\ Off \notin Nat

VARIABLES
  boot,               \* the boot, for boot_id
  instance,           \* the instance in Vast: "running", "stopping", "stopped"
  draining,           \* Lifecycle.draining
  drain_generation,   \* Lifecycle.drain_generation
  deadline,           \* Lifecycle._deadline, what is left of it
  sleep_requested,    \* Lifecycle.sleep_requested
  sleeper,            \* the task of _sleep_then_stop
  forced,             \* what is left of its FORCED_STOP_S
  idle,               \* Lifecycle._idle, what is left of it
  quiet,              \* the time since Lifecycle.idle_since, up to IDLE_TIMEOUT
  verified,           \* the engine was verified in this boot
  engine_status,      \* Lifecycle.engine_status
  engine_changed,     \* Lifecycle._engine_changed
  work,               \* Lifecycle.work
  ours_inflight,      \* Lifecycle.ours_inflight
  phase,              \* where each request stands
  stop_reason,        \* Work.stop_reason
  opens,              \* open calls that clients may send, each with the drain it is for
  drains,             \* the drains so far, over all boots (history)
  alone               \* the ticks since a request of ours was last alive (history)

drainVars  == <<draining, drain_generation, deadline, drains>>
sleepVars  == <<sleep_requested, sleeper, forced>>
idleVars   == <<idle, quiet>>
engineVars == <<verified, engine_status, engine_changed>>
workVars   == <<work, ours_inflight, phase, stop_reason>>
vastVars   == <<boot, instance>>
vars == <<vastVars, drainVars, sleepVars, idleVars, engineVars, workVars, opens, alone>>

(**************************************************************************)
(* "preparing": authorized, its body is read; "refusing": its refusal is  *)
(* sent.  Accepted work is "waiting" or "active" as the properties of     *)
(* those names say, and "ending" once its task is done: cleanup, then the *)
(* terminal message.                                                      *)
(**************************************************************************)
Phase  == {"none", "preparing", "refusing", "waiting", "active", "ending"}
Reason == {"none", "draining", "engine_changed"} \cup OwnReason
Timer(length) == 0..length \cup {Off}
OpenCall == [boot : Nat, generation : Nat, drain : Nat]

Status ==
  IF draining THEN IF work # {} THEN "draining" ELSE "drained"
  ELSE engine_status

Up == instance # "stopped"

-----------------------------------------------------------------------------
(* The values of a new boot.                                             *)
FreshBoot ==
  /\ draining' = FALSE /\ drain_generation' = 0 /\ deadline' = Off
  /\ sleep_requested' = FALSE /\ sleeper' = "none" /\ forced' = Off
  /\ idle' = Off /\ quiet' = 0 /\ alone' = 0
  /\ verified' = FALSE /\ engine_status' = "starting" /\ engine_changed' = FALSE
  /\ work' = {} /\ ours_inflight' = 0
  /\ phase' = [r \in Request |-> "none"]
  /\ stop_reason' = [r \in Request |-> "none"]

Init ==
  /\ boot = 1 /\ instance = "running"
  /\ draining = FALSE /\ drain_generation = 0 /\ deadline = Off
  /\ sleep_requested = FALSE /\ sleeper = "none" /\ forced = Off
  /\ idle = Off /\ quiet = 0 /\ alone = 0
  /\ verified = FALSE /\ engine_status = "starting" /\ engine_changed = FALSE
  /\ work = {} /\ ours_inflight = 0
  /\ phase = [r \in Request |-> "none"]
  /\ stop_reason = [r \in Request |-> "none"]
  /\ opens = {} /\ drains = 0

-----------------------------------------------------------------------------
(* A request, from its authorization to its end.                         *)

(* authorize, then ours                                                  *)
Authorize(r) ==
  /\ phase[r] = "none" /\ Status = "ready"
  /\ phase' = [phase EXCEPT ![r] = "preparing"]
  /\ ours_inflight' = IF r \in Ours THEN ours_inflight + 1 ELSE ours_inflight
  /\ alone' = IF r \in Ours THEN 0 ELSE alone
  /\ UNCHANGED <<vastVars, drainVars, sleepVars, idleVars, engineVars, work, stop_reason, opens>>

(* A check of the body fails, or its deadline passes, or accept refuses. *)
Refuse(r) ==
  /\ phase[r] = "preparing"
  /\ phase' = [phase EXCEPT ![r] = "refusing"]
  /\ UNCHANGED <<vastVars, drainVars, sleepVars, idleVars, engineVars,
                 work, ours_inflight, stop_reason, opens, alone>>

(* accept; serve starts the task in the same step                        *)
Accept(r) ==
  /\ phase[r] = "preparing" /\ Status = "ready"
  /\ phase' = [phase EXCEPT ![r] = "waiting"]
  /\ work' = work \cup {r}
  /\ UNCHANGED <<vastVars, drainVars, sleepVars, idleVars, engineVars,
                 ours_inflight, stop_reason, opens, alone>>

(* Places that this step frees go to requests that wait: f is where the  *)
(* requests stand but for them.                                          *)
Waiting == {r \in Request : phase[r] = "waiting"}
Given(f, S) == [r \in Request |-> IF r \in S THEN "active" ELSE f[r]]

(* The engine has the main call, or will as soon as the task goes on.    *)
Hand(r) ==
  /\ phase[r] = "waiting"
  /\ \E S \in SUBSET Waiting : phase' = Given([phase EXCEPT ![r] = "active"], S)
  /\ UNCHANGED <<vastVars, drainVars, sleepVars, idleVars, engineVars,
                 work, ours_inflight, stop_reason, opens, alone>>

(* The task ends: done, failed or cancelled.                             *)
TaskEnds(r) ==
  /\ phase[r] \in {"waiting", "active"}
  /\ \E S \in SUBSET (Waiting \ {r}) : phase' = Given([phase EXCEPT ![r] = "ending"], S)
  /\ UNCHANGED <<vastVars, drainVars, sleepVars, idleVars, engineVars,
                 work, ours_inflight, stop_reason, opens, alone>>

(* Work.stop of every request in S: only the first stop counts.          *)
Stopped(S, reason) ==
  [r \in Request |-> IF r \in S /\ stop_reason[r] = "none" THEN reason ELSE stop_reason[r]]

(* The client leaves, the wall time runs out, or the server ends.        *)
StopOwn(r, reason) ==
  /\ r \in work /\ stop_reason[r] = "none"
  /\ stop_reason' = Stopped({r}, reason)
  /\ UNCHANGED <<vastVars, drainVars, sleepVars, idleVars, engineVars,
                 work, ours_inflight, phase, opens, alone>>

(* Fault: a request that was refused keeps its hold.                     *)
End_RefusedHolds(r) ==
  /\ stop_reason' = [stop_reason EXCEPT ![r] = "none"]
  /\ work' = work \ {r}
  /\ ours_inflight' = IF r \in Ours /\ r \in work THEN ours_inflight - 1 ELSE ours_inflight
  /\ quiet' = IF r \in Ours THEN 0 ELSE quiet

(* release, and the end of ours: one step                                *)
End(r) ==
  /\ stop_reason' = [stop_reason EXCEPT ![r] = "none"]
  /\ work' = work \ {r}
  /\ ours_inflight' = IF r \in Ours THEN ours_inflight - 1 ELSE ours_inflight
  /\ quiet' = IF r \in Ours THEN 0 ELSE quiet

(* The client leaves while its body is read, or has its refusal.         *)
EndRefused(r) ==
  /\ phase[r] \in {"preparing", "refusing"}
  /\ phase' = [phase EXCEPT ![r] = "none"]
  /\ End(r)
  /\ UNCHANGED <<vastVars, drainVars, sleepVars, engineVars, idle, opens, alone>>

(* The terminal message is sent or given up; when nothing has to wait for *)
(* the client, in the same step as the cleanup, which frees a place.      *)
Release(r) ==
  /\ phase[r] = "ending"
  /\ \E S \in SUBSET Waiting : phase' = Given([phase EXCEPT ![r] = "none"], S)
  /\ End(r)
  /\ UNCHANGED <<vastVars, drainVars, sleepVars, engineVars, idle, opens, alone>>

-----------------------------------------------------------------------------
(* Drain and open.                                                       *)

(* What a drain stops at once: waiting work, and all outside work.       *)
StoppedByDrain == {r \in work : phase[r] = "waiting" \/ r \notin Ours}

(* Fault: outside work that the engine has goes on.                      *)
Close_OutsideActiveGoesOn ==
  \/ /\ draining
     /\ UNCHANGED <<drainVars, stop_reason>>
  \/ /\ ~draining
     /\ draining' = TRUE
     /\ drain_generation' = drain_generation + 1
     /\ drains' = drains + 1
     /\ stop_reason' = Stopped({r \in work : phase[r] = "waiting"}, "draining")
     /\ deadline' = DRAIN_DEADLINE

(* Fault: no deadline bounds the drain.                                  *)
Close_NoDeadline ==
  \/ /\ draining
     /\ UNCHANGED <<drainVars, stop_reason>>
  \/ /\ ~draining
     /\ draining' = TRUE
     /\ drain_generation' = drain_generation + 1
     /\ drains' = drains + 1
     /\ stop_reason' = Stopped(StoppedByDrain, "draining")
     /\ UNCHANGED deadline

(* _close                                                                *)
Close ==
  \/ /\ draining
     /\ UNCHANGED <<drainVars, stop_reason>>
  \/ /\ ~draining
     /\ draining' = TRUE
     /\ drain_generation' = drain_generation + 1
     /\ drains' = drains + 1
     /\ stop_reason' = Stopped(StoppedByDrain, "draining")
     /\ deadline' = DRAIN_DEADLINE

(* drain.  Its answer may be lost; the client that has it may open.      *)
Drain(answered) ==
  /\ draining \/ drains < MaxDrains
  /\ Close
  /\ opens' = IF answered
              THEN opens \cup {[boot |-> boot, generation |-> drain_generation', drain |-> drains']}
              ELSE opens
  /\ UNCHANGED <<vastVars, sleepVars, idleVars, engineVars, work, ours_inflight, phase, alone>>

(* Fault: an open does not ask for its boot.                             *)
Open_AnyBoot(o) ==
  /\ ~sleep_requested
  /\ o.generation = drain_generation
  /\ draining
  /\ draining' = FALSE /\ deadline' = Off
  /\ UNCHANGED <<vastVars, sleepVars, idleVars, engineVars, workVars,
                 drain_generation, drains, opens, alone>>

(* open: early, late or sent again.  One that the checks refuse, or that *)
(* finds no drain on, changes nothing.                                   *)
Open(o) ==
  /\ o.boot = boot
  /\ ~sleep_requested
  /\ o.generation = drain_generation
  /\ draining
  /\ draining' = FALSE /\ deadline' = Off
  /\ UNCHANGED <<vastVars, sleepVars, idleVars, engineVars, workVars,
                 drain_generation, drains, opens, alone>>

(* _drain_deadline                                                       *)
DrainDeadline ==
  /\ deadline = 0
  /\ deadline' = Off
  /\ stop_reason' = Stopped(work, "draining")
  /\ UNCHANGED <<vastVars, draining, drain_generation, drains, sleepVars, idleVars,
                 engineVars, work, ours_inflight, phase, opens, alone>>

-----------------------------------------------------------------------------
(* Sleep.                                                                *)

(* _fall_asleep, whose callers cancel the idle timer                     *)
FallAsleep ==
  \/ /\ sleep_requested
     /\ UNCHANGED <<sleepVars, drainVars, stop_reason>>
  \/ /\ ~sleep_requested
     /\ sleep_requested' = TRUE
     /\ sleeper' = "draining" /\ forced' = FORCED_STOP
     /\ Close

(* sleep                                                                 *)
Sleep ==
  /\ FallAsleep
  /\ idle' = IF sleep_requested THEN idle ELSE Off
  /\ UNCHANGED <<vastVars, engineVars, quiet, work, ours_inflight, phase, opens, alone>>

(* Fault: work is looked at, which a request has not reached while its   *)
(* body is read.                                                         *)
IdleCheck_LooksAtWork ==
  /\ idle = 0
  /\ \/ /\ work # {}
        /\ idle' = IDLE_TIMEOUT
        /\ UNCHANGED <<sleepVars, drainVars, stop_reason>>
     \/ /\ work = {} /\ quiet < IDLE_TIMEOUT
        /\ idle' = IDLE_TIMEOUT - quiet
        /\ UNCHANGED <<sleepVars, drainVars, stop_reason>>
     \/ /\ work = {} /\ quiet >= IDLE_TIMEOUT
        /\ idle' = Off
        /\ FallAsleep
  /\ UNCHANGED <<vastVars, engineVars, quiet, work, ours_inflight, phase, opens, alone>>

(* _idle_check, when its timer has come due                              *)
IdleCheck ==
  /\ idle = 0
  /\ \/ /\ ours_inflight > 0
        /\ idle' = IDLE_TIMEOUT
        /\ UNCHANGED <<sleepVars, drainVars, stop_reason>>
     \/ /\ ours_inflight = 0 /\ quiet < IDLE_TIMEOUT
        /\ idle' = IDLE_TIMEOUT - quiet
        /\ UNCHANGED <<sleepVars, drainVars, stop_reason>>
     \/ /\ ours_inflight = 0 /\ quiet >= IDLE_TIMEOUT
        /\ idle' = Off
        /\ FallAsleep
  /\ UNCHANGED <<vastVars, engineVars, quiet, work, ours_inflight, phase, opens, alone>>

(* _sleep_then_stop: the drain has ended                                 *)
SleepDrained ==
  /\ sleeper = "draining" /\ work = {}
  /\ sleeper' = "stopping" /\ forced' = Off
  /\ UNCHANGED <<vastVars, drainVars, sleep_requested, idleVars, engineVars, workVars, opens, alone>>

(* Fault: FORCED_STOP_S have passed, and the drain is waited for.        *)
SleepForced_StillWaits ==
  /\ sleeper = "draining" /\ forced = 0
  /\ forced' = Off
  /\ UNCHANGED <<vastVars, drainVars, sleep_requested, sleeper, idleVars, engineVars, workVars,
                 opens, alone>>

(* _sleep_then_stop: FORCED_STOP_S have passed                           *)
SleepForced ==
  /\ sleeper = "draining" /\ forced = 0
  /\ sleeper' = "stopping" /\ forced' = Off
  /\ UNCHANGED <<vastVars, drainVars, sleep_requested, idleVars, engineVars, workVars, opens, alone>>

-----------------------------------------------------------------------------
(* The stop in Vast (vast.py, stop_until_accepted).                      *)

(* Vast takes the stop, and its answer arrives or not.                   *)
StopAttempt(answered) ==
  /\ sleeper = "stopping"
  /\ instance' = "stopping"
  /\ sleeper' = IF answered THEN "accepted" ELSE "stopping"
  /\ UNCHANGED <<boot, drainVars, sleep_requested, forced, idleVars, engineVars, workVars, opens, alone>>

(* Refused, or lost on the way: RETRY_S later the next attempt comes.    *)
StopFails == sleeper = "stopping" /\ UNCHANGED vars

InstanceStops ==
  /\ instance = "stopping"
  /\ instance' = "stopped"
  /\ UNCHANGED <<boot, drainVars, sleepVars, idleVars, engineVars, workVars, opens, alone>>

(* The owner starts the instance again: a new boot, which knows nothing. *)
Resume ==
  /\ instance = "stopped" /\ boot < MaxBoots
  /\ instance' = "running" /\ boot' = boot + 1
  /\ FreshBoot
  /\ UNCHANGED <<opens, drains>>

-----------------------------------------------------------------------------
(* The engine's checks, through the hooks that both lanes call.          *)

(* _first_verified and _engine_ready; the idle timer is set by _idle_check *)
(* in the same step.                                                       *)
FirstVerified ==
  /\ ~verified
  /\ verified' = TRUE
  /\ quiet' = 0 /\ alone' = 0 /\ idle' = IDLE_TIMEOUT
  /\ engine_status' = "ready"
  /\ UNCHANGED <<vastVars, drainVars, sleepVars, engine_changed, workVars, opens>>

(* _engine_ready                                                         *)
EngineReady ==
  /\ verified
  /\ engine_status' = "ready" /\ engine_changed' = FALSE
  /\ UNCHANGED <<vastVars, drainVars, sleepVars, idleVars, verified, workVars, opens, alone>>

(* _check_failed                                                         *)
CheckFailed ==
  /\ engine_status = "ready"
  /\ engine_status' = "failed"
  /\ UNCHANGED <<vastVars, drainVars, sleepVars, idleVars, verified, engine_changed,
                 workVars, opens, alone>>

(* _engine_changes                                                       *)
EngineChanges ==
  /\ verified /\ ~engine_changed
  /\ engine_changed' = TRUE /\ engine_status' = "failed"
  /\ stop_reason' = Stopped(work, "engine_changed")
  /\ UNCHANGED <<vastVars, drainVars, sleepVars, idleVars, verified, work, ours_inflight,
                 phase, opens, alone>>

-----------------------------------------------------------------------------
(* The requests of ours between their authorization and their end.       *)
HoldingCard == {r \in Ours : phase[r] # "none"}

Left(timer) == IF timer = Off THEN Off ELSE timer - 1
Passed(clock) == IF clock < IDLE_TIMEOUT THEN clock + 1 ELSE clock

(* A tick passes: no timer is due.                                       *)
Tick ==
  /\ 0 \notin {idle, deadline, forced}
  /\ idle' = Left(idle) /\ deadline' = Left(deadline) /\ forced' = Left(forced)
  /\ quiet' = Passed(quiet)
  /\ alone' = IF HoldingCard = {} THEN Passed(alone) ELSE 0
  /\ UNCHANGED <<vastVars, draining, drain_generation, drains, sleep_requested, sleeper,
                 engineVars, workVars, opens>>

RequestStep(r) ==
  \/ Authorize(r) \/ Refuse(r) \/ Accept(r) \/ Hand(r) \/ TaskEnds(r)
  \/ EndRefused(r) \/ Release(r)
  \/ \E reason \in OwnReason : StopOwn(r, reason)

ControlStep ==
  \/ \E answered \in BOOLEAN : Drain(answered)
  \/ \E o \in opens : Open(o)
  \/ Sleep

ServiceStep ==
  \/ DrainDeadline \/ IdleCheck \/ SleepDrained \/ SleepForced
  \/ \E answered \in BOOLEAN : StopAttempt(answered)
  \/ StopFails

EngineStep == FirstVerified \/ EngineReady \/ CheckFailed \/ EngineChanges

Next ==
  \/ Up /\ \/ \E r \in Request : RequestStep(r)
           \/ ControlStep \/ ServiceStep \/ EngineStep
           \/ Tick \/ InstanceStops
  \/ Resume

Spec == Init /\ [][Next]_vars

(***************************************************************************)
(* Timers run when they are due, and the sleep goes on.  Vast takes a stop *)
(* in the end: without that the attempts go on for ever, as vast.py says.  *)
(* Nothing makes a request end, not even one that was stopped.             *)
(***************************************************************************)
Fairness ==
  /\ WF_vars(Up /\ Tick)
  /\ WF_vars(Up /\ IdleCheck)
  /\ WF_vars(Up /\ DrainDeadline)
  /\ WF_vars(Up /\ (SleepDrained \/ SleepForced))
  /\ WF_vars(Up /\ \E answered \in BOOLEAN : StopAttempt(answered))
  /\ WF_vars(InstanceStops)

FairSpec == Spec /\ Fairness

-----------------------------------------------------------------------------
AcceptedPhase == {"waiting", "active", "ending"}

TypeOK ==
  /\ boot \in Nat /\ instance \in {"running", "stopping", "stopped"}
  /\ draining \in BOOLEAN /\ drain_generation \in Nat /\ drains \in Nat
  /\ deadline \in Timer(DRAIN_DEADLINE)
  /\ sleep_requested \in BOOLEAN
  /\ sleeper \in {"none", "draining", "stopping", "accepted"}
  /\ forced \in Timer(FORCED_STOP)
  /\ idle \in Timer(IDLE_TIMEOUT) /\ quiet \in 0..IDLE_TIMEOUT
  /\ verified \in BOOLEAN /\ engine_changed \in BOOLEAN
  /\ engine_status \in {"starting", "ready", "failed"}
  /\ alone \in 0..IDLE_TIMEOUT
  /\ work \subseteq Request /\ ours_inflight \in Nat
  /\ phase \in [Request -> Phase] /\ stop_reason \in [Request -> Reason]
  /\ opens \subseteq OpenCall

(* The work set and the count of requests of ours are what the requests  *)
(* are, on every path from authorize to the end: accepted, refused,      *)
(* abandoned while the body is read, stopped.                            *)
HoldsExact ==
  /\ work = {r \in Request : phase[r] \in AcceptedPhase}
  /\ ours_inflight = Cardinality(HoldingCard)

(* Nothing undoes a sleep: until the next boot the gate stays closed and *)
(* no work is taken on, whatever opens, drains and checks come.          *)
SleepIsFinal ==
  [][sleep_requested /\ boot' = boot
       => sleep_requested' /\ draining' /\ work' \subseteq work]_vars

(* A drain leaves only active work of ours, and that until its deadline: *)
(* what waited, what is outside, and what a request that was reading its *)
(* body became, is stopped.                                              *)
DrainStopsTheRest ==
  draining =>
    \A r \in work :
      \/ stop_reason[r] # "none"
      \/ r \in Ours /\ phase[r] # "waiting" /\ deadline # Off

(* While the engine is not the one this boot verified, no work goes on   *)
(* that was checked against it.                                          *)
ChangedEngineKeepsNoWork ==
  engine_changed => \A r \in work : stop_reason[r] # "none"

(* A late or repeated open undoes the drain it was meant for and no other, *)
(* neither a newer one nor one of a later boot.                            *)
OpenUndoesItsOwnDrain ==
  [][draining /\ ~draining' /\ boot' = boot => \E o \in opens : o.drain = drains]_vars

(* The card falls asleep by itself only after a whole interval in which no *)
(* request of ours was anywhere between its authorization and its end.     *)
IdleSleepAfterInterval ==
  [][IdleCheck /\ ~sleep_requested /\ sleep_requested'
       => HoldingCard = {} /\ alone = IDLE_TIMEOUT]_vars

(* The idle timer is always set, and comes due no later than the interval *)
(* ends.                                                                  *)
IdleTimerCovers ==
  verified /\ ~sleep_requested =>
    /\ idle # Off
    /\ HoldingCard = {} => idle + alone <= IDLE_TIMEOUT

(* With a drain deadline under FORCED_STOP_S, the stop that does not wait *)
(* for the drain cuts off only work that the drain has already stopped.   *)
StopCutsOnlyStoppedWork ==
  [][/\ DRAIN_DEADLINE < FORCED_STOP
     /\ instance = "running" /\ instance' # "running"
     => \A r \in work : stop_reason[r] # "none"]_vars

(* A sleep ends with the instance stopped, whatever its work does.       *)
SleepStopsTheCard == sleep_requested ~> ~Up

(* A drain that is not undone stops all the work that does not end.      *)
DrainEndsAllWork ==
  []<>(~draining \/ ~Up \/ \A r \in work : stop_reason[r] # "none")

(* A card that no request of ours holds falls asleep.                    *)
IdleCardSleeps == []<>(~verified \/ sleep_requested \/ HoldingCard # {} \/ ~Up)
=============================================================================
