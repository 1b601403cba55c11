------------------------------ MODULE TextLane ------------------------------
(***************************************************************************)
(* The requests of the text lane (src/simple_serving/inference.py, classes *)
(* Work, TextWork, Count and Generation; routes.py, _inference), composed  *)
(* with the places they take (Admission, CountPlaces) and the service that *)
(* accepts and stops them (Lifecycle).                                     *)
(*                                                                         *)
(* A request is two asyncio tasks: the handler, which reads the body,      *)
(* waits for the work's task, cleans up and sends the terminal message;    *)
(* and that task, which counts, waits for a place and relays the stream.   *)
(* What either does between two awaits is one step.  A stop cancels the    *)
(* task, and the cancellation takes the place of the task's next step,     *)
(* also when what it waited for has come meanwhile: so says asyncio.       *)
(*                                                                         *)
(* Timers may run at any time: only their order with the rest matters.     *)
(***************************************************************************)
EXTENDS Naturals, FiniteSets

CONSTANTS
  Request,        \* the requests that may be alive together
  KindOf,         \* "count" or "generation"
  Key, NoKey, ClassOf, OwnerOf,                                        \* see Line
  Places, PerKey,                                                      \* see CountPlaces
  ActiveCap, WaitingCap, SharedPlaces, PerKeyActive, PerKeyWaiting,    \* see Admission
  OwnReason,      \* of "disconnect" and "timeout", the stops considered
  Off,            \* a timer that is not set
  MaxDrains       \* bound: drains

ASSUME TextLaneAssumption ==
  /\ IsFiniteSet(Request)
  /\ KindOf \in [Request -> {"count", "generation"}]
  /\ OwnReason \subseteq {"disconnect", "timeout"}

(* The configuration asks for at least one of each.                      *)
ASSUME PlacesAssumption == Places \in Nat \ {0} /\ PerKey \in Nat \ {0}

VARIABLES
  step,           \* where the code of each request is
  cancelled,      \* its task ended cancelled
  engine,         \* it has an engine request open, for its generation
  muted,          \* its handler was cancelled: it sends no terminal message
  stop_reason,    \* Work.stop_reason
  shut,           \* the server's graceful time is over: it cancels the handlers
  c_state, c_ahead, c_running, c_byOwner,                      \* CountPlaces
  a_state, a_ahead, a_active, a_ownerActive, a_ownerWaiting,   \* Admission
  draining, drain_generation, deadline,                        \* Lifecycle
  verified, engine_status, engine_changed

countVars   == <<c_state, c_ahead, c_running, c_byOwner>>
placeVars   == <<a_state, a_ahead, a_active, a_ownerActive, a_ownerWaiting>>
serviceVars == <<draining, drain_generation, deadline, verified, engine_status, engine_changed>>
workVars    == <<step, cancelled, engine, muted, stop_reason>>
vars        == <<workVars, shut, countVars, placeVars, serviceVars>>

(**************************************************************************)
(* The handler: "preparing" reads the body or sends a refusal,            *)
(* "done" has yet to see that the task has ended, "closing" closes the    *)
(* engine's stream, "terminal" sends the terminal message.                *)
(* The task: "accepted" has yet to run, "count_wait" and "counting" are   *)
(* TextWork.count, "place_wait" awaits the ticket, "opening" the engine's *)
(* status, "streaming" its events and the client that reads them.         *)
(**************************************************************************)
TaskStep == {"accepted", "count_wait", "counting", "place_wait", "opening", "streaming"}
AfterTask == {"done", "closing", "terminal"}
Step == {"none", "preparing"} \cup TaskStep \cup AfterTask

(* Lifecycle.work, which accept and release keep                         *)
Work == {r \in Request : step[r] \in TaskStep \cup AfterTask}

-----------------------------------------------------------------------------
(* The components.                                                       *)

Cnt == INSTANCE CountPlaces WITH
         Ticket <- Request, state <- c_state, ahead <- c_ahead,
         running <- c_running, byOwner <- c_byOwner

Adm == INSTANCE Admission WITH
         Ticket <- Request, state <- a_state, ahead <- a_ahead, active <- a_active,
         ownerActive <- a_ownerActive, ownerWaiting <- a_ownerWaiting

(* As Line assumes of tickets; config._key makes outside keys external.  *)
ASSUME KeysAssumption ==
  /\ NoKey \notin Key
  /\ ClassOf \in [Request -> Cnt!Class]
  /\ OwnerOf \in [Request -> Key \cup {NoKey}]
  /\ \A r \in Request : OwnerOf[r] # NoKey => ClassOf[r] = "external"

OursSet == {r \in Request : OwnerOf[r] = NoKey}

(* Count.active and Generation.active                                    *)
Active(r) == IF KindOf[r] = "count" THEN c_state[r] = "active" ELSE a_state[r] = "active"

(* Where the service sees a request: Work.waiting, for one.              *)
PhaseOf(r) ==
  IF step[r] \in AfterTask THEN "ending"
  ELSE IF step[r] \notin TaskStep THEN step[r]
  ELSE IF Active(r) THEN "active" ELSE "waiting"

(* Open calls that clients may send: a client knows every drain so far.  *)
OpenCalls == {[boot |-> 1, generation |-> g, drain |-> g] : g \in 1..drain_generation}

(* The service in one boot in which it does not fall asleep.  Its drain   *)
(* deadline may run as soon as it is set; an open may come for any drain. *)
L == INSTANCE Lifecycle WITH
       Ours <- OursSet,
       OwnReason <- OwnReason \cup {"shutdown"},
       phase <- [r \in Request |-> PhaseOf(r)],
       work <- Work,
       ours_inflight <- Cardinality({r \in OursSet : step[r] # "none"}),
       drains <- drain_generation,
       opens <- OpenCalls,
       DRAIN_DEADLINE <- 0, IDLE_TIMEOUT <- 1, FORCED_STOP <- 1, MaxBoots <- 1,
       boot <- 1, instance <- "running",
       sleep_requested <- FALSE, sleeper <- "none", forced <- Off,
       idle <- IF verified THEN 1 ELSE Off, quiet <- 0, alone <- 0

-----------------------------------------------------------------------------
Init ==
  /\ step = [r \in Request |-> "none"]
  /\ cancelled = [r \in Request |-> FALSE]
  /\ engine = [r \in Request |-> FALSE]
  /\ muted = [r \in Request |-> FALSE]
  /\ stop_reason = [r \in Request |-> "none"]
  /\ shut = FALSE
  /\ Cnt!Init /\ Adm!Init
  /\ draining = FALSE /\ drain_generation = 0 /\ deadline = Off
  /\ verified = FALSE /\ engine_status = "starting" /\ engine_changed = FALSE

Goes(r, to) == step' = [step EXCEPT ![r] = to]

(* release, and the end of ours                                          *)
Ends(r) ==
  /\ Goes(r, "none")
  /\ cancelled' = [cancelled EXCEPT ![r] = FALSE]
  /\ muted' = [muted EXCEPT ![r] = FALSE]
  /\ stop_reason' = [stop_reason EXCEPT ![r] = "none"]

(* The task ends by itself, well or not.                                 *)
Done(r) == Goes(r, "done") /\ UNCHANGED cancelled

-----------------------------------------------------------------------------
(* Before acceptance (routes.py, _inference).                            *)

Authorize(r) ==
  /\ step[r] = "none" /\ ~shut /\ L!Status = "ready"
  /\ Goes(r, "preparing")
  /\ UNCHANGED <<cancelled, engine, muted, stop_reason, shut, countVars, placeVars, serviceVars>>

(* A check refuses it and the refusal is sent or given up, or the client *)
(* leaves while its body is read, or the handler is cancelled.           *)
EndRefused(r) ==
  /\ step[r] = "preparing"
  /\ Ends(r)
  /\ UNCHANGED <<engine, shut, countVars, placeVars, serviceVars>>

(* accept, and serve up to its first await                               *)
Accept(r) ==
  /\ step[r] = "preparing" /\ L!Status = "ready"
  /\ Goes(r, "accepted")
  /\ UNCHANGED <<cancelled, engine, muted, stop_reason, shut, countVars, placeVars, serviceVars>>

-----------------------------------------------------------------------------
(* The task.                                                             *)

GoesOn(r) == stop_reason[r] = "none"

Start(r) ==
  /\ step[r] = "accepted" /\ GoesOn(r)
  /\ \/ /\ Cnt!Enter(r)
        /\ Goes(r, IF c_state'[r] = "active" THEN "counting" ELSE "count_wait")
        /\ UNCHANGED cancelled
     \/ /\ Cnt!EnterRefused(r)
        /\ Done(r)
  /\ UNCHANGED <<engine, muted, stop_reason, shut, placeVars, serviceVars>>

CountGranted(r) ==
  /\ step[r] = "count_wait" /\ c_state[r] = "active" /\ GoesOn(r)
  /\ Goes(r, "counting")
  /\ UNCHANGED <<cancelled, engine, muted, stop_reason, shut, countVars, placeVars, serviceVars>>

CountFails(r) ==
  /\ step[r] = "counting" /\ GoesOn(r)
  /\ Cnt!Leave(r)
  /\ Done(r)
  /\ UNCHANGED <<engine, muted, stop_reason, shut, placeVars, serviceVars>>

Opens(r) == Goes(r, "opening") /\ engine' = [engine EXCEPT ![r] = TRUE]

(* Generation.run after its count: the input is too long, or the queue is *)
(* full, or a place is there at once, or the ticket waits for one.        *)
AfterCount(r) ==
  \/ UNCHANGED <<placeVars, engine>> /\ Done(r)
  \/ Adm!EnterRefused(r) /\ UNCHANGED engine /\ Done(r)
  \/ Adm!EnterActive(r) /\ Opens(r) /\ UNCHANGED cancelled
  \/ Adm!EnterLine(r) /\ Goes(r, "place_wait") /\ UNCHANGED <<cancelled, engine>>

(* The engine's count arrives: its place is left in the same step in which *)
(* a generation asks for its own.                                          *)
CountTaken(r) ==
  /\ step[r] = "counting" /\ GoesOn(r)
  /\ Cnt!Leave(r)
  /\ \/ /\ KindOf[r] = "count"
        /\ Done(r)
        /\ UNCHANGED <<engine, placeVars>>
     \/ /\ KindOf[r] = "generation"
        /\ AfterCount(r)
  /\ UNCHANGED <<muted, stop_reason, shut, serviceVars>>

(* Fault: a grant that came before the stop is followed all the same.    *)
PlaceGranted_StopOrNot(r) ==
  /\ step[r] = "place_wait" /\ a_state[r] = "active"
  /\ Opens(r)
  /\ UNCHANGED <<cancelled, muted, stop_reason, shut, countVars, placeVars, serviceVars>>

PlaceGranted(r) ==
  /\ step[r] = "place_wait" /\ a_state[r] = "active" /\ GoesOn(r)
  /\ Opens(r)
  /\ UNCHANGED <<cancelled, muted, stop_reason, shut, countVars, placeVars, serviceVars>>

(* EngineClient.generate: refused or failed; it leaves nothing open.     *)
OpenFails(r) ==
  /\ step[r] = "opening" /\ GoesOn(r)
  /\ engine' = [engine EXCEPT ![r] = FALSE]
  /\ Done(r)
  /\ UNCHANGED <<muted, stop_reason, shut, countVars, placeVars, serviceVars>>

Opened(r) ==
  /\ step[r] = "opening" /\ GoesOn(r)
  /\ Goes(r, "streaming")
  /\ UNCHANGED <<cancelled, engine, muted, stop_reason, shut, countVars, placeVars, serviceVars>>

(* _relay ends, well or not.  The stream is still to be closed.          *)
StreamEnds(r) ==
  /\ step[r] = "streaming" /\ GoesOn(r)
  /\ Done(r)
  /\ UNCHANGED <<engine, muted, stop_reason, shut, countVars, placeVars, serviceVars>>

(* Fault: the count's place is left only once the engine counts.         *)
CountLeft_OnlyCounting(r) ==
  IF step[r] = "counting" THEN Cnt!Leave(r) ELSE UNCHANGED countVars

(* The `finally` of TextWork.count                                       *)
CountLeft(r) ==
  IF step[r] \in {"count_wait", "counting"} THEN Cnt!Leave(r) ELSE UNCHANGED countVars

(* The task is cancelled, wherever it was.  A stream that was open is left *)
(* to the cleanup; one that was being opened closes.                       *)
Cancel(r) ==
  /\ step[r] \in TaskStep /\ ~GoesOn(r)
  /\ CountLeft(r)
  /\ engine' = [engine EXCEPT ![r] = engine[r] /\ step[r] = "streaming"]
  /\ Goes(r, "done")
  /\ cancelled' = [cancelled EXCEPT ![r] = TRUE]
  /\ UNCHANGED <<muted, stop_reason, shut, placeVars, serviceVars>>

-----------------------------------------------------------------------------
(* The handler, after the task.                                          *)

PlaceLeft(r) ==
  IF a_state[r] = "left" THEN UNCHANGED placeVars ELSE Adm!LeaveActive(r)

(* Nothing is sent: the client has left, or the handler was cancelled.   *)
Silent(r) ==
  \/ muted[r]
  \/ cancelled[r] /\ stop_reason[r] \in {"disconnect", "shutdown"}

(* _send_terminal, up to its await: a client that takes the message at   *)
(* once lets the handler end in the same step.                           *)
Terminal(r) ==
  \/ Ends(r)
  \/ ~Silent(r) /\ Goes(r, "terminal") /\ UNCHANGED <<cancelled, muted, stop_reason>>

(* The handler sees that the task has ended: Generation.cleanup.         *)
Cleanup(r) ==
  /\ step[r] = "done"
  /\ \/ /\ engine[r]
        /\ Goes(r, "closing")
        /\ UNCHANGED <<cancelled, muted, stop_reason, placeVars>>
     \/ /\ ~engine[r]
        /\ PlaceLeft(r)
        /\ Terminal(r)
  /\ UNCHANGED <<engine, shut, countVars, serviceVars>>

(* aclose returns or fails: the place is left, and the client is answered. *)
Closed(r) ==
  /\ step[r] = "closing"
  /\ engine' = [engine EXCEPT ![r] = FALSE]
  /\ PlaceLeft(r)
  /\ Terminal(r)
  /\ UNCHANGED <<shut, countVars, serviceVars>>

(* The client has taken the terminal message.                            *)
TerminalSent(r) ==
  /\ step[r] = "terminal"
  /\ Ends(r)
  /\ UNCHANGED <<engine, shut, countVars, placeVars, serviceVars>>

(* A stop, before or after the send began, gives up a client that does not *)
(* read.                                                                   *)
TerminalCut(r) ==
  /\ step[r] = "terminal" /\ stop_reason[r] # "none"
  /\ Ends(r)
  /\ UNCHANGED <<engine, shut, countVars, placeVars, serviceVars>>

-----------------------------------------------------------------------------
(* Stops.                                                                *)

(* Generation._stopping of each in S that this stop is the first for: the *)
(* waiting ones leave the line.  No place frees, so _dispatch has nothing *)
(* to give, as Adm!WorkConserving says of every state.                    *)
LineLeft(S) ==
  LET out == {r \in S : stop_reason[r] = "none" /\ a_state[r] = "waiting"} IN
  /\ a_state' = [r \in Request |-> IF r \in out THEN "left" ELSE a_state[r]]
  /\ a_ahead' = [r \in Request |-> IF r \in out THEN {} ELSE a_ahead[r] \ out]
  /\ a_ownerWaiting' =
       [k \in Key |-> a_ownerWaiting[k] - Cardinality({r \in out : OwnerOf[r] = k})]
  /\ UNCHANGED <<a_active, a_ownerActive>>

(* A stop of S with whatever it does to the service.                     *)
StopAll(S, reason) ==
  /\ LineLeft(S)
  /\ stop_reason' = L!Stopped(S, reason)
  /\ UNCHANGED <<step, cancelled, engine, shut, countVars>>

RequestsKept == UNCHANGED <<workVars, shut, countVars, placeVars>>

(* The client leaves, or the wall time runs out.                         *)
StopOwn(r, reason) ==
  /\ r \in Work /\ stop_reason[r] = "none"
  /\ StopAll({r}, reason)
  /\ UNCHANGED <<muted, serviceVars>>

(* Fault: a request that is counted is not seen to wait.                 *)
WaitsFor_InLine(r) == a_state[r] = "waiting"

(* Work.waiting of any request whose task runs                           *)
WaitsFor(r) == step[r] \in TaskStep /\ ~Active(r)

(* _close, for drain.  A drain that is on changes nothing.               *)
Drain ==
  /\ ~draining /\ drain_generation < MaxDrains
  /\ draining' = TRUE
  /\ drain_generation' = drain_generation + 1
  /\ deadline' = 0
  /\ StopAll({r \in Work : WaitsFor(r) \/ OwnerOf[r] # NoKey}, "draining")
  /\ UNCHANGED <<muted, verified, engine_status, engine_changed>>

(* open, for the drain that is on                                        *)
Open ==
  /\ draining
  /\ draining' = FALSE /\ deadline' = Off
  /\ RequestsKept
  /\ UNCHANGED <<drain_generation, verified, engine_status, engine_changed>>

(* _drain_deadline                                                       *)
DrainDeadline ==
  /\ deadline = 0
  /\ deadline' = Off
  /\ StopAll(Work, "draining")
  /\ UNCHANGED <<muted, draining, drain_generation, verified, engine_status, engine_changed>>

(* _engine_changes                                                       *)
EngineChanges ==
  /\ verified /\ ~engine_changed
  /\ engine_changed' = TRUE /\ engine_status' = "failed"
  /\ StopAll(Work, "engine_changed")
  /\ UNCHANGED <<muted, draining, drain_generation, deadline, verified>>

(* _first_verified and _engine_ready                                     *)
EngineReady ==
  /\ verified' = TRUE
  /\ engine_status' = "ready" /\ engine_changed' = FALSE
  /\ RequestsKept
  /\ UNCHANGED <<draining, drain_generation, deadline>>

-----------------------------------------------------------------------------
(* The server's shutdown (uvicorn's, once its graceful time is over).    *)

ShutDown ==
  /\ ~shut /\ shut' = TRUE
  /\ UNCHANGED <<workVars, countVars, placeVars, serviceVars>>

(* The handler is cancelled while the task runs, and stops it.           *)
CutTask(r) ==
  /\ shut /\ step[r] \in TaskStep /\ ~muted[r]
  /\ muted' = [muted EXCEPT ![r] = TRUE]
  /\ StopAll({r}, "shutdown")
  /\ UNCHANGED serviceVars

(* ... as it is about to see that the task has ended: it cleans up.      *)
CutDone(r) ==
  /\ shut /\ step[r] = "done" /\ ~muted[r]
  /\ muted' = [muted EXCEPT ![r] = TRUE]
  /\ UNCHANGED <<step, cancelled, engine, stop_reason, shut, countVars, placeVars, serviceVars>>

(* ... while it closes the stream, or sends the terminal message.        *)
CutLate(r) ==
  /\ shut /\ step[r] \in {"closing", "terminal"} /\ ~muted[r]
  /\ engine' = [engine EXCEPT ![r] = FALSE]
  /\ PlaceLeft(r)
  /\ Ends(r)
  /\ UNCHANGED <<shut, countVars, serviceVars>>

-----------------------------------------------------------------------------
Handler(r) ==
  \/ Authorize(r) \/ EndRefused(r) \/ Accept(r)
  \/ Cleanup(r) \/ Closed(r) \/ TerminalSent(r) \/ TerminalCut(r)
  \/ CutTask(r) \/ CutDone(r) \/ CutLate(r)

Task(r) ==
  \/ Start(r) \/ CountGranted(r) \/ CountFails(r) \/ CountTaken(r)
  \/ PlaceGranted(r) \/ OpenFails(r) \/ Opened(r) \/ StreamEnds(r)
  \/ Cancel(r)

Next ==
  \/ \E r \in Request : \/ Handler(r) \/ Task(r)
                        \/ \E reason \in OwnReason : StopOwn(r, reason)
  \/ Drain \/ Open \/ DrainDeadline \/ EngineChanges \/ EngineReady
  \/ ShutDown

Spec == Init /\ [][Next]_vars

(*************************************************************************)
(* The wall time of a request passes, a cancelled task is resumed, its   *)
(* handler goes on, aclose returns, and a timeout that is due is raised. *)
(* The engine need not answer, nor the client read.                      *)
(*************************************************************************)
Fairness ==
  \A r \in Request :
    /\ WF_vars(StopOwn(r, "timeout"))
    /\ WF_vars(Cancel(r))
    /\ WF_vars(Cleanup(r))
    /\ WF_vars(Closed(r))
    /\ WF_vars(TerminalCut(r))

FairSpec == Spec /\ Fairness

-----------------------------------------------------------------------------
TypeOK ==
  /\ step \in [Request -> Step]
  /\ cancelled \in [Request -> BOOLEAN]
  /\ engine \in [Request -> BOOLEAN]
  /\ muted \in [Request -> BOOLEAN]
  /\ stop_reason \in [Request -> L!Reason]
  /\ shut \in BOOLEAN
  /\ Cnt!TypeOK /\ Adm!TypeOK
  /\ draining \in BOOLEAN /\ drain_generation \in Nat /\ deadline \in {0, Off}
  /\ verified \in BOOLEAN /\ engine_changed \in BOOLEAN
  /\ engine_status \in {"starting", "ready", "failed"}

(* The engine has at most what the places allow, whatever ends, fails or *)
(* is stopped meanwhile: a generation is open in it only under an active *)
(* ticket, a count only under a granted place.                           *)
EngineWithinPlaces ==
  \A r \in Request :
    /\ engine[r] => a_state[r] = "active"
    /\ step[r] = "counting" => c_state[r] = "active"

(* A place is back before the client is answered, on every path: a count's *)
(* place once the task has ended, a generation's once its stream is        *)
(* closed, and so is one granted to a request that was stopped first.      *)
PlacesComeBack ==
  \A r \in Request :
    /\ step[r] \notin {"count_wait", "counting"} => c_state[r] = "left"
    /\ step[r] \notin {"place_wait", "opening", "streaming", "done", "closing"} => a_state[r] = "left"

(* No count waits while one of the places of counts is free, and none gets *)
(* a place before one that is of a class served sooner, or came earlier:   *)
(* of CountPlaces, and of the requests that take part in it.               *)
NoIdlePlace == Cnt!NoIdlePlace
NoOvertaking == Cnt!NoOvertaking

(* Stopped work holds no place in the line, from the stop on and not from *)
(* its cleanup, which may come much later.                                *)
StoppedLeavesLine ==
  \A r \in Request : stop_reason[r] # "none" => a_state[r] # "waiting"

(* From its stop on, a request starts nothing in the engine, even if its *)
(* count or its place is granted at that moment.                         *)
StoppedWorkStartsNothing ==
  [][\A r \in Request : stop_reason[r] # "none" /\ step'[r] # "none" =>
       /\ engine'[r] => engine[r]
       /\ step'[r] = "counting" => step[r] = "counting"]_vars

(* What the service promises of its requests holds of the text lane's:   *)
(* they take only steps that the service's module allows them.           *)
ImplementsLifecycle == L!Spec

=============================================================================
