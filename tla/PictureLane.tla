----------------------------- MODULE PictureLane ----------------------------
(***************************************************************************)
(* The picture lane's jobs together (src/simple_serving/pictures/          *)
(* service.py): the cap of each class, the order on the card, the stops    *)
(* not yet confirmed and the health check that asks for them again, one    *)
(* after the other, while jobs come and go.                                *)
(*                                                                         *)
(* PictureJob has one job in detail.  Here a job is followed until it ends *)
(* by itself, fails or is stopped; the reads of its stop have one outcome, *)
(* and are taken together: a job that has left the queue does not come     *)
(* back.  ComfyUI is external, as in PictureJob: it draws the lowest       *)
(* number first, a request that failed had its effect or not, and it may   *)
(* be restarted.                                                           *)
(***************************************************************************)
EXTENDS Integers, FiniteSets

CONSTANTS
  Job,        \* ids of jobs; one is used again once nothing is left of it
  cls,        \* Work.caller.cls of each
  LIMITS,     \* the class's jobs on the card: config.limits[cls].jobs
  ORDER,
  MaxNumbered \* bound: submits

Class == {"reader", "agent", "internal"}

ASSUME PictureLaneAssumption ==
  /\ IsFiniteSet(Job) /\ cls \in [Job -> Class] /\ LIMITS \in [Class -> Nat]
  /\ MaxNumbered \in Nat /\ ORDER \in Nat /\ MaxNumbered < ORDER

VARIABLES
  stage,       \* how far the work of a job is
  wire,        \* its submit: "no", "out" or "ended"
  nth,         \* the how manieth number it waits under, on the card or on its way there
  numbered,    \* PictureService._numbered
  unresolved,  \* PictureService.unresolved
  missing,     \* looks in a row that found an unresolved job nowhere
  checking,    \* a health check is at them
  todo,        \* those it still comes to
  card         \* where ComfyUI has a job

countVars == <<nth, numbered>>
jobVars   == <<stage, wire, countVars>>
checkVars == <<unresolved, missing, checking, todo>>
vars      == <<jobVars, checkVars, card>>

Stage == {"none", "preparing", "submitting", "followed", "cleanup", "answering"}

Init ==
  /\ stage = [j \in Job |-> "none"] /\ wire = [j \in Job |-> "no"]
  /\ nth = [j \in Job |-> 0] /\ numbered = 0
  /\ unresolved = {} /\ missing = [j \in Job |-> 0] /\ checking = FALSE /\ todo = {}
  /\ card = [j \in Job |-> "none"]

(* Lifecycle.work                                                        *)
work == {j \in Job : stage[j] # "none"}

InQueue(j) == card[j] \in {"pending", "running"}

Of(c, S) == {j \in S : cls[j] = c}

-----------------------------------------------------------------------------
(* Jobs.                                                                 *)

(* PictureService.jobs: from before the submit to the end of the cleanup. *)
jobs == {j \in Job : stage[j] \in {"preparing", "submitting", "followed", "cleanup"}}

(* What the state of the service and its metrics say of a class: its jobs, *)
(* active or waiting, and the stops that still take its room.              *)
Unconfirmed(c) == Cardinality(Of(c, unresolved))

Shown(c) == Cardinality(Of(c, jobs)) + Unconfirmed(c)

(* Fault: the unresolved stops take no room.                             *)
Held_WorkOnly(c) == Cardinality(Of(c, work))

(* What accept counts against the cap of a class.                        *)
Held(c) == Cardinality(Of(c, work)) + Unconfirmed(c)

Unused(j) == stage[j] = "none" /\ j \notin unresolved /\ card[j] \notin {"pending", "running"}

(* Fault: the later reader's picture comes after the earlier one's.      *)
Number_InTurn(c, n) ==
  CASE c = "reader" -> n - ORDER
    [] c = "agent" -> n
    [] c = "internal" -> ORDER + n

(* PictureService.number                                                 *)
Number(c, n) ==
  CASE c = "reader" -> -(ORDER + n)
    [] c = "agent" -> n
    [] c = "internal" -> ORDER + n

number(j) == Number(cls[j], nth[j])

(* accept: a checked picture, in a status that lets it pass.             *)
Accept(j) ==
  /\ Unused(j) /\ Held(cls[j]) < LIMITS[cls[j]]
  /\ stage' = [stage EXCEPT ![j] = "preparing"] /\ wire' = [wire EXCEPT ![j] = "no"]
  /\ card' = [card EXCEPT ![j] = "none"]
  /\ UNCHANGED <<countVars, checkVars>>

(* The submit goes out, under the next number of the job's class.        *)
Submit(j) ==
  /\ stage[j] = "preparing" /\ numbered < MaxNumbered
  /\ stage' = [stage EXCEPT ![j] = "submitting"] /\ wire' = [wire EXCEPT ![j] = "out"]
  /\ numbered' = numbered + 1 /\ nth' = [nth EXCEPT ![j] = numbered']
  /\ UNCHANGED <<checkVars, card>>

Goes(j, to) == stage' = [stage EXCEPT ![j] = to] /\ UNCHANGED <<wire, countVars, checking, todo, card>>

Leaves(j, to) == card' = [card EXCEPT ![j] = to] /\ nth' = [nth EXCEPT ![j] = 0]

Followed(j) ==
  /\ stage[j] = "submitting" /\ wire[j] = "ended" /\ card[j] # "none"
  /\ Goes(j, "followed") /\ UNCHANGED <<unresolved, missing>>

(* Its pictures are sent, or its record says that it failed.             *)
Over(j) ==
  /\ stage[j] = "followed" /\ card[j] = "recorded"
  /\ Goes(j, "answering") /\ UNCHANGED <<unresolved, missing>>

(* The task fails, or a stop of any reason cancels it.                   *)
TaskEnds(j) ==
  /\ stage[j] \in {"preparing", "submitting", "followed"}
  /\ Goes(j, "cleanup") /\ UNCHANGED <<unresolved, missing>>

(* stop_job's cancel of the job, which may fail.                         *)
CancelJob(j) ==
  /\ stage[j] = "cleanup" /\ wire[j] = "ended" /\ card[j] = "pending"
  /\ Leaves(j, "none")
  /\ UNCHANGED <<stage, wire, numbered, checkVars>>

(* No submit went out, or one that was refused or met no server; the job *)
(* was lost; or the reads of its stop found that it is off the card.     *)
OffTheCard(j) ==
  /\ stage[j] = "cleanup" /\ wire[j] # "out" /\ ~InQueue(j)
  /\ Goes(j, "answering") /\ UNCHANGED <<unresolved, missing>>

(* No read of the stop did: the gateway lets go of a job that may be on  *)
(* the card.                                                             *)
StopUnconfirmed(j) ==
  /\ stage[j] = "cleanup" /\ wire[j] = "ended"
  /\ Goes(j, "answering")
  /\ unresolved' = unresolved \cup {j} /\ missing' = [missing EXCEPT ![j] = 0]

(* The client has taken the end of its stream, or is given up after a    *)
(* stop: the work is released.                                           *)
Answered(j) ==
  /\ stage[j] = "answering"
  /\ Goes(j, "none") /\ UNCHANGED <<unresolved, missing>>

-----------------------------------------------------------------------------
(* _resolve_stops, in each health check that ComfyUI answers: it goes    *)
(* through the stops there were as it began, and awaits in between.      *)

CheckStarts ==
  /\ ~checking /\ unresolved # {}
  /\ checking' = TRUE /\ todo' = unresolved
  /\ UNCHANGED <<jobVars, unresolved, missing, card>>

Turn(j) == checking /\ j \in todo /\ todo' = todo \ {j} /\ UNCHANGED checking

(* A job is cancelled again, which takes it out of the line.             *)
Cancelled(j) == IF card[j] = "pending" THEN Leaves(j, "none") ELSE UNCHANGED <<card, nth>>

(* A request for it fails, the cancel or one after it: on to the next.   *)
ResolveFails(j) ==
  /\ Turn(j)
  /\ Cancelled(j) \/ UNCHANGED <<card, nth>>
  /\ UNCHANGED <<stage, wire, numbered, unresolved, missing>>

(* Fault: only a record resolves a stop.                                 *)
Resolve_RecordOnly(j) ==
  /\ Turn(j) /\ Cancelled(j)
  /\ unresolved' = IF card'[j] = "recorded" THEN unresolved \ {j} ELSE unresolved
  /\ UNCHANGED <<stage, wire, numbered, missing>>

(* The reads of the queue and of the record: it is resolved by its record, *)
(* or once two looks in a row have found it nowhere.                       *)
Resolve(j) ==
  /\ Turn(j) /\ Cancelled(j)
  /\ LET held     == card'[j] = "running"
         resolved == ~held /\ (card'[j] = "recorded" \/ missing[j] + 1 > 1) IN
       /\ unresolved' = IF resolved THEN unresolved \ {j} ELSE unresolved
       /\ missing' = [missing EXCEPT ![j] = IF held \/ resolved THEN 0 ELSE 1]
  /\ UNCHANGED <<stage, wire, numbered>>

CheckEnds ==
  /\ checking /\ todo = {} /\ checking' = FALSE
  /\ UNCHANGED <<jobVars, unresolved, missing, todo, card>>

-----------------------------------------------------------------------------
(* ComfyUI                                                               *)

(* It has taken the job, which it goes on with while the answer is on its *)
(* way, or it was refused, not reached or failed.                         *)
SubmitEnds(j) ==
  /\ wire[j] = "out" /\ wire' = [wire EXCEPT ![j] = "ended"]
  /\ \/ card' = [card EXCEPT ![j] = "pending"] /\ UNCHANGED nth
     \/ Leaves(j, "none")
  /\ UNCHANGED <<stage, numbered, checkVars>>

(* It draws one job at a time, the lowest number first.                  *)
CardStarts(j) ==
  /\ card[j] = "pending"
  /\ \A k \in Job : card[k] # "running" /\ (card[k] = "pending" => number(j) <= number(k))
  /\ Leaves(j, "running")
  /\ UNCHANGED <<stage, wire, numbered, checkVars>>

(* It has drawn the job, or failed, or saw its interruption.             *)
CardEnds(j) ==
  /\ card[j] = "running" /\ card' = [card EXCEPT ![j] = "recorded"]
  /\ UNCHANGED <<jobVars, checkVars>>

Restarts ==
  /\ \E j \in Job : card[j] # "none"
  /\ card' = [j \in Job |-> "none"]
  /\ nth' = [j \in Job |-> IF wire[j] = "out" THEN nth[j] ELSE 0]
  /\ UNCHANGED <<stage, wire, numbered, checkVars>>

-----------------------------------------------------------------------------
JobStep(j) ==
  \/ Accept(j) \/ Submit(j) \/ Followed(j) \/ Over(j) \/ TaskEnds(j)
  \/ CancelJob(j) \/ OffTheCard(j) \/ StopUnconfirmed(j) \/ Answered(j)

CheckStep ==
  \/ CheckStarts \/ CheckEnds
  \/ \E j \in Job : ResolveFails(j) \/ Resolve(j)

ComfyStep ==
  \/ \E j \in Job : SubmitEnds(j) \/ CardStarts(j) \/ CardEnds(j)
  \/ Restarts

Next == (\E j \in Job : JobStep(j)) \/ CheckStep \/ ComfyStep

Spec == Init /\ [][Next]_vars

(***************************************************************************)
(* The wall time stops whatever is still at work: the task ends, its       *)
(* submit ends (it has a timeout), its stop is confirmed or not, and its   *)
(* client is not waited for.  ComfyUI ends what it draws; health checks go *)
(* on, and their requests succeed now and then.                            *)
(***************************************************************************)
Fairness ==
  /\ \A j \in Job : /\ WF_vars(TaskEnds(j) \/ OffTheCard(j) \/ StopUnconfirmed(j) \/ Answered(j))
                    /\ SF_vars(Resolve(j))
  /\ WF_vars(\E j \in Job : SubmitEnds(j)) /\ WF_vars(\E j \in Job : CardEnds(j))
  /\ WF_vars(CheckStarts) /\ WF_vars(CheckEnds)

FairSpec == Spec /\ Fairness

-----------------------------------------------------------------------------
TypeOK ==
  /\ stage \in [Job -> Stage] /\ wire \in [Job -> {"no", "out", "ended"}]
  /\ nth \in [Job -> Nat] /\ numbered \in Nat
  /\ unresolved \subseteq Job /\ missing \in [Job -> {0, 1}] /\ checking \in BOOLEAN /\ todo \subseteq Job
  /\ card \in [Job -> {"none", "pending", "running", "recorded"}]

(* The jobs of a class that ComfyUI has, or may have once a submit is     *)
(* through, are never more than the service shows to its owner, and those *)
(* never more than the class's cap, whatever became of their streams and  *)
(* of the stops that were asked for.                                      *)
OnCard(c) == {j \in Job : cls[j] = c /\ (InQueue(j) \/ wire[j] = "out")}

CardWithinLimit ==
  \A c \in Class : Cardinality(OnCard(c)) <= Shown(c) /\ Shown(c) <= LIMITS[c]

(* A reader's picture before an agent's before an experiment's, the latest *)
(* reader's first and the others in turn.                                  *)
Before(k, j) ==
  \/ cls[k] = "reader" /\ cls[j] # "reader"
  \/ cls[k] = "agent" /\ cls[j] = "internal"
  \/ cls[k] = cls[j] /\ IF cls[k] = "reader" THEN nth[k] > nth[j] ELSE nth[k] < nth[j]

(* The card starts no job while one that goes before it waits there.     *)
DrawnInOrder ==
  [][\A j, k \in Job :
       card[j] = "pending" /\ card'[j] = "running" /\ card[k] = "pending" => ~Before(k, j)]_vars

(* A class that is full has room again, though stops are not confirmed,  *)
(* streams are not read and ComfyUI loses its jobs.                      *)
RoomComesBack ==
  \A c \in Class : LIMITS[c] > 0 => (Held(c) >= LIMITS[c] ~> Held(c) < LIMITS[c])

(* docs/pictures.md, 7: "Jobs on the card are the class's accepted jobs   *)
(* and its stops not yet confirmed. A job past its class's cap is refused *)
(* with 429 `queue_full`": a class that is told full has as many jobs.    *)
RefusedOnlyWhenFull ==
  \A c \in Class : Held(c) >= LIMITS[c] => Cardinality(Of(c, work \cup unresolved)) >= LIMITS[c]
=============================================================================
