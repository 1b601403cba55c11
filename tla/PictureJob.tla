----------------------------- MODULE PictureJob -----------------------------
(***************************************************************************)
(* A picture (src/simple_serving/pictures/jobs.py) from its acceptance to  *)
(* the end of its cleanup, the stop its client may ask for (routes.stop),  *)
(* and what the service goes on doing about a stop that was not confirmed  *)
(* (service.PictureService._resolve_stops).                                *)
(*                                                                         *)
(* The job's task follows it by three sources that may each fail: messages *)
(* of the gateway's socket, the service's shared read of the queue, and    *)
(* reads of the queue and of the job's record.  A job that ends any other  *)
(* way than by its record is taken off the card.                           *)
(*                                                                         *)
(* ComfyUI is external.  Its queue and its history change together: a job  *)
(* leaves the one for the other in one step.  A request to it ends (it has *)
(* a timeout); one that failed had its effect or not, and has none later.  *)
(* It tells a job's news to the socket it was submitted under, until that  *)
(* drops.  It may be restarted, and then knows nothing.                    *)
(***************************************************************************)
EXTENDS Naturals, Sequences

CONSTANTS
  RECORD_TRIES,   \* failed reads in a row that a job survives
  STOP_POLLS,     \* reads that may confirm a stop
  Reason          \* of a stop; "timeout" stands for a changed engine, too

ASSUME PictureJobAssumption ==
  /\ RECORD_TRIES \in Nat /\ STOP_POLLS \in Nat \ {0}
  /\ "client" \in Reason /\ Reason \subseteq {"client", "disconnect", "draining", "timeout"}

VARIABLES
  step,        \* the await at which the code of the job stands
  phase,       \* Picture.phase
  told,        \* its client was sent `started`
  heard,       \* what the socket told of it
  left,        \* a read of the queue no longer held it as waiting
  look,        \* its record is to be read at once
  missing,     \* reads in a row that found it nowhere, its own or the stop's
  failures,    \* failed reads in a row
  lost,        \* it is nowhere
  outcome,     \* how its task ended
  stop_reason,
  polls,       \* the reads of its stop
  confirmed,   \* Picture.stop_confirmed
  said,        \* how its stream ended
  deleting,    \* the delete of its record: "no", "out" or "ended"
  inbox,       \* its socket messages, arrived or on the wire
  listens,     \* whether its socket "never" was open, is "open" or has "dropped"
  watch,       \* the shared read of the queue that is out
  view,        \* the last one, until the job looks at it
  unresolved,  \* the service holds a stop that was not confirmed
  turn,        \* where its next attempt is
  asked,       \* the client's own stop and its answer
  wire,        \* the submit
  card,        \* where ComfyUI has the job
  result,      \* what its record says
  interrupted

taskVars  == <<step, phase, told, heard, left, look, missing, failures, lost, outcome>>
followVars == <<heard, left, look, failures>>
endVars   == <<stop_reason, polls, confirmed, said, deleting>>
newsVars  == <<inbox, listens, watch, view>>
stopVars  == <<unresolved, turn, asked>>
comfyVars == <<wire, card, result, interrupted>>
vars      == <<taskVars, endVars, newsVars, stopVars, comfyVars>>

TaskStep == {"preparing", "submitting", "accepting", "follow", "sending", "queue", "history",
             "delivering", "last"}
Cleaning == {"done", "cancel", "stop_queue", "stop_history"}
Step     == TaskStep \cup Cleaning \cup {"answering", "gone"}
Phase    == {"preparing", "submitting", "pending", "drawing", "over"}
Place    == {"none", "pending", "running", "ending", "recorded"}

UNHEARD  == {"client", "disconnect"}
Message  == {"start", "success", "error", "over"}

Init ==
  /\ step = "gone" /\ phase = "over" /\ told = FALSE /\ heard = {} /\ left = FALSE /\ look = FALSE
  /\ missing = 0 /\ failures = 0 /\ lost = FALSE /\ outcome = "none" /\ stop_reason = "none"
  /\ polls = 0 /\ confirmed = "unknown" /\ said = "nothing" /\ deleting = "no"
  /\ inbox = <<>> /\ listens = "never" /\ watch = "none" /\ view = "none"
  /\ unresolved = FALSE /\ turn = "idle" /\ asked = "no"
  /\ wire = "none" /\ card = "none" /\ result = "good" /\ interrupted = FALSE

InQueue == card \in {"pending", "running", "ending"}

(* A picture is accepted: a job with an id of its own.                   *)
Accept ==
  /\ step = "gone" /\ ~unresolved /\ turn = "idle" /\ deleting # "out" /\ asked # "waiting"
  /\ step' = "preparing" /\ phase' = "preparing" /\ told' = FALSE /\ heard' = {} /\ left' = FALSE
  /\ look' = FALSE /\ missing' = 0 /\ failures' = 0 /\ lost' = FALSE /\ outcome' = "none"
  /\ stop_reason' = "none" /\ polls' = 0 /\ confirmed' = "unknown" /\ said' = "nothing"
  /\ deleting' = "no" /\ asked' = "no" /\ UNCHANGED <<unresolved, turn>>
  /\ inbox' = <<>> /\ listens' = "never" /\ watch' = "none" /\ view' = "none"
  /\ wire' = "none" /\ card' = "none" /\ result' = "good" /\ interrupted' = FALSE

OnlyTask   == UNCHANGED <<endVars, newsVars, stopVars, comfyVars>>
OnlyStep   == OnlyTask /\ UNCHANGED <<phase, told, heard, left, look, missing, failures, lost>>
CleanFrame == UNCHANGED <<followVars, newsVars, comfyVars>>

-----------------------------------------------------------------------------
(* The task: Picture.run, _follow, _poll and _deliver.                   *)

GoesOn == stop_reason = "none"

At(s) == step = s /\ GoesOn

Goes(s) == step' = s /\ UNCHANGED outcome

Ends(how) == step' = "done" /\ outcome' = how

(* The socket is not open in time, and the client requires it.           *)
SocketUnavailable ==
  /\ At("preparing") /\ Ends("failed") /\ OnlyStep

Submit ==
  /\ At("preparing") /\ Goes("submitting")
  /\ phase' = "submitting" /\ wire' = "out" /\ listens' \in {"never", "open"}
  /\ UNCHANGED <<told, heard, left, look, missing, failures, lost, endVars, inbox, watch, view,
                 stopVars, card, result, interrupted>>

SubmitDone ==
  /\ At("submitting") /\ wire \in {"ok", "rejected", "unreachable", "failed"}
  /\ IF wire = "ok" THEN Goes("accepting") /\ phase' = "pending"
     ELSE Ends("failed") /\ UNCHANGED phase
  /\ UNCHANGED <<told, heard, left, look, missing, failures, lost>> /\ OnlyTask

(* The client has taken `accepted`, or another event.                    *)
Sent ==
  /\ At("accepting") \/ At("sending")
  /\ Goes("follow") /\ OnlyStep

(* Fault: the success is enough, whose message comes before the record.  *)
HeardAll_Success == {"start", "success"} \subseteq heard

(* Heard.record                                                          *)
HeardAll == {"start", "success", "over"} \subseteq heard

(* _start: its first call sends `started`.                               *)
Starts ==
  /\ told' = TRUE
  /\ phase' = IF phase = "pending" THEN "drawing" ELSE phase
  /\ Goes(IF told THEN "follow" ELSE "sending")

(* _take_news                                                            *)
TakeNews ==
  /\ At("follow") /\ inbox # <<>>
  /\ inbox' = Tail(inbox)
  /\ heard' = heard \cup {Head(inbox)}
  /\ look' = (look \/ Head(inbox) \in {"over", "error"})
  /\ IF Head(inbox) = "start" THEN Starts ELSE Goes("follow") /\ UNCHANGED <<phase, told>>
  /\ UNCHANGED <<left, missing, failures, lost, endVars, listens, watch, view, stopVars, comfyVars>>

(* A place, a node or a step is told.                                    *)
Tells ==
  /\ At("follow") /\ ~HeardAll
  /\ \/ phase = "pending"
     \/ phase = "drawing" /\ listens = "open"
  /\ Goes("sending") /\ OnlyStep

(* Fault: a read that began before the job was taken counts.             *)
TakeView_AnyRead ==
  /\ At("follow") /\ ~HeardAll /\ view # "none"
  /\ view' = "none"
  /\ left' = (left \/ view # "pending")
  /\ look' = (look \/ view \in {"early", "nowhere"})
  /\ UNCHANGED <<step, phase, told, heard, missing, failures, lost, outcome, endVars, inbox,
                 listens, watch, stopVars, comfyVars>>

(* _take_view                                                            *)
TakeView ==
  /\ At("follow") /\ ~HeardAll /\ view # "none"
  /\ view' = "none"
  /\ left' = (left \/ view \in {"running", "nowhere"})
  /\ look' = (look \/ view = "nowhere")
  /\ UNCHANGED <<step, phase, told, heard, missing, failures, lost, outcome, endVars, inbox,
                 listens, watch, stopVars, comfyVars>>

(* It has left the queue, and its socket cannot tell its start, or has not *)
(* told it in time.                                                        *)
StartUnheard ==
  /\ At("follow") /\ ~HeardAll /\ left /\ phase = "pending"
  /\ Starts
  /\ UNCHANGED <<heard, left, look, missing, failures, lost>> /\ OnlyTask

PollDue == look \/ missing > 0 \/ phase = "drawing"

Poll ==
  /\ At("follow") /\ ~HeardAll /\ PollDue
  /\ Goes("queue") /\ look' = FALSE
  /\ UNCHANGED <<phase, told, heard, left, missing, failures, lost>> /\ OnlyTask

PollFails ==
  /\ At("queue") \/ At("history")
  /\ failures' = failures + 1
  /\ IF failures' > RECORD_TRIES THEN Ends("failed") ELSE Goes("follow")
  /\ UNCHANGED <<phase, told, heard, left, look, missing, lost>> /\ OnlyTask

PollQueue ==
  /\ At("queue")
  /\ IF InQueue
     THEN /\ Goes("follow") /\ failures' = 0 /\ missing' = 0
          /\ left' = (left \/ card # "pending")
     ELSE Goes("history") /\ UNCHANGED <<failures, missing, left>>
  /\ UNCHANGED <<phase, told, heard, look, lost>> /\ OnlyTask

(* A good record, or one that says the job failed or names no picture.   *)
PollHistory ==
  /\ At("history")
  /\ failures' = 0
  /\ IF card = "recorded"
     THEN /\ missing' = 0 /\ UNCHANGED lost
          /\ phase' = "over" /\ told' = TRUE /\ Goes("delivering")
     ELSE /\ missing' = missing + 1
          /\ lost' = (missing' > 1)
          /\ IF lost' THEN Ends("failed") ELSE Goes("follow")
          /\ UNCHANGED <<phase, told>>
  /\ UNCHANGED <<heard, left, look>> /\ OnlyTask

(* The socket has told all of it: _deliver without a read.               *)
DeliverHeard ==
  /\ At("follow") /\ HeardAll
  /\ phase' = "over" /\ told' = TRUE /\ Goes("delivering")
  /\ UNCHANGED <<heard, left, look, missing, failures, lost>> /\ OnlyTask

(* The record names no picture, or a picture cannot be read.             *)
DeliverFails ==
  /\ At("delivering") /\ Ends("failed") /\ OnlyStep

Forget == deleting' = IF deleting = "no" THEN "out" ELSE deleting

(* All pictures are read; the last one is being sent.                    *)
LastRead ==
  /\ At("delivering") /\ result = "good"
  /\ Goes("last") /\ Forget
  /\ UNCHANGED <<phase, told, heard, left, look, missing, failures, lost, stop_reason, polls,
                 confirmed, said, newsVars, stopVars, comfyVars>>

LastSent ==
  /\ At("last") /\ Ends("pictures") /\ OnlyStep

(* The task is cancelled, wherever it is.                                *)
Cancelled ==
  /\ step \in TaskStep /\ ~GoesOn /\ Ends("cancelled") /\ OnlyStep

-----------------------------------------------------------------------------
(* Stops.                                                                *)

(* Picture.stop: only the first counts, and a drain spares a job that is *)
(* over.                                                                 *)
Stopped(why) ==
  stop_reason' = IF stop_reason = "none" /\ ~(why = "draining" /\ phase = "over")
                 THEN why ELSE stop_reason

(* A drain lets a job that is drawn finish (service._stop_inactive); its *)
(* deadline and a sleep's end do not.                                    *)
Stop(why) ==
  /\ step # "gone" /\ stop_reason = "none" /\ why # "client"
  /\ Stopped(why)
  /\ UNCHANGED <<taskVars, polls, confirmed, said, deleting, newsVars, stopVars, comfyVars>>

Known == step \notin {"answering", "gone"}

(* POST /v1/pictures/{job}/stop of a client that has had `accepted`      *)
AskStop ==
  /\ asked = "no" /\ phase \notin {"preparing", "submitting"} /\ wire # "none"
  /\ IF Known THEN asked' = "waiting" /\ Stopped("client")
     ELSE /\ asked' = IF unresolved THEN "unconfirmed" ELSE "not_found"
          /\ UNCHANGED stop_reason
  /\ UNCHANGED <<taskVars, polls, confirmed, said, deleting, newsVars, unresolved, turn, comfyVars>>

-----------------------------------------------------------------------------
(* cleanup, and comfy.stop_job                                           *)

MayHold == wire \notin {"none", "rejected", "unreachable"}

(* What the client hears; nobody hears of a stop of its own.             *)
Says ==
  IF confirmed' = "no" /\ stop_reason \notin UNHEARD THEN "unconfirmed"
  ELSE IF outcome = "cancelled" THEN IF stop_reason \in UNHEARD THEN "nothing" ELSE "error"
  ELSE IF outcome = "failed" THEN "error" ELSE "pictures"

(* The job is forgotten by the service, the client's own stop answered, and *)
(* the stream ends, if the client takes it.                                 *)
CleanedUp(how) ==
  /\ step' = "answering" /\ confirmed' = how /\ said' = Says
  /\ asked' = IF asked # "waiting" THEN asked ELSE IF how = "no" THEN "unconfirmed" ELSE "stopped"
  /\ unresolved' = (how = "no")
  /\ UNCHANGED <<phase, told, lost, outcome, stop_reason, turn>>

(* What only the task has read is of no use any more.                    *)
NewsDropped ==
  /\ heard' = {} /\ left' = FALSE /\ look' = FALSE /\ failures' = 0
  /\ inbox' = <<>> /\ listens' = "never" /\ watch' = "none" /\ view' = "none"

(* Fault: the cleanup does not wait for the submit.                      *)
Cleanup_NoWait ==
  /\ step = "done" /\ NewsDropped
  /\ IF MayHold /\ wire # "out" /\ phase # "over" /\ ~lost
     THEN /\ step' = "cancel" /\ missing' = 0
          /\ UNCHANGED <<phase, told, lost, outcome, endVars, stopVars>>
     ELSE /\ IF phase = "over" THEN Forget ELSE UNCHANGED deleting
          /\ CleanedUp("unknown")
          /\ missing' = 0 /\ UNCHANGED polls
  /\ UNCHANGED comfyVars

(* It waits for the submit, which nothing cuts short.                    *)
Cleanup ==
  /\ step = "done" /\ wire \notin {"out", "taken"} /\ NewsDropped
  /\ IF MayHold /\ phase # "over" /\ ~lost
     THEN /\ step' = "cancel" /\ missing' = 0
          /\ UNCHANGED <<phase, told, lost, outcome, endVars, stopVars>>
     ELSE /\ IF phase = "over" THEN Forget ELSE UNCHANGED deleting
          /\ CleanedUp("unknown")
          /\ missing' = 0 /\ UNCHANGED polls
  /\ UNCHANGED comfyVars

(* ComfyUI's cancel of the job takes effect, or fails without one.       *)
CancelLands ==
  \/ UNCHANGED <<card, interrupted>>
  \/ card = "pending" /\ card' = "none" /\ UNCHANGED interrupted
  \/ card = "running" /\ interrupted' = TRUE /\ UNCHANGED card

StopCancel ==
  /\ step = "cancel" /\ step' = "stop_queue"
  /\ CancelLands
  /\ UNCHANGED <<phase, told, heard, left, look, missing, failures, lost, outcome, endVars,
                 newsVars, stopVars, wire, result>>

(* Fault: a stop that ran out of reads counts as confirmed.              *)
NextPoll_Confirms ==
  /\ polls' = polls + 1
  /\ IF polls' < STOP_POLLS
     THEN /\ step' = "stop_queue"
          /\ UNCHANGED <<phase, told, lost, outcome, stop_reason, confirmed, said, stopVars>>
     ELSE CleanedUp("yes")
  /\ UNCHANGED deleting

NextPoll ==
  /\ polls' = polls + 1
  /\ IF polls' < STOP_POLLS
     THEN /\ step' = "stop_queue"
          /\ UNCHANGED <<phase, told, lost, outcome, stop_reason, confirmed, said, stopVars>>
     ELSE CleanedUp("no")
  /\ UNCHANGED deleting

StopReadFails ==
  /\ step \in {"stop_queue", "stop_history"}
  /\ NextPoll
  /\ missing' = IF polls' < STOP_POLLS THEN missing ELSE 0
  /\ CleanFrame

StopQueue ==
  /\ step = "stop_queue"
  /\ IF InQueue
     THEN NextPoll /\ missing' = 0
     ELSE /\ step' = "stop_history"
          /\ UNCHANGED <<phase, told, missing, lost, outcome, endVars, stopVars>>
  /\ CleanFrame

StopHistory ==
  /\ step = "stop_history"
  /\ IF card = "recorded" \/ missing > 0
     THEN CleanedUp("yes") /\ Forget /\ UNCHANGED <<polls, missing>>
     ELSE /\ NextPoll
          /\ missing' = IF polls' < STOP_POLLS THEN missing + 1 ELSE 0
  /\ CleanFrame

(* The client takes the end of its stream, or is given up.               *)
Answered ==
  /\ step = "answering" /\ step' = "gone"
  /\ OnlyStep /\ UNCHANGED outcome

-----------------------------------------------------------------------------
(* _resolve_stops, with each health check                                *)

ResolveCancel ==
  /\ unresolved /\ turn = "idle" /\ turn' = "queue"
  /\ card' = IF card = "pending" THEN "none" ELSE card
  /\ interrupted' = (interrupted \/ card = "running")
  /\ UNCHANGED <<taskVars, endVars, newsVars, unresolved, asked, wire, result>>

(* A request of it fails: so much for this check.                        *)
ResolveFails ==
  /\ unresolved /\ turn' = "idle"
  /\ IF turn = "idle" THEN CancelLands ELSE UNCHANGED <<card, interrupted>>
  /\ UNCHANGED <<taskVars, endVars, newsVars, unresolved, asked, wire, result>>

ResolveQueue ==
  /\ turn = "queue"
  /\ IF InQueue THEN missing' = 0 /\ turn' = "idle" ELSE turn' = "history" /\ UNCHANGED missing
  /\ UNCHANGED <<step, phase, told, heard, left, look, failures, lost, outcome, endVars, newsVars,
                 unresolved, asked, comfyVars>>

(* Fault: only a record resolves.                                        *)
ResolveHistory_RecordOnly ==
  /\ turn = "history" /\ turn' = "idle"
  /\ UNCHANGED missing
  /\ unresolved' = (card # "recorded")
  /\ IF card = "recorded" THEN Forget ELSE UNCHANGED deleting
  /\ UNCHANGED <<step, phase, told, heard, left, look, failures, lost, outcome, stop_reason, polls,
                 confirmed, said, newsVars, asked, comfyVars>>

ResolveHistory ==
  /\ turn = "history" /\ turn' = "idle"
  /\ unresolved' = ~(card = "recorded" \/ missing > 0)
  /\ missing' = IF unresolved' THEN missing + 1 ELSE 0
  /\ IF card = "recorded" THEN Forget ELSE UNCHANGED deleting
  /\ UNCHANGED <<step, phase, told, heard, left, look, failures, lost, outcome, stop_reason, polls,
                 confirmed, said, newsVars, asked, comfyVars>>

-----------------------------------------------------------------------------
(* The shared read of the queue (service._watch_queue), which another job  *)
(* may have begun.  A read that began before the job was taken is "early", *)
(* and of note only if it did not find the job.                            *)

WatchReads ==
  /\ watch = "none" /\ step \in TaskStep
  /\ watch' = CASE phase = "submitting" /\ ~InQueue -> "early"
                [] phase = "pending" /\ card = "pending" -> "pending"
                [] phase = "pending" /\ card \in {"running", "ending"} -> "running"
                [] phase = "pending" /\ ~InQueue -> "nowhere"
                [] OTHER -> "none"
  /\ watch' # "none"
  /\ UNCHANGED <<taskVars, endVars, inbox, listens, view, stopVars, comfyVars>>

WatchDone ==
  /\ watch # "none" /\ watch' = "none" /\ view' = watch
  /\ UNCHANGED <<taskVars, endVars, inbox, listens, stopVars, comfyVars>>

WatchFails ==
  /\ watch # "none" /\ watch' = "none"
  /\ UNCHANGED <<taskVars, endVars, inbox, listens, view, stopVars, comfyVars>>

-----------------------------------------------------------------------------
(* ComfyUI                                                               *)

Taken ==
  /\ wire = "out" /\ wire' = "taken" /\ card' = "pending"
  /\ UNCHANGED <<taskVars, endVars, newsVars, stopVars, result, interrupted>>

SubmitEnds ==
  /\ \/ wire = "out" /\ wire' \in {"rejected", "unreachable", "failed"}
     \/ wire = "taken" /\ wire' \in {"ok", "failed"}
  /\ UNCHANGED <<taskVars, endVars, newsVars, stopVars, card, result, interrupted>>

Listening == listens = "open" /\ step \in TaskStep \ {"delivering", "last"}

News(message) ==
  /\ inbox' = IF Listening THEN Append(inbox, message) ELSE inbox
  /\ UNCHANGED <<listens, watch, view>>

CardStarts ==
  /\ card = "pending" /\ card' = "running" /\ News("start")
  /\ UNCHANGED <<taskVars, endVars, stopVars, wire, result, interrupted>>

(* It has drawn, or failed, or saw its interruption.                     *)
CardDraws ==
  /\ card = "running" /\ card' = "ending"
  /\ result' \in IF interrupted THEN {"bad"} ELSE {"good", "bad"}
  /\ News(IF result' = "good" THEN "success" ELSE "error")
  /\ interrupted' = FALSE
  /\ UNCHANGED <<taskVars, endVars, stopVars, wire>>

CardRecords ==
  /\ card = "ending" /\ card' = "recorded" /\ News("over")
  /\ UNCHANGED <<taskVars, endVars, stopVars, wire, result, interrupted>>

(* What had not arrived is lost.                                         *)
Unheard ==
  /\ listens' = IF listens = "open" THEN "dropped" ELSE listens
  /\ \E n \in 0..Len(inbox) : inbox' = SubSeq(inbox, 1, n)

SocketDrops ==
  /\ listens = "open" /\ Unheard
  /\ UNCHANGED <<taskVars, endVars, watch, view, stopVars, comfyVars>>

Restarts ==
  /\ card # "none" \/ wire \in {"out", "taken"}
  /\ card' = "none" /\ Unheard
  /\ wire' = IF wire \in {"out", "taken"} THEN "failed" ELSE wire
  /\ UNCHANGED <<taskVars, endVars, watch, view, stopVars, result, interrupted>>

(* The delete of the record ends, well or not.                           *)
Deleted ==
  /\ deleting = "out" /\ deleting' = "ended"
  /\ \/ UNCHANGED card
     \/ card = "recorded" /\ card' = "none"
  /\ UNCHANGED <<taskVars, stop_reason, polls, confirmed, said, newsVars, stopVars, wire, result,
                 interrupted>>

-----------------------------------------------------------------------------
Follow  == TakeNews \/ Tells \/ TakeView \/ StartUnheard \/ Poll \/ DeliverHeard
Task    == SocketUnavailable \/ Submit \/ SubmitDone \/ Sent \/ Follow \/ PollFails \/ PollQueue
           \/ PollHistory \/ DeliverFails \/ LastRead \/ LastSent \/ Cancelled
Clean   == Cleanup \/ StopCancel \/ StopReadFails \/ StopQueue \/ StopHistory \/ Answered
Resolve == ResolveCancel \/ ResolveFails \/ ResolveQueue \/ ResolveHistory
Watch   == WatchReads \/ WatchDone \/ WatchFails
Comfy   == Taken \/ SubmitEnds \/ CardStarts \/ CardDraws \/ CardRecords
           \/ SocketDrops \/ Restarts \/ Deleted

Next ==
  \/ Accept \/ Task \/ Clean \/ Resolve \/ Watch \/ Comfy
  \/ AskStop \/ \E why \in Reason : Stop(why)

Spec == Init /\ [][Next]_vars

(***************************************************************************)
(* Tasks go on, requests end, a client reads what it is sent, and ComfyUI  *)
(* ends what it runs.  Between what it tells, a follow comes to its news   *)
(* and its reads again and again; reads of the queue and the requests of a *)
(* health check succeed now and then.  Nobody has to stop the job.         *)
(***************************************************************************)
Fairness ==
  /\ WF_vars((Task /\ ~At("follow")) \/ Clean)
  /\ SF_vars(TakeNews \/ StartUnheard \/ Poll \/ DeliverHeard) /\ SF_vars(TakeView)
  /\ WF_vars(SubmitEnds) /\ WF_vars(CardDraws \/ CardRecords)
  /\ WF_vars(WatchReads) /\ SF_vars(WatchDone)
  /\ SF_vars(ResolveCancel) /\ SF_vars(ResolveQueue) /\ SF_vars(ResolveHistory)

FairSpec == Spec /\ Fairness

-----------------------------------------------------------------------------
TypeOK ==
  /\ step \in Step /\ phase \in Phase /\ told \in BOOLEAN /\ heard \subseteq Message
  /\ left \in BOOLEAN /\ look \in BOOLEAN /\ missing \in 0..2 /\ failures \in 0..(RECORD_TRIES + 1)
  /\ lost \in BOOLEAN /\ outcome \in {"none", "failed", "cancelled", "pictures"}
  /\ stop_reason \in Reason \cup {"none"} /\ polls \in 0..STOP_POLLS
  /\ confirmed \in {"unknown", "yes", "no"}
  /\ said \in {"nothing", "pictures", "error", "unconfirmed"}
  /\ deleting \in {"no", "out", "ended"}
  /\ inbox \in Seq(Message) /\ listens \in {"never", "open", "dropped"}
  /\ watch \in {"none", "early", "pending", "running", "nowhere"}
  /\ view \in {"none", "early", "pending", "running", "nowhere"}
  /\ unresolved \in BOOLEAN /\ turn \in {"idle", "queue", "history"}
  /\ asked \in {"no", "waiting", "stopped", "unconfirmed", "not_found"}
  /\ wire \in {"none", "out", "taken", "ok", "rejected", "unreachable", "failed"}
  /\ card \in Place /\ result \in {"good", "bad"} /\ interrupted \in BOOLEAN

(* A job counts as drawing, which a drain lets finish, and its client is *)
(* told `started`, only once it waits no longer, whatever reads of the   *)
(* queue came late.                                                      *)
StartedIsStarted == told => card # "pending"

(* A job whose end is known to its client and its class is off the card, *)
(* or is one of the unresolved stops.                                    *)
EndedLeavesNothing == step \in {"answering", "gone"} /\ InQueue => unresolved

(* What the gateway says of a stop is so: `stopped`, `not_found`, and any   *)
(* end of a stream but stop_unconfirmed, mean that the job is off the card, *)
(* except that a client that stopped it itself hears no end.                *)
AnswersAreTrue ==
  /\ asked \in {"stopped", "not_found"} => ~InQueue
  /\ step \in {"answering", "gone"} /\ InQueue =>
       said \in {"unconfirmed", "nothing"} \/ stop_reason \in UNHEARD

(* A record is deleted after its job has ended, and only then: an earlier *)
(* delete would leave it.                                                 *)
RecordDeleted ==
  /\ deleting # "no" => ~InQueue
  /\ step = "gone" /\ ~unresolved /\ card = "recorded" => deleting # "no"

(* A stop that was not confirmed is resolved.                            *)
StopResolved == unresolved ~> ~unresolved
=============================================================================
