-------------------------- MODULE PictureJobProofs --------------------------
(***************************************************************************)
(* A job's three sources and its stops never leave a picture on the card   *)
(* unknown, and never say of it what is not so: for any limits on reads,   *)
(* and however the messages of its socket come, are cut or are lost.       *)
(***************************************************************************)
EXTENDS PictureJob, TLAPS

(* Its client's stream has its end, or is given up.                      *)
Ended == step \in {"answering", "gone"}

(* ComfyUI has taken the job, and it waits no longer.                    *)
Begun == wire \notin {"none", "out"} /\ card # "pending"

(* ComfyUI had the job, and has it no longer in its queue: it never will *)
(* again.                                                                *)
OffCard == wire \notin {"none", "out"} /\ ~InQueue

InInbox(m) == \E i \in 1..Len(inbox) : inbox[i] = m

Told(m) == m \in heard \/ InInbox(m)

(* Where the code of the job stands and what has become of its submit.   *)
WireInv ==
  /\ step = "preparing" => wire = "none"
  /\ step \in TaskStep \ {"preparing", "submitting"} => wire = "ok"
  /\ step \in {"cancel", "stop_queue", "stop_history"} => wire \in {"ok", "failed"}
  /\ Ended => wire \notin {"out", "taken"}
  /\ phase \in {"pending", "drawing"} => wire = "ok"
  /\ phase = "over" => wire = "ok" \/ (wire = "none" /\ step = "gone")
  /\ wire \in {"none", "out", "rejected", "unreachable"} => card = "none"

(* What the job has read, or will read, of the card, however late.       *)
NewsInv ==
  /\ told \/ left \/ Told("start") => Begun
  /\ watch \in {"running", "nowhere"} \/ view \in {"running", "nowhere"} => Begun
  /\ Told("over") \/ deleting # "no" => OffCard
  /\ lost => OffCard /\ card = "none"
  /\ step \in {"history", "stop_history"} \/ phase = "over" => ~InQueue
  /\ step \in {"delivering", "last"} => phase = "over"

(* Who waits for the end of a stop.                                      *)
StopInv ==
  /\ turn # "idle" => unresolved
  /\ turn = "history" => ~InQueue
  /\ unresolved \/ asked \in {"stopped", "not_found"} => Ended
  /\ Ended /\ ~unresolved /\ card = "recorded" => deleting # "no"

(* Reads are counted up to their limits.                                 *)
BoundInv ==
  /\ missing <= 1 \/ step = "done"
  /\ failures <= RECORD_TRIES \/ step = "done"
  /\ polls < STOP_POLLS \/ Ended

IInv ==
  /\ TypeOK /\ WireInv /\ NewsInv /\ StopInv /\ BoundInv
  /\ StartedIsStarted /\ EndedLeavesNothing /\ AnswersAreTrue /\ RecordDeleted

(* TypeOK in parts                                                       *)
StepTypes   == step \in Step /\ lost \in BOOLEAN /\ outcome \in {"none", "failed", "cancelled", "pictures"}
FollowTypes == phase \in Phase /\ told \in BOOLEAN /\ heard \subseteq Message /\ left \in BOOLEAN /\ look \in BOOLEAN
CountTypes  == missing \in 0..2 /\ failures \in 0..(RECORD_TRIES + 1) /\ polls \in 0..STOP_POLLS
EndTypes ==
  /\ stop_reason \in Reason \cup {"none"} /\ confirmed \in {"unknown", "yes", "no"}
  /\ said \in {"nothing", "pictures", "error", "unconfirmed"} /\ deleting \in {"no", "out", "ended"}
  /\ unresolved \in BOOLEAN /\ turn \in {"idle", "queue", "history"}
  /\ asked \in {"no", "waiting", "stopped", "unconfirmed", "not_found"}
NewsTypes ==
  /\ inbox \in Seq(Message) /\ listens \in {"never", "open", "dropped"}
  /\ watch \in {"none", "early", "pending", "running", "nowhere"}
  /\ view \in {"none", "early", "pending", "running", "nowhere"}
ComfyTypes ==
  /\ wire \in {"none", "out", "taken", "ok", "rejected", "unreachable", "failed"}
  /\ card \in Place /\ result \in {"good", "bad"} /\ interrupted \in BOOLEAN

USE PictureJobAssumption DEF PictureJobAssumption
USE DEF taskVars, followVars, endVars, newsVars, stopVars, comfyVars, OnlyTask, OnlyStep, CleanFrame,
        GoesOn, At, Goes, Ends, InQueue, Ended, Begun, OffCard, TaskStep, Cleaning, Step, Phase, Place,
        UNHEARD, Message, EndedLeavesNothing, AnswersAreTrue, RecordDeleted, StartedIsStarted

-----------------------------------------------------------------------------
(* The messages of the socket.                                           *)
LEMMA InboxLoses ==
  ASSUME inbox \in Seq(Message), inbox # <<>>, inbox' = Tail(inbox)
  PROVE  /\ inbox' \in Seq(Message) /\ Head(inbox) \in Message
         /\ \A m : InInbox(m)' => InInbox(m)
         /\ InInbox(Head(inbox))
BY DEF InInbox

LEMMA InboxGains ==
  ASSUME inbox \in Seq(Message), NEW a \in Message, inbox' = Append(inbox, a)
  PROVE  inbox' \in Seq(Message) /\ \A m : InInbox(m)' => InInbox(m) \/ m = a
BY DEF InInbox

LEMMA InboxCut ==
  ASSUME inbox \in Seq(Message), Unheard
  PROVE  inbox' \in Seq(Message) /\ \A m : InInbox(m)' => InInbox(m)
BY DEF InInbox, Unheard

LEMMA InboxStays ==
  ASSUME UNCHANGED inbox
  PROVE  \A m : InInbox(m)' <=> InInbox(m)
BY DEF InInbox

LEMMA InboxEmpty ==
  ASSUME inbox' = <<>>
  PROVE  \A m : ~InInbox(m)'
BY DEF InInbox

LEMMA NewsComes ==
  ASSUME inbox \in Seq(Message), NEW a \in Message, News(a)
  PROVE  inbox' \in Seq(Message) /\ \A m : InInbox(m)' => InInbox(m) \/ m = a
<1>1. CASE inbox' = inbox
  BY <1>1, InboxStays
<1>2. CASE inbox' = Append(inbox, a)
  BY <1>2, InboxGains
<1> QED BY <1>1, <1>2 DEF News

-----------------------------------------------------------------------------
(* A new job begins.                                                      *)
LEMMA AcceptStep ==
  ASSUME IInv, Accept
  PROVE  IInv'
<1> USE DEF IInv
<1>1. TypeOK'
  <2>1. StepTypes'
    BY DEF TypeOK, WireInv, BoundInv, StopInv, StepTypes, Accept
  <2>2. FollowTypes'
    BY DEF TypeOK, WireInv, BoundInv, StopInv, FollowTypes, Accept
  <2>3. CountTypes'
    BY DEF TypeOK, WireInv, BoundInv, StopInv, CountTypes, Accept
  <2>4. EndTypes'
    BY DEF TypeOK, WireInv, BoundInv, StopInv, EndTypes, Accept
  <2>5. NewsTypes'
    BY DEF TypeOK, WireInv, BoundInv, StopInv, NewsTypes, Accept
  <2>6. ComfyTypes'
    BY DEF TypeOK, WireInv, BoundInv, StopInv, ComfyTypes, Accept
  <2> QED BY <2>1, <2>2, <2>3, <2>4, <2>5, <2>6 DEF TypeOK, StepTypes, FollowTypes, CountTypes, EndTypes, NewsTypes, ComfyTypes
<1>2. WireInv' /\ BoundInv'
  BY DEF TypeOK, WireInv, StopInv, BoundInv, Accept
<1>3. NewsInv' /\ StopInv'
  BY InboxEmpty DEF TypeOK, WireInv, NewsInv, StopInv, Told, Accept
<1>4. StartedIsStarted' /\ EndedLeavesNothing' /\ AnswersAreTrue' /\ RecordDeleted'
  BY DEF TypeOK, WireInv, NewsInv, StopInv, Accept
<1> QED BY <1>1, <1>2, <1>3, <1>4

LEMMA SocketUnavailableStep ==
  ASSUME IInv, SocketUnavailable
  PROVE  IInv'
<1> USE DEF IInv
<1>1. TypeOK'
  BY DEF TypeOK, WireInv, BoundInv, StopInv, SocketUnavailable
<1>2. WireInv' /\ BoundInv'
  BY DEF TypeOK, WireInv, StopInv, BoundInv, SocketUnavailable
<1>3. NewsInv' /\ StopInv'
  BY InboxStays DEF TypeOK, WireInv, NewsInv, StopInv, Told, SocketUnavailable
<1>4. StartedIsStarted' /\ EndedLeavesNothing' /\ AnswersAreTrue' /\ RecordDeleted'
  BY DEF TypeOK, WireInv, NewsInv, StopInv, SocketUnavailable
<1> QED BY <1>1, <1>2, <1>3, <1>4

LEMMA SubmitStep ==
  ASSUME IInv, Submit
  PROVE  IInv'
<1> USE DEF IInv
<1>1. TypeOK'
  BY DEF TypeOK, WireInv, BoundInv, StopInv, Submit
<1>2. WireInv' /\ BoundInv'
  BY DEF TypeOK, WireInv, StopInv, BoundInv, Submit
<1>3. NewsInv' /\ StopInv'
  BY InboxStays DEF TypeOK, WireInv, NewsInv, StopInv, Told, Submit
<1>4. StartedIsStarted' /\ EndedLeavesNothing' /\ AnswersAreTrue' /\ RecordDeleted'
  BY DEF TypeOK, WireInv, NewsInv, StopInv, Submit
<1> QED BY <1>1, <1>2, <1>3, <1>4

(* The submit has its answer.                                             *)
LEMMA SubmitDoneStep ==
  ASSUME IInv, SubmitDone
  PROVE  IInv'
<1> USE DEF IInv
<1>1. TypeOK'
  BY DEF TypeOK, WireInv, BoundInv, StopInv, SubmitDone
<1>2. WireInv' /\ BoundInv'
  BY DEF TypeOK, WireInv, StopInv, BoundInv, SubmitDone
<1>3. NewsInv' /\ StopInv'
  BY InboxStays DEF TypeOK, WireInv, NewsInv, StopInv, Told, SubmitDone
<1>4. StartedIsStarted' /\ EndedLeavesNothing' /\ AnswersAreTrue' /\ RecordDeleted'
  BY DEF TypeOK, WireInv, NewsInv, StopInv, SubmitDone
<1> QED BY <1>1, <1>2, <1>3, <1>4

LEMMA SentStep ==
  ASSUME IInv, Sent
  PROVE  IInv'
<1> USE DEF IInv
<1>1. TypeOK'
  BY DEF TypeOK, WireInv, BoundInv, StopInv, Sent
<1>2. WireInv' /\ BoundInv'
  BY DEF TypeOK, WireInv, StopInv, BoundInv, Sent
<1>3. NewsInv' /\ StopInv'
  BY InboxStays DEF TypeOK, WireInv, NewsInv, StopInv, Told, Sent
<1>4. StartedIsStarted' /\ EndedLeavesNothing' /\ AnswersAreTrue' /\ RecordDeleted'
  BY DEF TypeOK, WireInv, NewsInv, StopInv, Sent
<1> QED BY <1>1, <1>2, <1>3, <1>4

(* It hears its socket.                                                   *)
LEMMA TakeNewsStep ==
  ASSUME IInv, TakeNews
  PROVE  IInv'
<1> USE DEF IInv
<1>1. TypeOK'
  <2>1. StepTypes'
    BY DEF TypeOK, WireInv, BoundInv, StopInv, StepTypes, TakeNews, Starts
  <2>2. FollowTypes'
    <3>1. Head(inbox) \in Message /\ look' \in BOOLEAN /\ left' = left /\ heard' = heard \cup {Head(inbox)}
      BY InboxLoses DEF TypeOK, TakeNews
    <3>2. phase' \in Phase /\ told' \in BOOLEAN
      BY DEF TypeOK, TakeNews, Starts
    <3> QED BY <3>1, <3>2 DEF TypeOK, FollowTypes
  <2>3. CountTypes'
    BY DEF TypeOK, WireInv, BoundInv, StopInv, CountTypes, TakeNews, Starts
  <2>4. EndTypes'
    BY DEF TypeOK, WireInv, BoundInv, StopInv, EndTypes, TakeNews, Starts
  <2>5. NewsTypes'
    BY DEF TypeOK, WireInv, BoundInv, StopInv, NewsTypes, TakeNews, Starts
  <2>6. ComfyTypes'
    BY DEF TypeOK, WireInv, BoundInv, StopInv, ComfyTypes, TakeNews, Starts
  <2> QED BY <2>1, <2>2, <2>3, <2>4, <2>5, <2>6 DEF TypeOK, StepTypes, FollowTypes, CountTypes, EndTypes, NewsTypes, ComfyTypes
<1>2. WireInv' /\ BoundInv'
  BY DEF TypeOK, WireInv, StopInv, BoundInv, TakeNews, Starts
<1>3. NewsInv' /\ StopInv'
  BY InboxLoses DEF TypeOK, WireInv, NewsInv, StopInv, Told, TakeNews, Starts
<1>4. StartedIsStarted' /\ EndedLeavesNothing' /\ AnswersAreTrue' /\ RecordDeleted'
  <2>1. StartedIsStarted'
    BY <1>3 DEF NewsInv
  <2>2. EndedLeavesNothing' /\ AnswersAreTrue' /\ RecordDeleted'
    BY DEF TypeOK, StopInv, TakeNews, Starts
  <2> QED BY <2>1, <2>2
<1> QED BY <1>1, <1>2, <1>3, <1>4

LEMMA TellsStep ==
  ASSUME IInv, Tells
  PROVE  IInv'
<1> USE DEF IInv
<1>1. TypeOK'
  BY DEF TypeOK, WireInv, BoundInv, StopInv, Tells, HeardAll
<1>2. WireInv' /\ BoundInv'
  BY DEF TypeOK, WireInv, StopInv, BoundInv, Tells, HeardAll
<1>3. NewsInv' /\ StopInv'
  BY InboxStays DEF TypeOK, WireInv, NewsInv, StopInv, Told, Tells, HeardAll
<1>4. StartedIsStarted' /\ EndedLeavesNothing' /\ AnswersAreTrue' /\ RecordDeleted'
  BY DEF TypeOK, WireInv, NewsInv, StopInv, Tells, HeardAll
<1> QED BY <1>1, <1>2, <1>3, <1>4

(* It looks at the shared read of the queue.                              *)
LEMMA TakeViewStep ==
  ASSUME IInv, TakeView
  PROVE  IInv'
<1> USE DEF IInv
<1>1. TypeOK'
  BY DEF TypeOK, WireInv, BoundInv, StopInv, TakeView, HeardAll
<1>2. WireInv' /\ BoundInv'
  BY DEF TypeOK, WireInv, StopInv, BoundInv, TakeView, HeardAll
<1>3. NewsInv' /\ StopInv'
  BY InboxStays DEF TypeOK, WireInv, NewsInv, StopInv, Told, TakeView, HeardAll
<1>4. StartedIsStarted' /\ EndedLeavesNothing' /\ AnswersAreTrue' /\ RecordDeleted'
  BY DEF TypeOK, WireInv, NewsInv, StopInv, TakeView, HeardAll
<1> QED BY <1>1, <1>2, <1>3, <1>4

LEMMA StartUnheardStep ==
  ASSUME IInv, StartUnheard
  PROVE  IInv'
<1> USE DEF IInv
<1>1. TypeOK'
  BY DEF TypeOK, WireInv, BoundInv, StopInv, StartUnheard, Starts, HeardAll
<1>2. WireInv' /\ BoundInv'
  BY DEF TypeOK, WireInv, StopInv, BoundInv, StartUnheard, Starts, HeardAll
<1>3. NewsInv' /\ StopInv'
  BY InboxStays DEF TypeOK, WireInv, NewsInv, StopInv, Told, StartUnheard, Starts, HeardAll
<1>4. StartedIsStarted' /\ EndedLeavesNothing' /\ AnswersAreTrue' /\ RecordDeleted'
  BY DEF TypeOK, WireInv, NewsInv, StopInv, StartUnheard, Starts, HeardAll
<1> QED BY <1>1, <1>2, <1>3, <1>4

LEMMA PollStep ==
  ASSUME IInv, Poll
  PROVE  IInv'
<1> USE DEF IInv
<1>1. TypeOK'
  <2>1. StepTypes'
    BY DEF TypeOK, WireInv, BoundInv, StopInv, StepTypes, Poll, PollDue, HeardAll
  <2>2. FollowTypes'
    BY DEF TypeOK, WireInv, BoundInv, StopInv, FollowTypes, Poll, PollDue, HeardAll
  <2>3. CountTypes'
    BY DEF TypeOK, WireInv, BoundInv, StopInv, CountTypes, Poll, PollDue, HeardAll
  <2>4. EndTypes'
    BY DEF TypeOK, WireInv, BoundInv, StopInv, EndTypes, Poll, PollDue, HeardAll
  <2>5. NewsTypes'
    BY DEF TypeOK, WireInv, BoundInv, StopInv, NewsTypes, Poll, PollDue, HeardAll
  <2>6. ComfyTypes'
    BY DEF TypeOK, WireInv, BoundInv, StopInv, ComfyTypes, Poll, PollDue, HeardAll
  <2> QED BY <2>1, <2>2, <2>3, <2>4, <2>5, <2>6 DEF TypeOK, StepTypes, FollowTypes, CountTypes, EndTypes, NewsTypes, ComfyTypes
<1>2. WireInv' /\ BoundInv'
  BY DEF TypeOK, WireInv, StopInv, BoundInv, Poll, PollDue, HeardAll
<1>3. NewsInv' /\ StopInv'
  BY InboxStays DEF TypeOK, WireInv, NewsInv, StopInv, Told, Poll, PollDue, HeardAll
<1>4. StartedIsStarted' /\ EndedLeavesNothing' /\ AnswersAreTrue' /\ RecordDeleted'
  BY DEF TypeOK, WireInv, NewsInv, StopInv, Poll, PollDue, HeardAll
<1> QED BY <1>1, <1>2, <1>3, <1>4

LEMMA DeliverHeardStep ==
  ASSUME IInv, DeliverHeard
  PROVE  IInv'
<1> USE DEF IInv
<1>1. TypeOK'
  BY DEF TypeOK, WireInv, BoundInv, StopInv, DeliverHeard, HeardAll
<1>2. WireInv' /\ BoundInv'
  BY DEF TypeOK, WireInv, StopInv, BoundInv, DeliverHeard, HeardAll
<1>3. NewsInv' /\ StopInv'
  BY InboxStays DEF TypeOK, WireInv, NewsInv, StopInv, Told, DeliverHeard, HeardAll
<1>4. StartedIsStarted' /\ EndedLeavesNothing' /\ AnswersAreTrue' /\ RecordDeleted'
  <2>1. StartedIsStarted'
    BY <1>3 DEF NewsInv
  <2>2. EndedLeavesNothing' /\ AnswersAreTrue' /\ RecordDeleted'
    BY DEF TypeOK, StopInv, DeliverHeard
  <2> QED BY <2>1, <2>2
<1> QED BY <1>1, <1>2, <1>3, <1>4

LEMMA PollFailsStep ==
  ASSUME IInv, PollFails
  PROVE  IInv'
<1> USE DEF IInv
<1>1. TypeOK'
  BY DEF TypeOK, WireInv, BoundInv, StopInv, PollFails
<1>2. WireInv' /\ BoundInv'
  BY DEF TypeOK, WireInv, StopInv, BoundInv, PollFails
<1>3. NewsInv' /\ StopInv'
  BY InboxStays DEF TypeOK, WireInv, NewsInv, StopInv, Told, PollFails
<1>4. StartedIsStarted' /\ EndedLeavesNothing' /\ AnswersAreTrue' /\ RecordDeleted'
  BY DEF TypeOK, WireInv, NewsInv, StopInv, PollFails
<1> QED BY <1>1, <1>2, <1>3, <1>4

LEMMA PollQueueStep ==
  ASSUME IInv, PollQueue
  PROVE  IInv'
<1> USE DEF IInv
<1>1. TypeOK'
  <2>1. StepTypes'
    BY DEF TypeOK, WireInv, BoundInv, StopInv, StepTypes, PollQueue
  <2>2. FollowTypes'
    BY DEF TypeOK, WireInv, BoundInv, StopInv, FollowTypes, PollQueue
  <2>3. CountTypes'
    BY DEF TypeOK, WireInv, BoundInv, StopInv, CountTypes, PollQueue
  <2>4. EndTypes'
    BY DEF TypeOK, WireInv, BoundInv, StopInv, EndTypes, PollQueue
  <2>5. NewsTypes'
    BY DEF TypeOK, WireInv, BoundInv, StopInv, NewsTypes, PollQueue
  <2>6. ComfyTypes'
    BY DEF TypeOK, WireInv, BoundInv, StopInv, ComfyTypes, PollQueue
  <2> QED BY <2>1, <2>2, <2>3, <2>4, <2>5, <2>6 DEF TypeOK, StepTypes, FollowTypes, CountTypes, EndTypes, NewsTypes, ComfyTypes
<1>2. WireInv' /\ BoundInv'
  BY DEF TypeOK, WireInv, StopInv, BoundInv, PollQueue
<1>3. NewsInv' /\ StopInv'
  BY InboxStays DEF TypeOK, WireInv, NewsInv, StopInv, Told, PollQueue
<1>4. StartedIsStarted' /\ EndedLeavesNothing' /\ AnswersAreTrue' /\ RecordDeleted'
  BY DEF TypeOK, WireInv, NewsInv, StopInv, PollQueue
<1> QED BY <1>1, <1>2, <1>3, <1>4

(* It reads its record.                                                   *)
LEMMA PollHistoryStep ==
  ASSUME IInv, PollHistory
  PROVE  IInv'
<1> USE DEF IInv
<1>1. TypeOK'
  <2>1. StepTypes'
    <3>1. lost' \in BOOLEAN
      <4>1. lost' = lost \/ lost' = (missing' > 1)
        BY DEF PollHistory
      <4>2. lost \in BOOLEAN /\ (missing' > 1) \in BOOLEAN
        BY DEF TypeOK
      <4> QED BY <4>1, <4>2
    <3>2. step' \in Step /\ outcome' \in {"none", "failed", "cancelled", "pictures"}
      BY DEF TypeOK, PollHistory
    <3> QED BY <3>1, <3>2 DEF StepTypes
  <2>2. FollowTypes'
    BY DEF TypeOK, WireInv, BoundInv, StopInv, FollowTypes, PollHistory
  <2>3. CountTypes'
    BY DEF TypeOK, WireInv, BoundInv, StopInv, CountTypes, PollHistory
  <2>4. EndTypes'
    BY DEF TypeOK, WireInv, BoundInv, StopInv, EndTypes, PollHistory
  <2>5. NewsTypes'
    BY DEF TypeOK, WireInv, BoundInv, StopInv, NewsTypes, PollHistory
  <2>6. ComfyTypes'
    BY DEF TypeOK, WireInv, BoundInv, StopInv, ComfyTypes, PollHistory
  <2> QED BY <2>1, <2>2, <2>3, <2>4, <2>5, <2>6 DEF TypeOK, StepTypes, FollowTypes, CountTypes, EndTypes, NewsTypes, ComfyTypes
<1>2. WireInv' /\ BoundInv'
  <2>1. WireInv'
    BY DEF TypeOK, WireInv, PollHistory
  <2>2. missing' <= 1 \/ step' = "done"
    <3>1. CASE card = "recorded"
      BY <3>1 DEF PollHistory
    <3>2. CASE card # "recorded"
      <4>1. missing' = missing + 1 /\ lost' = (missing' > 1)
        BY <3>2 DEF PollHistory
      <4>2. lost' => step' = "done"
        BY <3>2 DEF PollHistory
      <4>3. missing' \in Nat
        BY <4>1 DEF TypeOK
      <4>4. CASE missing' > 1
        <5>1. lost'
          BY <4>1, <4>4, Zenon
        <5> QED BY <4>2, <5>1
      <4>5. CASE ~(missing' > 1)
        BY <4>3, <4>5
      <4> QED BY <4>4, <4>5
    <3> QED BY <3>1, <3>2
  <2>3. failures' <= RECORD_TRIES /\ polls' < STOP_POLLS
    BY DEF TypeOK, BoundInv, PollHistory
  <2> QED BY <2>1, <2>2, <2>3 DEF BoundInv
<1>3. NewsInv' /\ StopInv'
  BY InboxStays DEF TypeOK, WireInv, NewsInv, StopInv, Told, PollHistory
<1>4. StartedIsStarted' /\ EndedLeavesNothing' /\ AnswersAreTrue' /\ RecordDeleted'
  BY DEF TypeOK, WireInv, NewsInv, StopInv, PollHistory
<1> QED BY <1>1, <1>2, <1>3, <1>4

LEMMA DeliverFailsStep ==
  ASSUME IInv, DeliverFails
  PROVE  IInv'
<1> USE DEF IInv
<1>1. TypeOK'
  BY DEF TypeOK, WireInv, BoundInv, StopInv, DeliverFails
<1>2. WireInv' /\ BoundInv'
  BY DEF TypeOK, WireInv, StopInv, BoundInv, DeliverFails
<1>3. NewsInv' /\ StopInv'
  BY InboxStays DEF TypeOK, WireInv, NewsInv, StopInv, Told, DeliverFails
<1>4. StartedIsStarted' /\ EndedLeavesNothing' /\ AnswersAreTrue' /\ RecordDeleted'
  BY DEF TypeOK, WireInv, NewsInv, StopInv, DeliverFails
<1> QED BY <1>1, <1>2, <1>3, <1>4

LEMMA LastReadStep ==
  ASSUME IInv, LastRead
  PROVE  IInv'
<1> USE DEF IInv
<1>1. TypeOK'
  BY DEF TypeOK, WireInv, BoundInv, StopInv, LastRead, Forget
<1>2. WireInv' /\ BoundInv'
  BY DEF TypeOK, WireInv, StopInv, BoundInv, LastRead, Forget
<1>3. NewsInv' /\ StopInv'
  BY InboxStays DEF TypeOK, WireInv, NewsInv, StopInv, Told, LastRead, Forget
<1>4. StartedIsStarted' /\ EndedLeavesNothing' /\ AnswersAreTrue' /\ RecordDeleted'
  BY DEF TypeOK, WireInv, NewsInv, StopInv, LastRead, Forget
<1> QED BY <1>1, <1>2, <1>3, <1>4

LEMMA LastSentStep ==
  ASSUME IInv, LastSent
  PROVE  IInv'
<1> USE DEF IInv
<1>1. TypeOK'
  BY DEF TypeOK, WireInv, BoundInv, StopInv, LastSent
<1>2. WireInv' /\ BoundInv'
  BY DEF TypeOK, WireInv, StopInv, BoundInv, LastSent
<1>3. NewsInv' /\ StopInv'
  BY InboxStays DEF TypeOK, WireInv, NewsInv, StopInv, Told, LastSent
<1>4. StartedIsStarted' /\ EndedLeavesNothing' /\ AnswersAreTrue' /\ RecordDeleted'
  BY DEF TypeOK, WireInv, NewsInv, StopInv, LastSent
<1> QED BY <1>1, <1>2, <1>3, <1>4

LEMMA CancelledStep ==
  ASSUME IInv, Cancelled
  PROVE  IInv'
<1> USE DEF IInv
<1>1. TypeOK'
  BY DEF TypeOK, WireInv, BoundInv, StopInv, Cancelled
<1>2. WireInv' /\ BoundInv'
  BY DEF TypeOK, WireInv, StopInv, BoundInv, Cancelled
<1>3. NewsInv' /\ StopInv'
  BY InboxStays DEF TypeOK, WireInv, NewsInv, StopInv, Told, Cancelled
<1>4. StartedIsStarted' /\ EndedLeavesNothing' /\ AnswersAreTrue' /\ RecordDeleted'
  BY DEF TypeOK, WireInv, NewsInv, StopInv, Cancelled
<1> QED BY <1>1, <1>2, <1>3, <1>4

(* Its cleanup begins.                                                    *)
LEMMA CleanupStep ==
  ASSUME IInv, Cleanup
  PROVE  IInv'
<1> USE DEF IInv
<1>1. TypeOK'
  <2>1. StepTypes'
    BY DEF TypeOK, WireInv, BoundInv, StopInv, StepTypes, Cleanup, NewsDropped, MayHold, Forget, CleanedUp, Says
  <2>2. FollowTypes'
    BY DEF TypeOK, WireInv, BoundInv, StopInv, FollowTypes, Cleanup, NewsDropped, MayHold, Forget, CleanedUp, Says
  <2>3. CountTypes'
    BY DEF TypeOK, WireInv, BoundInv, StopInv, CountTypes, Cleanup, NewsDropped, MayHold, Forget, CleanedUp, Says
  <2>4. EndTypes'
    BY DEF TypeOK, WireInv, BoundInv, StopInv, EndTypes, Cleanup, NewsDropped, MayHold, Forget, CleanedUp, Says
  <2>5. NewsTypes'
    BY DEF TypeOK, WireInv, BoundInv, StopInv, NewsTypes, Cleanup, NewsDropped, MayHold, Forget, CleanedUp, Says
  <2>6. ComfyTypes'
    BY DEF TypeOK, WireInv, BoundInv, StopInv, ComfyTypes, Cleanup, NewsDropped, MayHold, Forget, CleanedUp, Says
  <2> QED BY <2>1, <2>2, <2>3, <2>4, <2>5, <2>6 DEF TypeOK, StepTypes, FollowTypes, CountTypes, EndTypes, NewsTypes, ComfyTypes
<1>2. WireInv' /\ BoundInv'
  BY DEF TypeOK, WireInv, StopInv, BoundInv, Cleanup, NewsDropped, MayHold, Forget, CleanedUp, Says
<1>3. NewsInv' /\ StopInv'
  BY InboxEmpty DEF TypeOK, WireInv, NewsInv, StopInv, Told, Cleanup, NewsDropped, MayHold, Forget, CleanedUp, Says
<1>4. StartedIsStarted' /\ EndedLeavesNothing' /\ AnswersAreTrue' /\ RecordDeleted'
  BY DEF TypeOK, WireInv, NewsInv, StopInv, Cleanup, NewsDropped, MayHold, Forget, CleanedUp, Says
<1> QED BY <1>1, <1>2, <1>3, <1>4

(* The stop's own steps: the cancel, the reads of the queue and of the *)
(* history that follow it, and what it answers.                        *)
LEMMA StopCancelStep ==
  ASSUME IInv, StopCancel
  PROVE  IInv'
<1> USE DEF IInv
<1>1. TypeOK'
  <2>1. StepTypes'
    BY DEF TypeOK, WireInv, BoundInv, StopInv, StepTypes, StopCancel, CancelLands
  <2>2. FollowTypes'
    BY DEF TypeOK, WireInv, BoundInv, StopInv, FollowTypes, StopCancel, CancelLands
  <2>3. CountTypes'
    BY DEF TypeOK, WireInv, BoundInv, StopInv, CountTypes, StopCancel, CancelLands
  <2>4. EndTypes'
    BY DEF TypeOK, WireInv, BoundInv, StopInv, EndTypes, StopCancel, CancelLands
  <2>5. NewsTypes'
    BY DEF TypeOK, WireInv, BoundInv, StopInv, NewsTypes, StopCancel, CancelLands
  <2>6. ComfyTypes'
    BY DEF TypeOK, WireInv, BoundInv, StopInv, ComfyTypes, StopCancel, CancelLands
  <2> QED BY <2>1, <2>2, <2>3, <2>4, <2>5, <2>6 DEF TypeOK, StepTypes, FollowTypes, CountTypes, EndTypes, NewsTypes, ComfyTypes
<1>2. WireInv' /\ BoundInv'
  BY DEF TypeOK, WireInv, StopInv, BoundInv, StopCancel, CancelLands
<1>3. NewsInv' /\ StopInv'
  BY InboxStays DEF TypeOK, WireInv, NewsInv, StopInv, Told, StopCancel, CancelLands
<1>4. StartedIsStarted' /\ EndedLeavesNothing' /\ AnswersAreTrue' /\ RecordDeleted'
  BY DEF TypeOK, WireInv, NewsInv, StopInv, StopCancel, CancelLands
<1> QED BY <1>1, <1>2, <1>3, <1>4

LEMMA StopReadFailsStep ==
  ASSUME IInv, StopReadFails
  PROVE  IInv'
<1> USE DEF IInv
<1>1. TypeOK'
  <2>1. StepTypes'
    BY DEF TypeOK, WireInv, BoundInv, StopInv, StepTypes, StopReadFails, NextPoll, CleanedUp, Says
  <2>2. FollowTypes'
    BY DEF TypeOK, WireInv, BoundInv, StopInv, FollowTypes, StopReadFails, NextPoll, CleanedUp, Says
  <2>3. CountTypes'
    BY DEF TypeOK, WireInv, BoundInv, StopInv, CountTypes, StopReadFails, NextPoll, CleanedUp, Says
  <2>4. EndTypes'
    BY DEF TypeOK, WireInv, BoundInv, StopInv, EndTypes, StopReadFails, NextPoll, CleanedUp, Says
  <2>5. NewsTypes'
    BY DEF TypeOK, WireInv, BoundInv, StopInv, NewsTypes, StopReadFails, NextPoll, CleanedUp, Says
  <2>6. ComfyTypes'
    BY DEF TypeOK, WireInv, BoundInv, StopInv, ComfyTypes, StopReadFails, NextPoll, CleanedUp, Says
  <2> QED BY <2>1, <2>2, <2>3, <2>4, <2>5, <2>6 DEF TypeOK, StepTypes, FollowTypes, CountTypes, EndTypes, NewsTypes, ComfyTypes
<1>2. WireInv' /\ BoundInv'
  BY DEF TypeOK, WireInv, StopInv, BoundInv, StopReadFails, NextPoll, CleanedUp, Says
<1>3. NewsInv' /\ StopInv'
  BY InboxStays DEF TypeOK, WireInv, NewsInv, StopInv, Told, StopReadFails, NextPoll, CleanedUp, Says
<1>4. StartedIsStarted' /\ EndedLeavesNothing' /\ AnswersAreTrue' /\ RecordDeleted'
  BY DEF TypeOK, WireInv, NewsInv, StopInv, StopReadFails, NextPoll, CleanedUp, Says
<1> QED BY <1>1, <1>2, <1>3, <1>4

LEMMA StopQueueStep ==
  ASSUME IInv, StopQueue
  PROVE  IInv'
<1> USE DEF IInv
<1>1. TypeOK'
  <2>1. StepTypes'
    BY DEF TypeOK, WireInv, BoundInv, StopInv, StepTypes, StopQueue, NextPoll, CleanedUp, Says
  <2>2. FollowTypes'
    BY DEF TypeOK, WireInv, BoundInv, StopInv, FollowTypes, StopQueue, NextPoll, CleanedUp, Says
  <2>3. CountTypes'
    BY DEF TypeOK, WireInv, BoundInv, StopInv, CountTypes, StopQueue, NextPoll, CleanedUp, Says
  <2>4. EndTypes'
    BY DEF TypeOK, WireInv, BoundInv, StopInv, EndTypes, StopQueue, NextPoll, CleanedUp, Says
  <2>5. NewsTypes'
    BY DEF TypeOK, WireInv, BoundInv, StopInv, NewsTypes, StopQueue, NextPoll, CleanedUp, Says
  <2>6. ComfyTypes'
    BY DEF TypeOK, WireInv, BoundInv, StopInv, ComfyTypes, StopQueue, NextPoll, CleanedUp, Says
  <2> QED BY <2>1, <2>2, <2>3, <2>4, <2>5, <2>6 DEF TypeOK, StepTypes, FollowTypes, CountTypes, EndTypes, NewsTypes, ComfyTypes
<1>2. WireInv' /\ BoundInv'
  BY DEF TypeOK, WireInv, StopInv, BoundInv, StopQueue, NextPoll, CleanedUp, Says
<1>3. NewsInv' /\ StopInv'
  BY InboxStays DEF TypeOK, WireInv, NewsInv, StopInv, Told, StopQueue, NextPoll, CleanedUp, Says
<1>4. StartedIsStarted' /\ EndedLeavesNothing' /\ AnswersAreTrue' /\ RecordDeleted'
  BY DEF TypeOK, WireInv, NewsInv, StopInv, StopQueue, NextPoll, CleanedUp, Says
<1> QED BY <1>1, <1>2, <1>3, <1>4

(* A stop reads the record.                                               *)
LEMMA StopHistoryStep ==
  ASSUME IInv, StopHistory
  PROVE  IInv'
<1> USE DEF IInv
<1>1. TypeOK'
  <2>1. StepTypes'
    BY DEF TypeOK, WireInv, BoundInv, StopInv, StepTypes, StopHistory, NextPoll, CleanedUp, Says, Forget
  <2>2. FollowTypes'
    BY DEF TypeOK, WireInv, BoundInv, StopInv, FollowTypes, StopHistory, NextPoll, CleanedUp, Says, Forget
  <2>3. CountTypes'
    BY DEF TypeOK, WireInv, BoundInv, StopInv, CountTypes, StopHistory, NextPoll, CleanedUp, Says, Forget
  <2>4. EndTypes'
    BY DEF TypeOK, WireInv, BoundInv, StopInv, EndTypes, StopHistory, NextPoll, CleanedUp, Says, Forget
  <2>5. NewsTypes'
    BY DEF TypeOK, WireInv, BoundInv, StopInv, NewsTypes, StopHistory, NextPoll, CleanedUp, Says, Forget
  <2>6. ComfyTypes'
    BY DEF TypeOK, WireInv, BoundInv, StopInv, ComfyTypes, StopHistory, NextPoll, CleanedUp, Says, Forget
  <2> QED BY <2>1, <2>2, <2>3, <2>4, <2>5, <2>6 DEF TypeOK, StepTypes, FollowTypes, CountTypes, EndTypes, NewsTypes, ComfyTypes
<1>2. WireInv' /\ BoundInv'
  BY DEF TypeOK, WireInv, StopInv, BoundInv, StopHistory, NextPoll, CleanedUp, Says, Forget
<1>3. NewsInv' /\ StopInv'
  BY InboxStays DEF TypeOK, WireInv, NewsInv, StopInv, Told, StopHistory, NextPoll, CleanedUp, Says, Forget
<1>4. StartedIsStarted' /\ EndedLeavesNothing' /\ AnswersAreTrue' /\ RecordDeleted'
  BY DEF TypeOK, WireInv, NewsInv, StopInv, StopHistory, NextPoll, CleanedUp, Says, Forget
<1> QED BY <1>1, <1>2, <1>3, <1>4

LEMMA AnsweredStep ==
  ASSUME IInv, Answered
  PROVE  IInv'
<1> USE DEF IInv
<1>1. TypeOK'
  BY DEF TypeOK, WireInv, BoundInv, StopInv, Answered
<1>2. WireInv' /\ BoundInv'
  BY DEF TypeOK, WireInv, StopInv, BoundInv, Answered
<1>3. NewsInv' /\ StopInv'
  BY InboxStays DEF TypeOK, WireInv, NewsInv, StopInv, Told, Answered
<1>4. StartedIsStarted' /\ EndedLeavesNothing' /\ AnswersAreTrue' /\ RecordDeleted'
  BY DEF TypeOK, WireInv, NewsInv, StopInv, Answered
<1> QED BY <1>1, <1>2, <1>3, <1>4

LEMMA ResolveCancelStep ==
  ASSUME IInv, ResolveCancel
  PROVE  IInv'
<1> USE DEF IInv
<1>1. TypeOK'
  BY DEF TypeOK, WireInv, BoundInv, StopInv, ResolveCancel
<1>2. WireInv' /\ BoundInv'
  BY DEF TypeOK, WireInv, StopInv, BoundInv, ResolveCancel
<1>3. NewsInv' /\ StopInv'
  BY InboxStays DEF TypeOK, WireInv, NewsInv, StopInv, Told, ResolveCancel
<1>4. StartedIsStarted' /\ EndedLeavesNothing' /\ AnswersAreTrue' /\ RecordDeleted'
  BY DEF TypeOK, WireInv, NewsInv, StopInv, ResolveCancel
<1> QED BY <1>1, <1>2, <1>3, <1>4

LEMMA ResolveFailsStep ==
  ASSUME IInv, ResolveFails
  PROVE  IInv'
<1> USE DEF IInv
<1>1. TypeOK'
  <2>1. StepTypes'
    BY DEF TypeOK, WireInv, BoundInv, StopInv, StepTypes, ResolveFails, CancelLands
  <2>2. FollowTypes'
    BY DEF TypeOK, WireInv, BoundInv, StopInv, FollowTypes, ResolveFails, CancelLands
  <2>3. CountTypes'
    BY DEF TypeOK, WireInv, BoundInv, StopInv, CountTypes, ResolveFails, CancelLands
  <2>4. EndTypes'
    BY DEF TypeOK, WireInv, BoundInv, StopInv, EndTypes, ResolveFails, CancelLands
  <2>5. NewsTypes'
    BY DEF TypeOK, WireInv, BoundInv, StopInv, NewsTypes, ResolveFails, CancelLands
  <2>6. ComfyTypes'
    BY DEF TypeOK, WireInv, BoundInv, StopInv, ComfyTypes, ResolveFails, CancelLands
  <2> QED BY <2>1, <2>2, <2>3, <2>4, <2>5, <2>6 DEF TypeOK, StepTypes, FollowTypes, CountTypes, EndTypes, NewsTypes, ComfyTypes
<1>2. WireInv' /\ BoundInv'
  BY DEF TypeOK, WireInv, StopInv, BoundInv, ResolveFails, CancelLands
<1>3. NewsInv' /\ StopInv'
  BY InboxStays DEF TypeOK, WireInv, NewsInv, StopInv, Told, ResolveFails, CancelLands
<1>4. StartedIsStarted' /\ EndedLeavesNothing' /\ AnswersAreTrue' /\ RecordDeleted'
  BY DEF TypeOK, WireInv, NewsInv, StopInv, ResolveFails, CancelLands
<1> QED BY <1>1, <1>2, <1>3, <1>4

LEMMA ResolveQueueStep ==
  ASSUME IInv, ResolveQueue
  PROVE  IInv'
<1> USE DEF IInv
<1>1. TypeOK'
  BY DEF TypeOK, WireInv, BoundInv, StopInv, ResolveQueue
<1>2. WireInv' /\ BoundInv'
  BY DEF TypeOK, WireInv, StopInv, BoundInv, ResolveQueue
<1>3. NewsInv' /\ StopInv'
  BY InboxStays DEF TypeOK, WireInv, NewsInv, StopInv, Told, ResolveQueue
<1>4. StartedIsStarted' /\ EndedLeavesNothing' /\ AnswersAreTrue' /\ RecordDeleted'
  BY DEF TypeOK, WireInv, NewsInv, StopInv, ResolveQueue
<1> QED BY <1>1, <1>2, <1>3, <1>4

(* The service reads the record of a stop that was not confirmed.         *)
LEMMA ResolveHistoryStep ==
  ASSUME IInv, ResolveHistory
  PROVE  IInv'
<1> USE DEF IInv
<1>1. TypeOK'
  BY DEF TypeOK, WireInv, BoundInv, StopInv, ResolveHistory, Forget
<1>2. WireInv' /\ BoundInv'
  <2>1. WireInv'
    BY DEF TypeOK, WireInv, ResolveHistory
  <2>2. missing' <= 1
    <3>1. unresolved' => ~(missing > 0)
      BY DEF ResolveHistory
    <3> QED BY <3>1 DEF TypeOK, ResolveHistory
  <2>3. failures' <= RECORD_TRIES \/ step' = "done"
    BY DEF BoundInv, ResolveHistory
  <2>4. polls' < STOP_POLLS \/ step' \in {"answering", "gone"}
    BY DEF BoundInv, ResolveHistory
  <2> QED BY <2>1, <2>2, <2>3, <2>4 DEF BoundInv
<1>3. NewsInv' /\ StopInv'
  BY InboxStays DEF TypeOK, WireInv, NewsInv, StopInv, Told, ResolveHistory, Forget
<1>4. StartedIsStarted' /\ EndedLeavesNothing' /\ AnswersAreTrue' /\ RecordDeleted'
  BY DEF TypeOK, WireInv, NewsInv, StopInv, ResolveHistory, Forget
<1> QED BY <1>1, <1>2, <1>3, <1>4

(* What goes on beside the job: the watch of the client, and ComfyUI   *)
(* with its socket.                                                    *)
LEMMA WatchReadsStep ==
  ASSUME IInv, WatchReads
  PROVE  IInv'
<1> USE DEF IInv
<1>1. TypeOK'
  BY DEF TypeOK, WireInv, BoundInv, StopInv, WatchReads
<1>2. WireInv' /\ BoundInv'
  BY DEF TypeOK, WireInv, StopInv, BoundInv, WatchReads
<1>3. NewsInv' /\ StopInv'
  BY InboxStays DEF TypeOK, WireInv, NewsInv, StopInv, Told, WatchReads
<1>4. StartedIsStarted' /\ EndedLeavesNothing' /\ AnswersAreTrue' /\ RecordDeleted'
  BY DEF TypeOK, WireInv, NewsInv, StopInv, WatchReads
<1> QED BY <1>1, <1>2, <1>3, <1>4

LEMMA WatchDoneStep ==
  ASSUME IInv, WatchDone
  PROVE  IInv'
<1> USE DEF IInv
<1>1. TypeOK'
  BY DEF TypeOK, WireInv, BoundInv, StopInv, WatchDone
<1>2. WireInv' /\ BoundInv'
  BY DEF TypeOK, WireInv, StopInv, BoundInv, WatchDone
<1>3. NewsInv' /\ StopInv'
  BY InboxStays DEF TypeOK, WireInv, NewsInv, StopInv, Told, WatchDone
<1>4. StartedIsStarted' /\ EndedLeavesNothing' /\ AnswersAreTrue' /\ RecordDeleted'
  BY DEF TypeOK, WireInv, NewsInv, StopInv, WatchDone
<1> QED BY <1>1, <1>2, <1>3, <1>4

LEMMA WatchFailsStep ==
  ASSUME IInv, WatchFails
  PROVE  IInv'
<1> USE DEF IInv
<1>1. TypeOK'
  BY DEF TypeOK, WireInv, BoundInv, StopInv, WatchFails
<1>2. WireInv' /\ BoundInv'
  BY DEF TypeOK, WireInv, StopInv, BoundInv, WatchFails
<1>3. NewsInv' /\ StopInv'
  BY InboxStays DEF TypeOK, WireInv, NewsInv, StopInv, Told, WatchFails
<1>4. StartedIsStarted' /\ EndedLeavesNothing' /\ AnswersAreTrue' /\ RecordDeleted'
  BY DEF TypeOK, WireInv, NewsInv, StopInv, WatchFails
<1> QED BY <1>1, <1>2, <1>3, <1>4

LEMMA TakenStep ==
  ASSUME IInv, Taken
  PROVE  IInv'
<1> USE DEF IInv
<1>1. TypeOK'
  BY DEF TypeOK, WireInv, BoundInv, StopInv, Taken
<1>2. WireInv' /\ BoundInv'
  BY DEF TypeOK, WireInv, StopInv, BoundInv, Taken
<1>3. NewsInv' /\ StopInv'
  BY InboxStays DEF TypeOK, WireInv, NewsInv, StopInv, Told, Taken
<1>4. StartedIsStarted' /\ EndedLeavesNothing' /\ AnswersAreTrue' /\ RecordDeleted'
  BY DEF TypeOK, WireInv, NewsInv, StopInv, Taken
<1> QED BY <1>1, <1>2, <1>3, <1>4

LEMMA SubmitEndsStep ==
  ASSUME IInv, SubmitEnds
  PROVE  IInv'
<1> USE DEF IInv
<1>1. TypeOK'
  BY DEF TypeOK, WireInv, BoundInv, StopInv, SubmitEnds
<1>2. WireInv' /\ BoundInv'
  BY DEF TypeOK, WireInv, StopInv, BoundInv, SubmitEnds
<1>3. NewsInv' /\ StopInv'
  BY InboxStays DEF TypeOK, WireInv, NewsInv, StopInv, Told, SubmitEnds
<1>4. StartedIsStarted' /\ EndedLeavesNothing' /\ AnswersAreTrue' /\ RecordDeleted'
  BY DEF TypeOK, WireInv, NewsInv, StopInv, SubmitEnds
<1> QED BY <1>1, <1>2, <1>3, <1>4

LEMMA CardStartsStep ==
  ASSUME IInv, CardStarts
  PROVE  IInv'
<1> USE DEF IInv
<1>1. TypeOK'
  BY NewsComes DEF TypeOK, WireInv, BoundInv, StopInv, CardStarts, News
<1>2. WireInv' /\ BoundInv'
  BY DEF TypeOK, WireInv, StopInv, BoundInv, CardStarts, News
<1>3. NewsInv' /\ StopInv'
  BY NewsComes DEF TypeOK, WireInv, NewsInv, StopInv, Told, CardStarts, News
<1>4. StartedIsStarted' /\ EndedLeavesNothing' /\ AnswersAreTrue' /\ RecordDeleted'
  BY DEF TypeOK, WireInv, NewsInv, StopInv, CardStarts, News
<1> QED BY <1>1, <1>2, <1>3, <1>4

LEMMA CardDrawsStep ==
  ASSUME IInv, CardDraws
  PROVE  IInv'
<1> USE DEF IInv
<1>1. TypeOK'
  <2>1. StepTypes'
    BY DEF TypeOK, WireInv, BoundInv, StopInv, StepTypes, CardDraws, News
  <2>2. FollowTypes'
    BY DEF TypeOK, WireInv, BoundInv, StopInv, FollowTypes, CardDraws, News
  <2>3. CountTypes'
    BY DEF TypeOK, WireInv, BoundInv, StopInv, CountTypes, CardDraws, News
  <2>4. EndTypes'
    BY DEF TypeOK, WireInv, BoundInv, StopInv, EndTypes, CardDraws, News
  <2>5. NewsTypes'
    BY NewsComes DEF TypeOK, WireInv, BoundInv, StopInv, NewsTypes, CardDraws, News
  <2>6. ComfyTypes'
    BY DEF TypeOK, WireInv, BoundInv, StopInv, ComfyTypes, CardDraws, News
  <2> QED BY <2>1, <2>2, <2>3, <2>4, <2>5, <2>6 DEF TypeOK, StepTypes, FollowTypes, CountTypes, EndTypes, NewsTypes, ComfyTypes
<1>2. WireInv' /\ BoundInv'
  BY DEF TypeOK, WireInv, StopInv, BoundInv, CardDraws, News
<1>3. NewsInv' /\ StopInv'
  BY NewsComes DEF TypeOK, WireInv, NewsInv, StopInv, Told, CardDraws, News
<1>4. StartedIsStarted' /\ EndedLeavesNothing' /\ AnswersAreTrue' /\ RecordDeleted'
  BY DEF TypeOK, WireInv, NewsInv, StopInv, CardDraws, News
<1> QED BY <1>1, <1>2, <1>3, <1>4

LEMMA CardRecordsStep ==
  ASSUME IInv, CardRecords
  PROVE  IInv'
<1> USE DEF IInv
<1>1. TypeOK'
  BY NewsComes DEF TypeOK, WireInv, BoundInv, StopInv, CardRecords, News
<1>2. WireInv' /\ BoundInv'
  BY DEF TypeOK, WireInv, StopInv, BoundInv, CardRecords, News
<1>3. NewsInv' /\ StopInv'
  BY NewsComes DEF TypeOK, WireInv, NewsInv, StopInv, Told, CardRecords, News
<1>4. StartedIsStarted' /\ EndedLeavesNothing' /\ AnswersAreTrue' /\ RecordDeleted'
  BY DEF TypeOK, WireInv, NewsInv, StopInv, CardRecords, News
<1> QED BY <1>1, <1>2, <1>3, <1>4

LEMMA SocketDropsStep ==
  ASSUME IInv, SocketDrops
  PROVE  IInv'
<1> USE DEF IInv
<1>1. TypeOK'
  BY InboxCut DEF TypeOK, WireInv, BoundInv, StopInv, SocketDrops, Unheard
<1>2. WireInv' /\ BoundInv'
  BY DEF TypeOK, WireInv, StopInv, BoundInv, SocketDrops, Unheard
<1>3. NewsInv' /\ StopInv'
  BY InboxCut DEF TypeOK, WireInv, NewsInv, StopInv, Told, SocketDrops, Unheard
<1>4. StartedIsStarted' /\ EndedLeavesNothing' /\ AnswersAreTrue' /\ RecordDeleted'
  BY DEF TypeOK, WireInv, NewsInv, StopInv, SocketDrops, Unheard
<1> QED BY <1>1, <1>2, <1>3, <1>4

(* ComfyUI restarts.                                                      *)
LEMMA RestartsStep ==
  ASSUME IInv, Restarts
  PROVE  IInv'
<1> USE DEF IInv
<1>1. TypeOK'
  BY InboxCut DEF TypeOK, WireInv, BoundInv, StopInv, Restarts, Unheard
<1>2. WireInv' /\ BoundInv'
  BY DEF TypeOK, WireInv, StopInv, BoundInv, Restarts, Unheard
<1>3. NewsInv' /\ StopInv'
  BY InboxCut DEF TypeOK, WireInv, NewsInv, StopInv, Told, Restarts, Unheard
<1>4. StartedIsStarted' /\ EndedLeavesNothing' /\ AnswersAreTrue' /\ RecordDeleted'
  BY DEF TypeOK, WireInv, NewsInv, StopInv, Restarts, Unheard
<1> QED BY <1>1, <1>2, <1>3, <1>4

LEMMA DeletedStep ==
  ASSUME IInv, Deleted
  PROVE  IInv'
<1> USE DEF IInv
<1>1. TypeOK'
  BY DEF TypeOK, WireInv, BoundInv, StopInv, Deleted
<1>2. WireInv' /\ BoundInv'
  BY DEF TypeOK, WireInv, StopInv, BoundInv, Deleted
<1>3. NewsInv' /\ StopInv'
  BY InboxStays DEF TypeOK, WireInv, NewsInv, StopInv, Told, Deleted
<1>4. StartedIsStarted' /\ EndedLeavesNothing' /\ AnswersAreTrue' /\ RecordDeleted'
  BY DEF TypeOK, WireInv, NewsInv, StopInv, Deleted
<1> QED BY <1>1, <1>2, <1>3, <1>4

LEMMA AskStopStep ==
  ASSUME IInv, AskStop
  PROVE  IInv'
<1> USE DEF IInv
<1>1. TypeOK'
  BY DEF TypeOK, WireInv, BoundInv, StopInv, AskStop, Known, Stopped
<1>2. WireInv' /\ BoundInv'
  BY DEF TypeOK, WireInv, StopInv, BoundInv, AskStop, Known, Stopped
<1>3. NewsInv' /\ StopInv'
  BY InboxStays DEF TypeOK, WireInv, NewsInv, StopInv, Told, AskStop, Known, Stopped
<1>4. StartedIsStarted' /\ EndedLeavesNothing' /\ AnswersAreTrue' /\ RecordDeleted'
  BY DEF TypeOK, WireInv, NewsInv, StopInv, AskStop, Known, Stopped
<1> QED BY <1>1, <1>2, <1>3, <1>4

LEMMA StopStep ==
  ASSUME IInv, NEW why \in Reason, Stop(why)
  PROVE  IInv'
<1> USE DEF IInv
<1>1. TypeOK'
  BY DEF TypeOK, WireInv, BoundInv, StopInv, Stop, Stopped
<1>2. WireInv' /\ BoundInv'
  BY DEF TypeOK, WireInv, StopInv, BoundInv, Stop, Stopped
<1>3. NewsInv' /\ StopInv'
  BY InboxStays DEF TypeOK, WireInv, NewsInv, StopInv, Told, Stop, Stopped
<1>4. StartedIsStarted' /\ EndedLeavesNothing' /\ AnswersAreTrue' /\ RecordDeleted'
  BY DEF TypeOK, WireInv, NewsInv, StopInv, Stop, Stopped
<1> QED BY <1>1, <1>2, <1>3, <1>4

-----------------------------------------------------------------------------
LEMMA InitInv == Init => IInv
<1> SUFFICES ASSUME Init PROVE IInv
  OBVIOUS
<1>1. TypeOK
  <2>1. StepTypes /\ FollowTypes
    BY DEF Init, StepTypes, FollowTypes
  <2>4. CountTypes
    BY DEF Init, CountTypes
  <2>2. EndTypes
    BY DEF Init, EndTypes
  <2>3. NewsTypes
    BY DEF Init, NewsTypes
  <2>5. ComfyTypes
    BY DEF Init, ComfyTypes
  <2> QED BY <2>1, <2>2, <2>3, <2>4, <2>5 DEF TypeOK, StepTypes, FollowTypes, CountTypes, EndTypes, NewsTypes, ComfyTypes
<1>2. WireInv /\ NewsInv /\ StopInv /\ BoundInv
  BY DEF Init, WireInv, NewsInv, StopInv, BoundInv, Told, InInbox
<1>3. StartedIsStarted /\ EndedLeavesNothing /\ AnswersAreTrue /\ RecordDeleted
  BY DEF Init
<1> QED BY <1>1, <1>2, <1>3 DEF IInv

LEMMA StepInv == IInv /\ [Next]_vars => IInv'
<1> SUFFICES ASSUME IInv, [Next]_vars PROVE IInv'
  OBVIOUS
<1>1. CASE Task
  BY <1>1, SocketUnavailableStep, SubmitStep, SubmitDoneStep, SentStep, TakeNewsStep, TellsStep, TakeViewStep,
     StartUnheardStep, PollStep, DeliverHeardStep, PollFailsStep, PollQueueStep, PollHistoryStep,
     DeliverFailsStep, LastReadStep, LastSentStep, CancelledStep DEF Task, Follow
<1>2. CASE Clean
  BY <1>2, CleanupStep, StopCancelStep, StopReadFailsStep, StopQueueStep, StopHistoryStep, AnsweredStep DEF Clean
<1>3. CASE Resolve
  BY <1>3, ResolveCancelStep, ResolveFailsStep, ResolveQueueStep, ResolveHistoryStep DEF Resolve
<1>4. CASE Watch
  BY <1>4, WatchReadsStep, WatchDoneStep, WatchFailsStep DEF Watch
<1>5. CASE Comfy
  BY <1>5, TakenStep, SubmitEndsStep, CardStartsStep, CardDrawsStep, CardRecordsStep, SocketDropsStep,
     RestartsStep, DeletedStep DEF Comfy
<1>6. CASE Accept \/ AskStop \/ \E why \in Reason : Stop(why)
  BY <1>6, AcceptStep, AskStopStep, StopStep
<1>7. CASE UNCHANGED vars
  <2>1. TypeOK' /\ WireInv' /\ BoundInv'
    BY <1>7 DEF vars, IInv, TypeOK, WireInv, BoundInv
  <2>2. NewsInv' /\ StopInv'
    BY <1>7 DEF vars, IInv, NewsInv, StopInv, Told, InInbox
  <2>3. StartedIsStarted' /\ EndedLeavesNothing' /\ AnswersAreTrue' /\ RecordDeleted'
    BY <1>7 DEF vars, IInv
  <2> QED BY <2>1, <2>2, <2>3 DEF IInv
<1> QED BY <1>1, <1>2, <1>3, <1>4, <1>5, <1>6, <1>7 DEF Next

(* What is said above of the wire, the messages, the reads and the     *)
(* stop holds in every state, whatever ComfyUI, the socket and the     *)
(* client do.                                                          *)
THEOREM InvHolds == Spec => []IInv
BY InitInv, StepInv, PTL DEF Spec

(* The variables keep to their types.                                      *)
THEOREM TypesHold == Spec => []TypeOK
<1>1. IInv => TypeOK
  BY DEF IInv
<1> QED BY <1>1, InvHolds, PTL

(* Whatever reads of the queue come late, no job counts as drawing before  *)
(* the card has begun it.                                                  *)
THEOREM StartsAreHeardInTime == Spec => []StartedIsStarted
<1>1. IInv => StartedIsStarted
  BY DEF IInv
<1> QED BY <1>1, InvHolds, PTL

(* No job whose end is known stays on the card but as an unresolved stop.  *)
THEOREM NothingStaysUnknown == Spec => []EndedLeavesNothing
<1>1. IInv => EndedLeavesNothing
  BY DEF IInv
<1> QED BY <1>1, InvHolds, PTL

(* `stopped`, `not_found` and the end of a stream are true of the card.    *)
THEOREM GatewaySpeaksTrue == Spec => []AnswersAreTrue
<1>1. IInv => AnswersAreTrue
  BY DEF IInv
<1> QED BY <1>1, InvHolds, PTL

(* A job's record is deleted once the job has ended, never before.         *)
THEOREM RecordsGoWithTheirJobs == Spec => []RecordDeleted
<1>1. IInv => RecordDeleted
  BY DEF IInv
<1> QED BY <1>1, InvHolds, PTL
=============================================================================
