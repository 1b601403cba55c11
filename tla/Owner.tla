------------------------------- MODULE Owner -------------------------------
(***************************************************************************)
(* The owner's commands (src/simple_serving/cli.py) against the card of    *)
(* module Launcher.  `up` waits out a stop in flight, resumes the instance *)
(* once if it is stopped, opens a tunnel whose remote command is the       *)
(* card's --hold, and opens it again while the instance runs.  `sleep`     *)
(* asks the gateway, twice at most, and waits for the stop in Vast.        *)
(*                                                                         *)
(* A read of Vast that fails and a poll that goes on waiting change        *)
(* nothing.  Every wait has a deadline, which may come at any poll.  What  *)
(* a command says as it ends is left out.                                  *)
(***************************************************************************)
EXTENDS Launcher

CONSTANT
  RECONNECTS    \* cli.RECONNECTS

ASSUME OwnerAssumption == RECONNECTS \in Nat

VARIABLES
  upAt,         \* where up stands: up_lock lets one run at a time
  tries,        \* hold: tunnels in a row that ended without the gateway ready
  sleepAt       \* where sleep stands

upVars == <<upAt, tries>>
vars == <<cardVars, upVars, sleepAt>>

UpAt == {"none", "await", "resuming", "starting", "connect", "tunnel", "held"}
SleepAt == {"none", "asking", "waiting"}

TypeOK ==
  /\ CardTypeOK
  /\ upAt \in UpAt /\ tries \in 0..RECONNECTS
  /\ sleepAt \in SleepAt

Init ==
  /\ CardInit /\ upAt = "none" /\ tries = 0
  /\ sleepAt = "none"

(* Fault: a stop that is in flight is taken for one that is done.        *)
VastState_Intended ==
  IF intended = "stopped" THEN "stopped" ELSE IF actual = "running" THEN "running" ELSE "starting"

(* vast.show: `stopped` only once Vast both means and reports it.        *)
VastState ==
  IF intended = "stopped" THEN IF actual = "exited" THEN "stopped" ELSE "stopping"
  ELSE IF actual = "running" THEN "running" ELSE "starting"

Moves(from, where) == upAt = from /\ upAt' = where /\ UNCHANGED cardVars

(* up, under its lock.                                                   *)
Begin == Moves("none", "await") /\ tries' = 0

(* Fault: the stop in flight is not waited for.                          *)
AwaitStopped_InFlight ==
  /\ \/ VastState \in {"stopping", "stopped"} /\ Moves("await", "resuming")
     \/ VastState \in {"starting", "running"} /\ Moves("await", "starting")
  /\ UNCHANGED tries

(* start: a state that is not a stop in flight.                          *)
AwaitStopped ==
  /\ \/ VastState = "stopped" /\ Moves("await", "resuming")
     \/ VastState \in {"starting", "running"} /\ Moves("await", "starting")
  /\ UNCHANGED tries

(* The resume: a request that fails ends the command, whatever it did.   *)
Resume ==
  /\ upAt = "resuming"
  /\ \/ intended' = "running" /\ upAt' = "starting"
     \/ intended' \in {intended, "running"} /\ upAt' = "none"
  /\ UNCHANGED <<actual, starts, at, ended, pairVars, markers, left, tries>>

AwaitRunning ==
  /\ \/ VastState = "running" /\ Moves("starting", "connect")
     \/ VastState = "stopping" /\ Moves("starting", "none")
  /\ UNCHANGED tries

(* Fault: a card that has stopped is polled as one that starts.          *)
Connect_KeepsOn ==
  /\ VastState = "running"
  /\ Moves("connect", IF unconfirmed \/ givenUp THEN "none" ELSE "tunnel")
  /\ UNCHANGED tries

(* connect and the first lines of --hold: a marker or a card that is not *)
(* prepared is a refusal; the end of a stop is the end of the command.   *)
Connect ==
  /\ \/ VastState \in {"stopping", "stopped"} /\ Moves("connect", "none")
     \/ /\ VastState = "running"
        /\ Moves("connect", IF unconfirmed \/ givenUp THEN "none" ELSE "tunnel")
     \/ VastState = "running" /\ ~LauncherRuns /\ Moves("connect", "none")
  /\ UNCHANGED tries

(* ready: the gateway's state through the tunnel.                        *)
Serves ==
  /\ \/ gateway = "ready" /\ Moves("tunnel", "held") /\ tries' = 0
     \/ gateway \in {"asleep", "stopped"} /\ Moves("tunnel", "none") /\ UNCHANGED tries

(* hold: the tunnel ends with the card's --hold, which ends by a marker or *)
(* once no launcher runs, or by itself.                                    *)
TunnelEnds ==
  \E from \in {"tunnel", "held"} :
    \/ (unconfirmed \/ givenUp) /\ Moves(from, "none") /\ UNCHANGED tries
    \/ tries < RECONNECTS /\ Moves(from, "connect") /\ tries' = tries + 1
    \/ tries = RECONNECTS /\ Moves(from, "none") /\ UNCHANGED tries

(* The card's side of the tunnel has nothing more to hold.               *)
HoldOver == actual = "exited" \/ unconfirmed \/ givenUp \/ ~LauncherRuns

(* A deadline, a refusal for another reason, or Ctrl+C.                  *)
GivesUp ==
  /\ upAt # "none" /\ upAt' = "none" /\ UNCHANGED <<cardVars, tries>>

UpStep ==
  AwaitStopped \/ Resume \/ AwaitRunning \/ Connect \/ Serves \/ (HoldOver /\ TunnelEnds)

-----------------------------------------------------------------------------
SleepMoves(from, where) == sleepAt = from /\ sleepAt' = where /\ UNCHANGED cardVars

(* sleep, of a card that stops already: it is only waited for.           *)
SleepLooks == VastState \in {"stopping", "stopped"} /\ SleepMoves("none", "waiting")

(* control and ask_sleep: a tunnel of its own to the card's --hold, and  *)
(* the state, which names the boot.  Until then sleep only looks.        *)
StateRead ==
  /\ actual = "running" /\ LauncherRuns /\ ~unconfirmed /\ ~givenUp /\ gateway # "off"
  /\ SleepMoves("none", "asking")

(* The call to sleep, of that boot: its gateway falls asleep, or is      *)
(* already.  Its answer comes, or is lost: from the state again, or not. *)
AsleepOnDemand == IF gateway \in {"loading", "ready"} THEN GatewaySleeps ELSE UNCHANGED cardVars

Asked == sleepAt = "asking" /\ AsleepOnDemand /\ sleepAt' \in {"waiting", "none"}

(* The call does not arrive, or comes to another boot, which refuses it. *)
AskFails == SleepMoves("asking", "none")

BootAsked == IF sleepAt = "asking" /\ gateway' = "off" THEN "none" ELSE sleepAt

(* await_state, and the end of the command; or a deadline, or Ctrl+C.    *)
SleepEnds == SleepMoves("waiting", "none") /\ VastState = "stopped"

SleepGivesUp == SleepMoves("waiting", "none")

SleepStep == SleepLooks \/ StateRead \/ Asked \/ AskFails \/ SleepEnds \/ SleepGivesUp

Next ==
  \/ CardNext /\ UNCHANGED upVars /\ sleepAt' = BootAsked
  \/ (Begin \/ UpStep \/ TunnelEnds \/ GivesUp) /\ UNCHANGED sleepAt
  \/ SleepStep /\ UNCHANGED upVars

Spec == Init /\ [][Next]_vars
FairSpec == Spec /\ CardFairness /\ WF_vars(UpStep /\ UNCHANGED sleepAt) /\ WF_vars(SleepEnds /\ UNCHANGED upVars)

-----------------------------------------------------------------------------
Running == intended = "running" /\ actual = "running"
Busy(l) == at[l] \notin {"none", "exiting"}

(* card.launch, cli.start: no instance runs on with nothing to stop it,   *)
(* unless its owner ended the pair, or something stood in its way (left). *)
(* A resume against a stop would be such an instance.                     *)
NothingLeftRunning ==
  Running /\ starts = {} /\ left = "" => \E l \in Launcher : Busy(l)

(* card.launch: the card gives up only by a pair that never was ready and  *)
(* did not fall asleep, whatever of its rows had been read when it ended,  *)
(* or by one that could not start.  So the end of the wait for a retry     *)
(* leaves the marker as it is: a retry that came too late for that wait    *)
(* is not undone by it.                                                    *)
GivesUpUnready ==
  [][~givenUp /\ givenUp' =>
       \E l \in Launcher : \/ at[l] = "ending" /\ ~served
                           \/ at[l] = "starting" /\ at'[l] = "stopping"]_vars

(* cli.start: `running` is never written against a stop in flight.       *)
ResumesStoppedOnly ==
  [][intended = "stopped" /\ intended' = "running" => actual = "exited"]_vars

(* A card on which no gateway gets ready stops: not loaded in time, unfit, *)
(* given up and not retried, engine or gateway ended.                      *)
CardStops ==
  Running ~> \/ intended = "stopped" \/ left # "" \/ gateway = "ready"

(* Once the card has stopped, up ends and does not connect for ever; and a *)
(* sleep that waits for a stop that Vast means ends, unless the card is    *)
(* resumed meanwhile.                                                      *)
CommandsEndWithCard ==
  /\ upAt \in {"connect", "tunnel", "held"} /\ actual = "exited" ~> upAt = "none"
  /\ sleepAt = "waiting" /\ intended = "stopped" ~> sleepAt = "none" \/ intended = "running"
=============================================================================
