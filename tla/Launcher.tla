------------------------------ MODULE Launcher ------------------------------
(***************************************************************************)
(* The card's launcher (src/simple_serving/card.py): one pair of an engine *)
(* and a gateway for each start of the container, the two markers that     *)
(* stay on the disk, and the stop of the instance in Vast (vast.py), which *)
(* the launcher asks for when the pair has ended, and the gateway when it  *)
(* falls asleep.                                                           *)
(*                                                                         *)
(* A member of Launcher is a process `card --run`, and comes again as a    *)
(* new one.  Of the gateway only what the launcher hears of is kept: its   *)
(* rows "ready", "sleep" and "stop_failed".  Vast is external: it means    *)
(* the instance to run or to be stopped (`intended`), and the container    *)
(* follows (`actual`); a request to Vast that fails had its effect or not, *)
(* and has none later.  A stop of the instance ends every process, and the *)
(* disk stays.                                                             *)
(***************************************************************************)
EXTENDS Naturals, Sequences

CONSTANT
  Launcher      \* the launchers that may be alive together

VARIABLES
  intended, actual,     \* what Vast means the instance to do, and what it does
  starts,               \* what has yet to call start: onstart.sh, a --retry
  at,                   \* where each launcher's code stands
  ended,                \* the Event `ended` of each: a signal came
  engine, gateway,      \* the pair's two processes
  rows,                 \* the gateway's rows that the launcher has not read
  ready, asleep,        \* Pair.ready and Pair.asleep
  givenUp, unconfirmed, \* the markers on the disk
  served,               \* history: the pair's gateway has been ready or asleep
  left                  \* history: why nothing need stop this start's instance

vastVars == <<intended, actual>>
pairVars == <<engine, gateway, rows, ready, asleep, served>>
markers  == <<givenUp, unconfirmed>>
cardVars == <<vastVars, starts, at, ended, pairVars, markers, left>>

At == {"none", "spawned", "waiting", "starting", "pair", "ending", "signalled", "stopping", "exiting"}
Row == {"ready", "sleep", "stop_failed"}

CardTypeOK ==
  /\ intended \in {"running", "stopped"} /\ actual \in {"running", "exited"}
  /\ starts \subseteq {"onstart", "retry"}
  /\ at \in [Launcher -> At] /\ ended \in [Launcher -> BOOLEAN]
  /\ engine \in {"off", "on"} /\ gateway \in {"off", "loading", "ready", "asleep", "stopped"}
  /\ rows \subseteq Row /\ ready \in BOOLEAN /\ asleep \in BOOLEAN /\ served \in BOOLEAN
  /\ givenUp \in BOOLEAN /\ unconfirmed \in BOOLEAN
  /\ left \in {"", "signal", "refused", "failed", "raced"}

CardInit ==
  /\ intended = "running" /\ actual = "running" /\ starts = {"onstart"}
  /\ at = [l \in Launcher |-> "none"] /\ ended = [l \in Launcher |-> FALSE]
  /\ engine = "off" /\ gateway = "off" /\ rows = {} /\ left = ""
  /\ ready = FALSE /\ asleep = FALSE /\ served = FALSE
  /\ givenUp = FALSE /\ unconfirmed = FALSE

-----------------------------------------------------------------------------
(* launcher(): the pid file names a process that runs.  It is written when *)
(* the lock is held and removed before the process ends, which frees the   *)
(* lock: a launcher that is "exiting" holds it and is not seen.            *)
Visible(l) == at[l] \in At \ {"none", "spawned", "exiting"}
Holding(l) == at[l] \notin {"none", "spawned"}
LauncherRuns == \E l \in Launcher : Visible(l)

(* start: the launcher in the background, unless one runs or the card is *)
(* not prepared or a port is taken, which a given-up card does not ask.  *)
Start ==
  /\ \/ LauncherRuns /\ UNCHANGED <<at, left>>
     \/ /\ ~LauncherRuns /\ left' = ""
        /\ \E l \in Launcher : at[l] = "none" /\ at' = [at EXCEPT ![l] = "spawned"]
     \/ ~LauncherRuns /\ ~givenUp /\ left' = "refused" /\ UNCHANGED at
  /\ UNCHANGED <<vastVars, ended, pairVars, unconfirmed>>

StartCalled(c) ==
  /\ c \in starts /\ starts' = starts \ {c}
  /\ Start /\ UNCHANGED givenUp

(* main: the owner starts the launcher by hand; --retry removes the marker *)
(* and then does the same; --stop sends the launcher SIGTERM.              *)
OwnerStart == actual = "running" /\ Start /\ UNCHANGED <<starts, givenUp>>

Retry ==
  /\ actual = "running" /\ givenUp /\ givenUp' = FALSE
  /\ starts' = starts \cup {"retry"}
  /\ UNCHANGED <<vastVars, at, ended, pairVars, unconfirmed, left>>

StopPair(l) ==
  /\ Visible(l) /\ at[l] # "signalled" /\ ~ended[l] /\ ended' = [ended EXCEPT ![l] = TRUE]
  /\ UNCHANGED <<vastVars, starts, at, pairVars, markers, left>>

-----------------------------------------------------------------------------
Goes(l, where) == at' = [at EXCEPT ![l] = where]

(* An exception out of launch or run: the process ends with what is left. *)
Dies(l) == Goes(l, "none") /\ ended' = [ended EXCEPT ![l] = FALSE] /\ left' = "failed"

(* run: the lock, a new start's marker, the pid, the gateway's            *)
(* configuration (which may fail to be written), then launch and retried: *)
(* the pair starts at once on a card that has not given up.               *)
Run(l) ==
  /\ at[l] = "spawned"
  /\ IF \E k \in Launcher : Holding(k)
     THEN /\ Goes(l, "none")
          /\ left' = IF LauncherRuns \/ left # "" THEN left ELSE "raced"
          /\ UNCHANGED <<ended, unconfirmed>>
     ELSE /\ unconfirmed' = FALSE
          /\ \/ Goes(l, IF givenUp THEN "waiting" ELSE "starting") /\ left' = "" /\ UNCHANGED ended
             \/ Dies(l)
  /\ UNCHANGED <<vastVars, starts, pairVars, givenUp>>

Leaves(l, where) == Goes(l, where) /\ left' = "signal" /\ ended' = [ended EXCEPT ![l] = FALSE]

(* Fault: the end of the wait is a failed pair like another.             *)
Wait_Marks(l) ==
  /\ at[l] = "waiting"
  /\ \/ ended[l] /\ Leaves(l, "exiting") /\ UNCHANGED givenUp
     \/ ~ended[l] /\ Goes(l, "stopping") /\ givenUp' = TRUE /\ UNCHANGED <<ended, left>>
     \/ ~ended[l] /\ ~givenUp /\ Goes(l, "starting") /\ UNCHANGED <<ended, left, givenUp>>
  /\ UNCHANGED <<vastVars, starts, pairVars, unconfirmed>>

(* retried: a signal; the interval's end, of which launch makes no marker; *)
(* or the marker's removal.                                                *)
Wait(l) ==
  /\ at[l] = "waiting"
  /\ \/ ended[l] /\ Leaves(l, "exiting")
     \/ ~ended[l] /\ Goes(l, "stopping") /\ UNCHANGED <<ended, left>>
     \/ ~ended[l] /\ ~givenUp /\ Goes(l, "starting") /\ UNCHANGED <<ended, left>>
  /\ UNCHANGED <<vastVars, starts, pairVars, markers>>

(* launch, once the pair may run: it starts, or the container is unfit or  *)
(* a process cannot be spawned, and the card gives up.  The marker's write *)
(* may fail.                                                               *)
Attempt(l) ==
  /\ at[l] = "starting"
  /\ \/ /\ Goes(l, "pair") /\ engine' = "on" /\ gateway' = "loading"
        /\ UNCHANGED <<rows, ready, asleep, served, givenUp, ended, left>>
     \/ Goes(l, "stopping") /\ givenUp' = TRUE /\ UNCHANGED <<pairVars, ended, left>>
     \/ Dies(l) /\ UNCHANGED <<pairVars, givenUp>>
  /\ UNCHANGED <<vastVars, starts, unconfirmed>>

(* Pair.gateway_line, for the rows that have come: a "stop_failed" leaves *)
(* the marker.                                                            *)
Ready == ready \/ "ready" \in rows
Asleep == asleep \/ "sleep" \in rows
TakeRows == rows' = {} /\ unconfirmed' = (unconfirmed \/ "stop_failed" \in rows)

Read(l) ==
  /\ at[l] \in {"pair", "ending", "signalled"} /\ rows # {}
  /\ TakeRows /\ ready' = Ready /\ asleep' = Asleep
  /\ UNCHANGED <<vastVars, starts, at, ended, engine, gateway, givenUp, served, left>>

(* Fault: no deadline for the load.                                      *)
PairEnds_NoDeadline(l) ==
  /\ at[l] = "pair"
  /\ \/ ended[l] /\ Leaves(l, "signalled")
     \/ /\ ~ended[l] /\ (engine = "off" \/ gateway = "off")
        /\ Goes(l, "ending") /\ UNCHANGED <<ended, left>>
  /\ UNCHANGED <<vastVars, starts, pairVars, markers>>

(* Pair.run: the first of a signal, an exit and the load deadline.       *)
PairEnds(l) ==
  /\ at[l] = "pair"
  /\ \/ ended[l] /\ Leaves(l, "signalled")
     \/ /\ ~ended[l] /\ (engine = "off" \/ gateway = "off" \/ ~ready)
        /\ Goes(l, "ending") /\ UNCHANGED <<ended, left>>
  /\ UNCHANGED <<vastVars, starts, pairVars, markers>>

(* The rest of Pair.run: both processes end, the gateway first, and the  *)
(* rest of their output is read.                                         *)
PairOver ==
  /\ engine' = "off" /\ gateway' = "off" /\ TakeRows
  /\ ready' = FALSE /\ asleep' = FALSE /\ served' = FALSE

(* launch after the pair: a pair that was never ready, and not asleep    *)
(* either, leaves the marker, whose write may fail.                      *)
Close(l) ==
  /\ PairOver
  /\ \/ at[l] = "signalled" /\ Goes(l, "exiting") /\ UNCHANGED <<ended, givenUp, left>>
     \/ /\ at[l] = "ending" /\ Goes(l, "stopping")
        /\ givenUp' = (givenUp \/ (~Ready /\ ~Asleep)) /\ UNCHANGED <<ended, left>>
     \/ at[l] = "ending" /\ ~Ready /\ ~Asleep /\ Dies(l) /\ UNCHANGED givenUp
  /\ UNCHANGED <<vastVars, starts>>

(* stop_until_accepted: an attempt that Vast takes is the last.          *)
StopTaken(l) ==
  /\ at[l] = "stopping" /\ ~ended[l]
  /\ intended' = "stopped" /\ Goes(l, "exiting")
  /\ UNCHANGED <<actual, starts, ended, pairVars, markers, left>>

(* An attempt that fails leaves the marker.  If that cannot be written,   *)
(* the attempts end: `first` takes a task that failed for one that ended. *)
StopFails(l) ==
  /\ at[l] = "stopping" /\ ~ended[l]
  /\ intended' \in {intended, "stopped"}
  /\ \/ unconfirmed' = TRUE /\ UNCHANGED <<at, left>>
     \/ ~unconfirmed /\ Goes(l, "exiting") /\ left' = "failed" /\ UNCHANGED unconfirmed
  /\ UNCHANGED <<actual, starts, ended, pairVars, givenUp>>

StopSignalled(l) ==
  /\ at[l] = "stopping" /\ ended[l] /\ Leaves(l, "exiting")
  /\ UNCHANGED <<vastVars, starts, pairVars, markers>>

Exit(l) ==
  /\ at[l] = "exiting" /\ Goes(l, "none")
  /\ UNCHANGED <<vastVars, starts, ended, pairVars, markers, left>>

(* A step of a launcher that needs nobody else.                          *)
Step(l) ==
  \/ Run(l) \/ Wait(l) \/ Attempt(l) \/ Read(l) \/ PairEnds(l) \/ Close(l)
  \/ StopSignalled(l) \/ Exit(l)

-----------------------------------------------------------------------------
(* The gateway as its rows tell of it, and either process's own end.     *)
GatewayReady ==
  /\ gateway = "loading" /\ gateway' = "ready" /\ served' = TRUE
  /\ rows' = rows \cup {"ready"}
  /\ UNCHANGED <<vastVars, starts, at, ended, engine, ready, asleep, markers, left>>

GatewaySleeps ==
  /\ gateway \in {"loading", "ready"} /\ gateway' = "asleep" /\ served' = TRUE
  /\ rows' = rows \cup {"sleep"}
  /\ UNCHANGED <<vastVars, starts, at, ended, engine, ready, asleep, markers, left>>

GatewayStops ==
  /\ gateway = "asleep" /\ gateway' = "stopped" /\ intended' = "stopped"
  /\ UNCHANGED <<actual, starts, at, ended, engine, rows, ready, asleep, markers, served, left>>

GatewayStopFails ==
  /\ gateway = "asleep" /\ intended' \in {intended, "stopped"}
  /\ rows' = rows \cup {"stop_failed"}
  /\ UNCHANGED <<actual, starts, at, ended, engine, gateway, ready, asleep, markers, served, left>>

ProcessExits ==
  /\ \/ engine = "on" /\ engine' = "off" /\ UNCHANGED gateway
     \/ gateway # "off" /\ gateway' = "off" /\ UNCHANGED engine
  /\ UNCHANGED <<vastVars, starts, at, ended, rows, ready, asleep, markers, served, left>>

(* The container stops and starts as Vast means it to.                   *)
ContainerStops ==
  /\ intended = "stopped" /\ actual = "running" /\ actual' = "exited"
  /\ at' = [l \in Launcher |-> "none"] /\ ended' = [l \in Launcher |-> FALSE]
  /\ engine' = "off" /\ gateway' = "off" /\ rows' = {} /\ ready' = FALSE /\ asleep' = FALSE
  /\ served' = FALSE /\ starts' = {} /\ left' = ""
  /\ UNCHANGED <<intended, markers>>

ContainerStarts ==
  /\ intended = "running" /\ actual = "exited" /\ actual' = "running"
  /\ starts' = {"onstart"}
  /\ UNCHANGED <<intended, at, ended, pairVars, markers, left>>

CardNext ==
  \/ \E c \in starts : StartCalled(c)
  \/ OwnerStart \/ Retry
  \/ \E l \in Launcher : StopPair(l) \/ Step(l) \/ StopTaken(l) \/ StopFails(l)
  \/ GatewayReady \/ GatewaySleeps \/ GatewayStops \/ GatewayStopFails \/ ProcessExits
  \/ ContainerStops \/ ContainerStarts

(* The launcher's code goes on and its timers end; Vast takes one of the *)
(* attempts in the end, and what it means comes to be.                   *)
CardFairness ==
  /\ WF_cardVars(\E c \in starts : StartCalled(c)) /\ WF_cardVars(ContainerStops \/ ContainerStarts)
  /\ WF_cardVars(\E l \in Launcher : Run(l))
  /\ WF_cardVars(\E l \in Launcher : at[l] # "spawned" /\ Step(l))
  /\ SF_cardVars(GatewayStops \/ \E l \in Launcher : StopTaken(l))
=============================================================================
