---------------------------- MODULE OwnerProofs ----------------------------
(**************************************************************************)
(* The card never runs on with nothing to stop it, gives up only what was *)
(* never ready, and is never resumed against a stop in flight: for any    *)
(* number of launchers.                                                   *)
(**************************************************************************)
EXTENDS Owner, TLAPS

(* launcher.lock: one launcher is past it at a time.                     *)
OneHolds == \A k, l \in Launcher : Holding(k) /\ Holding(l) => k = l

(* A launcher that a signal ends leaves its card to the owner.           *)
SignalInv == \A l \in Launcher : at[l] = "signalled" => left # ""

(* A stop of the container leaves no process and no start.               *)
ExitedInv ==
  actual = "exited" => /\ starts = {} /\ \A l \in Launcher : at[l] = "none"
                       /\ engine = "off" /\ gateway = "off"

(* `up` resumes what has stopped, and nothing of the card can then start. *)
ResumeInv == upAt = "resuming" => intended = "stopped" /\ actual = "exited"

(* A gateway that has been ready or asleep has said so.                  *)
ServedInv == served => Ready \/ Asleep

CardInv ==
  /\ CardTypeOK /\ OneHolds /\ SignalInv /\ ExitedInv /\ ResumeInv /\ ServedInv
  /\ NothingLeftRunning

IInv == TypeOK /\ CardInv

USE OwnerAssumption DEF OwnerAssumption
USE DEF vastVars, pairVars, markers, cardVars

-----------------------------------------------------------------------------
(* What the launchers, the gateway and Vast do.                          *)

LEMMA StartCalledStep ==
  ASSUME IInv, NEW c \in starts, StartCalled(c), UNCHANGED upVars
  PROVE  CardInv'
<1> USE DEF CardInv, IInv, upVars
<1>1. CardTypeOK'
  <2>1. intended' \in {"running", "stopped"} /\ actual' \in {"running", "exited"}
    BY DEF TypeOK, CardTypeOK, At, Row, StartCalled, Start
  <2>2. starts' \subseteq {"onstart", "retry"}
    BY DEF TypeOK, CardTypeOK, At, Row, StartCalled, Start
  <2>3. at' \in [Launcher -> At]
    BY DEF TypeOK, CardTypeOK, At, Row, StartCalled, Start
  <2>4. ended' \in [Launcher -> BOOLEAN]
    BY DEF TypeOK, CardTypeOK, At, Row, StartCalled, Start
  <2>5. engine' \in {"off", "on"} /\ gateway' \in {"off", "loading", "ready", "asleep", "stopped"}
    BY DEF TypeOK, CardTypeOK, At, Row, StartCalled, Start
  <2>6. rows' \subseteq Row
    BY DEF TypeOK, CardTypeOK, At, Row, StartCalled, Start
  <2>7. ready' \in BOOLEAN /\ asleep' \in BOOLEAN /\ served' \in BOOLEAN
    BY DEF TypeOK, CardTypeOK, At, Row, StartCalled, Start
  <2>8. givenUp' \in BOOLEAN /\ unconfirmed' \in BOOLEAN
    BY DEF TypeOK, CardTypeOK, At, Row, StartCalled, Start
  <2>9. left' \in {"", "signal", "refused", "failed", "raced"}
    BY DEF TypeOK, CardTypeOK, At, Row, StartCalled, Start
  <2> QED BY <2>1, <2>2, <2>3, <2>4, <2>5, <2>6, <2>7, <2>8, <2>9 DEF CardTypeOK
<1>2. OneHolds' /\ ExitedInv'
  BY DEF TypeOK, CardTypeOK, OneHolds, ExitedInv, Holding, StartCalled, Start
<1>3. SignalInv' /\ NothingLeftRunning'
  BY DEF TypeOK, CardTypeOK, OneHolds, SignalInv, ExitedInv, NothingLeftRunning, Running, Busy, Holding, LauncherRuns, Visible, At, StartCalled, Start
<1>4. ServedInv' /\ ResumeInv'
  BY DEF TypeOK, CardTypeOK, ServedInv, ResumeInv, ExitedInv, Ready, Asleep, StartCalled, Start
<1> QED BY <1>1, <1>2, <1>3, <1>4

(* The launcher's steps and the card's own, one each.                  *)
LEMMA OwnerStartStep ==
  ASSUME IInv, OwnerStart, UNCHANGED upVars
  PROVE  CardInv'
<1> USE DEF CardInv, IInv, upVars
<1>1. CardTypeOK'
  <2>1. CardTypeOK
    BY DEF TypeOK
  <2> HIDE DEF IInv, CardInv
  <2>2. /\ intended' \in {"running", "stopped"} /\ actual' \in {"running", "exited"}
        /\ starts' \subseteq {"onstart", "retry"}
    BY <2>1 DEF CardTypeOK, OwnerStart, Start, vastVars
  <2>3. at' \in [Launcher -> At] /\ ended' \in [Launcher -> BOOLEAN]
    BY <2>1 DEF CardTypeOK, At, OwnerStart, Start
  <2>4. /\ engine' \in {"off", "on"} /\ gateway' \in {"off", "loading", "ready", "asleep", "stopped"}
        /\ rows' \subseteq Row /\ ready' \in BOOLEAN /\ asleep' \in BOOLEAN /\ served' \in BOOLEAN
    BY <2>1 DEF CardTypeOK, Row, OwnerStart, Start, pairVars
  <2>5. /\ givenUp' \in BOOLEAN /\ unconfirmed' \in BOOLEAN
        /\ left' \in {"", "signal", "refused", "failed", "raced"}
    BY <2>1 DEF CardTypeOK, OwnerStart, Start, markers
  <2> QED BY <2>2, <2>3, <2>4, <2>5 DEF CardTypeOK
<1>2. OneHolds' /\ ExitedInv'
  BY DEF TypeOK, CardTypeOK, OneHolds, ExitedInv, Holding, OwnerStart, Start
<1>3. SignalInv' /\ NothingLeftRunning'
  BY DEF TypeOK, CardTypeOK, OneHolds, SignalInv, ExitedInv, NothingLeftRunning, Running, Busy, Holding, LauncherRuns, Visible, At, OwnerStart, Start
<1>4. ServedInv' /\ ResumeInv'
  BY DEF TypeOK, CardTypeOK, ServedInv, ResumeInv, ExitedInv, Ready, Asleep, OwnerStart, Start
<1> QED BY <1>1, <1>2, <1>3, <1>4

LEMMA RetryStep ==
  ASSUME IInv, Retry, UNCHANGED upVars
  PROVE  CardInv'
<1> USE DEF CardInv, IInv, upVars
<1>1. CardTypeOK'
  <2>1. CardTypeOK
    BY DEF TypeOK
  <2> HIDE DEF IInv, CardInv
  <2> QED BY <2>1 DEF CardTypeOK, At, Row, Retry, vastVars, pairVars, markers
<1>2. OneHolds' /\ ExitedInv'
  BY DEF TypeOK, CardTypeOK, OneHolds, ExitedInv, Holding, Retry
<1>3. SignalInv' /\ NothingLeftRunning'
  BY DEF TypeOK, CardTypeOK, OneHolds, SignalInv, ExitedInv, NothingLeftRunning, Running, Busy, Holding, LauncherRuns, Visible, At, Retry
<1>4. ServedInv' /\ ResumeInv'
  BY DEF TypeOK, CardTypeOK, ServedInv, ResumeInv, ExitedInv, Ready, Asleep, Retry
<1> QED BY <1>1, <1>2, <1>3, <1>4

LEMMA StopPairStep ==
  ASSUME IInv, NEW l \in Launcher, StopPair(l), UNCHANGED upVars
  PROVE  CardInv'
<1> USE DEF CardInv, IInv, upVars
<1>1. CardTypeOK'
  <2>1. CardTypeOK
    BY DEF TypeOK
  <2> HIDE DEF IInv, CardInv
  <2>2. /\ intended' \in {"running", "stopped"} /\ actual' \in {"running", "exited"}
        /\ starts' \subseteq {"onstart", "retry"}
    BY <2>1 DEF CardTypeOK, StopPair, vastVars
  <2>3. at' \in [Launcher -> At] /\ ended' \in [Launcher -> BOOLEAN]
    BY <2>1 DEF CardTypeOK, At, StopPair
  <2>4. /\ engine' \in {"off", "on"} /\ gateway' \in {"off", "loading", "ready", "asleep", "stopped"}
        /\ rows' \subseteq Row /\ ready' \in BOOLEAN /\ asleep' \in BOOLEAN /\ served' \in BOOLEAN
    BY <2>1 DEF CardTypeOK, Row, StopPair, pairVars
  <2>5. /\ givenUp' \in BOOLEAN /\ unconfirmed' \in BOOLEAN
        /\ left' \in {"", "signal", "refused", "failed", "raced"}
    BY <2>1 DEF CardTypeOK, StopPair, markers
  <2> QED BY <2>2, <2>3, <2>4, <2>5 DEF CardTypeOK
<1>2. OneHolds' /\ ExitedInv'
  BY DEF TypeOK, CardTypeOK, OneHolds, ExitedInv, Holding, StopPair
<1>3. SignalInv' /\ NothingLeftRunning'
  BY DEF TypeOK, CardTypeOK, OneHolds, SignalInv, ExitedInv, NothingLeftRunning, Running, Busy, Holding, LauncherRuns, Visible, At, StopPair
<1>4. ServedInv' /\ ResumeInv'
  BY DEF TypeOK, CardTypeOK, ServedInv, ResumeInv, ExitedInv, Ready, Asleep, StopPair
<1> QED BY <1>1, <1>2, <1>3, <1>4

LEMMA RunStep ==
  ASSUME IInv, NEW l \in Launcher, Run(l), UNCHANGED upVars
  PROVE  CardInv'
<1> USE DEF CardInv, IInv, upVars
<1>1. CardTypeOK'
  <2>1. intended' \in {"running", "stopped"} /\ actual' \in {"running", "exited"}
    BY DEF TypeOK, CardTypeOK, At, Row, Run, Dies, Goes
  <2>2. starts' \subseteq {"onstart", "retry"}
    BY DEF TypeOK, CardTypeOK, At, Row, Run, Dies, Goes
  <2>3. at' \in [Launcher -> At]
    BY DEF TypeOK, CardTypeOK, At, Row, Run, Dies, Goes
  <2>4. ended' \in [Launcher -> BOOLEAN]
    BY DEF TypeOK, CardTypeOK, At, Row, Run, Dies, Goes
  <2>5. engine' \in {"off", "on"} /\ gateway' \in {"off", "loading", "ready", "asleep", "stopped"}
    BY DEF TypeOK, CardTypeOK, At, Row, Run, Dies, Goes
  <2>6. rows' \subseteq Row
    BY DEF TypeOK, CardTypeOK, At, Row, Run, Dies, Goes
  <2>7. ready' \in BOOLEAN /\ asleep' \in BOOLEAN /\ served' \in BOOLEAN
    BY DEF TypeOK, CardTypeOK, At, Row, Run, Dies, Goes
  <2>8. givenUp' \in BOOLEAN /\ unconfirmed' \in BOOLEAN
    BY DEF TypeOK, CardTypeOK, At, Row, Run, Dies, Goes
  <2>9. left' \in {"", "signal", "refused", "failed", "raced"}
    BY DEF TypeOK, CardTypeOK, At, Row, Run, Dies, Goes
  <2> QED BY <2>1, <2>2, <2>3, <2>4, <2>5, <2>6, <2>7, <2>8, <2>9 DEF CardTypeOK
<1>2. OneHolds' /\ ExitedInv'
  BY DEF TypeOK, CardTypeOK, OneHolds, ExitedInv, Holding, Run, Dies, Goes
<1>3. SignalInv' /\ NothingLeftRunning'
  BY DEF TypeOK, CardTypeOK, OneHolds, SignalInv, ExitedInv, NothingLeftRunning, Running, Busy, Holding, LauncherRuns, Visible, At, Run, Dies, Goes
<1>4. ServedInv' /\ ResumeInv'
  BY DEF TypeOK, CardTypeOK, ServedInv, ResumeInv, ExitedInv, Ready, Asleep, Run, Dies, Goes
<1> QED BY <1>1, <1>2, <1>3, <1>4

LEMMA WaitStep ==
  ASSUME IInv, NEW l \in Launcher, Wait(l), UNCHANGED upVars
  PROVE  CardInv'
<1> USE DEF CardInv, IInv, upVars
<1>1. CardTypeOK'
  <2>1. intended' \in {"running", "stopped"} /\ actual' \in {"running", "exited"}
    BY DEF TypeOK, CardTypeOK, At, Row, Wait, Goes, Leaves
  <2>2. starts' \subseteq {"onstart", "retry"}
    BY DEF TypeOK, CardTypeOK, At, Row, Wait, Goes, Leaves
  <2>3. at' \in [Launcher -> At]
    BY DEF TypeOK, CardTypeOK, At, Row, Wait, Goes, Leaves
  <2>4. ended' \in [Launcher -> BOOLEAN]
    BY DEF TypeOK, CardTypeOK, At, Row, Wait, Goes, Leaves
  <2>5. engine' \in {"off", "on"} /\ gateway' \in {"off", "loading", "ready", "asleep", "stopped"}
    BY DEF TypeOK, CardTypeOK, At, Row, Wait, Goes, Leaves
  <2>6. rows' \subseteq Row
    BY DEF TypeOK, CardTypeOK, At, Row, Wait, Goes, Leaves
  <2>7. ready' \in BOOLEAN /\ asleep' \in BOOLEAN /\ served' \in BOOLEAN
    BY DEF TypeOK, CardTypeOK, At, Row, Wait, Goes, Leaves
  <2>8. givenUp' \in BOOLEAN /\ unconfirmed' \in BOOLEAN
    BY DEF TypeOK, CardTypeOK, At, Row, Wait, Goes, Leaves
  <2>9. left' \in {"", "signal", "refused", "failed", "raced"}
    BY DEF TypeOK, CardTypeOK, At, Row, Wait, Goes, Leaves
  <2> QED BY <2>1, <2>2, <2>3, <2>4, <2>5, <2>6, <2>7, <2>8, <2>9 DEF CardTypeOK
<1>2. OneHolds' /\ ExitedInv'
  BY DEF TypeOK, CardTypeOK, OneHolds, ExitedInv, Holding, Wait, Goes, Leaves
<1>3. SignalInv' /\ NothingLeftRunning'
  BY DEF TypeOK, CardTypeOK, OneHolds, SignalInv, ExitedInv, NothingLeftRunning, Running, Busy, Holding, LauncherRuns, Visible, At, Wait, Goes, Leaves
<1>4. ServedInv'
  <2>1. UNCHANGED <<rows, ready, asleep, served>>
    BY DEF Wait, pairVars
  <2> QED BY <2>1 DEF ServedInv, Ready, Asleep
<1>5. ResumeInv'
  <2>1. upAt # "resuming"
    BY DEF ResumeInv, ExitedInv, Wait
  <2> QED BY <2>1 DEF ResumeInv
<1> QED BY <1>1, <1>2, <1>3, <1>4, <1>5

LEMMA AttemptStep ==
  ASSUME IInv, NEW l \in Launcher, Attempt(l), UNCHANGED upVars
  PROVE  CardInv'
<1> USE DEF CardInv, IInv, upVars
<1>1. CardTypeOK'
  <2>1. intended' \in {"running", "stopped"} /\ actual' \in {"running", "exited"}
    BY DEF TypeOK, CardTypeOK, At, Row, Attempt, Dies, Goes
  <2>2. starts' \subseteq {"onstart", "retry"}
    BY DEF TypeOK, CardTypeOK, At, Row, Attempt, Dies, Goes
  <2>3. at' \in [Launcher -> At]
    BY DEF TypeOK, CardTypeOK, At, Row, Attempt, Dies, Goes
  <2>4. ended' \in [Launcher -> BOOLEAN]
    BY DEF TypeOK, CardTypeOK, At, Row, Attempt, Dies, Goes
  <2>5. engine' \in {"off", "on"} /\ gateway' \in {"off", "loading", "ready", "asleep", "stopped"}
    BY DEF TypeOK, CardTypeOK, At, Row, Attempt, Dies, Goes
  <2>6. rows' \subseteq Row
    BY DEF TypeOK, CardTypeOK, At, Row, Attempt, Dies, Goes
  <2>7. ready' \in BOOLEAN /\ asleep' \in BOOLEAN /\ served' \in BOOLEAN
    BY DEF TypeOK, CardTypeOK, At, Row, Attempt, Dies, Goes
  <2>8. givenUp' \in BOOLEAN /\ unconfirmed' \in BOOLEAN
    BY DEF TypeOK, CardTypeOK, At, Row, Attempt, Dies, Goes
  <2>9. left' \in {"", "signal", "refused", "failed", "raced"}
    BY DEF TypeOK, CardTypeOK, At, Row, Attempt, Dies, Goes
  <2> QED BY <2>1, <2>2, <2>3, <2>4, <2>5, <2>6, <2>7, <2>8, <2>9 DEF CardTypeOK
<1>2. OneHolds' /\ ExitedInv'
  BY DEF TypeOK, CardTypeOK, OneHolds, ExitedInv, Holding, Attempt, Dies, Goes
<1>3. SignalInv' /\ NothingLeftRunning'
  BY DEF TypeOK, CardTypeOK, OneHolds, SignalInv, ExitedInv, NothingLeftRunning, Running, Busy, Holding, LauncherRuns, Visible, At, Attempt, Dies, Goes
<1>4. ServedInv'
  <2>1. UNCHANGED <<rows, ready, asleep, served>>
    BY Zenon DEF Attempt, Dies, pairVars
  <2> QED BY <2>1 DEF ServedInv, Ready, Asleep
<1>5. ResumeInv'
  <2>1. upAt # "resuming"
    BY DEF ResumeInv, ExitedInv, Attempt
  <2> QED BY <2>1 DEF ResumeInv
<1> QED BY <1>1, <1>2, <1>3, <1>4, <1>5

LEMMA ReadStep ==
  ASSUME IInv, NEW l \in Launcher, Read(l), UNCHANGED upVars
  PROVE  CardInv'
<1> USE DEF CardInv, IInv, upVars
<1>1. CardTypeOK'
  <2>1. intended' \in {"running", "stopped"} /\ actual' \in {"running", "exited"}
    BY DEF TypeOK, CardTypeOK, At, Row, Read, TakeRows, Ready, Asleep
  <2>2. starts' \subseteq {"onstart", "retry"}
    BY DEF TypeOK, CardTypeOK, At, Row, Read, TakeRows, Ready, Asleep
  <2>3. at' \in [Launcher -> At]
    BY DEF TypeOK, CardTypeOK, At, Row, Read, TakeRows, Ready, Asleep
  <2>4. ended' \in [Launcher -> BOOLEAN]
    BY DEF TypeOK, CardTypeOK, At, Row, Read, TakeRows, Ready, Asleep
  <2>5. engine' \in {"off", "on"} /\ gateway' \in {"off", "loading", "ready", "asleep", "stopped"}
    BY DEF TypeOK, CardTypeOK, At, Row, Read, TakeRows, Ready, Asleep
  <2>6. rows' \subseteq Row
    BY DEF TypeOK, CardTypeOK, At, Row, Read, TakeRows, Ready, Asleep
  <2>7. ready' \in BOOLEAN /\ asleep' \in BOOLEAN /\ served' \in BOOLEAN
    BY DEF TypeOK, CardTypeOK, At, Row, Read, TakeRows, Ready, Asleep
  <2>8. givenUp' \in BOOLEAN /\ unconfirmed' \in BOOLEAN
    BY DEF TypeOK, CardTypeOK, At, Row, Read, TakeRows, Ready, Asleep
  <2>9. left' \in {"", "signal", "refused", "failed", "raced"}
    BY DEF TypeOK, CardTypeOK, At, Row, Read, TakeRows, Ready, Asleep
  <2> QED BY <2>1, <2>2, <2>3, <2>4, <2>5, <2>6, <2>7, <2>8, <2>9 DEF CardTypeOK
<1>2. OneHolds' /\ ExitedInv'
  BY DEF TypeOK, CardTypeOK, OneHolds, ExitedInv, Holding, Read, TakeRows
<1>3. SignalInv' /\ NothingLeftRunning'
  BY DEF TypeOK, CardTypeOK, OneHolds, SignalInv, ExitedInv, NothingLeftRunning, Running, Busy, Holding, LauncherRuns, Visible, At, Read, TakeRows
<1>4. ServedInv' /\ ResumeInv'
  BY DEF TypeOK, CardTypeOK, ServedInv, ResumeInv, ExitedInv, Ready, Asleep, Read, TakeRows
<1> QED BY <1>1, <1>2, <1>3, <1>4

LEMMA PairEndsStep ==
  ASSUME IInv, NEW l \in Launcher, PairEnds(l), UNCHANGED upVars
  PROVE  CardInv'
<1> USE DEF CardInv, IInv, upVars
<1>1. CardTypeOK'
  <2>1. intended' \in {"running", "stopped"} /\ actual' \in {"running", "exited"}
    BY DEF TypeOK, CardTypeOK, At, Row, PairEnds, Goes, Leaves
  <2>2. starts' \subseteq {"onstart", "retry"}
    BY DEF TypeOK, CardTypeOK, At, Row, PairEnds, Goes, Leaves
  <2>3. at' \in [Launcher -> At]
    BY DEF TypeOK, CardTypeOK, At, Row, PairEnds, Goes, Leaves
  <2>4. ended' \in [Launcher -> BOOLEAN]
    BY DEF TypeOK, CardTypeOK, At, Row, PairEnds, Goes, Leaves
  <2>5. engine' \in {"off", "on"} /\ gateway' \in {"off", "loading", "ready", "asleep", "stopped"}
    BY DEF TypeOK, CardTypeOK, At, Row, PairEnds, Goes, Leaves
  <2>6. rows' \subseteq Row
    BY DEF TypeOK, CardTypeOK, At, Row, PairEnds, Goes, Leaves
  <2>7. ready' \in BOOLEAN /\ asleep' \in BOOLEAN /\ served' \in BOOLEAN
    BY DEF TypeOK, CardTypeOK, At, Row, PairEnds, Goes, Leaves
  <2>8. givenUp' \in BOOLEAN /\ unconfirmed' \in BOOLEAN
    BY DEF TypeOK, CardTypeOK, At, Row, PairEnds, Goes, Leaves
  <2>9. left' \in {"", "signal", "refused", "failed", "raced"}
    BY DEF TypeOK, CardTypeOK, At, Row, PairEnds, Goes, Leaves
  <2> QED BY <2>1, <2>2, <2>3, <2>4, <2>5, <2>6, <2>7, <2>8, <2>9 DEF CardTypeOK
<1>2. OneHolds' /\ ExitedInv'
  BY DEF TypeOK, CardTypeOK, OneHolds, ExitedInv, Holding, PairEnds, Goes, Leaves
<1>3. SignalInv' /\ NothingLeftRunning'
  BY DEF TypeOK, CardTypeOK, OneHolds, SignalInv, ExitedInv, NothingLeftRunning, Running, Busy, Holding, LauncherRuns, Visible, At, PairEnds, Goes, Leaves
<1>4. ServedInv' /\ ResumeInv'
  BY DEF TypeOK, CardTypeOK, ServedInv, ResumeInv, ExitedInv, Ready, Asleep, PairEnds, Goes, Leaves
<1> QED BY <1>1, <1>2, <1>3, <1>4

LEMMA CloseStep ==
  ASSUME IInv, NEW l \in Launcher, Close(l), UNCHANGED upVars
  PROVE  CardInv'
<1> USE DEF CardInv, IInv, upVars
<1>1. CardTypeOK'
  <2>1. CardTypeOK
    BY DEF TypeOK
  <2> HIDE DEF IInv, CardInv
  <2> QED BY <2>1 DEF CardTypeOK, At, Row, Close, PairOver, TakeRows, Goes, Dies, vastVars, pairVars, markers
<1>2. OneHolds' /\ ExitedInv'
  BY DEF TypeOK, CardTypeOK, OneHolds, ExitedInv, Holding, Close, PairOver, TakeRows, Goes, Dies
<1>3. SignalInv' /\ NothingLeftRunning'
  BY DEF TypeOK, CardTypeOK, OneHolds, SignalInv, ExitedInv, NothingLeftRunning, Running, Busy, Holding, LauncherRuns, Visible, At, Close, PairOver, TakeRows, Goes, Dies
<1>4. ServedInv' /\ ResumeInv'
  BY DEF TypeOK, CardTypeOK, ServedInv, ResumeInv, ExitedInv, Ready, Asleep, Close, PairOver, TakeRows, Goes, Dies
<1> QED BY <1>1, <1>2, <1>3, <1>4

LEMMA StopTakenStep ==
  ASSUME IInv, NEW l \in Launcher, StopTaken(l), UNCHANGED upVars
  PROVE  CardInv'
<1> USE DEF CardInv, IInv, upVars
<1>1. CardTypeOK'
  <2>1. CardTypeOK
    BY DEF TypeOK
  <2> HIDE DEF IInv, CardInv
  <2>2. /\ intended' \in {"running", "stopped"} /\ actual' \in {"running", "exited"}
        /\ starts' \subseteq {"onstart", "retry"}
    BY <2>1 DEF CardTypeOK, StopTaken, Goes, vastVars
  <2>3. at' \in [Launcher -> At] /\ ended' \in [Launcher -> BOOLEAN]
    BY <2>1 DEF CardTypeOK, At, StopTaken, Goes
  <2>4. /\ engine' \in {"off", "on"} /\ gateway' \in {"off", "loading", "ready", "asleep", "stopped"}
        /\ rows' \subseteq Row /\ ready' \in BOOLEAN /\ asleep' \in BOOLEAN /\ served' \in BOOLEAN
    BY <2>1 DEF CardTypeOK, Row, StopTaken, Goes, pairVars
  <2>5. /\ givenUp' \in BOOLEAN /\ unconfirmed' \in BOOLEAN
        /\ left' \in {"", "signal", "refused", "failed", "raced"}
    BY <2>1 DEF CardTypeOK, StopTaken, Goes, markers
  <2> QED BY <2>2, <2>3, <2>4, <2>5 DEF CardTypeOK
<1>2. OneHolds' /\ ExitedInv'
  BY DEF TypeOK, CardTypeOK, OneHolds, ExitedInv, Holding, StopTaken, Goes
<1>3. SignalInv' /\ NothingLeftRunning'
  BY DEF TypeOK, CardTypeOK, OneHolds, SignalInv, ExitedInv, NothingLeftRunning, Running, Busy, Holding, LauncherRuns, Visible, At, StopTaken, Goes
<1>4. ServedInv' /\ ResumeInv'
  BY DEF TypeOK, CardTypeOK, ServedInv, ResumeInv, ExitedInv, Ready, Asleep, StopTaken, Goes
<1> QED BY <1>1, <1>2, <1>3, <1>4

LEMMA StopFailsStep ==
  ASSUME IInv, NEW l \in Launcher, StopFails(l), UNCHANGED upVars
  PROVE  CardInv'
<1> USE DEF CardInv, IInv, upVars
<1>1. CardTypeOK'
  <2>1. at' \in [Launcher -> At] /\ left' \in {"", "signal", "refused", "failed", "raced"}
    BY DEF TypeOK, CardTypeOK, At, StopFails, Goes
  <2>2. intended' \in {"running", "stopped"} /\ unconfirmed' \in BOOLEAN
    BY DEF TypeOK, CardTypeOK, At, StopFails, Goes
  <2>3. UNCHANGED <<actual, starts, ended, pairVars, givenUp>>
    BY Zenon DEF StopFails
  <2> QED BY <2>1, <2>2, <2>3 DEF TypeOK, CardTypeOK, pairVars
<1>2. OneHolds' /\ ExitedInv'
  BY DEF TypeOK, CardTypeOK, OneHolds, ExitedInv, Holding, StopFails, Goes
<1>3. SignalInv' /\ NothingLeftRunning'
  BY DEF TypeOK, CardTypeOK, OneHolds, SignalInv, ExitedInv, NothingLeftRunning, Running, Busy, Holding, LauncherRuns, Visible, At, StopFails, Goes
<1>4. ServedInv' /\ ResumeInv'
  BY DEF TypeOK, CardTypeOK, ServedInv, ResumeInv, ExitedInv, Ready, Asleep, StopFails, Goes
<1> QED BY <1>1, <1>2, <1>3, <1>4

LEMMA StopSignalledStep ==
  ASSUME IInv, NEW l \in Launcher, StopSignalled(l), UNCHANGED upVars
  PROVE  CardInv'
<1> USE DEF CardInv, IInv, upVars
<1>1. CardTypeOK'
  <2>1. CardTypeOK
    BY DEF TypeOK
  <2> HIDE DEF IInv, CardInv
  <2> QED BY <2>1 DEF CardTypeOK, At, Row, StopSignalled, Goes, Leaves, vastVars, pairVars, markers
<1>2. OneHolds' /\ ExitedInv'
  BY DEF TypeOK, CardTypeOK, OneHolds, ExitedInv, Holding, StopSignalled, Goes, Leaves
<1>3. SignalInv' /\ NothingLeftRunning'
  BY DEF TypeOK, CardTypeOK, OneHolds, SignalInv, ExitedInv, NothingLeftRunning, Running, Busy, Holding, LauncherRuns, Visible, At, StopSignalled, Goes, Leaves
<1>4. ServedInv' /\ ResumeInv'
  BY DEF TypeOK, CardTypeOK, ServedInv, ResumeInv, ExitedInv, Ready, Asleep, StopSignalled, Goes, Leaves
<1> QED BY <1>1, <1>2, <1>3, <1>4

LEMMA ExitStep ==
  ASSUME IInv, NEW l \in Launcher, Exit(l), UNCHANGED upVars
  PROVE  CardInv'
<1> USE DEF CardInv, IInv, upVars
<1>1. CardTypeOK'
  <2>1. CardTypeOK
    BY DEF TypeOK
  <2> HIDE DEF IInv, CardInv
  <2>2. /\ intended' \in {"running", "stopped"} /\ actual' \in {"running", "exited"}
        /\ starts' \subseteq {"onstart", "retry"}
    BY <2>1 DEF CardTypeOK, Exit, Goes, vastVars
  <2>3. at' \in [Launcher -> At] /\ ended' \in [Launcher -> BOOLEAN]
    BY <2>1 DEF CardTypeOK, At, Exit, Goes
  <2>4. /\ engine' \in {"off", "on"} /\ gateway' \in {"off", "loading", "ready", "asleep", "stopped"}
        /\ rows' \subseteq Row /\ ready' \in BOOLEAN /\ asleep' \in BOOLEAN /\ served' \in BOOLEAN
    BY <2>1 DEF CardTypeOK, Row, Exit, Goes, pairVars
  <2>5. /\ givenUp' \in BOOLEAN /\ unconfirmed' \in BOOLEAN
        /\ left' \in {"", "signal", "refused", "failed", "raced"}
    BY <2>1 DEF CardTypeOK, Exit, Goes, markers
  <2> QED BY <2>2, <2>3, <2>4, <2>5 DEF CardTypeOK
<1>2. OneHolds' /\ ExitedInv'
  BY DEF TypeOK, CardTypeOK, OneHolds, ExitedInv, Holding, Exit, Goes
<1>3. SignalInv' /\ NothingLeftRunning'
  BY DEF TypeOK, CardTypeOK, OneHolds, SignalInv, ExitedInv, NothingLeftRunning, Running, Busy, Holding, LauncherRuns, Visible, At, Exit, Goes
<1>4. ServedInv' /\ ResumeInv'
  BY DEF TypeOK, CardTypeOK, ServedInv, ResumeInv, ExitedInv, Ready, Asleep, Exit, Goes
<1> QED BY <1>1, <1>2, <1>3, <1>4

LEMMA GatewayReadyStep ==
  ASSUME IInv, GatewayReady, UNCHANGED upVars
  PROVE  CardInv'
<1> USE DEF CardInv, IInv, upVars
<1>1. CardTypeOK'
  <2>1. CardTypeOK
    BY DEF TypeOK
  <2> HIDE DEF IInv, CardInv
  <2> QED BY <2>1 DEF CardTypeOK, At, Row, GatewayReady, vastVars, pairVars, markers
<1>2. OneHolds' /\ ExitedInv'
  BY DEF TypeOK, CardTypeOK, OneHolds, ExitedInv, Holding, GatewayReady
<1>3. SignalInv' /\ NothingLeftRunning'
  BY DEF TypeOK, CardTypeOK, OneHolds, SignalInv, ExitedInv, NothingLeftRunning, Running, Busy, Holding, LauncherRuns, Visible, At, GatewayReady
<1>4. ServedInv' /\ ResumeInv'
  BY DEF TypeOK, CardTypeOK, ServedInv, ResumeInv, ExitedInv, Ready, Asleep, GatewayReady
<1> QED BY <1>1, <1>2, <1>3, <1>4

LEMMA GatewaySleepsStep ==
  ASSUME IInv, GatewaySleeps, UNCHANGED upVars
  PROVE  CardInv'
<1> USE DEF CardInv, IInv, upVars
<1>1. CardTypeOK'
  <2>1. CardTypeOK
    BY DEF TypeOK
  <2> HIDE DEF IInv, CardInv
  <2> QED BY <2>1 DEF CardTypeOK, At, Row, GatewaySleeps, vastVars, pairVars, markers
<1>2. OneHolds' /\ ExitedInv'
  BY DEF TypeOK, CardTypeOK, OneHolds, ExitedInv, Holding, GatewaySleeps
<1>3. SignalInv' /\ NothingLeftRunning'
  BY DEF TypeOK, CardTypeOK, OneHolds, SignalInv, ExitedInv, NothingLeftRunning, Running, Busy, Holding, LauncherRuns, Visible, At, GatewaySleeps
<1>4. ServedInv' /\ ResumeInv'
  BY DEF TypeOK, CardTypeOK, ServedInv, ResumeInv, ExitedInv, Ready, Asleep, GatewaySleeps
<1> QED BY <1>1, <1>2, <1>3, <1>4

LEMMA GatewayStopsStep ==
  ASSUME IInv, GatewayStops, UNCHANGED upVars
  PROVE  CardInv'
<1> USE DEF CardInv, IInv, upVars
<1>1. CardTypeOK'
  <2>1. CardTypeOK
    BY DEF TypeOK
  <2> HIDE DEF IInv, CardInv
  <2> QED BY <2>1 DEF CardTypeOK, At, Row, GatewayStops, vastVars, pairVars, markers
<1>2. OneHolds' /\ ExitedInv'
  BY DEF TypeOK, CardTypeOK, OneHolds, ExitedInv, Holding, GatewayStops
<1>3. SignalInv' /\ NothingLeftRunning'
  BY DEF TypeOK, CardTypeOK, OneHolds, SignalInv, ExitedInv, NothingLeftRunning, Running, Busy, Holding, LauncherRuns, Visible, At, GatewayStops
<1>4. ServedInv' /\ ResumeInv'
  BY DEF TypeOK, CardTypeOK, ServedInv, ResumeInv, ExitedInv, Ready, Asleep, GatewayStops
<1> QED BY <1>1, <1>2, <1>3, <1>4

LEMMA GatewayStopFailsStep ==
  ASSUME IInv, GatewayStopFails, UNCHANGED upVars
  PROVE  CardInv'
<1> USE DEF CardInv, IInv, upVars
<1>1. CardTypeOK'
  <2>1. CardTypeOK
    BY DEF TypeOK
  <2> HIDE DEF IInv, CardInv
  <2>2. /\ intended' \in {"running", "stopped"} /\ actual' \in {"running", "exited"}
        /\ starts' \subseteq {"onstart", "retry"}
    BY <2>1 DEF CardTypeOK, GatewayStopFails, vastVars
  <2>3. at' \in [Launcher -> At] /\ ended' \in [Launcher -> BOOLEAN]
    BY <2>1 DEF CardTypeOK, At, GatewayStopFails
  <2>4. /\ engine' \in {"off", "on"} /\ gateway' \in {"off", "loading", "ready", "asleep", "stopped"}
        /\ rows' \subseteq Row /\ ready' \in BOOLEAN /\ asleep' \in BOOLEAN /\ served' \in BOOLEAN
    BY <2>1 DEF CardTypeOK, Row, GatewayStopFails, pairVars
  <2>5. /\ givenUp' \in BOOLEAN /\ unconfirmed' \in BOOLEAN
        /\ left' \in {"", "signal", "refused", "failed", "raced"}
    BY <2>1 DEF CardTypeOK, GatewayStopFails, markers
  <2> QED BY <2>2, <2>3, <2>4, <2>5 DEF CardTypeOK
<1>2. OneHolds' /\ ExitedInv'
  BY DEF TypeOK, CardTypeOK, OneHolds, ExitedInv, Holding, GatewayStopFails
<1>3. SignalInv' /\ NothingLeftRunning'
  BY DEF TypeOK, CardTypeOK, OneHolds, SignalInv, ExitedInv, NothingLeftRunning, Running, Busy, Holding, LauncherRuns, Visible, At, GatewayStopFails
<1>4. ServedInv' /\ ResumeInv'
  BY DEF TypeOK, CardTypeOK, ServedInv, ResumeInv, ExitedInv, Ready, Asleep, GatewayStopFails
<1> QED BY <1>1, <1>2, <1>3, <1>4

LEMMA ProcessExitsStep ==
  ASSUME IInv, ProcessExits, UNCHANGED upVars
  PROVE  CardInv'
<1> USE DEF CardInv, IInv, upVars
<1>1. CardTypeOK'
  <2>1. CardTypeOK
    BY DEF TypeOK
  <2>2. /\ engine' \in {"off", "on"} /\ gateway' \in {"off", "loading", "ready", "asleep", "stopped"}
        /\ UNCHANGED <<vastVars, starts, at, ended, rows, ready, asleep, markers, served, left>>
    BY <2>1 DEF CardTypeOK, ProcessExits
  <2> HIDE DEF IInv, CardInv
  <2> QED BY <2>1, <2>2 DEF CardTypeOK, vastVars, markers
<1>2. OneHolds' /\ ExitedInv'
  BY DEF TypeOK, CardTypeOK, OneHolds, ExitedInv, Holding, ProcessExits
<1>3. SignalInv' /\ NothingLeftRunning'
  BY DEF TypeOK, CardTypeOK, OneHolds, SignalInv, ExitedInv, NothingLeftRunning, Running, Busy, Holding, LauncherRuns, Visible, At, ProcessExits
<1>4. ServedInv' /\ ResumeInv'
  BY DEF TypeOK, CardTypeOK, ServedInv, ResumeInv, ExitedInv, Ready, Asleep, ProcessExits
<1> QED BY <1>1, <1>2, <1>3, <1>4

LEMMA ContainerStopsStep ==
  ASSUME IInv, ContainerStops, UNCHANGED upVars
  PROVE  CardInv'
<1> USE DEF CardInv, IInv, upVars
<1>1. CardTypeOK'
  <2>1. CardTypeOK
    BY DEF TypeOK
  <2> HIDE DEF IInv, CardInv
  <2> QED BY <2>1 DEF CardTypeOK, At, Row, ContainerStops, vastVars, pairVars, markers
<1>2. OneHolds' /\ ExitedInv'
  BY DEF TypeOK, CardTypeOK, OneHolds, ExitedInv, Holding, ContainerStops
<1>3. SignalInv' /\ NothingLeftRunning'
  BY DEF TypeOK, CardTypeOK, OneHolds, SignalInv, ExitedInv, NothingLeftRunning, Running, Busy, Holding, LauncherRuns, Visible, At, ContainerStops
<1>4. ServedInv' /\ ResumeInv'
  BY DEF TypeOK, CardTypeOK, ServedInv, ResumeInv, ExitedInv, Ready, Asleep, ContainerStops
<1> QED BY <1>1, <1>2, <1>3, <1>4

LEMMA ContainerStartsStep ==
  ASSUME IInv, ContainerStarts, UNCHANGED upVars
  PROVE  CardInv'
<1> USE DEF CardInv, IInv, upVars
<1>1. CardTypeOK'
  <2>1. CardTypeOK
    BY DEF TypeOK
  <2> HIDE DEF IInv, CardInv
  <2>2. /\ intended' \in {"running", "stopped"} /\ actual' \in {"running", "exited"}
        /\ starts' \subseteq {"onstart", "retry"}
    BY <2>1 DEF CardTypeOK, ContainerStarts, vastVars
  <2>3. at' \in [Launcher -> At] /\ ended' \in [Launcher -> BOOLEAN]
    BY <2>1 DEF CardTypeOK, At, ContainerStarts
  <2>4. /\ engine' \in {"off", "on"} /\ gateway' \in {"off", "loading", "ready", "asleep", "stopped"}
        /\ rows' \subseteq Row /\ ready' \in BOOLEAN /\ asleep' \in BOOLEAN /\ served' \in BOOLEAN
    BY <2>1 DEF CardTypeOK, Row, ContainerStarts, pairVars
  <2>5. /\ givenUp' \in BOOLEAN /\ unconfirmed' \in BOOLEAN
        /\ left' \in {"", "signal", "refused", "failed", "raced"}
    BY <2>1 DEF CardTypeOK, ContainerStarts, markers
  <2> QED BY <2>2, <2>3, <2>4, <2>5 DEF CardTypeOK
<1>2. OneHolds' /\ ExitedInv'
  BY DEF TypeOK, CardTypeOK, OneHolds, ExitedInv, Holding, ContainerStarts
<1>3. SignalInv' /\ NothingLeftRunning'
  BY DEF TypeOK, CardTypeOK, OneHolds, SignalInv, ExitedInv, NothingLeftRunning, Running, Busy, Holding, LauncherRuns, Visible, At, ContainerStarts
<1>4. ServedInv' /\ ResumeInv'
  BY DEF TypeOK, CardTypeOK, ServedInv, ResumeInv, ExitedInv, Ready, Asleep, ContainerStarts
<1> QED BY <1>1, <1>2, <1>3, <1>4

-----------------------------------------------------------------------------
(* What the commands do: the card stands still, but for the resume and   *)
(* for the gateway that sleep asks.                                      *)

LEMMA CardStands ==
  ASSUME IInv, UNCHANGED cardVars, upAt' = "resuming" => upAt = "resuming" \/ VastState = "stopped"
  PROVE  CardInv'
<1> USE DEF CardInv, IInv
<1>1. CardTypeOK'
  <2>1. CardTypeOK
    BY DEF TypeOK
  <2>2. /\ intended' = intended /\ actual' = actual /\ starts' = starts /\ at' = at /\ ended' = ended /\ left' = left
        /\ engine' = engine /\ gateway' = gateway /\ rows' = rows /\ ready' = ready /\ asleep' = asleep
        /\ served' = served /\ givenUp' = givenUp /\ unconfirmed' = unconfirmed
    BY DEF cardVars, vastVars, pairVars, markers
  <2> HIDE DEF IInv, CardInv
  <2>3. /\ intended' \in {"running", "stopped"} /\ actual' \in {"running", "exited"}
        /\ starts' \subseteq {"onstart", "retry"}
        /\ at' \in [Launcher -> At] /\ ended' \in [Launcher -> BOOLEAN]
    BY <2>1, <2>2 DEF CardTypeOK
  <2>4. /\ engine' \in {"off", "on"} /\ gateway' \in {"off", "loading", "ready", "asleep", "stopped"}
        /\ rows' \subseteq Row /\ ready' \in BOOLEAN /\ asleep' \in BOOLEAN /\ served' \in BOOLEAN
    BY <2>1, <2>2 DEF CardTypeOK
  <2>5. /\ givenUp' \in BOOLEAN /\ unconfirmed' \in BOOLEAN
        /\ left' \in {"", "signal", "refused", "failed", "raced"}
    BY <2>1, <2>2 DEF CardTypeOK
  <2> QED BY <2>3, <2>4, <2>5 DEF CardTypeOK
<1>2. OneHolds' /\ SignalInv' /\ ExitedInv' /\ ServedInv'
  BY DEF OneHolds, SignalInv, ExitedInv, ServedInv, Holding, Ready, Asleep
<1>3. NothingLeftRunning'
  BY DEF NothingLeftRunning, Running, Busy
<1>4. ResumeInv'
  BY DEF ResumeInv, VastState
<1> QED BY <1>1, <1>2, <1>3, <1>4

LEMMA ResumeStep ==
  ASSUME IInv, Resume
  PROVE  CardInv'
<1> USE DEF CardInv, IInv
<1>1. CardTypeOK'
  <2>1. intended' \in {"running", "stopped"}
    BY DEF CardTypeOK, Resume
  <2>2. /\ actual' = actual /\ starts' = starts /\ at' = at /\ ended' = ended /\ left' = left
        /\ engine' = engine /\ gateway' = gateway /\ rows' = rows /\ ready' = ready /\ asleep' = asleep
        /\ served' = served /\ givenUp' = givenUp /\ unconfirmed' = unconfirmed
    BY DEF Resume, pairVars, markers
  <2>3. CardTypeOK
    BY DEF TypeOK
  <2> HIDE DEF IInv, CardInv
  <2>4. /\ intended' \in {"running", "stopped"} /\ actual' \in {"running", "exited"}
        /\ starts' \subseteq {"onstart", "retry"}
        /\ at' \in [Launcher -> At] /\ ended' \in [Launcher -> BOOLEAN]
    BY <2>1, <2>2, <2>3 DEF CardTypeOK
  <2>5. /\ engine' \in {"off", "on"} /\ gateway' \in {"off", "loading", "ready", "asleep", "stopped"}
        /\ rows' \subseteq Row /\ ready' \in BOOLEAN /\ asleep' \in BOOLEAN /\ served' \in BOOLEAN
    BY <2>1, <2>2, <2>3 DEF CardTypeOK
  <2>6. /\ givenUp' \in BOOLEAN /\ unconfirmed' \in BOOLEAN
        /\ left' \in {"", "signal", "refused", "failed", "raced"}
    BY <2>1, <2>2, <2>3 DEF CardTypeOK
  <2> QED BY <2>4, <2>5, <2>6 DEF CardTypeOK
<1>2. OneHolds' /\ SignalInv' /\ ExitedInv' /\ ServedInv'
  BY DEF OneHolds, SignalInv, ExitedInv, ServedInv, Holding, Ready, Asleep, Resume
<1>3. actual' = "exited" /\ upAt' # "resuming"
  BY DEF ResumeInv, Resume
<1>4. NothingLeftRunning' /\ ResumeInv'
  BY <1>3 DEF NothingLeftRunning, ResumeInv, Running
<1> QED BY <1>1, <1>2, <1>4

LEMMA TunnelStands ==
  ASSUME TypeOK, TunnelEnds
  PROVE  UNCHANGED cardVars /\ upAt' \in UpAt \ {"resuming"} /\ tries' \in 0..RECONNECTS
<1>1. PICK from \in {"tunnel", "held"} :
        \/ (unconfirmed \/ givenUp) /\ Moves(from, "none") /\ UNCHANGED tries
        \/ tries < RECONNECTS /\ Moves(from, "connect") /\ tries' = tries + 1
        \/ tries = RECONNECTS /\ Moves(from, "none") /\ UNCHANGED tries
  BY Zenon DEF TunnelEnds
<1>2. UNCHANGED cardVars /\ upAt' \in {"none", "connect"}
  BY <1>1, Zenon DEF Moves
<1>3. tries' = tries \/ (tries < RECONNECTS /\ tries' = tries + 1)
  BY <1>1, Zenon
<1>4. tries' \in 0..RECONNECTS
  BY <1>3 DEF TypeOK
<1> QED BY <1>2, <1>4 DEF UpAt

(* What up does: its own state keeps its type, and the card stands.      *)
LEMMA UpTypes ==
  ASSUME IInv, Begin \/ UpStep \/ TunnelEnds \/ GivesUp
  PROVE  upAt' \in UpAt /\ tries' \in 0..RECONNECTS /\ CardInv'
<1> USE DEF IInv
<1>1. CASE Begin
  <2>1. UNCHANGED cardVars /\ upAt' = "await" /\ tries' = 0
    BY <1>1 DEF Begin, Moves
  <2>2. CardInv'
    BY <2>1, CardStands
  <2> QED BY <2>1, <2>2 DEF UpAt
<1>2. CASE AwaitStopped
  <2>1. /\ UNCHANGED <<cardVars, tries>> /\ upAt' \in {"resuming", "starting"}
        /\ upAt' = "resuming" => VastState = "stopped"
    BY <1>2 DEF AwaitStopped, Moves
  <2>2. CardInv'
    BY <2>1, CardStands
  <2> QED BY <2>1, <2>2 DEF UpAt, TypeOK
<1>3. CASE Resume
  <2>1. upAt' \in {"starting", "none"} /\ UNCHANGED tries
    BY <1>3 DEF Resume
  <2>2. CardInv'
    BY <1>3, ResumeStep
  <2> QED BY <2>1, <2>2 DEF UpAt, TypeOK
<1>4. CASE AwaitRunning \/ Connect
  <2>1. UNCHANGED <<cardVars, tries>> /\ upAt' \in {"connect", "none", "tunnel"}
    BY <1>4 DEF AwaitRunning, Connect, Moves
  <2>2. CardInv'
    BY <2>1, CardStands
  <2> QED BY <2>1, <2>2 DEF UpAt, TypeOK
<1>5. CASE Serves
  <2>1. UNCHANGED cardVars /\ upAt' \in {"held", "none"} /\ tries' \in {0, tries}
    BY <1>5 DEF Serves, Moves
  <2>2. CardInv'
    BY <2>1, CardStands
  <2>3. tries' \in 0..RECONNECTS
    BY <2>1 DEF TypeOK
  <2> QED BY <2>1, <2>2, <2>3 DEF UpAt
<1>6. CASE TunnelEnds
  <2>1. UNCHANGED cardVars /\ upAt' \in UpAt \ {"resuming"} /\ tries' \in 0..RECONNECTS
    BY <1>6, TunnelStands
  <2>2. CardInv'
    BY <2>1, CardStands
  <2> QED BY <2>1, <2>2
<1>7. CASE GivesUp
  <2>1. UNCHANGED <<cardVars, tries>> /\ upAt' = "none"
    BY <1>7 DEF GivesUp
  <2>2. CardInv'
    BY <2>1, CardStands
  <2> QED BY <2>1, <2>2 DEF UpAt, TypeOK
<1> QED BY <1>1, <1>2, <1>3, <1>4, <1>5, <1>6, <1>7, Zenon DEF UpStep

(* What sleep does.                                                      *)
LEMMA SleepTypes ==
  ASSUME IInv, SleepStep, UNCHANGED upVars
  PROVE  sleepAt' \in SleepAt /\ CardInv'
<1>1. CASE Asked /\ GatewaySleeps
  BY <1>1, GatewaySleepsStep, Zenon DEF Asked, SleepAt
<1>2. CASE SleepStep /\ UNCHANGED cardVars
  <2>1. sleepAt' \in SleepAt
    BY <1>2, Zenon DEF SleepStep, SleepLooks, StateRead, Asked, AskFails, SleepEnds, SleepGivesUp, SleepMoves, SleepAt
  <2>2. CardInv'
    BY <1>2, CardStands DEF upVars
  <2> QED BY <2>1, <2>2
<1>3. SleepStep => (Asked /\ GatewaySleeps) \/ UNCHANGED cardVars
  BY Zenon DEF SleepStep, SleepLooks, StateRead, Asked, AskFails, SleepEnds, SleepGivesUp, SleepMoves, AsleepOnDemand
<1> QED BY <1>1, <1>2, <1>3, Zenon

(* What the card does.                                                   *)
LEMMA CardSteps ==
  ASSUME IInv, CardNext, UNCHANGED upVars
  PROVE  CardInv'
<1> HIDE DEF IInv
<1>1. CASE \E c \in starts : StartCalled(c)
  BY <1>1, StartCalledStep
<1>2. CASE OwnerStart \/ Retry
  BY <1>2, OwnerStartStep, RetryStep
<1>3. CASE \E l \in Launcher : StopPair(l) \/ Step(l) \/ StopTaken(l) \/ StopFails(l)
  <2>1. PICK l \in Launcher : StopPair(l) \/ Step(l) \/ StopTaken(l) \/ StopFails(l)
    BY <1>3, Zenon
  <2>2. CASE StopPair(l) \/ StopTaken(l) \/ StopFails(l)
    BY <2>2, StopPairStep, StopTakenStep, StopFailsStep, Zenon
  <2>3. CASE Step(l)
    BY <2>3, RunStep, WaitStep, AttemptStep, ReadStep, PairEndsStep, CloseStep, StopSignalledStep, ExitStep, Zenon DEF Step
  <2> QED BY <2>1, <2>2, <2>3, Zenon
<1>4. CASE GatewayReady \/ GatewaySleeps \/ GatewayStops \/ GatewayStopFails \/ ProcessExits
  BY <1>4, GatewayReadyStep, GatewaySleepsStep, GatewayStopsStep, GatewayStopFailsStep, ProcessExitsStep, Zenon
<1>5. CASE ContainerStops \/ ContainerStarts
  BY <1>5, ContainerStopsStep, ContainerStartsStep, Zenon
<1> QED BY <1>1, <1>2, <1>3, <1>4, <1>5, Zenon DEF CardNext

-----------------------------------------------------------------------------
LEMMA InitInv == ASSUME Init PROVE IInv
<1> USE DEF Init, CardInit
<1>1. TypeOK
  <2>1. at \in [Launcher -> At] /\ ended \in [Launcher -> BOOLEAN]
    BY DEF At
  <2>2. CardTypeOK
    BY <2>1 DEF CardTypeOK, Row
  <2>3. tries \in 0..RECONNECTS
    <3>1. tries = 0
      BY Zenon
    <3> HIDE DEF Init, CardInit
    <3> QED BY <3>1
  <2>4. upAt \in UpAt /\ sleepAt \in SleepAt
    BY DEF UpAt, SleepAt
  <2> QED BY <2>2, <2>3, <2>4 DEF TypeOK
<1>2. OneHolds /\ SignalInv /\ ExitedInv /\ ResumeInv /\ ServedInv
  BY DEF OneHolds, SignalInv, ExitedInv, ResumeInv, ServedInv, Holding
<1>3. NothingLeftRunning
  BY DEF NothingLeftRunning
<1> QED BY <1>1, <1>2, <1>3 DEF IInv, CardInv, TypeOK

LEMMA NextInv == ASSUME IInv, [Next]_vars PROVE IInv'
<1>0. upAt \in UpAt /\ tries \in 0..RECONNECTS /\ sleepAt \in SleepAt
  BY DEF IInv, TypeOK
<1>1. CASE CardNext /\ UNCHANGED upVars /\ sleepAt' = BootAsked
  <2>1. CardInv'
    BY <1>1, CardSteps
  <2>2. upAt' \in UpAt /\ tries' \in 0..RECONNECTS /\ sleepAt' \in SleepAt
    BY <1>0, <1>1 DEF upVars, BootAsked, SleepAt
  <2> QED BY <2>1, <2>2, Zenon DEF IInv, TypeOK, CardInv
<1>2. CASE (Begin \/ UpStep \/ TunnelEnds \/ GivesUp) /\ UNCHANGED sleepAt
  <2>1. upAt' \in UpAt /\ tries' \in 0..RECONNECTS /\ CardInv'
    BY <1>2, UpTypes
  <2> QED BY <1>0, <1>2, <2>1, Zenon DEF IInv, TypeOK, CardInv
<1>3. CASE SleepStep /\ UNCHANGED upVars
  <2>1. sleepAt' \in SleepAt /\ CardInv'
    BY <1>3, SleepTypes
  <2> QED BY <1>0, <1>3, <2>1, Zenon DEF IInv, TypeOK, CardInv, upVars
<1>4. CASE UNCHANGED vars
  <2>1. CardInv'
    BY <1>4, CardStands DEF vars, upVars
  <2> QED BY <1>0, <1>4, <2>1, Zenon DEF IInv, TypeOK, CardInv, vars, upVars
<1> QED BY <1>1, <1>2, <1>3, <1>4, Zenon DEF Next

(* The card, its launchers and the two commands: the inductive invariant. *)
THEOREM InvHolds == Spec => []IInv
<1>1. Init => IInv
  BY InitInv
<1>2. IInv /\ [Next]_vars => IInv'
  BY NextInv
<1> QED BY <1>1, <1>2, PTL DEF Spec

(* The state of card.py and of cli.py's two commands keeps its type.     *)
THEOREM TypesHold == Spec => []TypeOK
<1>1. IInv => TypeOK
  BY DEF IInv
<1> QED BY <1>1, InvHolds, PTL

(* card.launch, cli.start: no instance runs on with nothing to stop it,  *)
(* unless its owner ended the pair or something stood in its way.        *)
THEOREM StopsWhatItStarted == Spec => []NothingLeftRunning
<1>1. IInv => NothingLeftRunning
  BY DEF IInv, CardInv
<1> QED BY <1>1, InvHolds, PTL

(* cli.start: `running` is never written against a stop in flight.       *)
THEOREM NoResumeAgainstAStop == Spec => ResumesStoppedOnly
<1> DEFINE P == intended = "stopped" /\ intended' = "running" => actual = "exited"
<1>1. ASSUME IInv, [Next]_vars PROVE P
  <2> SUFFICES ASSUME intended = "stopped", intended' = "running" PROVE actual = "exited"
    OBVIOUS
  <2>1. CASE CardNext
    <3>1. intended' \in {intended, "stopped"}
      BY <2>1, Zenon DEF CardNext, Step, StartCalled, OwnerStart, Retry, Start, StopPair, Run, Wait, Attempt, Read,
         PairEnds, Close, StopTaken, StopFails, StopSignalled, Exit, GatewayReady, GatewaySleeps,
         GatewayStops, GatewayStopFails, ProcessExits, ContainerStops, ContainerStarts
    <3> QED BY <3>1
  <2>2. CASE Resume
    BY <1>1, <2>2 DEF Resume, IInv, CardInv, ResumeInv
  <2>3. CASE Begin \/ AwaitStopped \/ AwaitRunning \/ Connect \/ Serves \/ TunnelEnds \/ GivesUp
    <3>1. UNCHANGED cardVars
      BY <2>3, Zenon DEF Begin, AwaitStopped, AwaitRunning, Connect, Serves, TunnelEnds, GivesUp, Moves
    <3> QED BY <3>1
  <2>4. CASE SleepStep
    <3>1. UNCHANGED cardVars \/ GatewaySleeps
      BY <2>4, Zenon DEF SleepStep, SleepLooks, StateRead, Asked, AskFails, SleepEnds, SleepGivesUp, SleepMoves, AsleepOnDemand
    <3> QED BY <3>1 DEF GatewaySleeps
  <2>5. CASE UNCHANGED vars
    BY <2>5 DEF vars
  <2> QED BY <1>1, <2>1, <2>2, <2>3, <2>4, <2>5, Zenon DEF Next, UpStep
<1>2. ASSUME IInv, [Next]_vars PROVE [P]_vars
  BY <1>1, <1>2
<1> QED BY <1>2, InvHolds, PTL DEF Spec, ResumesStoppedOnly

(* card.launch: a pair that was ready or fell asleep does not give the   *)
(* card up, whichever of its rows had been read when it ended, and the   *)
(* end of the wait for a retry does not either, whenever the retry came. *)
THEOREM GivesUpOnlyTheUnready == Spec => GivesUpUnready
<1> DEFINE Given == ~givenUp /\ givenUp'
           Fair(l) == \/ at[l] = "ending" /\ ~served
                      \/ at[l] = "starting" /\ at'[l] = "stopping"
<1>1. ASSUME IInv, Given, NEW l \in Launcher, Attempt(l) \/ Close(l) PROVE Fair(l)
  <2>0. l \in DOMAIN at /\ ServedInv
    BY <1>1 DEF IInv, TypeOK, CardTypeOK, CardInv
  <2>1. CASE Attempt(l)
    <3>1. at[l] = "starting" /\ Goes(l, "stopping")
      BY <1>1, <2>1, Zenon DEF Attempt, Dies
    <3> QED BY <2>0, <3>1 DEF Goes
  <2>2. CASE Close(l)
    BY <1>1, <2>0, <2>2, Zenon DEF Close, ServedInv
  <2> QED BY <1>1, <2>1, <2>2, Zenon
<1>2. ASSUME [Next]_vars, Given PROVE \E l \in Launcher : Attempt(l) \/ Close(l)
  <2>1. CASE CardNext
    BY <1>2, <2>1, Zenon DEF CardNext, Step, StartCalled, OwnerStart, Retry, Start, StopPair, Run, Wait, Read,
       PairEnds, StopTaken, StopFails, StopSignalled, Exit, GatewayReady, GatewaySleeps,
       GatewayStops, GatewayStopFails, ProcessExits, ContainerStops, ContainerStarts, markers
  <2>2. CASE Begin \/ UpStep \/ TunnelEnds \/ GivesUp
    <3>1. UNCHANGED markers
      BY <2>2, Zenon DEF Begin, UpStep, AwaitStopped, Resume, AwaitRunning, Connect, Serves, TunnelEnds, GivesUp, Moves, cardVars
    <3> QED BY <1>2, <3>1 DEF markers
  <2>3. CASE SleepStep
    <3>1. UNCHANGED markers
      BY <2>3, Zenon DEF SleepStep, SleepLooks, StateRead, Asked, AskFails, SleepEnds, SleepGivesUp, SleepMoves, AsleepOnDemand, GatewaySleeps, cardVars
    <3> QED BY <1>2, <3>1 DEF markers
  <2>4. CASE UNCHANGED vars
    BY <1>2, <2>4 DEF vars, cardVars, markers
  <2> QED BY <1>2, <2>1, <2>2, <2>3, <2>4, Zenon DEF Next
<1>3. ASSUME IInv, [Next]_vars PROVE [Given => \E l \in Launcher : Fair(l)]_vars
  BY <1>1, <1>2, <1>3, Zenon
<1> QED BY <1>3, InvHolds, PTL DEF Spec, GivesUpUnready
=============================================================================
