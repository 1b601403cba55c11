------------------------------- MODULE Health -------------------------------
(*************************************************************************)
(* The check of a lane's engine, around the life of its service: what it *)
(* reads of the engine, what it awaits before it uses that, and the hook *)
(* of Lifecycle that follows.  In the text lane the engine is what vLLM  *)
(* serves under the alias (service.Service); in the picture lane it is   *)
(* ComfyUI's fingerprint (pictures/service.PictureService).              *)
(*************************************************************************)
EXTENDS Lifecycle

CONSTANTS
  Engine,       \* what a check may find the engine to be
  Verifiable,   \* those a boot takes: a context length; the expected versions and Triton
  NoEngine      \* nothing is read, or nothing verified

ASSUME HealthAssumption == Verifiable \subseteq Engine /\ NoEngine \notin Engine

(* The picture lane's engine is what ComfyUI's statistics say of it, of  *)
(* which a text that is missing or empty is {}: Fingerprint.of.          *)
TritonOn == "--enable-triton-backend"
TritonOff == "--disable-triton-backend"

FingerprintOf(stats) ==
  [comfyui |-> stats.comfyui_version, pytorch |-> stats.pytorch_version, card |-> stats.name,
   triton |-> TritonOn \in stats.argv /\ TritonOff \notin stats.argv]

(* _check_engine: what a boot takes, by the configuration's `expect`.    *)
AsExpected(found, expect) ==
  /\ found.comfyui = {expect.comfyui} /\ found.pytorch = {expect.pytorch}
  /\ found.triton = expect.triton

VARIABLES
  seen,    \* what the check that is under way has read
  known    \* what this boot verified: Service._engine_length, PictureService.fingerprint

healthVars == <<vars, seen, known>>

HealthInit == Init /\ seen = NoEngine /\ known = NoEngine

(* A read of the engine.  Before the first ready the text lane then awaits *)
(* one generation of its own, which may fail; the picture lane awaits the  *)
(* stops that were not confirmed, whose failures it drops.                 *)
CheckReads(e) ==
  /\ seen = NoEngine /\ seen' = e
  /\ UNCHANGED <<vars, known>>

(* The read raises: the engine does not answer, or not as it should.     *)
CheckRaises ==
  /\ seen = NoEngine /\ CheckFailed
  /\ UNCHANGED <<seen, known>>

(* Not verified: the service stays starting.                             *)
StaysStarting == known = NoEngine /\ seen \notin Verifiable /\ UNCHANGED <<vars, known>>

Verifies == known = NoEngine /\ seen \in Verifiable /\ known' = seen /\ FirstVerified

FindsIt == known # NoEngine /\ seen = known /\ EngineReady /\ UNCHANGED known

FindsAnother ==
  /\ known # NoEngine /\ seen # known /\ UNCHANGED known
  /\ IF engine_changed THEN UNCHANGED vars ELSE EngineChanges

(* The rest of the check, in one step: _engine_answered.                 *)
CheckEnds ==
  /\ seen # NoEngine /\ seen' = NoEngine
  /\ StaysStarting \/ Verifies \/ FindsIt \/ FindsAnother

(* A new boot knows no engine.                                           *)
Restart == Resume /\ seen' = NoEngine /\ known' = NoEngine

HealthNext ==
  \/ Up /\ \/ (\E r \in Request : RequestStep(r)) /\ UNCHANGED <<seen, known>>
           \/ (ControlStep \/ ServiceStep \/ Tick \/ InstanceStops) /\ UNCHANGED <<seen, known>>
           \/ (\E e \in Engine : CheckReads(e)) \/ CheckRaises \/ CheckEnds
  \/ Restart

HealthSpec == HealthInit /\ [][HealthNext]_healthVars /\ Fairness
=============================================================================
