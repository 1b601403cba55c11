SPECIFICATION HealthSpec
CONSTANTS
  o1 = o1  x1 = x1
  Off = Off
  Request <- MCRequest
  Ours <- MCOurs
  OwnReason <- MCOwnReason
  IDLE_TIMEOUT = 2
  DRAIN_DEADLINE = 1
  FORCED_STOP = 2
  MaxDrains = 2
  MaxBoots = 2
  NoEngine = NoEngine
  Engine <- MCEngine
  Verifiable <- MCVerifiable
INVARIANTS DrainStopsTheRest
PROPERTIES OpenUndoesItsOwnDrain IdleSleepAfterInterval SleepStopsTheCard DrainEndsAllWork IdleCardSleeps
CHECK_DEADLOCK FALSE
