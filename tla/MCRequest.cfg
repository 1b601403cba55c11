CONSTANTS
  Data <- DataDef
  EngineLength <- EngineLengthDef
  BUCKETS <- BUCKETSDef
  MAX_LINE_BYTES = 2
  MIB = 3
  GB = 2000
  NO_LIMIT = 5000
SPECIFICATION Spec
INVARIANTS OutcomeIsTrue CachesApart
PROPERTIES AnswersByTheContract RequestEnds
CHECK_DEADLOCK FALSE
