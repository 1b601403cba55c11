SPECIFICATION FairSpec
CONSTANTS
  RECORD_TRIES = 1
  STOP_POLLS = 2
  IndexLimit = 2
  MIB = 2
  Reason = {"client", "timeout"}
INVARIANTS StartedIsStarted EndedLeavesNothing AnswersAreTrue RecordDeleted
PROPERTIES StopResolved
