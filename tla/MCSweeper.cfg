SPECIFICATION SweeperFairSpec
CONSTANTS
  Job = {j1}
  Reference = {f1}
  GRACE = 2
  FILE_CAP = 3
  HISTORY_CAP = 3
  RecordGap = 1
  PassTime = 2
PROPERTIES WantedStays NoFileStays NoRecordStays
