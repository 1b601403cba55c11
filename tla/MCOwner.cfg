SPECIFICATION FairSpec
CONSTANTS
  l1 = l1  l2 = l2
  Launcher <- MCLauncher
  RECONNECTS = 1
INVARIANTS NothingLeftRunning
PROPERTIES GivesUpUnready ResumesStoppedOnly CardStops CommandsEndWithCard
