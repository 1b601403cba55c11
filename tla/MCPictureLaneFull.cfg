SPECIFICATION Spec
CONSTANTS
  Job <- MCJob
  cls <- MCcls
  LIMITS <- MCLIMITS
  ORDER = 10
  MaxNumbered = 2
INVARIANT RefusedOnlyWhenFull
