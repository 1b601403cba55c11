SPECIFICATION Spec
CONSTANTS
  g1 = g1  x1 = x1  n1 = n1  k1 = k1
  NoKey = NoKey  Off = Off
  Request <- MCRequest
  KindOf <- MCKindOf
  Key <- MCKey
  ClassOf <- MCClassOf
  OwnerOf <- MCOwnerOf
  ActiveCap <- MCOne
  WaitingCap <- MCOne
  SharedPlaces = 1
  PerKeyActive = 1
  PerKeyWaiting = 1
  Places = 1
  PerKey = 1
  OwnReason <- MCTimeout
  MaxDrains = 0
INVARIANTS PlacesComeBack NoIdlePlace
PROPERTIES StoppedWorkStartsNothing NoOvertaking
CHECK_DEADLOCK FALSE
