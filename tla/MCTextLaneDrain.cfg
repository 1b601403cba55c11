SPECIFICATION FairSpec
CONSTANTS
  g1 = g1  x1 = x1  n1 = n1  k1 = k1
  NoKey = NoKey  Off = Off
  Request <- MCGenerations
  KindOf <- MCKindOf
  Key <- MCKey
  ClassOf <- MCClassOf
  OwnerOf <- MCOwnerOf
  ActiveCap <- MCOne
  WaitingCap <- MCOne
  SharedPlaces = 1
  PerKeyActive = 1
  PerKeyWaiting = 1
  Places = 1
  PerKey = 1
  OwnReason <- MCOwnReason
  MaxDrains = 2
PROPERTIES ImplementsLifecycle
CHECK_DEADLOCK FALSE
