SPECIFICATION FairSpec
CONSTANTS
  r1 = r1  r2 = r2  a1 = a1  a2 = a2  i1 = i1
  x1 = x1  x2 = x2  y1 = y1  w1 = w1  w2 = w2
  k1 = k1  k2 = k2  NoKey = NoKey
  Ticket <- MCTicket
  Key <- MCKey
  ClassOf <- MCClassOf
  OwnerOf <- MCOwnerOf
  ActiveCap <- MCActiveCap
  WaitingCap <- MCWaitingCap
  SharedPlaces = 2
  PerKeyActive = 1
  PerKeyWaiting = 1
INVARIANTS CapsHeld WorkConserving
PROPERTIES OvertakenOnlyBehindOwnCap StarvedOnlyByPriority
