SPECIFICATION Spec
CONSTANTS
  n1 = n1  n2 = n2  p1 = p1  p2 = p2  d1 = d1  s1 = s1  s2 = s2
  NoScope = NoScope  Blank = Blank
  Name <- MCName
  Put <- MCPut
  Del <- MCDel
  Scope <- MCScope
  Cap <- MCCap
  CanShutDown = TRUE
INVARIANTS BytesAccounted
PROPERTIES KeptStays
CHECK_DEADLOCK FALSE
