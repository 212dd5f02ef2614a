CONSTANTS
  Client = {c1, c2}
  Words <- MCWords
  ECHOMAX = 2
  Garbage <- MCGarbage
SPECIFICATION Spec
INVARIANT
  PrintedWasSent
CHECK_DEADLOCK FALSE
