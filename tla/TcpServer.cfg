CONSTANTS
  MAX_CLIENT = 2
  MaxConns = 3
  MaxBytes = 1
  SndBuf = 1
  Reply = 2
  Sketches = {"web", "chat", "dhcpchat", "advanced"}
SPECIFICATION FairSpec
INVARIANT StructsSafe
 
 
CHECK_DEADLOCK FALSE
