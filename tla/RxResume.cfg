CONSTANTS
  Contexts <- MCContexts
  Items <- MCItems
  NoItem = NULL
  Capacity = 1
  CntMod = 2
  Pbufs = {p1, p2}
  NoPbuf = NoPbuf
  Setups <- Everyone
  MboxSize = 1
SPECIFICATION FairSpec
INVARIANT LockReleased
 
CHECK_DEADLOCK FALSE
