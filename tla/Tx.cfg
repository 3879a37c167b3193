CONSTANTS
  Contexts = {"tcpip", "eth"}
  f1 = f1
  f2 = f2
  f3 = f3
  Items = {f1, f2, f3}
  NoItem = NULL
  Capacity = 2
  CntMod = 8
  PutLimit = 3
  Setups <- MCSetups
SPECIFICATION FairSpec
INVARIANTS FramesKept OkMeansSent
PROPERTIES FramesSent QueueRecovers
CHECK_DEADLOCK FALSE
