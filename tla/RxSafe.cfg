CONSTANTS
  Contexts <- MCContexts
  Items <- MCItems
  NoItem = NULL
  Capacity = 2
  CntMod = 4
  Pbufs = {p1, p2, p3, p4}
  NoPbuf = NoPbuf
  Setups <- InterruptsOrPolling
  MboxSize = 2
SYMMETRY MCSymmetry
SPECIFICATION Spec
INVARIANTS BuffersSafe SuppliesSuffice NoneStranded
CHECK_DEADLOCK FALSE
