CONSTANTS
  Producers = {isr}
  Consumers = {app}
  Contexts <- MCContexts
  Items = {a, b, c}
  NoItem = NULL
  Capacity = 3
  CntMod = 8
  PutLimit = 7
SYMMETRY MCSymmetry
SPECIFICATION Spec
INVARIANT NoOverrun
PROPERTY IsFifo
CHECK_DEADLOCK FALSE
