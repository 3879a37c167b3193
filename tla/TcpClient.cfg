CONSTANTS
  QueueLen = 2
  AvailMod = 8
  Sizes = {1, 2, 4}
  MaxConnects = 2
  MaxBytes = 5
  Lengths = {1, 2}
SPECIFICATION Spec
INVARIANT StreamRead
INVARIANT ReadToTheEnd
INVARIANT PbufsFreed
INVARIANT OnePcb
CHECK_DEADLOCK FALSE
