CONSTANTS
  MaxBody = 2
  HTTPC_POLL_TIMEOUT = 3
  Failures = {"req", "request", "pcb", "conn", "state", "connect", "write", "close", "file"}
SPECIFICATION FairSpec
INVARIANTS RequestSafe BodySound
PROPERTY EveryRequestEnds
