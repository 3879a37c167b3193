CONSTANTS
  Options <- AllBuilds
  MaxBody = 2
  FileLen = 1
  QueueLen = 1
  HTTPD_MAX_RETRIES = 2
SPECIFICATION FairSpec
INVARIANTS NoDangling InStep PostFinishedOnce
PROPERTY ConnectionEnds
CHECK_DEADLOCK FALSE
