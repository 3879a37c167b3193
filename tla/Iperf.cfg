CONSTANTS
  Modes = {"server", "client", "dual", "tradeoff"}
  MaxSessions = 3
  Header = 2
  Block = 4
  MaxStream = 7
  MaxIdle = 2
SPECIFICATION FairIperfSpec
INVARIANTS SessionsSound SessionsInStep
  
CHECK_DEADLOCK FALSE
