CONSTANTS
  Pages <- MCPages
  TagDesc <- MCTagDesc
  Known <- MCKnown
  MaxName = 1
  SndBuf = 3
  HTTPD_MAX_RETRIES = 2
  IncludeTag = {TRUE, FALSE}
SPECIFICATION FairSendSpec
INVARIANTS  NoStall
PROPERTY AnswerEnds
CHECK_DEADLOCK FALSE
