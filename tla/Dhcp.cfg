CONSTANTS
  MaxBegins = 2
  MaxFlaps = 3
  MaxRenewals = 1
  MaxTries = 1
  MAX_DHCP_TRIES = 0
  Calls = {"dhcp", "static", "maintain"}
  UserTimesOut = TRUE
  OtherUsers = TRUE
SPECIFICATION FairLinkSpec
INVARIANT UpMatchesLink
 
INVARIANT StaticKept
PROPERTIES LinkFollows RequestSurvives
CHECK_DEADLOCK FALSE
