CONSTANTS
  QueueLen = 1
  AvailMod = 16
  Sizes = {1, 2}
  Hosts = {1, 2}
  Lengths = {1, 3}
  MaxLength = 3
  BufferSize = 4
  MaxDatagrams = 3
  MaxLookups = 2
  MaxData = 2
  MaxBegins = 2
  Sketches = {"ntp", "echo", "reads", "sends"}
SPECIFICATION FairSpec
 
 
PROPERTY CallsReturn
CHECK_DEADLOCK FALSE
