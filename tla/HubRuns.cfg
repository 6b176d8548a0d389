SPECIFICATION FairSpec
CONSTANTS
  Slots = 4
  Urls = 2
  DownUrls = {}
  MaxFaults = 2
INVARIANTS TypeOK AgreedConnection
PROPERTIES StopIsFinal Converges
