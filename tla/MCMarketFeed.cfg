SPECIFICATION FairSpec
CONSTANTS
  None = None
  live = live
  backup = backup
  price = price
  volume = volume
  Urls <- MCUrls
  Streams <- MCStreams
  MaxFeeds = 3
  MaxAttempts = 2
INVARIANTS
  ListensAsWanted
  OneLiveSocket
PROPERTIES
  FeedListens
CHECK_DEADLOCK FALSE
