SPECIFICATION FairSpec
CONSTANTS
  MaxFutureDrift = 1
  BeatsPerSecond = 2
  BeatsPerTick = 3
  MaxBlocks = 3
  MaxAttempts = 1
  MaxRestarts = 1
INVARIANTS ClaimedOnceByNode PublishedOnce
PROPERTIES BacklogDrains QueueDrains
