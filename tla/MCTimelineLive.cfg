SPECIFICATION FairSpec
CONSTANTS
  e1 = e1
  e2 = e2
  EventIds = {e1, e2}
  Sizes = {1}
  BlockInterval = 2
  MaxReservePerCheck = 2
  MaxBlockEvents = 1
  MaxBlockBytes = 1
  MaxFutureDrift = 0
  MaxPastDrift = 1
  EnablePruning = FALSE
  PruneKeepRecent = 2
  CheckpointInterval = 2
  CheckpointConfirmations = 1
  MaxTime = 4
PROPERTIES DueEventsConfirmed
