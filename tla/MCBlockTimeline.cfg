SPECIFICATION Spec
CONSTANTS
  e1 = e1
  e2 = e2
  EventIds = {e1, e2}
  Sizes = {1, 2}
  BlockInterval = 2
  MaxReservePerCheck = 2
  MaxBlockEvents = 2
  MaxBlockBytes = 2
  MaxFutureDrift = 1
  MaxPastDrift = 3
  EnablePruning = TRUE
  PruneKeepRecent = 2
  CheckpointInterval = 2
  CheckpointConfirmations = 2
  MaxTime = 7
SYMMETRY Symmetry
INVARIANTS TypeOK EventsPlacedOnce BlocksWithinLimits
PROPERTIES ConfirmedFrozen CheckpointedEventsKept
