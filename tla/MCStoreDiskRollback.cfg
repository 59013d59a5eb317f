SPECIFICATION Spec
CONSTANTS
  e1 = e1
  e2 = e2
  e3 = e3
  EventIds = {e1, e2}
  Rivals = {e1, e2}
  Rejected = {}
  Stray = Stray
  BlockInterval = 1
  MaxReservePerCheck = 2
  MaxBlockEvents = 2
  MaxPastDrift = 0
  CheckpointInterval = 2
  CheckpointConfirmations = 2
  MaxTime = 5
  MaxFaults = 0
SYMMETRY Symmetry
INVARIANTS RollbackEndsConflict
