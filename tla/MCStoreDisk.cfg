SPECIFICATION Spec
CONSTANTS
  e1 = e1
  e2 = e2
  e3 = e3
  EventIds = {e1, e2}
  Rivals = {e1, e2}
  Rejected = {}
  Stray = Stray
  BlockInterval = 1
  MaxReservePerCheck = 2
  MaxBlockEvents = 1
  MaxPastDrift = 0
  CheckpointInterval = 1
  CheckpointConfirmations = 1
  MaxTime = 3
  MaxFaults = 2
SYMMETRY Symmetry
INVARIANTS ServedIsOnDisk ServedIsCoherent
PROPERTIES LinesKept
