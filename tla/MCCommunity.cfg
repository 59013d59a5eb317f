SPECIFICATION Spec
CONSTANTS
  me = me
  peer = peer
  Cids = {me, peer}
  Me = me
  Seeds = {me}
  NoCid = NoCid
  NoObject = NoObject
  EventIds = {1, 2, 3, 4, 5}
  BlockIndices = {0, 1, 2, 3, 4, 5, 6, 7}
  RawSubsidy <- MCSubsidy
  MinSubsidy = 1
  MaxSupply = 100
  FeeDivisor = 100
  BlockInterval = 1
  MaxReservePerCheck = 9
  MaxBlockEvents = 3
  MaxBlockBytes = 3
  Sizes = {1, 2}
  ClaimSize = 1
  MaxFutureDrift = 3
  MaxPastDrift = 1
  CheckpointInterval = 2
  CheckpointConfirmations = 2
  Settings <- MCSettings
  Amounts = {1}
  MaxNonce = 1
INVARIANTS TypeOK OwnEventsStand AloneRuns ServedPaidFor BoardCoherent TotalsComplete CountsFresh
PROPERTIES DroppedForCauseOnly
