SPECIFICATION Spec
CONSTANTS
  alice = alice
  bob = bob
  Cids = {alice, bob}
  NoCid = NoCid
  BlockIndices = {0, 1, 2, 3}
  RawSubsidy <- MCRawSubsidy
  MinSubsidy = 1
  MaxSupply = 4
  FeeDivisor = 1
  Units = {0, 1, 2, 3}
  MaxNonce = 3
  MaxAccepted = 5
SYMMETRY Symmetry
INVARIANTS NoOverdraft SupplyCapped BlockPaidOnce NoncesGapless
PROPERTIES TokenSpec
CHECK_DEADLOCK FALSE
