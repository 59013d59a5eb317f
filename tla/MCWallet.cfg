SPECIFICATION Spec
CONSTANTS
  p1 = p1
  p2 = p2
  config = config
  other = other
  NoPath = NoPath
  Paths = {p1, p2}
  Passphrases = {config, other}
  ConfigPassphrase = config
  Environments <- MCEnvironments
  MaxIdentity = 2
  MaxTime = 2
  MaxFaults = 1
SYMMETRY PathSymmetry
INVARIANTS
  OpenIsBackedUp
  SignerIsInVault
  AuthorRecoverable
  SignersHaveKeys
