SPECIFICATION Spec
CONSTANTS
  home = home
  other = other
  Communities = {home, other}
  HomeCommunity = home
  Environments = {"crash", "refused"}
  MaxIdentity = 2
  MaxTime = 2
  MaxUpgrades = 1
  MaxFaults = 1
  MaxFilled = 2
INVARIANTS
  StoreOnItsChain
  ResetRenewsIdentity
  MarkerReadable
PROPERTY EventsKept
