SPECIFICATION Spec
CONSTANTS
  owner = owner
  stranger = stranger
  soup = soup
  NoCid = NoCid
  NoObject = NoObject
  Cids = {owner, stranger}
  Objects = {soup}
  Seeds = {owner}
  Authors = {owner, stranger}
  FinalityInProfile = FALSE
  ProfilePolicy <- MCPolicy
  Offered <- MCOffered
  Moments = {1, 2, 3}
  MaxLog = 3
  MaxTip = 0
INVARIANTS ModeratorsRemain OutsidersPowerless AutoHideEarned
