SPECIFICATION Spec
CONSTANTS
  l1 = l1
  l2 = l2
  r1 = r1
  LocalEvents = {l1, l2}
  RemoteEvents = {r1}
  NoChain = NoChain
  SwitchMayFail = FALSE
SYMMETRY Symmetry
INVARIANTS PublishedOnOwnChain OwnEventsInOwnStore
