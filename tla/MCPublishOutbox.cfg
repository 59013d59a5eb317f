SPECIFICATION Spec
CONSTANTS
  l1 = l1
  l2 = l2
  LocalEvents = {l1, l2}
  RemoteEvents = {}
  NoChain = NoChain
  SwitchMayFail = TRUE
SYMMETRY Symmetry
PROPERTIES OutboxSpec
