SPECIFICATION Spec
CONSTANTS
  Node = {n1}
  Organization = {}
  NodeAspect = {"isActive"}
  NumberOfUpdates = 2
  QuorumSet = {"small", "large"}
  Analysis <- SmallAnalysis
  MaxUpdate = 4
INVARIANTS
  TypeOK
  OncePerOutage
  OutageTold
  DangerKnown
  QuorumSetKnown
CHECK_DEADLOCK FALSE
