SPECIFICATION Spec
CONSTANTS
  p1 = p1
  p2 = p2
  self = self
  n1 = n1
  n2 = n2
  n3 = n3
  NoValue = NoValue
INVARIANTS KeysFollowMembers  
PROPERTIES  Settles
CHECK_DEADLOCK FALSE
