SPECIFICATION FairSpec
CONSTANTS
  Devices = {d1}
  Local = local
  Creators = {"none", "self"}
  MaxJoins = 2
  MaxPeeks = 1
  MaxInputs = 2
INVARIANTS  EndedOnce ConfiguredOnce 
PROPERTIES ViewCatchesUp
CHECK_DEADLOCK FALSE
