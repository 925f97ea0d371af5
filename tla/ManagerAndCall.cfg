SPECIFICATION CSpec
CONSTANTS
  Outgoing = {2, 4}
  Incoming = {1, 3}
  Peer <- PeerOf
  MaxInputs = 5
  d1 = d1
  d2 = d2
INVARIANTS ActiveExists NotStuckBusy 
PROPERTIES EndedIsDropped  HangupEndsCall AcceptedGetsMedia
CHECK_DEADLOCK FALSE
