SPECIFICATION CSpec
CONSTANTS
  Outgoing = {2, 3}
  Incoming = {}
  Peer <- PeerOf
  MaxInputs = 3
  d1 = d1
  d2 = d2
INVARIANT FailedCallEndsItsOwn
CHECK_DEADLOCK FALSE
