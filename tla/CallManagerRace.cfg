SPECIFICATION CSpec
CONSTANTS
  Outgoing = {2, 4}
  Incoming = {}
  Peer <- PeerOf
  MaxInputs = 4
  d1 = d1
  d2 = d2
INVARIANT EndsItsOwnCall
CHECK_DEADLOCK FALSE
