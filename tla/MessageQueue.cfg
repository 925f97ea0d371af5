SPECIFICATION FairSpec
CONSTANTS
  Outgoing = {1}
  Incoming = {2}
  MaxIce = 2
  MaxInputs = 4
INVARIANTS  CandidatesAnnounced
PROPERTIES OfferBeforeHangup HangupIsSent
CHECK_DEADLOCK FALSE
