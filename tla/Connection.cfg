SPECIFICATION FairSpec
CONSTANTS
  QueueCapacity = 2
  MaxSeqnum = 2
  JobKind = {"UpdateSenderStatus"}
  MaxInputs = 3
INVARIANTS TypeOK NewestStatusApplied StateTracksIce QuietAfterTerminate
PROPERTIES TerminateEnds AcceptedIsSent HangupIsTold
CHECK_DEADLOCK FALSE
