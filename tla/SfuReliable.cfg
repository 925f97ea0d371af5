CONSTANTS
  Capacity = 4
  Sizes = {2}
  MaxSeqnum = 3
SPECIFICATION SfuSpec
INVARIANT ReadyMeansHandled
