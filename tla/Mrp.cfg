CONSTANTS
  Capacity = 3
  Sizes = {2}
  MaxSeqnum = 4
SPECIFICATION FairSpec
INVARIANTS TypeOK NoWindowOverflow NothingForgotten SeqnumsUnique
PROPERTY Reliable
