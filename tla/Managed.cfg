\* A run of either channel with every fault of calls, runtime and ownership.
SPECIFICATION FairSpec
CONSTANTS
  Channel <- BothChannels
  MaxEpoch = 2
INVARIANTS
  TypeOK
  ReceiptAgrees
  CancelledNeverDone
PROPERTIES
  ClosedStays
  EffectKept
  RunSettles
  EvidenceRecorded
CHECK_DEADLOCK FALSE
