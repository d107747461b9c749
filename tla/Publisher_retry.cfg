SPECIFICATION FairSpec
CONSTANTS
  Sizes = {1, 3}
  MaxBytes = 2
  MaxAge = 1
  MaxBatchItems = 2
  ProbeInterval = 2
  Delays = {1}
  Waits = {1}
  MaxSend = 1
  StampDelay = 1
  MaxItems = 3
  MayStop = TRUE
INVARIANTS
  Conserved
  BytesAgree
  NotOvertaken
PROPERTIES
  EventuallySettled
  Recovers
