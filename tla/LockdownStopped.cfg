SPECIFICATION FairSpec
CONSTANTS
  Health <- FineOnly
  Secs <- MCSecs
  Silent = 1
  Fresh = 2
  Grace = 3
  BeatsPerTick = 2
  MaxUpsets = 3
PROPERTY SuspendedIsResumed
