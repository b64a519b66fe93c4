SPECIFICATION FairSpec
CONSTANTS
  Health <- MCHealth
  Secs <- MCSecs
  Silent = 1
  Fresh = 2
  Grace = 3
  BeatsPerTick = 2
  MaxUpsets = 3
INVARIANT TypeOK
INVARIANT PenaltyIsLongest
INVARIANT PenaltyIsEnforced
INVARIANT OneLockoutPerTrip
INVARIANT SilenceBlocks
PROPERTY KnownIsResumed
PROPERTY Recovers
