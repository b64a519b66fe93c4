SPECIFICATION Spec
CONSTANTS
  t1 = t1
  t2 = t2
  Handler <- TwoHandlers
  Envelopes <- TwoEnvelopes
  MaxDeliveries = 2
  MaxCrashes = 0
  MaxStarts = 0
CHECK_DEADLOCK FALSE
INVARIANT AcceptedStays
