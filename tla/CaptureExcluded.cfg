SPECIFICATION CaptureSpec
CHECK_DEADLOCK FALSE
INVARIANT ExcludedIsNotRecorded
