SPECIFICATION AgentSpec
CONSTANTS
  Skew = {0, 1, 2, 4}
  OddSkew = 9
  Tol = 1
  AnchorEvery = 2
  Window = 2
  Debounce = 2
  Unset = Unset
  Task = {"t1", "t2"}
  Answer = {"a", "b"}
  Accepted <- MCAccepted
  MaxAttempts = 2
  RecentMax = 1
  NoTask = NoTask
  Tab = {"a", "b", "c"}
  Watched = {"a", "b"}
  Source = {"s1", "s2"}
  Earns <- MCEarns
  Ratio <- MCRatio
  Part = 4
  TabLimit = 2
  Lockout = 4
  LongTick = 2
  MaxEarned = 9
  NoTab = NoTab
  Monitor = {"m1", "m2"}
  Tile = {1}
  Content = {"bare", "clothed"}
  Key = {"k1", "k2"}
  Model = {"640m", "320n"}
  Unscanned = "unscanned"
  Places = {1, 2, 3}
  MaxFound = 2
  Hold = 2
  Wobble = 1
  Sightings = 2
  Styles = {"solid", "blur", "mosaic"}
  Filtered = {"blur", "mosaic"}
  Metric = "boxSeconds"
  MaxBoxes = 2
  MaxEvents = 3
  BlockWindow = 3
  BlockLimit = 3
  Penalty = 3
  WarnWindow = 2
  WarnLimit = 2
  WarnPause = 2
  Slack = 1
  ScaleMax = 20
  ScaleStart = 15
  Growth = 5
  Decay = 5
  CoverLimit = 1
  Spot = {1, 2}
  Pixels = {"p"}
  Look = {"plain", "blur", "static", "image"}
  Mode <- MCMode
  InCaptures = {"plain"}
  HasImage = {"image"}
  MaxRegions = 2
CHECK_DEADLOCK FALSE
INVARIANT AgentTypeOK
INVARIANT TimeIsCounted
INVARIANT CensorHolds
INVARIANT ScreenIsAsTold
PROPERTY BudgetIsKept
PROPERTY ClockIsWatched
PROPERTY ChallengeHolds
PROPERTY CaptureRecovers
