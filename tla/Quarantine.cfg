SPECIFICATION FairSpec
CONSTANTS
  wifi = wifi
  ethernet = ethernet
  home = home
  school = school
  h1 = h1
  h2 = h2
  Service <- MCService
  Network <- MCNetwork
  Lists <- MCLists
  MaxCrashes = 2
  RestoreMayFail = FALSE
INVARIANT TypeOK
INVARIANT NoDeadResolver
INVARIANT OriginalsKept
INVARIANT ReasonIsEnforced
INVARIANT PinnedToForwarder
PROPERTY NoGap
PROPERTY ResolverComesBack
