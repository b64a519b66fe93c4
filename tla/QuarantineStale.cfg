SPECIFICATION Spec
CONSTANTS
  wifi = wifi
  ethernet = ethernet
  home = home
  school = school
  h1 = h1
  h2 = h2
  Service <- MCService
  Network <- MCNetwork
  Lists <- OneList
  MaxCrashes = 1
  RestoreMayFail = FALSE
INVARIANT NoReasonMeansOpen
