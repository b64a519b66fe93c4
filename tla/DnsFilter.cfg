SPECIFICATION Spec
CONSTANTS
  t1 = t1
  t2 = t2
  khan = khan
  video = video
  game = game
  doh = doh
  canary = canary
  a1 = a1
  a2 = a2
  a3 = a3
  Thread <- TwoThreads
  Name <- Names
  Canary <- Firefox
  Doh <- Provider
  Address <- MCAddress
  Resolves <- MCResolves
  Wanted <- OnePolicy
INVARIANT TypeOK
INVARIANT LearnedIsInTable
 
SYMMETRY ThreadSymmetry
