SPECIFICATION DeliverySpec
CONSTANTS
  t1 = t1
  Handler <- OneHandler
  Envelopes <- MCEnvelopes
  MaxDeliveries = 4
  MaxCrashes = 1
  MaxStarts = 1
  Certificate = {"root", "mid", "leaf", "short", "issued", "plain", "fake"}
  Cert <- MCCert
  PinnedRoots <- MCRoots
  Document = {"e1", "e2", "e3", "undated", "issued", "plain", "fake", "unauthored", "alien", "torn"}
  Doc <- MCDoc
  AuthorPinned = TRUE
  NoEpoch = NoEpoch
  Nothing = Nothing
  Horizon = 3
  Deliverer = {"h1"}
  Release = {"v1", "v2", "v3", "bad"}
  Epoch <- MCEpoch
  Sound = {"v1", "v2", "v3"}
  Team <- MCTeam
  First = "v1"
  NoApp = NoApp
  TornEpoch = TornEpoch
  MaxUpdates = 2
  MaxFaults = 2
  Field = {"f"}
  Value = {0, 1, 2}
  Default <- MCDefault
  Class = {"x", "y"}
  TextSet = {"s", "t"}
  Line = {"l1", "l2"}
  Name = {"a", "b", "c"}
  Packages <- MCPackages
  Starter <- MCStarter
  Unset = Unset
  Missing = Missing
  TornFile = TornFile
CHECK_DEADLOCK FALSE
INVARIANT DeliveryTypeOK
 
 
INVARIANT PolicyInForce
PROPERTY ImplementsCustody
 
