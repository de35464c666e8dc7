SPECIFICATION FairSpec
CONSTANTS
  Peers = {p1, p2}
  NoPeer = NoPeer
  Policies <- AllOrOne
  AllPolicy <- EveryClient
  Families <- BothFamilies
  External = TRUE
  Faults <- AllFaults
  MaxOps = 2
  MaxFaults = 1
PROPERTIES
  ManifestBeforePrefs
  Converges
