SPECIFICATION Spec
CONSTANTS
  Peers = {p1, p2}
  NoPeer = NoPeer
  Policies <- AllOrOne
  AllPolicy <- EveryClient
  Families <- BothFamilies
  External = FALSE
  Faults <- RestorableFaults
  MaxOps = 2
  MaxFaults = 2
INVARIANTS
  TypeOK
  FailureRestores
