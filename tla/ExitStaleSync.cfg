SPECIFICATION Spec
CONSTANTS
  Peers = {p1}
  NoPeer = NoPeer
  Policies <- OneOrNone
  AllPolicy <- EveryClient
  Families <- BothFamilies
  External = FALSE
  Faults <- NoFaults
  MaxOps = 1
  MaxFaults = 0
INVARIANT
  OnlyAskedPolicies
