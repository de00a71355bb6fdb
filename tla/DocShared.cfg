SPECIFICATION Spec
CONSTANTS
  Models = {"gpu0", "dual"}
  Resources <- MCResources
  Exclusive <- MCExclusive
  Requests = {r1, r2}
  r1 = r1
  r2 = r2
  r3 = r3
  Backends = {"llama", "strata"}
  Services = {"strata"}
  BackendOf <- TwoBackends
  Records <- MCRecords
  ModelOf <- MCModelOf
  Cancellable = {}
  None = None
  Boot = Boot
  MaxFaults = 1
  MaxRestarts = 0
  MaxOutside = 0
SYMMETRY MCSymmetry
INVARIANT NeverShared
