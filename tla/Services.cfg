SPECIFICATION Spec
CONSTANTS
  Models = {"gpu0", "dual"}
  Resources <- MCResources
  Exclusive <- MCExclusive
  Requests = {r1, r2}
  r1 = r1
  r2 = r2
  r3 = r3
  Backends = {"llama", "strata"}
  Services = {"strata"}
  BackendOf <- TwoBackends
  Records <- MCRecords
  ModelOf <- MCModelOf
  Cancellable = {}
  None = None
  Boot = Boot
  MaxFaults = 2
  MaxRestarts = 1
  MaxOutside = 0
SYMMETRY MCSymmetry
INVARIANTS TypeOK CountsMatch WaitersDriven ResourceExclusive HoldersTracked
PROPERTIES LoadAfterUnload ImplementsTurns
CHECK_DEADLOCK FALSE
