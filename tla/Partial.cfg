SPECIFICATION Spec
CONSTANTS
  Models = {"gpu0", "gpu1", "dual"}
  Resources <- MCResources
  Exclusive <- MCExclusive
  Requests = {r1}
  r1 = r1
  r2 = r2
  r3 = r3
  Backends = {"llama"}
  Services = {}
  BackendOf <- OneBackend
  Records <- MCRecords
  ModelOf <- MCModelOf
  Cancellable = {r1}
  None = None
  Boot = Boot
  MaxFaults = 1
  MaxRestarts = 0
  MaxOutside = 1
SYMMETRY MCSymmetry
INVARIANTS CountsMatch SwapExclusive LeavingIsVictim
PROPERTY DecisionCurrent
CHECK_DEADLOCK FALSE
