SPECIFICATION Spec
CONSTANTS
  Models = {"gpu0", "gpu1", "dual"}
  Resources <- MCResources
  Exclusive <- MCExclusive
  Requests = {r1, r2}
  r1 = r1
  r2 = r2
  r3 = r3
  Backends = {"llama"}
  Services = {}
  BackendOf <- OneBackend
  Records <- MCRecords
  ModelOf <- MCModelOf
  Cancellable = {}
  None = None
  Boot = Boot
  MaxFaults = 0
  MaxRestarts = 0
  MaxOutside = 0
SYMMETRY MCSymmetry
PROPERTY ProtectedKept
