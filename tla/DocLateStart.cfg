SPECIFICATION Spec
CONSTANTS
  Models = {"plain", "uncensored"}
  Threads = {1, 2, 3}
  Unrecognised = Unrecognised
  None = None
  MaxFaults = 2
  MaxRestarts = 0
INVARIANTS LateStartKept
