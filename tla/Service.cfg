SPECIFICATION Spec
CONSTANTS
  Models = {plain, uncensored}
  Threads = {1, 2}
  Unrecognised = Unrecognised
  None = None
  MaxFaults = 1
  MaxRestarts = 1
SYMMETRY Symmetry
INVARIANTS TypeOK HolderTracked
PROPERTIES StoppedToUnload
