SPECIFICATION FairSpec
CONSTANTS
  Models = {"plain"}
  Threads = {1, 2}
  Unrecognised = Unrecognised
  None = None
  MaxFaults = 1
  MaxRestarts = 1
PROPERTIES TaskEnds
