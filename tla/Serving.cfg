SPECIFICATION FairSpec
CONSTANTS
  Models = {"m"}
  Chats = {1}
  None = None
  MaxFaults = 1
INVARIANTS TypeOK Freed AdmittedWhileOpen ToldTruth
PROPERTIES ImplementsBackend UnloadsIdle CallsReturn LeaverFrees
