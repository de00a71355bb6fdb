SPECIFICATION FairSpec
CONSTANTS
  Clients = {"ctl", "stranger"}
  Allowed = {"ctl"}
  Root = {"ctl"}
  Gpus = {"chipset", "direct"}
  Links <- MCLinks
  Cuda <- MCCuda
  None = None
  Limit = 1
  Backlog = 2
  MaxTicks = 2
  MaxFaults = 1
INVARIANTS TypeOK FactsTrue
PROPERTIES SharesRecent Served ComesBack
