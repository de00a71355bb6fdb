SPECIFICATION Spec
CONSTANTS
  Ids = {"m--cpu", "m--cuda0", "m--cuda1", "m--cuda0-cuda1", "m--cuda1-cuda1", "m"}
  Suffix <- MCSuffix
  Devices <- MCDevices
  Gpu <- MCGpu
  Resources <- MCResources
  Defaults <- MCDefaults
  Sections <- MCSections
  ServiceSections <- MCServiceSections
  Strata = "strata"
  Limits = {0, 1, 2, 3}
  Absent = Absent
  Bad = Bad
  None = None
  MaxSections = 3
  MaxServices = 2
INVARIANTS TypeOK ClaimsMatchUse NeverEvicts ServiceApart
PROPERTY IdsKept
