SPECIFICATION FairSpec
CONSTANTS
  Grant = {g1}
  Link = {l1}
  Reality = {}
  MaxInstances = 2
  MaxBytes = 2
  MaxDeletions = 1
  MaxFaults = 2
  None = None
INVARIANTS
  UsageCounted
  DeletedGrantCounted
PROPERTY
  ReportsAccepted
