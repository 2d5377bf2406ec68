\* A systemd Agent and no fault but a failed preparation.
CONSTANTS
  Host = h
  Node = {h}
  TaskID = {t1, t2}
  ManualID = {t2}
  Version = {v1, v2}
  Progress <- AllProgress
  None = None
  Install = {{"xmesh"}}
  MaxFaults = 0
  MaxNet = 0
SPECIFICATION FairSpec
PROPERTIES FailureReported
CHECK_DEADLOCK FALSE
