\* A systemd Agent or a Docker node, under fairness.
CONSTANTS
  Host = h
  Node = {h}
  TaskID = {t1, t2}
  ManualID = {t2}
  Version = {v1, v2}
  Progress <- AllProgress
  None = None
  Install = {{"xmesh"}, {"xmesh", "xray", "compose"}}
  MaxFaults = 2
  MaxNet = 0
SPECIFICATION FairSpec
PROPERTIES ClaimedSettles ServiceReturns
CHECK_DEADLOCK FALSE
