\* A systemd Gateway or a Docker node: one task of a batch, one manual upgrade.
CONSTANTS
  Host = h
  Node = {h}
  TaskID = {t1, t2}
  ManualID = {t2}
  Version = {v1, v2}
  Progress <- AllProgress
  None = None
  Install = {{"xmesh", "xray"}, {"xmesh", "xray", "compose"}}
  MaxFaults = 2
  MaxNet = 1
SPECIFICATION Spec
INVARIANTS TornAccounted Agreement WorkKnown
PROPERTIES OutcomeTrue
CHECK_DEADLOCK FALSE
