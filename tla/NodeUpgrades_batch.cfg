\* One batch of two nodes joined by a Link, one disturbance, under fairness.
CONSTANTS
  gw = gw
  ag = ag
  Node = {gw, ag}
  TaskID = {1, 2}
  ManualID = {}
  BatchID = {b1}
  Cred = {1, 2}
  Mode = {m1}
  Version = {1, 2}
  Link = {"link"}
  LinkEnd <- OneLink
  Progress = {"switching"}
  MaxBatchSize = 2
  MaxAuthed = 1
  MaxChurn = 1
  None = None
SPECIFICATION FairSpec
ACTION_CONSTRAINTS InOrder LinkDisturbed
INVARIANTS IInv RollingOrder HaltedBatchStays RecoveredBeforeNext
PROPERTIES OutcomeFinal RecoveryDecided
CHECK_DEADLOCK FALSE

