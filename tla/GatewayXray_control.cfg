\* One user, two revisions, and a failure, a lapse of the lease or a removal.
CONSTANTS
  u1 = u1
  User <- MCUser
  None = None
  MaxRev = 2
  MaxFaults = 1
  MaxLapses = 1
SPECIFICATION FairSpec
ACTION_CONSTRAINT OneDisturbance
INVARIANTS AcknowledgedServed RevokedStaysOff
PROPERTIES DesiredAcknowledged RemovedUserDropped
CHECK_DEADLOCK FALSE
