\* One node: a batch, a manual upgrade, pairing and re-enrolment in any order,
\* two authenticated requests racing with them.
CONSTANTS
  gw = gw
  ag = ag
  Node = {gw}
  TaskID = {t1, t3}
  ManualID = {t3}
  BatchID = {b1}
  Cred = {c1, c2}
  Mode = {m1, m2}
  Version = {v1, v2}
  Link = {}
  LinkEnd <- NoLinks
  Progress = {"switching"}
  MaxBatchSize = 1
  MaxAuthed = 2
  MaxChurn = 2
  None = None
SYMMETRY Symmetry
SPECIFICATION Spec
INVARIANTS OneActivePerNode NoPairingDuringUpgrade
PROPERTIES CredentialStable ImplementsLedger
CHECK_DEADLOCK FALSE
