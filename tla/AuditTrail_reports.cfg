SPECIFICATION Spec
CONSTANTS
  User = {u1, u2}
  Conn = {c1}
  Limit = {1, 2}
  Default = 2
  Segment = 2
  MaxArchives = 1
  Packed <- Half
  QueueSize = 2
  MaxKeys = 2
  MaxBatch = 2
  MaxDropped = 1
  MaxGen = 1
  MaxEvents = 2
  MaxChanges = 1
  MaxFaults = 1
  None = None
SYMMETRY Sym
INVARIANTS ClearedStays LossAccounted QuotaKept
