\* Every kind of object.
CONSTANTS
  User = {u1}
  Gateway = {g1, g2}
  Agent = {a1, e1}
  Upstream = {x1}
  Attachment = {r1, r2}
  Link = {l1}
  Grant = {k1, k2}
  Host = {h1, h2}
  Endpoint = {p1, p2}
  Value = {v1, v2}
  Owner <- EmbeddedOwner
  Build <- AnyBuild
  Watched = {g1}
  Stored <- EveryStore
  None = None
  MaxOps = 2
  MaxLate = 0
  MaxRestarts = 1
  u1 = u1
  g1 = g1
  g2 = g2
  a1 = a1
  e1 = e1
  x1 = x1
  r1 = r1
  r2 = r2
  l1 = l1
  k1 = k1
  k2 = k2
  h1 = h1
  v1 = v1
  p1 = p1
SPECIFICATION Spec
INVARIANTS Consistent RevisionIdentifiesConfig PublishedAcknowledged
CHECK_DEADLOCK FALSE
