\* Publication under fairness; the Gateway may be up- or downgraded, one report may be late.
CONSTANTS
  User = {u1}
  Gateway = {g1}
  Agent = {a1}
  Upstream = {x1}
  Attachment = {r1}
  Link = {l1}
  Grant = {k1}
  Host = {h1}
  Endpoint = {p1, p2}
  Value = {v1}
  Owner <- EmbeddedOwner
  Build <- AnyExternal
  Watched = {g1}
  Stored <- LiveStores
  None = None
  MaxOps = 1
  MaxLate = 1
  MaxRestarts = 1
  u1 = u1
  g1 = g1
  g2 = g2
  a1 = a1
  e1 = e1
  x1 = x1
  r1 = r1
  r2 = r2
  l1 = l1
  k1 = k1
  k2 = k2
  h1 = h1
  v1 = v1
  p1 = p1
SPECIFICATION FairSpec
INVARIANTS PublishedAcknowledged
PROPERTIES EventuallyPublished
CHECK_DEADLOCK FALSE
