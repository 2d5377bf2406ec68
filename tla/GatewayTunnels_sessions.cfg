SPECIFICATION FairSpec
CONSTANTS
  l1 = l1
  r1 = r1
  g1 = g1
  old = old
  new = new
  Link = {l1}
  Conn = {0}
  Route = {r1}
  routeOf <- OneRoute
  Token = {old, new}
  Grant = {g1}
  Snapshot <- Snapshots
  First <- Start
  Session = {s1, s2}
  Client = {c1}
  MaxProbes = 1
  MaxChanges = 1
  MaxFaults = 1
  None = None
INVARIANTS SessionsCurrent RelayAuthorized LeasesBalanced
PROPERTIES SessionsServe RevocationTakesEffect
