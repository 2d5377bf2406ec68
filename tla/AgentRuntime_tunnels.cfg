\* One Link with one connection, two goroutines that may run it, one stream.
CONSTANTS
  l1 = l1
  g1 = g1
  a1 = a1
  a2 = a2
  old = old
  new = new
  Link = {l1}
  Grant = {g1}
  Target = {a1, a2}
  Tunnel = {old, new}
  Reality = {old}
  Snapshot <- Snapshots
  First <- Start
  Worker = {w1, w2}
  Slot = {s1}
  MaxConns = 1
  MaxChanges = 1
  MaxLapses = 1
  MaxFaults = 1
  None = None
SPECIFICATION FairSpec
INVARIANTS StreamsAuthorized CoresCurrent ReadyHasSession
PROPERTIES DesiredTakesEffect
