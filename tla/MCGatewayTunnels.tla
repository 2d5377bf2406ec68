-------------------------- MODULE MCGatewayTunnels --------------------------
(* Instances of GatewayTunnels for TLC.                                    *)
EXTENDS GatewayTunnels, TLC

CONSTANTS l1, r1, g1, old, new

OneRoute == l1 :> r1

link(t, p, m) == [on |-> TRUE, token |-> t, priority |-> p, weight |-> 1, max |-> m]
with(ls, secret) == [on |-> TRUE, links |-> ls, grants |-> g1 :> [route |-> r1, secret |-> secret]]

Base == with(l1 :> link(old, 1, 1), old)
Start == {Base}

\* The Gateway off; the Link with a new token; a new policy and new credentials.
Snapshots == {Off, Base, with(l1 :> link(new, 1, 1), old), with(l1 :> link(old, 2, 2), new)}
=============================================================================
