---- MODULE MCDesiredState ----
EXTENDS DesiredState

CONSTANTS u1, g1, g2, a1, e1, x1, r1, r2, l1, k1, k2, h1, v1, p1

\* a1 is an Agent of its own, e1 the exit embedded in g2.
EmbeddedOwner == [a \in Agent |-> IF a = e1 THEN g2 ELSE None]

\* Builds: with every feature, without external upstreams, without ingress controls.
Current == [ext |-> TRUE, controls |-> TRUE]
NoExternal == [ext |-> FALSE, controls |-> TRUE]
NoControls == [ext |-> TRUE, controls |-> FALSE]
AnyExternal == {Current, NoExternal}
AnyBuild == {Current, NoExternal, NoControls}

EmptyStore ==
  [Users |-> [u \in User |-> None], Gateways |-> [g \in Gateway |-> None],
   Agents |-> [a \in Agent \cup {None} |-> None], Upstreams |-> [x \in Upstream |-> None],
   Attachments |-> [r \in Attachment |-> None], Links |-> [l \in Link |-> None],
   Grants |-> [k \in Grant |-> None], NodeStatus |-> [g \in Gateway |-> None]]

\* A Gateway created with an address and with HY2 switched off.
fresh(n) == [ZeroGateway EXCEPT !.on = TRUE, !.version = n, !.host = h1, !.hy2 = "off"]

\* A user with one Grant on the route through the Agent a1.
AgentRoute ==
  [EmptyStore EXCEPT !.Users[u1] = "on", !.Gateways[g1] = [fresh(3) EXCEPT !.target = v1],
     !.Agents[a1] = [newAgent(v1) EXCEPT !.version = 2], !.Attachments[r1] = newAgentRoute(g1, a1),
     !.Links[l1] = newLink(r1, h1, TRUE, v1), !.Grants[k1] = newGrant(u1, r1)]

\* The same with HY2 as the second protocol of the Gateway.
HY2Route ==
  [AgentRoute EXCEPT !.Gateways[g1].hy2 = "on", !.Gateways[g1].cert = h1, !.Grants[k1].hy2 = TRUE]

\* A user with one Grant on an external route of a Gateway.
ExternalRoute ==
  [EmptyStore EXCEPT !.Users[u1] = "on", !.Gateways[g1] = fresh(3),
     !.Upstreams[x1] = [on |-> TRUE, endpoint |-> p1],
     !.Attachments[r1] = [gw |-> g1, agent |-> None, up |-> x1, on |-> TRUE],
     !.Grants[k1] = newGrant(u1, r1)]

\* The route of g1 leaves through the exit embedded in g2.
EmbeddedRoute ==
  [EmptyStore EXCEPT !.Users[u1] = "on", !.Gateways[g2] = [fresh(2) EXCEPT !.agentOn = TRUE],
     !.Gateways[g1] = [fresh(4) EXCEPT !.target = v1],
     !.Agents[e1] = [newAgent(v1) EXCEPT !.version = 3], !.Attachments[r1] = newAgentRoute(g1, e1),
     !.Links[l1] = newLink(r1, h1, FALSE, v1), !.Grants[k1] = newGrant(u1, r1)]

\* AgentRoute before its Link and its Grant were created.
BareRoute == [AgentRoute EXCEPT !.Gateways[g1].target = None, !.Links[l1] = None, !.Grants[k1] = None]

\* AgentRoute after a new REALITY target was set while g1 also had an external
\* route, since deleted: editLink bumped the Agent of every route, "" among them.
EmptyAgent == [AgentRoute EXCEPT !.Agents[None] = [ZeroAgent EXCEPT !.version = 1]]

\* Every ID was given out before, except the ones in "free".
IDs == User \cup Gateway \cup Agent \cup Upstream \cup Attachment \cup Link \cup Grant
start(s, free, o, n) == [state |-> s, used |-> IDs \ free, ops |-> o, restarts |-> n]

\* Two requests; in three of the stores also a restart of the Gateway.
EveryStore ==
  {start(EmptyStore, IDs \ {g2, e1, x1, r2, k2}, 0, 1), start(BareRoute, {l1, k1, r2, x1}, 0, 1),
   start(AgentRoute, {}, 0, 0), start(EmbeddedRoute, {}, 0, 1),
   start(HY2Route, {}, 0, 0), start(ExternalRoute, {}, 0, 0),
   start(EmptyAgent, {r2, k2}, 0, 1)}

\* One request and one restart.
LiveStores == {start(AgentRoute, {}, 0, 1), start(ExternalRoute, {}, 0, 0)}

====
