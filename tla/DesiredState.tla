---- MODULE DesiredState ----
(***************************************************************************)
(* The Controller's desired state: users, Gateways, Agents, external       *)
(* upstreams, routes (Attachments), Links and Grants; the handlers of the  *)
(* panel that change them; the configuration a node is served              *)
(* (nodeConfig); and the status reports by which a Gateway acknowledges a  *)
(* revision, which is what publishes a Grant in a subscription             *)
(* (nodeStatus).                                                           *)
(*                                                                         *)
(* Every handler runs as one transaction of the store (Store.Update), so   *)
(* each is one action that rewrites the record "state" (model.State).  The *)
(* concurrency is between these transactions and the nodes: a node polls a *)
(* configuration, applies it and reports later, and a report may be        *)
(* processed long after it was sent.                                       *)
(*                                                                         *)
(* IDs are created once, except the ID of an embedded Agent, which is      *)
(* derived from its Gateway's.  None stands for the empty ID or value.     *)
(***************************************************************************)
EXTENDS Naturals, FiniteSets

CONSTANTS
  User, Gateway, Agent, Upstream, Attachment, Link, Grant,  \* IDs
  Host,       \* public addresses
  Endpoint,   \* connections of an external upstream
  Value,      \* values of a setting: Link policy, CIDR list, REALITY target
  Owner,      \* the Gateway an Agent is embedded in, or None
  Build,      \* capabilities of the Gateway builds in use
  Watched,    \* the nodes whose processes are followed
  Stored,     \* the states the Controller may start with (Store.Open), each with the
              \* IDs given out before and the part of MaxOps and MaxRestarts not to use
  None,
  MaxOps,     \* bound: administrator requests
  MaxLate,    \* bound: reports under way
  MaxRestarts \* bound: restarts of node processes

VARIABLES
  state,     \* model.State
  conf,      \* per node process: the configuration it has applied, or None
  cap,       \* per Gateway process: the capabilities of its build
  late,      \* reports sent and not yet processed
  acked,     \* history: the configuration behind a Gateway's last acknowledgement
  used,      \* the IDs given out so far
  ops, restarts

vars == <<state, conf, cap, late, acked, used, ops, restarts>>
process == <<conf, cap, late, acked, restarts>>

Node == Gateway \cup Agent

-----------------------------------------------------------------------------
(* model.State: one map per kind of object.                                *)

GatewayEntry == [on : BOOLEAN, agentOn : BOOLEAN, version : Nat, host : Host \cup {None}, auto : BOOLEAN,
                 detected : Host \cup {None}, vmess : BOOLEAN, hy2 : {"unset", "on", "off"},
                 cert : Host \cup {None}, target : Value \cup {None}]
AgentEntry == [on : BOOLEAN, version : Nat, cidrs : Value \cup {None}]
UpstreamEntry == [on : BOOLEAN, endpoint : Endpoint \cup {None}]
AttachmentEntry == [gw : Gateway, agent : Agent \cup {None}, up : Upstream \cup {None}, on : BOOLEAN]
LinkEntry == [route : Attachment, on : BOOLEAN, url : Host \cup {None}, auto : BOOLEAN,
              sched : Value, conns : Value]
GrantEntry == [user : User, route : Attachment, on : BOOLEAN, pub : BOOLEAN, cred : Nat, hy2 : BOOLEAN]
StatusEntry == [ext : BOOLEAN, hy2 : BOOLEAN]

State ==
  [Users : [User -> {None, "on", "off"}], Gateways : [Gateway -> GatewayEntry \cup {None}],
   Agents : [Agent \cup {None} -> AgentEntry \cup {None}], Upstreams : [Upstream -> UpstreamEntry \cup {None}],
   Attachments : [Attachment -> AttachmentEntry \cup {None}], Links : [Link -> LinkEntry \cup {None}],
   Grants : [Grant -> GrantEntry \cup {None}], NodeStatus : [Gateway -> StatusEntry \cup {None}]]

\* The empty ID is the ID of nothing, and an entry is not the absence of one.
ASSUME NoneAssumption ==
  /\ None \notin User \cup Gateway \cup Agent \cup Upstream \cup Attachment \cup Link \cup Grant
  /\ None \notin Host \cup Endpoint \cup Value \cup {"on", "off"}
  /\ None \notin GatewayEntry /\ None \notin AgentEntry /\ None \notin UpstreamEntry
  /\ None \notin AttachmentEntry /\ None \notin LinkEntry /\ None \notin GrantEntry
  /\ None \notin StatusEntry

\* Gateways and Agents have IDs of their own; a Gateway has one embedded Agent.
ASSUME OwnerAssumption ==
  /\ Gateway \cap Agent = {}
  /\ Owner \in [Agent -> Gateway \cup {None}]
  /\ \A a, b \in Agent : Owner[a] = Owner[b] /\ Owner[a] # None => a = b

\* The bumps of a revision are counted by routes, Links and Grants.
ASSUME FiniteAssumption == IsFiniteSet(Attachment) /\ IsFiniteSet(Link) /\ IsFiniteSet(Grant)

ASSUME BuildAssumption == Build \subseteq [ext : BOOLEAN, controls : BOOLEAN]

-----------------------------------------------------------------------------
(* Reading the state.  A missing map entry reads as the zero record.       *)

ZeroGateway == [on |-> FALSE, agentOn |-> FALSE, version |-> 0, host |-> None, auto |-> FALSE,
                detected |-> None, vmess |-> TRUE, hy2 |-> "unset", cert |-> None, target |-> None]
ZeroAgent == [on |-> FALSE, version |-> 0, cidrs |-> None]

gateway(s, g) == IF s.Gateways[g] = None THEN ZeroGateway ELSE s.Gateways[g]
agent(s, a) == IF s.Agents[a] = None THEN ZeroAgent ELSE s.Agents[a]

routesOf(s, n) == {r \in Attachment : s.Attachments[r] # None /\ n \in {s.Attachments[r].gw, s.Attachments[r].agent}}
linksOf(s, r) == {l \in Link : s.Links[l] # None /\ s.Links[l].route = r}
grantsOf(s, R) == {k \in Grant : s.Grants[k] # None /\ s.Grants[k].route \in R}
userGrants(s, u) == {k \in Grant : s.Grants[k] # None /\ s.Grants[k].user = u}
gatewayOf(s, k) == s.Attachments[s.Grants[k].route].gw

HY2Enabled(gw) == gw.hy2 = "on"

agentEnabled(s, a) ==
  /\ agent(s, a).on
  /\ a # None /\ Owner[a] # None => gateway(s, Owner[a]).on /\ gateway(s, Owner[a]).agentOn

upstreamAvailable(s, r) ==
  LET x == s.Attachments[r].up
  IN  x # None /\ s.Upstreams[x] # None /\ s.Upstreams[x].on /\ s.Upstreams[x].endpoint # None

reportsExternal(s, g) == s.NodeStatus[g] # None /\ s.NodeStatus[g].ext

routeAvailable(s, r) ==
  LET route == s.Attachments[r]
  IN  /\ route.on /\ gateway(s, route.gw).on
      /\ IF route.up # None
         THEN reportsExternal(s, route.gw) /\ upstreamAvailable(s, r)
         ELSE agentEnabled(s, route.agent) /\ \E l \in linksOf(s, r) : s.Links[l].on

authorized(s, k) == s.Grants[k].on /\ s.Users[s.Grants[k].user] = "on"

-----------------------------------------------------------------------------
(* What a node is served.                                                  *)

NoConfig == [on |-> FALSE, host |-> None, vmess |-> FALSE, hy2 |-> FALSE, cert |-> None,
             target |-> None, links |-> {}, upstreams |-> {}, grants |-> {}]

\* "controls" says that the Gateway knows the ingress switches
\* (X-XMesh-Ingress-Controls); one that does not gets no users while VMess is off.
gatewayConfig(s, g, controls) ==
  LET gw == gateway(s, g)
      routes == {r \in routesOf(s, g) : s.Attachments[r].gw = g /\ s.Attachments[r].on}
      hy2 == HY2Enabled(gw) /\ gw.host # None
  IN  IF ~gw.on THEN NoConfig
      ELSE [on |-> TRUE, host |-> gw.host, vmess |-> gw.vmess, hy2 |-> hy2,
            cert |-> IF hy2 THEN gw.cert ELSE None, target |-> gw.target,
            links |-> {<<l, s.Links[l].sched>> : l \in {l \in Link : \E r \in routes : /\ s.Attachments[r].up = None
                                                                                       /\ l \in linksOf(s, r)
                                                                                       /\ s.Links[l].on}},
            upstreams |-> {<<r, s.Upstreams[s.Attachments[r].up].endpoint>> :
                             r \in {r \in routes : upstreamAvailable(s, r)}},
            grants |-> {<<k, s.Grants[k].cred, s.Grants[k].hy2>> :
                          k \in {k \in grantsOf(s, routes) : /\ authorized(s, k)
                                                             /\ routeAvailable(s, s.Grants[k].route)
                                                             /\ gw.vmess \/ controls}}]

agentConfig(s, a) ==
  LET routes == {r \in routesOf(s, a) : routeAvailable(s, r)}
  IN  IF ~agentEnabled(s, a) THEN NoConfig
      ELSE [NoConfig EXCEPT
              !.on = TRUE, !.target = agent(s, a).cidrs,
              !.links = UNION {{<<l, s.Links[l].url, s.Links[l].conns, gateway(s, s.Attachments[r].gw).target>> :
                                  l \in {l \in linksOf(s, r) : s.Links[l].on /\ ~(s.Links[l].auto /\ s.Links[l].url = None)}} :
                               r \in routes},
              !.grants = {k \in grantsOf(s, routes) : authorized(s, k)}]

exists(s, n) == IF n \in Gateway THEN s.Gateways[n] # None ELSE s.Agents[n] # None
desiredVersion(s, n) == IF n \in Gateway THEN gateway(s, n).version ELSE agent(s, n).version
desiredConfig(s, n) == IF n \in Gateway THEN gatewayConfig(s, n, cap[n].controls) ELSE agentConfig(s, n)

-----------------------------------------------------------------------------
(* Writing the state.                                                      *)

\* A bump of a missing entry creates it, as the assignment to the map does.
bumpGateway(s, g) == [s EXCEPT !.Gateways[g] = [gateway(s, g) EXCEPT !.version = @ + 1]]
bumpAgent(s, a) == [s EXCEPT !.Agents[a] = [agent(s, a) EXCEPT !.version = @ + 1]]

\* One bump of its Gateway for every route in R.
bumpGateways(s, R) ==
  LET n(g) == Cardinality({r \in R : s.Attachments[r].gw = g})
  IN  [s EXCEPT !.Gateways = [g \in Gateway |-> IF n(g) = 0 THEN @[g]
                                                ELSE [gateway(s, g) EXCEPT !.version = @ + n(g)]]]

bumpAgents(s, R) ==
  LET n(a) == Cardinality({r \in R : s.Attachments[r].agent = a})
  IN  [s EXCEPT !.Agents = [a \in Agent \cup {None} |-> IF n(a) = 0 THEN @[a]
                                                         ELSE [agent(s, a) EXCEPT !.version = @ + n(a)]]]

bumpEnds(s, r) == bumpAgent(bumpGateway(s, s.Attachments[r].gw), s.Attachments[r].agent)

unpublish(s, K) ==
  [s EXCEPT !.Grants = [k \in Grant |-> IF k \in K THEN [s.Grants[k] EXCEPT !.pub = FALSE] ELSE s.Grants[k]]]

unpublishGatewayGrants(s, g) == unpublish(s, grantsOf(s, {r \in routesOf(s, g) : s.Attachments[r].gw = g}))

unpublishGrantsWithoutLink(s, r) ==
  IF \E l \in linksOf(s, r) : s.Links[l].on THEN s ELSE unpublish(s, grantsOf(s, {r}))

\* Issues the certificate and the HY2 secrets that are missing.
configureHY2(s, g) ==
  LET gw == gateway(s, g)
      K == grantsOf(s, {r \in routesOf(s, g) : s.Attachments[r].gw = g})
  IN  IF ~HY2Enabled(gw) \/ gw.host = None THEN s
      ELSE [s EXCEPT !.Gateways[g].cert = IF @ = None THEN gw.host ELSE @,
                     !.Grants = [k \in Grant |-> IF k \in K THEN [s.Grants[k] EXCEPT !.hy2 = TRUE] ELSE s.Grants[k]]]

changeGatewayHost(s, g, h) ==
  LET auto == {l \in Link : /\ s.Links[l] # None /\ s.Links[l].auto
                            /\ s.Attachments[s.Links[l].route].gw = g}
      bumps(a) == Cardinality({l \in auto : s.Attachments[s.Links[l].route].agent = a})
  IN  IF gateway(s, g).host = h THEN s
      ELSE [s EXCEPT !.Links = [l \in Link |-> IF l \in auto THEN [s.Links[l] EXCEPT !.url = h] ELSE s.Links[l]],
                     !.Agents = [a \in Agent \cup {None} |-> IF bumps(a) = 0 THEN s.Agents[a]
                                                              ELSE [agent(s, a) EXCEPT !.version = @ + bumps(a)]],
                     !.Gateways[g].host = h, !.Gateways[g].cert = None]

\* Mutant: the Grants of a removed route stay.
removeAttachments_keepsGrants(s, R) ==
  LET b == bumpAgents(bumpGateways(s, R), R)
  IN  [b EXCEPT !.Gateways = [g \in Gateway |-> IF s.Gateways[g] = None THEN None ELSE b.Gateways[g]],
                !.Agents = [a \in Agent \cup {None} |-> IF s.Agents[a] = None THEN None ELSE b.Agents[a]],
                !.Links = [l \in Link |-> IF \E r \in R : l \in linksOf(s, r) THEN None ELSE s.Links[l]],
                !.Attachments = [r \in Attachment |-> IF r \in R THEN None ELSE s.Attachments[r]]]

\* Routes go with their Grants and Links; only ends that still exist are bumped.
removeAttachments(s, R) ==
  LET b == bumpAgents(bumpGateways(s, R), R)
  IN  [b EXCEPT !.Gateways = [g \in Gateway |-> IF s.Gateways[g] = None THEN None ELSE b.Gateways[g]],
                !.Agents = [a \in Agent \cup {None} |-> IF s.Agents[a] = None THEN None ELSE b.Agents[a]],
                !.Grants = [k \in Grant |-> IF k \in grantsOf(s, R) THEN None ELSE s.Grants[k]],
                !.Links = [l \in Link |-> IF \E r \in R : l \in linksOf(s, r) THEN None ELSE s.Links[l]],
                !.Attachments = [r \in Attachment |-> IF r \in R THEN None ELSE s.Attachments[r]]]

removeNodeReferences(s, removed) ==
  LET t == removeAttachments(s, UNION {routesOf(s, n) : n \in removed})
  IN  [t EXCEPT !.NodeStatus = [g \in Gateway |-> IF g \in removed THEN None ELSE @[g]]]

embeddedAgentChanged(s, a) == unpublish(bumpGateways(s, routesOf(s, a)), grantsOf(s, routesOf(s, a)))

\* Mutant: Grants stay published.
bumpUpstreamRoutes_staysPublished(s, x) ==
  bumpGateways(s, {r \in Attachment : s.Attachments[r] # None /\ s.Attachments[r].up = x})

bumpUpstreamRoutes(s, x) ==
  LET R == {r \in Attachment : s.Attachments[r] # None /\ s.Attachments[r].up = x}
  IN  unpublish(bumpGateways(s, R), grantsOf(s, R))

embeddedIn(s, g) == {a \in Agent : Owner[a] = g /\ s.Agents[a] # None}

-----------------------------------------------------------------------------
(* Handlers of the panel.  An ID that is created is any unused one; a      *)
(* request that changes no value changes nothing and is left out.          *)

\* An administrator's request is one transaction.
commit(s) == ops' = ops + 1 /\ state' = s /\ UNCHANGED <<process, used>>

commitNew(s, ids) ==
  /\ ids \cap used = {} /\ used' = used \cup ids
  /\ ops' = ops + 1 /\ state' = s /\ UNCHANGED process

createUser(u) == commitNew([state EXCEPT !.Users[u] = "on"], {u})

toggleUser(u) ==
  LET K == userGrants(state, u)
      n(g) == Cardinality({k \in K : gatewayOf(state, k) = g})
      s == [state EXCEPT !.Users[u] = IF @ = "on" THEN "off" ELSE "on",
                         !.Gateways = [g \in Gateway |-> IF n(g) = 0 THEN @[g]
                                                         ELSE [gateway(state, g) EXCEPT !.version = @ + n(g)]]]
  IN  state.Users[u] # None /\ commit(unpublish(s, K))

\* Mutant: the Grants stay published under their new credentials.
resetSubscription_staysPublished(u) ==
  LET K == userGrants(state, u)
      s == [state EXCEPT
              !.Grants = [k \in Grant |-> IF k \in K THEN [state.Grants[k] EXCEPT !.cred = @ + 1, !.hy2 = TRUE]
                                          ELSE state.Grants[k]],
              !.Gateways = [g \in Gateway |-> IF state.Gateways[g] # None /\ \E k \in K : gatewayOf(state, k) = g
                                              THEN [state.Gateways[g] EXCEPT !.version = @ + 1] ELSE state.Gateways[g]]]
  IN  state.Users[u] # None /\ commit(s)

\* New credentials for every Grant of the user.
resetSubscription(u) ==
  LET K == userGrants(state, u)
      s == [state EXCEPT
              !.Grants = [k \in Grant |-> IF k \in K
                            THEN [state.Grants[k] EXCEPT !.cred = @ + 1, !.hy2 = TRUE, !.pub = FALSE]
                            ELSE state.Grants[k]],
              !.Gateways = [g \in Gateway |-> IF state.Gateways[g] # None /\ \E k \in K : gatewayOf(state, k) = g
                                              THEN [state.Gateways[g] EXCEPT !.version = @ + 1] ELSE state.Gateways[g]]]
  IN  state.Users[u] # None /\ commit(s)

newGateway(h, vmess, hy2) ==
  [ZeroGateway EXCEPT !.on = TRUE, !.version = 1, !.host = h, !.auto = (h = None), !.vmess = vmess, !.hy2 = hy2]

createGateway(g, h, vmess, hy2) ==
  commitNew(configureHY2([state EXCEPT !.Gateways[g] = newGateway(h, vmess, hy2)], g), {g})

newAgent(v) == [on |-> TRUE, version |-> 1, cidrs |-> v]
newAgentRoute(g, a) == [gw |-> g, agent |-> a, up |-> None, on |-> TRUE]

newLink(r, h, auto, v) == [route |-> r, on |-> TRUE, url |-> h, auto |-> auto, sched |-> v, conns |-> v]

createAgent(a, v) ==
  Owner[a] = None /\ commitNew([state EXCEPT !.Agents[a] = newAgent(v)], {a})

\* A Gateway, an Agent, their route and its Link at once.  Without a Link URL
\* (auto) the Link follows the Gateway's public address.
quickSetup(g, a, r, l, h, u, vmess, hy2, v) ==
  LET s == [state EXCEPT !.Gateways[g] = [newGateway(h, vmess, hy2) EXCEPT !.target = v],
                         !.Agents[a] = newAgent(v), !.Attachments[r] = newAgentRoute(g, a),
                         !.Links[l] = newLink(r, IF u = None THEN h ELSE u, u = None, v)]
  IN  Owner[a] = None /\ commitNew(configureHY2(s, g), {g, a, r, l})

toggleGateway(g) ==
  LET on == ~gateway(state, g).on
      s == [state EXCEPT !.Gateways[g] = [gateway(state, g) EXCEPT !.on = on, !.version = @ + 1]]
      embedded == embeddedIn(state, g)
      t == IF embedded = {} THEN s
           ELSE LET a == CHOOSE a \in embedded : TRUE IN embeddedAgentChanged(bumpAgent(s, a), a)
  IN  /\ state.Gateways[g] # None
      /\ commit(IF on THEN t ELSE unpublishGatewayGrants(t, g))

toggleAgent(a) ==
  LET on == ~agent(state, a).on
      s == [state EXCEPT !.Agents[a] = [agent(state, a) EXCEPT !.on = on, !.version = @ + 1]]
      t == IF Owner[a] = None THEN s ELSE bumpGateway([s EXCEPT !.Gateways[Owner[a]].agentOn = on], Owner[a])
      R == routesOf(state, a)
      b == bumpGateways(t, R)
  IN  /\ state.Agents[a] # None
      /\ commit(IF on THEN b ELSE unpublish(b, grantsOf(b, R)))

\* The exit embedded in a Gateway is created by its first switch.
toggleEmbeddedAgent(g, a, v) ==
  LET on == ~gateway(state, g).agentOn
      old == IF state.Agents[a] = None THEN [ZeroAgent EXCEPT !.cidrs = v] ELSE state.Agents[a]
      s == [bumpGateway(state, g) EXCEPT !.Gateways[g].agentOn = on,
                                         !.Agents[a] = [old EXCEPT !.on = on, !.version = @ + 1]]
  IN  /\ Owner[a] = g /\ state.Gateways[g] # None
      /\ commit(embeddedAgentChanged(s, a))

editAgent(a, v) ==
  /\ state.Agents[a] # None /\ v # state.Agents[a].cidrs
  /\ commit(bumpAgent([state EXCEPT !.Agents[a].cidrs = v], a))

deleteGateway(g) ==
  LET embedded == embeddedIn(state, g)
      s == [state EXCEPT !.Gateways[g] = None,
                         !.Agents = [a \in Agent \cup {None} |-> IF a \in embedded THEN None ELSE @[a]]]
  IN  state.Gateways[g] # None /\ commit(removeNodeReferences(s, {g} \cup embedded))

deleteAgent(a) ==
  LET s == [state EXCEPT !.Agents[a] = None]
      t == IF Owner[a] = None THEN s ELSE bumpGateway([s EXCEPT !.Gateways[Owner[a]].agentOn = FALSE], Owner[a])
  IN  state.Agents[a] # None /\ commit(removeNodeReferences(t, {a}))

-----------------------------------------------------------------------------
(* Routes, Links and Grants.                                               *)

\* The empty ID is refused like any other that has no record; a bump of the Agent
\* of an external route leaves a record, and then it names an Agent.
createAttachment(r, g, a) ==
  LET s == [state EXCEPT !.Attachments[r] = newAgentRoute(g, a)]
  IN  /\ state.Gateways[g] # None /\ state.Agents[a] # None
      /\ \A q \in routesOf(state, g) : state.Attachments[q].agent # a
      /\ commitNew(bumpEnds(s, r), {r})

toggleAttachment(r) ==
  LET route == state.Attachments[r]
      s == bumpGateway([state EXCEPT !.Attachments[r].on = ~@], route.gw)
      t == IF route.agent # None THEN bumpAgent(s, route.agent) ELSE s
  IN  /\ route # None
      /\ commit(IF route.on THEN unpublish(t, grantsOf(t, {r})) ELSE t)

deleteAttachment(r) == state.Attachments[r] # None /\ commit(removeAttachments(state, {r}))

\* The first Link of a Gateway fixes its REALITY target (provisionReality).
provisioned(s, g, v) == [s EXCEPT !.Gateways[g].target = IF @ = None THEN v ELSE @]
provisionable(s, g, v) == s.Gateways[g].target \in {None, v}

createLink(l, r, h, v) ==
  LET g == state.Attachments[r].gw
      s == [provisioned(state, g, v) EXCEPT !.Links[l] = newLink(r, h, FALSE, v)]
  IN  /\ state.Attachments[r] # None /\ state.Attachments[r].up = None
      /\ provisionable(state, g, v)
      /\ commitNew(bumpEnds(s, r), {l})

\* Mutant: the ends of the Link are not told.
toggleLink_noBump(l) ==
  /\ state.Links[l] # None
  /\ commit(unpublishGrantsWithoutLink([state EXCEPT !.Links[l].on = ~@], state.Links[l].route))

toggleLink(l) ==
  LET r == state.Links[l].route
      s == [state EXCEPT !.Links[l].on = ~@]
  IN  /\ state.Links[l] # None
      /\ commit(bumpEnds(unpublishGrantsWithoutLink(s, r), r))

updateLinkPolicy(l, sched, conns) ==
  LET old == state.Links[l]
      route == state.Attachments[old.route]
      s == [state EXCEPT !.Links[l].sched = sched, !.Links[l].conns = conns]
      t == IF sched # old.sched THEN bumpGateway(s, route.gw) ELSE s
  IN  /\ old # None /\ <<sched, conns>> # <<old.sched, old.conns>>
      /\ commit(IF conns # old.conns THEN bumpAgent(t, route.agent) ELSE t)

\* A new URL ends the automatic address; a new REALITY target concerns every
\* route of the Gateway.
editLink(l, h, v) ==
  LET old == state.Links[l]
      g == state.Attachments[old.route].gw
      newTarget == [bumpAgents(bumpGateway(state, g), routesOf(state, g)) EXCEPT !.Gateways[g].target = v]
      s == IF v # gateway(state, g).target THEN newTarget ELSE state
      t == [s EXCEPT !.Links[l] = [old EXCEPT !.url = h, !.auto = @ /\ h = old.url]]
  IN  /\ old # None /\ (h # None \/ (old.auto /\ old.url = None))
      /\ <<h, v>> # <<old.url, gateway(state, g).target>>
      /\ commit(IF h # old.url THEN bumpEnds(t, old.route) ELSE t)

deleteLink(l) ==
  LET r == state.Links[l].route
      s == [state EXCEPT !.Links[l] = None]
  IN  /\ state.Links[l] # None
      /\ commit(bumpEnds(unpublishGrantsWithoutLink(s, r), r))

\* One selected pair of assignGateways or assignConnections: its route and one
\* Link are created or switched on.
enableConnections(g, a, r, l, v) ==
  LET found == {q \in routesOf(state, g) : state.Attachments[q].agent = a}
      q == IF found = {} THEN r ELSE CHOOSE q \in found : TRUE
      known == linksOf(state, q)
      active == {m \in known : state.Links[m].on}
      s == [state EXCEPT !.Attachments[q] = IF @ = None THEN newAgentRoute(g, a) ELSE [@ EXCEPT !.on = TRUE]]
      target == IF gateway(s, g).target = None THEN v ELSE gateway(s, g).target
      m == CHOOSE m \in known : active = {} \/ m \in active
      t == IF known # {} THEN [s EXCEPT !.Links[m].on = TRUE]
           ELSE [provisioned(s, g, target) EXCEPT !.Links[l] = newLink(q, gateway(s, g).host, TRUE, target)]
  IN  /\ state.Agents[a] # None /\ agentEnabled(state, a)
      /\ gateway(state, g).on /\ gateway(state, g).host # None
      /\ ~(found # {} /\ active # {} /\ state.Attachments[q].on)
      /\ commitNew(bumpEnds(t, q), (IF found = {} THEN {r} ELSE {}) \cup (IF known = {} THEN {l} ELSE {}))

newGrant(u, r) == [user |-> u, route |-> r, on |-> TRUE, pub |-> FALSE, cred |-> 1, hy2 |-> FALSE]
grantFor(u, r) == {k \in grantsOf(state, {r}) : state.Grants[k].user = u}

addGrant(k, u, r) ==
  LET g == state.Attachments[r].gw
      s == [state EXCEPT !.Grants[k] = newGrant(u, r)]
  IN  commitNew(bumpGateway(configureHY2(s, g), g), {k})

createGrant(k, u, r) ==
  /\ state.Users[u] # None /\ state.Attachments[r] # None /\ grantFor(u, r) = {}
  /\ addGrant(k, u, r)

\* One selected route: its Grant is created or switched on again.
openSubscription(k, u, r) ==
  /\ state.Users[u] = "on" /\ state.Attachments[r] # None /\ routeAvailable(state, r)
  /\ \/ grantFor(u, r) = {} /\ addGrant(k, u, r)
     \/ \E j \in grantFor(u, r) :
          /\ ~state.Grants[j].on
          /\ commit(bumpGateway([state EXCEPT !.Grants[j].on = TRUE, !.Grants[j].pub = FALSE], state.Attachments[r].gw))

toggleGrant(k) ==
  /\ state.Grants[k] # None
  /\ commit(bumpGateway([state EXCEPT !.Grants[k].on = ~@, !.Grants[k].pub = FALSE], gatewayOf(state, k)))

deleteGrant(k) ==
  /\ state.Grants[k] # None
  /\ commit(bumpGateway([state EXCEPT !.Grants[k] = None], gatewayOf(state, k)))

-----------------------------------------------------------------------------
(* Gateway addresses and ingress switches, external upstreams.             *)

\* With the ingress form both protocols are set; without it only the HY2 port
\* can be given or cleared.  In automatic mode the address is the detected one.
editGateway(g, auto, h, vmess, hy2) ==
  LET old == state.Gateways[g]
      host == IF ~auto THEN h ELSE IF old.detected # None THEN old.detected ELSE old.host
      changed == <<host, vmess, hy2>> # <<old.host, old.vmess, old.hy2>>
      s == [changeGatewayHost(state, g, host) EXCEPT
              !.Gateways[g].auto = auto, !.Gateways[g].vmess = vmess, !.Gateways[g].hy2 = hy2]
      t == configureHY2(s, g)
  IN  /\ old # None
      /\ hy2 # "unset" \/ (vmess = old.vmess /\ old.hy2 # "off")
      /\ commit(IF changed THEN unpublishGatewayGrants(bumpGateway(t, g), g) ELSE t)

saveGatewayIngress(g, vmess, hy2) ==
  LET old == state.Gateways[g]
      s == configureHY2([state EXCEPT !.Gateways[g].vmess = vmess, !.Gateways[g].hy2 = hy2], g)
  IN  /\ old # None /\ <<vmess, hy2>> # <<old.vmess, old.hy2>>
      /\ commit(unpublishGatewayGrants(bumpGateway(s, g), g))

\* The Gateway announces the public address its probes agree on.
gatewayAddress(g, h) ==
  LET s == [state EXCEPT !.Gateways[g].detected = h]
      t == configureHY2(changeGatewayHost(s, g, h), g)
  IN  /\ state.Gateways[g] # None /\ state.Gateways[g].detected # h
      /\ commit(IF state.Gateways[g].auto /\ state.Gateways[g].host # h
                THEN unpublishGatewayGrants(bumpGateway(t, g), g) ELSE s)

createUpstream(x, e) == commitNew([state EXCEPT !.Upstreams[x] = [on |-> TRUE, endpoint |-> e]], {x})

\* What editUpstream, selectUpstream and refreshUpstream do once the source has
\* answered: a new connection, or none when the selected node is gone.
changeEndpoint(x, e) ==
  /\ state.Upstreams[x] # None /\ state.Upstreams[x].endpoint # e
  /\ commit(bumpUpstreamRoutes([state EXCEPT !.Upstreams[x].endpoint = e], x))

toggleUpstream(x) ==
  /\ state.Upstreams[x] # None
  /\ commit(bumpUpstreamRoutes([state EXCEPT !.Upstreams[x].on = ~@], x))

deleteUpstream(x) ==
  LET R == {r \in Attachment : state.Attachments[r] # None /\ state.Attachments[r].up = x}
  IN  /\ state.Upstreams[x] # None
      /\ commit([removeAttachments(state, R) EXCEPT !.Upstreams[x] = None])

attachUpstream(r, g, x) ==
  LET s == [state EXCEPT !.Attachments[r] = [gw |-> g, agent |-> None, up |-> x, on |-> TRUE]]
  IN  /\ state.Gateways[g] # None /\ state.Upstreams[x] # None
      /\ \A q \in routesOf(state, g) : state.Attachments[q].up # x
      /\ commitNew(bumpGateway(s, g), {r})

-----------------------------------------------------------------------------
(* Nodes.                                                                  *)

\* nodeConfig and its application.  A removed node is refused and drops what it
\* had; an embedded Agent is served as long as its Gateway exists.
served(n) == IF n \in Agent /\ Owner[n] # None THEN exists(state, Owner[n]) ELSE exists(state, n)

poll(n) ==
  LET answer == IF served(n) THEN [rev |-> desiredVersion(state, n), body |-> desiredConfig(state, n)] ELSE None
  IN  /\ conf[n] # answer
      /\ conf' = [conf EXCEPT ![n] = answer]
      /\ UNCHANGED <<state, cap, late, acked, used, ops, restarts>>

\* A Gateway's report: ok when it and its Xray are ready and report no error,
\* hy2 when the HY2 listener of the applied configuration is up.
report(g, ok, hy2) ==
  [node |-> g, ok |-> ok, hy2 |-> hy2, conf |-> conf[g], ext |-> cap[g].ext, controls |-> cap[g].controls]

canReport(g, ok, hy2) ==
  /\ exists(state, g)
  /\ ok => conf[g] # None /\ conf[g].body.on
  /\ hy2 => conf[g] # None /\ conf[g].body.hy2

appliedVersion(c) == IF c = None THEN 0 ELSE c.rev

\* The Grants whose presence in the configuration depends on the Gateway's
\* ability to use external upstreams.
externalGrants(s, g) ==
  {k \in grantsOf(s, {r \in routesOf(s, g) : s.Attachments[r].gw = g}) :
     s.Attachments[s.Grants[k].route].up # None}

recordStatus(s, m) ==
  LET t == [s EXCEPT !.NodeStatus[m.node] = [ext |-> m.ext, hy2 |-> m.hy2]]
      changed == reportsExternal(s, m.node) # m.ext
      affected == {k \in externalGrants(t, m.node) : /\ s.Attachments[s.Grants[k].route].on /\ gateway(s, m.node).on
                                                     /\ authorized(s, k) /\ upstreamAvailable(s, s.Grants[k].route)}
      b == IF changed /\ affected # {} THEN bumpGateway(t, m.node) ELSE t
  IN  IF changed \/ ~m.ext THEN unpublish(b, externalGrants(b, m.node)) ELSE b

\* Mutant: only a later revision counts.
acknowledges_newer(s, m) == m.ok /\ appliedVersion(m.conf) > gateway(s, m.node).version

\* The report acknowledges the revision the Controller wants.
acknowledges(s, m) ==
  m.ok /\ appliedVersion(m.conf) >= gateway(s, m.node).version

ingressAvailable(s, m) ==
  LET gw == gateway(s, m.node) IN gw.vmess \/ (HY2Enabled(gw) /\ m.hy2 /\ m.controls)

publish(s, m) ==
  [s EXCEPT !.Grants = [k \in Grant |->
     IF s.Grants[k] # None /\ gatewayOf(s, k) = m.node /\ authorized(s, k) /\ routeAvailable(s, s.Grants[k].route)
     THEN [s.Grants[k] EXCEPT !.pub = ingressAvailable(s, m)] ELSE s.Grants[k]]]

\* nodeStatus, on a report that was authenticated at any time since it was sent.
nodeStatus(m) ==
  LET s == recordStatus(state, m)
  IN  /\ state' = IF acknowledges(s, m) THEN publish(s, m) ELSE s
      /\ acked' = IF acknowledges(s, m) THEN [acked EXCEPT ![m.node] = m.conf] ELSE acked

reportNow(g, ok, hy2) ==
  /\ canReport(g, ok, hy2) /\ gateway(state, g).on
  /\ nodeStatus(report(g, ok, hy2))
  /\ UNCHANGED <<conf, cap, late, used, ops, restarts>>

\* The request is under way; it arrives later or never.
reportSlowly(g, ok, hy2) ==
  /\ canReport(g, ok, hy2) /\ Cardinality(late) < MaxLate
  /\ late' = late \cup {report(g, ok, hy2)}
  /\ UNCHANGED <<state, conf, cap, acked, used, ops, restarts>>

reportArrives(m) ==
  /\ nodeStatus(m) /\ late' = late \ {m}
  /\ UNCHANGED <<conf, cap, used, ops, restarts>>

\* A restart, possibly into another build, starts without a configuration.
restart(n, c) ==
  /\ restarts < MaxRestarts /\ restarts' = restarts + 1
  /\ conf' = [conf EXCEPT ![n] = None]
  /\ cap' = IF n \in Gateway THEN [cap EXCEPT ![n] = c] ELSE cap
  /\ UNCHANGED <<state, late, acked, used, ops>>

-----------------------------------------------------------------------------
(* What the store holds when the Controller starts: nothing, or what the   *)
(* handlers left, before a Grant was published.                            *)

consistent(s) ==
  /\ \A r \in Attachment : s.Attachments[r] # None =>
       /\ s.Gateways[s.Attachments[r].gw] # None
       /\ IF s.Attachments[r].up # None THEN s.Upstreams[s.Attachments[r].up] # None /\ s.Attachments[r].agent = None
          ELSE s.Agents[s.Attachments[r].agent] # None
  /\ \A l \in Link : s.Links[l] # None => s.Attachments[s.Links[l].route] # None
  /\ \A k \in Grant : s.Grants[k] # None =>
       s.Attachments[s.Grants[k].route] # None /\ s.Users[s.Grants[k].user] # None
  /\ \A q, r \in Attachment : q # r /\ s.Attachments[q] # None /\ s.Attachments[r] # None =>
       <<s.Attachments[q].gw, s.Attachments[q].agent, s.Attachments[q].up>>
         # <<s.Attachments[r].gw, s.Attachments[r].agent, s.Attachments[r].up>>
  /\ \A j, k \in Grant : j # k /\ s.Grants[j] # None /\ s.Grants[k] # None =>
       <<s.Grants[j].user, s.Grants[j].route>> # <<s.Grants[k].user, s.Grants[k].route>>
  /\ \A a \in Agent : Owner[a] # None =>
       /\ s.Agents[a] # None => s.Gateways[Owner[a]] # None
       /\ s.Gateways[Owner[a]] # None => s.Gateways[Owner[a]].agentOn = agent(s, a).on

\* What configureHY2 has issued.
hy2Ready(s) ==
  \A g \in Gateway : s.Gateways[g] # None /\ HY2Enabled(s.Gateways[g]) /\ s.Gateways[g].host # None =>
    /\ s.Gateways[g].cert # None
    /\ \A k \in Grant : s.Grants[k] # None /\ gatewayOf(s, k) = g => s.Grants[k].hy2

\* Every object has an ID that was given out.
given(s, ids) ==
  /\ \A u \in User : s.Users[u] # None => u \in ids
  /\ \A g \in Gateway : s.Gateways[g] # None => g \in ids
  /\ \A a \in Agent : s.Agents[a] # None /\ Owner[a] = None => a \in ids
  /\ \A x \in Upstream : s.Upstreams[x] # None => x \in ids
  /\ \A r \in Attachment : s.Attachments[r] # None => r \in ids
  /\ \A l \in Link : s.Links[l] # None => l \in ids
  /\ \A k \in Grant : s.Grants[k] # None => k \in ids

ASSUME StoreAssumption ==
  \A d \in Stored :
    /\ d.state \in State /\ consistent(d.state) /\ hy2Ready(d.state) /\ given(d.state, d.used)
    /\ \A k \in Grant : d.state.Grants[k] # None => ~d.state.Grants[k].pub

-----------------------------------------------------------------------------

Init ==
  /\ \E s \in Stored : state = s.state /\ used = s.used /\ ops = s.ops /\ restarts = s.restarts
  /\ conf = [n \in Node |-> None] /\ cap \in [Gateway \cap Watched -> Build]
  /\ late = {} /\ acked = [g \in Gateway |-> None]

Accounts == \E u \in User : createUser(u) \/ toggleUser(u) \/ resetSubscription(u)

Nodes ==
  \/ \E g \in Gateway, h \in Host \cup {None}, vmess \in BOOLEAN, hy2 \in {"unset", "on", "off"} :
       \/ createGateway(g, h, vmess, hy2)
       \/ h # None /\ \E auto \in BOOLEAN : editGateway(g, auto, h, vmess, hy2)
  \/ \E g \in Gateway, vmess \in BOOLEAN, hy2 \in {"on", "off"} : saveGatewayIngress(g, vmess, hy2)
  \/ \E g \in Gateway : toggleGateway(g) \/ deleteGateway(g) \/ \E h \in Host : gatewayAddress(g, h)
  \/ \E a \in Agent, v \in Value : createAgent(a, v) \/ editAgent(a, v) \/ \E g \in Gateway : toggleEmbeddedAgent(g, a, v)
  \/ \E a \in Agent : toggleAgent(a) \/ deleteAgent(a)
  \/ \E x \in Upstream : toggleUpstream(x) \/ deleteUpstream(x)
  \/ \E x \in Upstream, e \in Endpoint \cup {None} : createUpstream(x, e) \/ changeEndpoint(x, e)

Routes ==
  \/ \E r \in Attachment, g \in Gateway : \/ \E a \in Agent \cup {None} : createAttachment(r, g, a)
                                          \/ \E x \in Upstream : attachUpstream(r, g, x)
  \/ \E r \in Attachment : toggleAttachment(r) \/ deleteAttachment(r)
  \/ \E l \in Link : toggleLink(l) \/ deleteLink(l)
  \/ \E l \in Link, v, w \in Value : updateLinkPolicy(l, v, w)
  \/ \E l \in Link, h \in Host \cup {None}, v \in Value :
       editLink(l, h, v) \/ (h # None /\ \E r \in Attachment : createLink(l, r, h, v))
  \/ \E g \in Gateway, a \in Agent, r \in Attachment, l \in Link, v \in Value : enableConnections(g, a, r, l, v)
  \/ \E g \in Gateway \ used, a \in Agent \ used, r \in Attachment \ used, l \in Link \ used, v \in Value,
        h, u \in Host \cup {None}, vmess \in BOOLEAN, hy2 \in {"unset", "on", "off"} :
       quickSetup(g, a, r, l, h, u, vmess, hy2, v)

Grants ==
  \/ \E k \in Grant : toggleGrant(k) \/ deleteGrant(k)
  \/ \E k \in Grant, u \in User, r \in Attachment : createGrant(k, u, r) \/ openSubscription(k, u, r)

Reports ==
  \/ \E g \in Gateway \cap Watched, ok, hy2 \in BOOLEAN : reportNow(g, ok, hy2) \/ reportSlowly(g, ok, hy2)
  \/ \E m \in late : reportArrives(m)

Requests == ops < MaxOps /\ (Accounts \/ Nodes \/ Routes \/ Grants)

Next ==
  \/ Requests
  \/ \E n \in Watched : poll(n)
  \/ Reports
  \/ \E n \in Watched, c \in Build : restart(n, c)

Spec == Init /\ [][Next]_vars

\* The control loop of a node polls and reports every few seconds.
FairSpec ==
  /\ Spec
  /\ \A n \in Watched : WF_vars(poll(n))
  /\ \A g \in Gateway \cap Watched : WF_vars(reportNow(g, TRUE, conf[g] # None /\ conf[g].body.hy2))

-----------------------------------------------------------------------------
(* Properties.                                                             *)

\* No operation leaves a reference to something deleted: a route has its
\* Gateway and the record of its upstream or Agent (the empty ID's record too,
\* once bumpAgent left one), a Link and a Grant have their route, an embedded
\* Agent its Gateway (removeNodeReferences, removeAttachment); no two routes or
\* Grants stand for the same pair; and a Gateway says it runs an embedded exit
\* exactly when that Agent exists and is on (toggleEmbeddedAgent, toggleAgent,
\* deleteAgent).
Consistent == consistent(state)

\* A revision identifies a configuration: whatever a Gateway of the same build
\* was served under the revision that is still desired is what it would be
\* served now.  Were it not so, an acknowledgement would not say what runs.
RevisionIdentifiesConfig ==
  \A g \in Gateway : conf[g] # None /\ state.Gateways[g] # None /\ conf[g].rev = state.Gateways[g].version =>
    conf[g].body = desiredConfig(state, g)

\* The entries of the subscription for a Grant (buildSubscriptionAt).
listed(k) ==
  /\ state.Grants[k] # None /\ state.Grants[k].pub /\ authorized(state, k)
  /\ routeAvailable(state, state.Grants[k].route) /\ gateway(state, gatewayOf(state, k)).host # None

vmessEntry(k) == listed(k) /\ gateway(state, gatewayOf(state, k)).vmess
hy2Entry(k) ==
  LET g == gatewayOf(state, k)
  IN  /\ listed(k) /\ HY2Enabled(gateway(state, g)) /\ state.Grants[k].hy2 /\ gateway(state, g).cert # None
      /\ state.NodeStatus[g] # None /\ state.NodeStatus[g].hy2

\* "A Grant is not published in a subscription until its Gateway reports that
\* the matching desired revision [is] applied": every entry a user can fetch
\* has the address, the protocol, the credential, the exit and the certificate
\* of a configuration that the Gateway has acknowledged.
PublishedAcknowledged ==
  \A k \in Grant : vmessEntry(k) \/ hy2Entry(k) =>
    LET g == gatewayOf(state, k)
        gw == gateway(state, g)
        route == state.Attachments[state.Grants[k].route]
        c == acked[g].body
    IN  /\ acked[g] # None /\ c.on /\ c.host = gw.host
        /\ <<k, state.Grants[k].cred, state.Grants[k].hy2>> \in c.grants
        /\ vmessEntry(k) => c.vmess
        /\ hy2Entry(k) => c.hy2 /\ c.cert = gw.cert
        /\ route.up # None => <<state.Grants[k].route, state.Upstreams[route.up].endpoint>> \in c.upstreams

\* What a Grant needs to be usable.
Servable(k) ==
  /\ state.Grants[k] # None /\ authorized(state, k) /\ routeAvailable(state, state.Grants[k].route)
  /\ LET g == gatewayOf(state, k) IN gateway(state, g).vmess \/ (conf[g] # None /\ conf[g].body.hy2 /\ cap[g].controls)

\* A Grant that can be served is published in the end, unless it stops being
\* servable: no order of changes, restarts and late reports leaves the desired
\* revision unacknowledged for good.
EventuallyPublished ==
  \A k \in Grant : []<>(Servable(k) => state.Grants[k].pub)

=============================================================================
