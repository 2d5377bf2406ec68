-------------------------- MODULE GatewayTunnels --------------------------
(* The tunnels of a Gateway and the streams of its users: registration of a *)
(* tunnel, the pool of sessions with its probes and leases, SOCKS           *)
(* connections that open a stream through a session, and what a new         *)
(* configuration or a lost authorization does to both.  The supervision of  *)
(* Xray by the same refresh is in GatewayXray.                              *)
(* (src/internal/gateway/gateway.go, socks.go, src/internal/scheduler/)     *)
EXTENDS Integers, FiniteSets

CONSTANTS
  Link,
  Conn,       \* session keys: an Agent's connections of a Link
  Route,      \* attachments
  routeOf,    \* the attachment of a Link, which never changes
  Token,      \* tunnel tokens
  Grant,      \* Grant IDs
  Snapshot,   \* configurations the Controller may answer with
  First,      \* those it may begin with
  Session,    \* scheduler.Session objects alive at a time
  Client,     \* SOCKS connections at a time
  MaxProbes,  \* probes that may fail before a session is not ready
  MaxChanges, \* bound: changes of the desired configuration
  MaxFaults,  \* bound: lapses, refusals, broken tunnels, failed probes and fetches
  None

ID == Link \X Conn
LinkConfig == [on : BOOLEAN, token : Token, priority : Nat, weight : Nat \ {0}, max : Nat \ {0}]
GrantConfig == [route : Route, secret : Token]
NoEntries == [x \in {} |-> None]

\* What a Gateway reads of a configuration: its switch, its Links and its Grants.
isConfig(c) ==
  /\ c.on \in BOOLEAN
  /\ \A l \in DOMAIN c.links : l \in Link /\ c.links[l] \in LinkConfig
  /\ \A g \in DOMAIN c.grants : g \in Grant /\ c.grants[g] \in GrantConfig

ASSUME ConfigAssumption == First \subseteq Snapshot /\ \A c \in Snapshot : isConfig(c)
ASSUME SetAssumption == IsFiniteSet(Client) /\ None \notin Session \cup ID

VARIABLES
  desired,    \* the Controller's current configuration for this Gateway
  config,     \* Runtime.config
  leased,     \* time.Now() is before authorizationUntil
  epoch,      \* authorizationEpoch
  pc, got,    \* the control loop and what it fetched: [epoch, config]
  pool,       \* Pool.sessions
  session,    \* the objects, each with its acceptTunnel goroutine
  client,     \* the handleSOCKS goroutines
  count       \* uses of the bounds

vars == <<desired, config, leased, epoch, pc, got, pool, session, client, count>>
authorization == <<config, leased, epoch>>
loop == <<desired, pc, got>>

Off == [on |-> FALSE, links |-> NoEntries, grants |-> NoEntries]
NoSession ==
  [pc |-> "none", id |-> None, token |-> None, open |-> FALSE, ready |-> FALSE, timeouts |-> 0,
   priority |-> 0, weight |-> 1, max |-> 1, active |-> 0, previous |-> None]
NoClient == [pc |-> "none", grant |-> None, config |-> None, allowed |-> {}, lease |-> None, cancelled |-> FALSE]

spend(what, max) == count[what] < max /\ count' = [count EXCEPT ![what] = @ + 1]
linkOf(s) == session[s].id[1]
pooled == {s \in Session : session[s].id # None /\ pool[session[s].id] = s}

-----------------------------------------------------------------------------
(* Configuration and authorization.                                        *)

\* Whether configuration c authorizes the registration of Link l with token t.
authorizeTunnelLocked(c, lease, l, t) ==
  c.on /\ lease /\ l \in DOMAIN c.links /\ c.links[l].on /\ c.links[l].token = t

\* A connection made with Grant g as it was in old survives under c.
keepsConnection(c, g, old) == c.on /\ g \in DOMAIN c.grants /\ c.grants[g] = old

registered(k) == client[k].pc \notin {"none", "granted"}

retireConnectionsLocked(c) ==
  client' = [k \in Client |->
    IF registered(k) /\ ~keepsConnection(c, client[k].grant, client[k].config)
    THEN [client[k] EXCEPT !.cancelled = TRUE] ELSE client[k]]

closed(ss) == [s \in Session |-> IF s \in ss THEN [session[s] EXCEPT !.open = FALSE] ELSE session[s]]

invalidateAuthorizationLocked ==
  /\ epoch' = epoch + 1 /\ config' = Off
  /\ retireConnectionsLocked(Off)
  /\ session' = closed(pooled)
  /\ UNCHANGED <<leased, pool>>

leaseLapses ==
  /\ leased /\ leased' = FALSE /\ spend("faults", MaxFaults)
  /\ UNCHANGED <<config, epoch, loop, pool, session, client>>

watchAuthorization ==
  /\ config.on /\ ~leased /\ invalidateAuthorizationLocked
  /\ UNCHANGED <<loop, count>>

\* An administrator changes what this Gateway should do.
change(c) ==
  /\ c # desired /\ desired' = c /\ spend("changes", MaxChanges)
  /\ UNCHANGED <<authorization, pc, got, pool, session, client>>

refresh ==
  /\ pc = "idle" /\ pc' = "fetch" /\ got' = [epoch |-> epoch, config |-> None]
  /\ UNCHANGED <<desired, authorization, pool, session, client, count>>

fetch ==
  /\ pc = "fetch" /\ pc' = "apply" /\ got' = [got EXCEPT !.config = desired]
  /\ UNCHANGED <<desired, authorization, pool, session, client, count>>

\* The request fails, or Xray does not validate the candidate.
fetchFails ==
  /\ pc # "idle" /\ pc' = "idle" /\ got' = None /\ spend("faults", MaxFaults)
  /\ UNCHANGED <<desired, authorization, pool, session, client>>

\* The Controller refuses the fetch, or a report of the loop or of Xray's goroutine.
rejected ==
  /\ spend("faults", MaxFaults)
  /\ (pc' = "idle" /\ got' = None) \/ UNCHANGED <<pc, got>>
  /\ invalidateAuthorizationLocked
  /\ UNCHANGED desired

\* Mutant: the token of a Link is not compared.
keepsTunnel_anyToken(c, l) == c.on /\ l \in DOMAIN c.links /\ c.links[l].on

\* A session of Link l survives under c.
keepsTunnel(c, l) ==
  /\ c.on /\ l \in DOMAIN c.links /\ c.links[l].on
  /\ l \in DOMAIN config.links /\ config.links[l].token = c.links[l].token

\* UpdatePolicy for every pooled session of a configured Link.
UpdatePolicy(c, s) ==
  IF s \in pooled /\ linkOf(s) \in DOMAIN c.links
  THEN LET l == c.links[linkOf(s)]
       IN [session[s] EXCEPT !.priority = l.priority, !.weight = l.weight, !.max = l.max]
  ELSE session[s]

\* The part of refresh that accepts the configuration.
applyConfig ==
  LET c == got.config IN
  /\ pc = "apply" /\ pc' = "idle" /\ got' = None
  /\ IF got.epoch = epoch
     THEN /\ config' = c /\ leased' = TRUE
          /\ retireConnectionsLocked(c)
          /\ session' = [s \in Session |->
               [UpdatePolicy(c, s) EXCEPT !.open = @ /\ (s \in pooled => keepsTunnel(c, linkOf(s)))]]
     ELSE UNCHANGED <<config, leased, client, session>>
  /\ UNCHANGED <<desired, epoch, pool, count>>

-----------------------------------------------------------------------------
(* acceptTunnel, probeSession and the pool.                                *)

onlySessions == UNCHANGED <<loop, authorization, client>>

\* A session object is gone when no lease and no goroutine knows it.
unreferenced(s) == (\A k \in Client : client[k].lease # s) /\ (\A o \in Session : session[o].previous # s)
free == {s \in Session : session[s].pc \in {"none", "done"} /\ unreferenced(s)}

\* An Agent registers a tunnel; one that is not authorized is turned away.
\* Which free identifier the object gets does not matter.
acceptTunnel(s, i, t) ==
  /\ free # {} /\ s = CHOOSE f \in free : TRUE
  /\ authorizeTunnelLocked(config, leased, i[1], t)
  /\ session' = [session EXCEPT ![s] =
       [NoSession EXCEPT !.pc = "ready", !.id = i, !.token = t, !.open = TRUE, !.ready = TRUE]]
  /\ UNCHANGED <<pool, count>> /\ onlySessions

\* After the handshake the registration is authorized again and the entry added
\* with the policy now in force, both under the lock.
addSession(s) ==
  LET i == session[s].id
      l == config.links[i[1]]
  IN
  /\ session[s].pc = "ready"
  /\ IF authorizeTunnelLocked(config, leased, i[1], session[s].token)
     THEN /\ session' = [session EXCEPT ![s] =
               [@ EXCEPT !.pc = "added", !.previous = pool[i],
                         !.priority = l.priority, !.weight = l.weight, !.max = l.max]]
          /\ pool' = [pool EXCEPT ![i] = s]
     ELSE session' = [session EXCEPT ![s] = NoSession] /\ UNCHANGED pool
  /\ UNCHANGED count /\ onlySessions

\* Then the session that had the same ID is closed.
closePrevious(s) ==
  /\ session[s].pc = "added"
  /\ session' = [closed({session[s].previous} \ {None}) EXCEPT ![s].pc = "up", ![s].previous = None]
  /\ UNCHANGED <<pool, count>> /\ onlySessions

tunnelBreaks(s) ==
  /\ session[s].open /\ session' = closed({s}) /\ spend("faults", MaxFaults)
  /\ UNCHANGED pool /\ onlySessions

\* Mutant: whatever entry has the ID is removed.
Remove_any(i, s) == [pool EXCEPT ![i] = None]

Remove(i, s) == [pool EXCEPT ![i] = IF @ = s THEN None ELSE @]

\* AcceptStream fails on a closed session and the goroutine removes its entry.
sessionEnds(s) ==
  /\ session[s].pc = "up" /\ ~session[s].open
  /\ pool' = Remove(session[s].id, s)
  /\ session' = [session EXCEPT ![s] = IF unreferenced(s) THEN NoSession ELSE [@ EXCEPT !.pc = "done"]]
  /\ UNCHANGED count /\ onlySessions

\* Mutant: a good probe only clears the timeouts.
probed_notReady(s) ==
  /\ s \in pooled /\ session[s].open /\ session' = [session EXCEPT ![s].timeouts = 0]
  /\ UNCHANGED <<pool, count>> /\ onlySessions

\* UpdateProbe on a success.  One that was read just before the session closed
\* would change an entry that is never selected again.
probed(s) ==
  /\ s \in pooled /\ session[s].open
  /\ session' = [session EXCEPT ![s].timeouts = 0, ![s].ready = TRUE]
  /\ UNCHANGED <<pool, count>> /\ onlySessions

probeFails(s) ==
  /\ s \in pooled /\ spend("faults", MaxFaults)
  /\ session' = [session EXCEPT ![s].timeouts = @ + 1, ![s].ready = @ /\ session[s].timeouts + 1 < MaxProbes]
  /\ UNCHANGED pool /\ onlySessions

-----------------------------------------------------------------------------
(* handleSOCKS and openStream.                                             *)

becomes(k, r) == client' = [client EXCEPT ![k] = r]
onlyClients == UNCHANGED <<loop, authorization, pool, count>>

\* A client authenticates with the credentials of Grant g.
grant(k, g) ==
  /\ client[k].pc = "none" /\ config.on /\ leased /\ g \in DOMAIN config.grants
  /\ \E l \in DOMAIN config.links : routeOf[l] = config.grants[g].route
  /\ becomes(k, [NoClient EXCEPT !.pc = "granted", !.grant = g, !.config = config.grants[g]])
  /\ onlyClients /\ UNCHANGED session

\* Mutant: the connection is registered with the Grant as it was read before.
handleSOCKS_unchecked(k) ==
  /\ client[k].pc = "granted" /\ becomes(k, [client[k] EXCEPT !.pc = "registered"])
  /\ onlyClients /\ UNCHANGED session

\* handleSOCKS registers the connection under the lock if the Grant is unchanged.
handleSOCKS(k) ==
  /\ client[k].pc = "granted"
  /\ becomes(k, IF leased /\ keepsConnection(config, client[k].grant, client[k].config)
                THEN [client[k] EXCEPT !.pc = "registered"] ELSE NoClient)
  /\ onlyClients /\ UNCHANGED session

\* openStream computes the Links it may use and gives up the lock.
openStream(k) ==
  LET g == client[k].grant
      allowed == IF g \notin DOMAIN config.grants THEN {}
                 ELSE {l \in DOMAIN config.links : routeOf[l] = config.grants[g].route}
  IN
  /\ client[k].pc = "registered"
  /\ becomes(k, IF config.on /\ leased THEN [client[k] EXCEPT !.pc = "allowed", !.allowed = allowed] ELSE NoClient)
  /\ onlyClients /\ UNCHANGED session

usable(k) ==
  {s \in pooled : /\ linkOf(s) \in client[k].allowed
                  /\ session[s].ready /\ session[s].open /\ session[s].active < session[s].max}

\* loadScore per unit of weight; a session with a recent stalled write is penalized.
lighter(a, b, stalled) ==
  LET load(s) == session[s].active + 1 + (IF s \in stalled THEN 1 ELSE 0)
  IN load(a) * session[b].weight <= load(b) * session[a].weight

\* AcquireLinks: the lightest session among those of the lowest priority.
AcquireLinks(k, s) ==
  LET best == {x \in usable(k) : \A y \in usable(k) : session[x].priority <= session[y].priority} IN
  /\ client[k].pc = "allowed" /\ s \in best
  /\ \E stalled \in SUBSET best : \A o \in best : lighter(s, o, stalled)
  /\ session' = [session EXCEPT ![s].active = @ + 1]
  /\ becomes(k, [client[k] EXCEPT !.pc = "leased", !.allowed = {}, !.lease = s])
  /\ onlyClients

noPath(k) ==
  /\ client[k].pc = "allowed" /\ usable(k) = {} /\ becomes(k, NoClient)
  /\ onlyClients /\ UNCHANGED session

released(s) == [session EXCEPT ![s].active = @ - 1]

\* OpenStream on the leased session.
open(k) ==
  /\ client[k].pc = "leased"
  /\ IF session[client[k].lease].open
     THEN becomes(k, [client[k] EXCEPT !.pc = "waiting"]) /\ UNCHANGED session
     ELSE becomes(k, [client[k] EXCEPT !.pc = "failed"]) /\ session' = released(client[k].lease)
  /\ onlyClients

\* SetReady finds the session by its ID: it may be a newer one.
SetReady(k) ==
  LET s == pool[session[client[k].lease].id] IN
  /\ client[k].pc = "failed" /\ becomes(k, NoClient)
  /\ IF s = None THEN UNCHANGED session ELSE session' = [session EXCEPT ![s].ready = FALSE]
  /\ onlyClients

\* The Agent answers that the stream is open.
opened(k) ==
  /\ client[k].pc = "waiting" /\ session[client[k].lease].open
  /\ becomes(k, [client[k] EXCEPT !.pc = "relay"])
  /\ onlyClients /\ UNCHANGED session

\* Mutant: a stream the Agent refuses keeps its lease.
ends_keepsLease(k) ==
  /\ client[k].pc \in {"registered", "waiting", "relay"} /\ becomes(k, NoClient)
  /\ IF client[k].pc = "relay" THEN session' = released(client[k].lease) ELSE UNCHANGED session
  /\ onlyClients

\* A connection ends: its request cannot be read or is refused, the Agent
\* refuses the stream, either side closes, or its context is cancelled.
ends(k) ==
  /\ client[k].pc \in {"registered", "waiting", "relay"} /\ becomes(k, NoClient)
  /\ IF client[k].lease # None THEN session' = released(client[k].lease) ELSE UNCHANGED session
  /\ onlyClients

-----------------------------------------------------------------------------
Init ==
  /\ desired \in First /\ config = Off /\ leased = TRUE /\ epoch = 0 /\ pc = "idle" /\ got = None
  /\ pool = [i \in ID |-> None] /\ session = [s \in Session |-> NoSession]
  /\ client = [k \in Client |-> NoClient]
  /\ count = [changes |-> 0, faults |-> 0]

controlLoop == refresh \/ fetch \/ applyConfig
runTunnel(s) == addSession(s) \/ closePrevious(s) \/ sessionEnds(s)
runClient(k) ==
  \/ handleSOCKS(k) \/ openStream(k) \/ noPath(k) \/ open(k) \/ SetReady(k)
  \/ \E s \in Session : AcquireLinks(k, s)

Next ==
  \/ \E c \in Snapshot : change(c)
  \/ leaseLapses \/ watchAuthorization \/ rejected
  \/ controlLoop \/ fetchFails
  \/ \E s \in Session : \/ \E i \in ID, t \in Token : acceptTunnel(s, i, t)
                        \/ runTunnel(s) \/ tunnelBreaks(s) \/ probed(s) \/ probeFails(s)
  \/ \E k \in Client : \/ \E g \in Grant : grant(k, g)
                       \/ runClient(k) \/ opened(k) \/ ends(k)

Spec == Init /\ [][Next]_vars

\* A connection that has nothing to wait for: cancelled, or its session is closed.
over(k) == client[k].cancelled \/ (client[k].lease # None /\ ~session[client[k].lease].open)

\* Tickers drive the control loop and the probes of an open session; a goroutine
\* that can run does.  Nothing is asked of Agents, users or watchAuthorization.
FairSpec ==
  /\ Spec
  /\ WF_vars(controlLoop)
  /\ \A s \in Session : WF_vars(runTunnel(s) \/ probed(s))
  /\ \A k \in Client : WF_vars(runClient(k) \/ opened(k) \/ (over(k) /\ ends(k)))

-----------------------------------------------------------------------------
(* Properties.                                                             *)

aboutToClose(s) == \E o \in Session : session[o].pc = "added" /\ session[o].previous = s

\* A session that is open after its registration belongs to a Link of the
\* configuration in force, was authenticated with the token in force and is
\* selected by the policy in force; no session stays open outside the pool,
\* unless its successor is about to close it.  acceptTunnel authorizes twice,
\* Add replaces an entry with the same ID and Remove must not take a successor's.
SessionsCurrent ==
  \A s \in Session : session[s].open /\ session[s].pc # "ready" =>
    \/ aboutToClose(s)
    \/ /\ s \in pooled /\ authorizeTunnelLocked(config, TRUE, linkOf(s), session[s].token)
       /\ LET l == config.links[linkOf(s)]
          IN <<session[s].priority, session[s].weight, session[s].max>> = <<l.priority, l.weight, l.max>>

\* A connection that relays and was not cancelled has a Grant that is in force
\* unchanged, and goes through a Link of that Grant's route that is in force, if
\* its session is still open, although the Grant, the Links and the session are
\* read under the lock at different times.
RelayAuthorized ==
  \A k \in Client : client[k].pc = "relay" /\ ~client[k].cancelled =>
    /\ keepsConnection(config, client[k].grant, client[k].config)
    /\ LET s == client[k].lease IN
       session[s].open => /\ routeOf[linkOf(s)] = client[k].config.route
                          /\ linkOf(s) \in DOMAIN config.links \/ aboutToClose(s)

holders(s) == {k \in Client : client[k].lease = s /\ client[k].pc \in {"leased", "waiting", "relay"}}

\* The number the scheduler balances and limits by is the number of connections
\* that hold a lease, on every path out of openStream and handleSOCKS and also
\* after the session was replaced in the pool.
LeasesBalanced == \A s \in Session : session[s].active = Cardinality(holders(s))

\* A session in the pool that was marked not ready, by failed probes or by a
\* client that failed on an earlier session with the same ID, does not stay so.
SessionsServe ==
  \A s \in Session : []<>(s \in pooled /\ session[s].open => session[s].ready)

revokedTunnel(s) == session[s].open /\ ~authorizeTunnelLocked(desired, TRUE, linkOf(s), session[s].token)
revokedConnection(k) == client[k].pc # "none" /\ ~keepsConnection(desired, client[k].grant, client[k].config)

\* A tunnel whose Link or token the Controller has taken away is closed, and so
\* is a connection whose Grant was taken away or has new credentials.
RevocationTakesEffect ==
  /\ \A s \in Session : []<>~revokedTunnel(s)
  /\ \A k \in Client : []<>~revokedConnection(k)

=============================================================================
