------------------------ MODULE GatewayTunnelsProofs ------------------------
(***************************************************************************)
(* The safety of a Gateway's pool of tunnels and of the connections that   *)
(* lease them, for any number of Links, connections, Grants, sessions and  *)
(* clients, and for any configurations the Controller may answer with.     *)
(***************************************************************************)
EXTENDS GatewayTunnels, FiniteSetTheorems, TLAPS

\* The provers for a step, in turn: most need no more than Zenon.
USE ZenonT(4), SMTT(30), ZenonT(30)

-----------------------------------------------------------------------------
(* The inductive invariant.                                                *)

Loop ==
  /\ isConfig(desired) /\ isConfig(config)
  /\ pc \in {"fetch", "apply"} => got = [epoch |-> got.epoch, config |-> got.config]
  /\ pc = "apply" => isConfig(got.config)

SessionRecord ==
  [pc : {"none", "ready", "added", "up", "done"}, id : ID \cup {None}, token : Token \cup {None}, open : BOOLEAN,
   ready : BOOLEAN, timeouts : Nat, priority : Nat, weight : Nat, max : Nat, active : Int, previous : Session \cup {None}]

ClientRecord ==
  [pc : {"none", "granted", "registered", "allowed", "leased", "waiting", "relay", "failed"}, grant : Grant \cup {None},
   config : GrantConfig \cup {None}, allowed : SUBSET Link, lease : Session \cup {None}, cancelled : BOOLEAN]

sessionOK(r) ==
  /\ r \in SessionRecord
  /\ IF r.pc = "none" THEN r.id = None ELSE r.id \in ID
  /\ r.pc \in {"none", "done"} => ~r.open

\* An entry of the pool is a session with that ID whose goroutine has added it and
\* has not ended.
Sessions ==
  /\ session = [s \in Session |-> session[s]] /\ \A s \in Session : sessionOK(session[s])
  /\ pool \in [ID -> Session \cup {None}]
  /\ \A i \in ID : pool[i] # None => session[pool[i]].id = i /\ session[pool[i]].pc \in {"added", "up"}
  /\ SessionsCurrent

clientOK(r) == r \in ClientRecord /\ (r.lease # None <=> r.pc \in {"leased", "waiting", "relay", "failed"})

\* A connection that was registered and not cancelled has a Grant in force, and has
\* chosen, or may choose, among the Links of its route only.
authorizedClient(r) ==
  /\ r.pc \notin {"none", "granted"} /\ ~r.cancelled => keepsConnection(config, r.grant, r.config)
  /\ r.pc = "allowed" /\ ~r.cancelled => \A l \in r.allowed : routeOf[l] = r.config.route

\* A leased session object is kept, with its ID, until its last lease ends.
leaseOK(r) ==
  r.lease # None =>
    /\ r.lease \in Session /\ session[r.lease].pc \in {"added", "up", "done"}
    /\ ~r.cancelled => routeOf[linkOf(r.lease)] = r.config.route

Clients ==
  /\ client = [k \in Client |-> client[k]]
  /\ \A k \in Client : clientOK(client[k]) /\ authorizedClient(client[k]) /\ leaseOK(client[k])

IInv == Loop /\ Sessions /\ Clients /\ LeasesBalanced

-----------------------------------------------------------------------------
(* Facts about the model's operators.                                      *)

\* What a step keeps of a session that it does not replace.
keeps(q, r) ==
  /\ q.pc = r.pc /\ q.id = r.id /\ q.token = r.token /\ q.previous = r.previous
  /\ q.priority = r.priority /\ q.weight = r.weight /\ q.max = r.max
  /\ q.open => r.open

\* The empty records are in order.
LEMMA EmptyRecords ==
  /\ sessionOK(NoSession) /\ NoSession.pc = "none" /\ NoSession.active = 0 /\ ~NoSession.open
  /\ clientOK(NoClient) /\ NoClient.pc = "none" /\ NoClient.lease = None
<1>1. sessionOK(NoSession) /\ NoSession.pc = "none" /\ NoSession.active = 0 /\ ~NoSession.open
  BY DEF sessionOK, SessionRecord, NoSession
<1>2. clientOK(NoClient) /\ NoClient.pc = "none" /\ NoClient.lease = None
  BY DEF clientOK, ClientRecord, NoClient
<1> QED
  BY <1>1, <1>2

\* Pooled sessions are the entries of the pool.
LEMMA PooledFacts ==
  ASSUME Sessions, NEW s \in Session
  PROVE  /\ s \in pooled <=> session[s].id \in ID /\ pool[session[s].id] = s
         /\ s \in pooled => session[s].pc \in {"added", "up"}
         /\ \A i \in ID : pool[i] = s => s \in pooled /\ session[s].id = i
<1>1. sessionOK(session[s])
  BY DEF Sessions
<1>2. session[s].id \in ID \cup {None} /\ None \notin ID /\ s # None
  BY <1>1, SetAssumption DEF sessionOK, SessionRecord
<1>3. \A i \in ID : pool[i] = s => session[s].id = i /\ session[s].pc \in {"added", "up"}
  BY <1>2 DEF Sessions
<1> QED
  BY <1>2, <1>3 DEF pooled

\* A probe counts or clears a session's timeouts.
LEMMA SetTimeouts ==
  ASSUME NEW r, sessionOK(r), NEW n \in Nat
  PROVE  /\ sessionOK([r EXCEPT !.timeouts = n]) /\ keeps([r EXCEPT !.timeouts = n], r)
         /\ [r EXCEPT !.timeouts = n].active = r.active
BY DEF sessionOK, SessionRecord, keeps

\* A session is marked ready or not.
LEMMA SetReadiness ==
  ASSUME NEW r, sessionOK(r), NEW n \in BOOLEAN
  PROVE  /\ sessionOK([r EXCEPT !.ready = n]) /\ keeps([r EXCEPT !.ready = n], r)
         /\ [r EXCEPT !.ready = n].active = r.active
BY DEF sessionOK, SessionRecord, keeps

\* Streams of a session are counted.
LEMMA SetActive ==
  ASSUME NEW r, sessionOK(r), NEW n \in Int
  PROVE  /\ sessionOK([r EXCEPT !.active = n]) /\ keeps([r EXCEPT !.active = n], r)
         /\ [r EXCEPT !.active = n].active = n
BY DEF sessionOK, SessionRecord, keeps

\* A session is closed.
LEMMA SetOpen ==
  ASSUME NEW r, sessionOK(r), NEW b \in BOOLEAN, b => r.open
  PROVE  /\ sessionOK([r EXCEPT !.open = b]) /\ keeps([r EXCEPT !.open = b], r)
         /\ [r EXCEPT !.open = b].active = r.active /\ [r EXCEPT !.open = b].open = b
BY DEF sessionOK, SessionRecord, keeps

\* The sessions stay in order when a step changes only what keeps leaves open.
LEMMA SameSessions ==
  ASSUME Sessions, UNCHANGED <<config, pool>>, session' = [s \in Session |-> session'[s]],
         \A s \in Session : sessionOK(session'[s]) /\ keeps(session'[s], session[s])
  PROVE  Sessions'
<1>1. \A s \in Session : /\ (s \in pooled)' = (s \in pooled) /\ linkOf(s)' = linkOf(s)
                         /\ aboutToClose(s)' = aboutToClose(s)
  BY DEF pooled, linkOf, aboutToClose, keeps
<1>2. \A i \in ID : pool[i] # None => pool[i] \in Session
  BY DEF Sessions
<1>3. SessionsCurrent'
  <2> SUFFICES ASSUME NEW s \in Session, session'[s].open, session'[s].pc # "ready", ~aboutToClose(s)
               PROVE  /\ s \in pooled /\ authorizeTunnelLocked(config, TRUE, linkOf(s), session'[s].token)
                      /\ LET l == config.links[linkOf(s)]
                         IN <<session'[s].priority, session'[s].weight, session'[s].max>> = <<l.priority, l.weight, l.max>>
    BY <1>1 DEF SessionsCurrent, authorizeTunnelLocked
  <2>1. keeps(session'[s], session[s])
    OBVIOUS
  <2> QED
    BY <2>1, ZenonT(30) DEF Sessions, SessionsCurrent, keeps
<1> QED
  BY <1>2, <1>3, ZenonT(30) DEF Sessions, keeps

\* The clients stay in order when one of them takes a step.
LEMMA ClientStep ==
  ASSUME Clients, NEW k \in Client, NEW r, becomes(k, r), config' = config,
         \A s \in Session : session'[s].pc = session[s].pc /\ session'[s].id = session[s].id,
         clientOK(r), authorizedClient(r), leaseOK(r)
  PROVE  Clients'
<1>1. ASSUME NEW q, leaseOK(q) PROVE leaseOK(q)'
  BY <1>1 DEF leaseOK, linkOf
<1>2. ASSUME NEW q, authorizedClient(q) PROVE authorizedClient(q)'
  BY <1>2 DEF authorizedClient, keepsConnection
<1>3. client' = [client EXCEPT ![k] = r]
  BY DEF becomes
<1>4. /\ client' = [x \in Client |-> client'[x]] /\ client'[k] = r
      /\ \A x \in Client \ {k} : client'[x] = client[x]
  BY <1>3 DEF Clients
<1>5. ASSUME NEW x \in Client
      PROVE  clientOK(client'[x]) /\ authorizedClient(client[x])' /\ leaseOK(client[x])'
  <2>1. CASE x = k
    <3>1. authorizedClient(r)' /\ leaseOK(r)' /\ client'[x] = r
      BY <1>1, <1>2, <1>4, <2>1
    <3> QED
      BY <3>1 DEF authorizedClient, leaseOK
  <2>2. CASE x # k
    <3>1. client'[x] = client[x]
      BY <1>4, <2>2
    <3>2. clientOK(client[x]) /\ authorizedClient(client[x]) /\ leaseOK(client[x])
      BY DEF Clients
    <3>3. PICK q : q = client[x]
      OBVIOUS
    <3>4. authorizedClient(q)' /\ leaseOK(q)'
      BY <1>1, <1>2, <3>2, <3>3
    <3> QED
      BY <3>1, <3>2, <3>3, <3>4 DEF authorizedClient, leaseOK
  <2> QED
    BY <2>1, <2>2
<1> QED
  BY <1>4, <1>5 DEF Clients

\* Steps of tunnels and connections leave the control loop alone.
LEMMA LoopKept ==
  ASSUME Loop, UNCHANGED <<loop, config>>
  PROVE  Loop'
BY DEF Loop, loop, isConfig

\* Whether a connection counts as a lease of its session.
holding(r) == r.pc \in {"leased", "waiting", "relay"}

\* The connections that lease a session can be counted.
LEMMA HoldersFinite ==
  ASSUME NEW s
  PROVE  IsFiniteSet(holders(s)) /\ Cardinality(holders(s)) \in Nat
BY SetAssumption, FS_Subset, FS_CardinalityType DEF holders

\* A step that neither takes nor gives back a lease.
LEMMA SameHolders ==
  ASSUME LeasesBalanced, \A s \in Session : session'[s].active = session[s].active,
         \A k \in Client : /\ holding(client'[k]) = holding(client[k])
                           /\ holding(client[k]) => client'[k].lease = client[k].lease
  PROVE  LeasesBalanced'
<1>1. \A s : holders(s)' = holders(s)
  BY DEF holders, holding
<1> QED
  BY <1>1 DEF LeasesBalanced

-----------------------------------------------------------------------------
(* Connections.                                                            *)

\* A step of a connection that has, or keeps, no lease.
LEMMA QuietClient ==
  ASSUME IInv, NEW k \in Client, NEW r, becomes(k, r), UNCHANGED <<loop, config, pool, session>>,
         clientOK(r), authorizedClient(r), leaseOK(r),
         holding(r) = holding(client[k]), holding(r) => r.lease = client[k].lease
  PROVE  IInv'
<1>1. Clients'
  BY ClientStep DEF IInv
<1>2. Sessions'
  BY DEF IInv, Sessions, SessionsCurrent, aboutToClose, pooled, linkOf, authorizeTunnelLocked
<1>3. \A x \in Client : client'[x] = IF x = k THEN r ELSE client[x]
  BY DEF IInv, Clients, becomes
<1>4. LeasesBalanced'
  BY <1>3, SameHolders DEF IInv
<1>5. Loop'
  BY LoopKept DEF IInv
<1> QED
  BY <1>1, <1>2, <1>4, <1>5 DEF IInv

\* A connection that held no lease is over.
LEMMA ClientGone ==
  ASSUME IInv, NEW k \in Client, becomes(k, NoClient), UNCHANGED <<loop, config, pool, session>>, ~holding(client[k])
  PROVE  IInv'
<1>1. clientOK(NoClient) /\ authorizedClient(NoClient) /\ leaseOK(NoClient) /\ ~holding(NoClient)
  BY EmptyRecords DEF authorizedClient, leaseOK, holding
<1>2. holding(NoClient) = holding(client[k])
  BY <1>1 DEF holding
<1> QED
  BY <1>1, <1>2, QuietClient

\* A client presents a Grant's credentials; nothing is registered yet.
LEMMA StepGrant ==
  ASSUME IInv, NEW k \in Client, NEW g \in Grant, grant(k, g)
  PROVE  IInv'
<1> DEFINE r == [NoClient EXCEPT !.pc = "granted", !.grant = g, !.config = config.grants[g]]
<1>1. becomes(k, r) /\ UNCHANGED <<loop, config, pool, session>> /\ client[k].pc = "none"
  BY DEF grant, onlyClients, authorization
<1>2. NoClient \in ClientRecord /\ NoClient.lease = None
  BY EmptyRecords DEF clientOK
<1>3. config.grants[g] \in GrantConfig
  BY DEF IInv, Loop, isConfig, grant
<1>4. clientOK(r) /\ r.pc = "granted" /\ r.lease = None
  BY <1>2, <1>3, ZenonT(30) DEF clientOK, ClientRecord
<1> HIDE DEF r
<1>5. authorizedClient(r) /\ leaseOK(r) /\ holding(r) = holding(client[k]) /\ ~holding(r)
  BY <1>1, <1>4 DEF authorizedClient, leaseOK, holding
<1> QED
  BY <1>1, <1>4, <1>5, QuietClient

\* The connection is registered with a Grant in force, or refused.
LEMMA StepHandleSOCKS ==
  ASSUME IInv, NEW k \in Client, handleSOCKS(k)
  PROVE  IInv'
<1>0. /\ clientOK(client[k]) /\ client[k].pc = "granted" /\ UNCHANGED <<loop, config, pool, session>>
  BY DEF IInv, Clients, handleSOCKS, onlyClients, authorization
<1>1. CASE leased /\ keepsConnection(config, client[k].grant, client[k].config)
  <2> DEFINE r == [client[k] EXCEPT !.pc = "registered"]
  <2>1. becomes(k, r)
    BY <1>1 DEF handleSOCKS
  <2>2. clientOK(r) /\ r.pc = "registered" /\ r.lease = None /\ r.grant = client[k].grant /\ r.config = client[k].config
    BY <1>0 DEF clientOK, ClientRecord
  <2> HIDE DEF r
  <2>3. authorizedClient(r) /\ leaseOK(r) /\ holding(r) = holding(client[k]) /\ ~holding(r)
    BY <1>0, <1>1, <2>2 DEF authorizedClient, leaseOK, holding
  <2> QED
    BY <1>0, <2>1, <2>2, <2>3, QuietClient
<1>2. CASE ~(leased /\ keepsConnection(config, client[k].grant, client[k].config))
  <2>1. becomes(k, NoClient) /\ ~holding(client[k])
    BY <1>0, <1>2 DEF handleSOCKS, holding
  <2> QED
    BY <1>0, <2>1, ClientGone
<1> QED
  BY <1>1, <1>2

\* The Links a registered connection may use are those of its Grant's route.
LEMMA StepOpenStream ==
  ASSUME IInv, NEW k \in Client, openStream(k)
  PROVE  IInv'
<1> DEFINE g == client[k].grant
           allowed == IF g \notin DOMAIN config.grants THEN {}
                      ELSE {l \in DOMAIN config.links : routeOf[l] = config.grants[g].route}
<1>0. /\ clientOK(client[k]) /\ authorizedClient(client[k]) /\ client[k].pc = "registered"
      /\ UNCHANGED <<loop, config, pool, session>>
  BY DEF IInv, Clients, openStream, onlyClients, authorization
<1>1. CASE config.on /\ leased
  <2> DEFINE r == [client[k] EXCEPT !.pc = "allowed", !.allowed = allowed]
  <2>1. becomes(k, r)
    BY <1>1 DEF openStream
  <2>2. ~client[k].cancelled => \A l \in allowed : routeOf[l] = client[k].config.route
    BY <1>0 DEF authorizedClient, keepsConnection
  <2>3. allowed \in SUBSET Link
    BY DEF IInv, Loop, isConfig
  <2> HIDE DEF allowed
  <2>4. /\ clientOK(r) /\ r.pc = "allowed" /\ r.lease = None /\ r.grant = client[k].grant
        /\ r.config = client[k].config /\ r.allowed = allowed /\ r.cancelled = client[k].cancelled
    BY <1>0, <2>3, ZenonT(30) DEF clientOK, ClientRecord
  <2> HIDE DEF r
  <2>5. authorizedClient(r) /\ leaseOK(r) /\ holding(r) = holding(client[k]) /\ ~holding(r)
    BY <1>0, <2>2, <2>4 DEF authorizedClient, leaseOK, holding
  <2> QED
    BY <1>0, <2>1, <2>4, <2>5, QuietClient
<1>2. CASE ~(config.on /\ leased)
  <2>1. becomes(k, NoClient) /\ ~holding(client[k])
    BY <1>0, <1>2 DEF openStream, holding
  <2> QED
    BY <1>0, <2>1, ClientGone
<1> QED
  BY <1>1, <1>2

\* A connection takes a lease: one more holder, one more active stream.
LEMMA StepAcquire ==
  ASSUME IInv, NEW k \in Client, NEW s \in Session, AcquireLinks(k, s)
  PROVE  IInv'
<1> DEFINE r == [client[k] EXCEPT !.pc = "leased", !.allowed = {}, !.lease = s]
           q == [session[s] EXCEPT !.active = session[s].active + 1]
<1>0. /\ clientOK(client[k]) /\ authorizedClient(client[k]) /\ client[k].pc = "allowed"
      /\ UNCHANGED <<loop, config, pool>> /\ s \in usable(k) /\ Sessions /\ Clients /\ LeasesBalanced
  BY DEF IInv, Clients, AcquireLinks, onlyClients, authorization
<1>1. becomes(k, r) /\ session' = [session EXCEPT ![s] = q]
  BY <1>0 DEF AcquireLinks, Sessions
<1>2. sessionOK(q) /\ keeps(q, session[s]) /\ q.active = session[s].active + 1
  <2>1. sessionOK(session[s]) /\ session[s].active \in Int
    BY <1>0 DEF Sessions, sessionOK, SessionRecord
  <2> QED
    BY <2>1, SetActive
<1>3. /\ clientOK(r) /\ r.pc = "leased" /\ r.lease = s /\ r.grant = client[k].grant
      /\ r.config = client[k].config /\ r.cancelled = client[k].cancelled
  BY <1>0, SetAssumption, ZenonT(30) DEF clientOK, ClientRecord
<1> HIDE DEF r, q
<1>4. /\ session' = [x \in Session |-> session'[x]] /\ session'[s] = q
      /\ \A x \in Session \ {s} : session'[x] = session[x]
  BY <1>0, <1>1 DEF Sessions
<1>5. \A x \in Session : sessionOK(session'[x]) /\ keeps(session'[x], session[x])
  BY <1>0, <1>2, <1>4 DEF Sessions, keeps
<1>6. Sessions'
  BY <1>0, <1>4, <1>5, SameSessions
<1>7. s \in pooled /\ linkOf(s) \in client[k].allowed
  BY <1>0 DEF usable
<1>8. session[s].pc \in {"added", "up"}
  BY <1>0, <1>7, PooledFacts
<1>9. authorizedClient(r) /\ leaseOK(r)
  BY <1>0, <1>3, <1>7, <1>8 DEF authorizedClient, leaseOK
<1>10. Clients'
  BY <1>0, <1>1, <1>3, <1>5, <1>9, ClientStep DEF keeps
<1>11. client'[k] = r /\ \A x \in Client \ {k} : client'[x] = client[x]
  BY <1>0, <1>1 DEF Clients, becomes
<1>12. /\ holders(s)' = holders(s) \cup {k} /\ k \notin holders(s)
       /\ \A x \in Session \ {s} : holders(x)' = holders(x)
  BY <1>0, <1>3, <1>11 DEF holders
<1>13. Cardinality(holders(s)') = Cardinality(holders(s)) + 1
  BY <1>12, HoldersFinite, FS_AddElement
<1>14. LeasesBalanced'
  BY <1>0, <1>2, <1>4, <1>12, <1>13, ZenonT(30) DEF LeasesBalanced
<1>15. Loop'
  BY <1>0, LoopKept DEF IInv
<1> QED
  BY <1>6, <1>10, <1>14, <1>15 DEF IInv

\* A connection gives its lease back: one holder, and one active stream, less.
LEMMA Release ==
  ASSUME IInv, NEW k \in Client, NEW r, becomes(k, r), UNCHANGED <<loop, config, pool>>,
         holding(client[k]), ~holding(r), session' = released(client[k].lease),
         clientOK(r), authorizedClient(r), leaseOK(r)
  PROVE  IInv'
<1>0. /\ clientOK(client[k]) /\ leaseOK(client[k]) /\ Loop /\ Sessions /\ Clients /\ LeasesBalanced
  BY DEF IInv, Clients
<1>1. PICK s \in Session : s = client[k].lease
  BY <1>0 DEF clientOK, holding, leaseOK
<1> DEFINE q == [session[s] EXCEPT !.active = session[s].active - 1]
<1>2. session' = [session EXCEPT ![s] = q]
  BY <1>0, <1>1 DEF released, Sessions
<1>3. sessionOK(q) /\ keeps(q, session[s]) /\ q.active = session[s].active - 1
  <2>1. sessionOK(session[s]) /\ session[s].active \in Int
    BY <1>0 DEF Sessions, sessionOK, SessionRecord
  <2> QED
    BY <2>1, SetActive
<1> HIDE DEF q
<1>4. /\ session' = [x \in Session |-> session'[x]] /\ session'[s] = q
      /\ \A x \in Session \ {s} : session'[x] = session[x]
  BY <1>0, <1>2 DEF Sessions
<1>5. \A x \in Session : sessionOK(session'[x]) /\ keeps(session'[x], session[x])
  BY <1>0, <1>3, <1>4 DEF Sessions, keeps
<1>6. Sessions'
  BY <1>0, <1>4, <1>5, SameSessions
<1>7. Clients'
  BY <1>0, <1>5, ClientStep DEF keeps
<1>8. client'[k] = r /\ \A x \in Client \ {k} : client'[x] = client[x]
  BY <1>0 DEF Clients, becomes
<1>9. /\ holders(s)' = holders(s) \ {k} /\ k \in holders(s)
      /\ \A x \in Session \ {s} : holders(x)' = holders(x)
  BY <1>1, <1>8 DEF holders, holding
<1>10. Cardinality(holders(s)') = Cardinality(holders(s)) - 1
  BY <1>9, HoldersFinite, FS_RemoveElement, ZenonT(30)
<1>11. LeasesBalanced'
  BY <1>0, <1>3, <1>4, <1>9, <1>10, ZenonT(30) DEF LeasesBalanced
<1>12. Loop'
  BY <1>0, LoopKept
<1> QED
  BY <1>6, <1>7, <1>11, <1>12 DEF IInv

\* OpenStream goes on with the lease or gives it back.
LEMMA StepOpen ==
  ASSUME IInv, NEW k \in Client, open(k) \/ opened(k)
  PROVE  IInv'
<1>0. /\ clientOK(client[k]) /\ authorizedClient(client[k]) /\ leaseOK(client[k])
      /\ client[k].pc \in {"leased", "waiting"} /\ UNCHANGED <<loop, config, pool>>
  BY DEF IInv, Clients, open, opened, onlyClients, authorization
<1>1. ASSUME NEW p \in {"waiting", "relay", "failed"}
      PROVE  LET r == [client[k] EXCEPT !.pc = p]
             IN  clientOK(r) /\ authorizedClient(r) /\ leaseOK(r) /\ r.pc = p /\ r.lease = client[k].lease
  <2> DEFINE r == [client[k] EXCEPT !.pc = p]
  <2>1. /\ clientOK(r) /\ r.pc = p /\ r.lease = client[k].lease /\ r.grant = client[k].grant
        /\ r.config = client[k].config /\ r.cancelled = client[k].cancelled
    BY <1>0 DEF clientOK, ClientRecord
  <2> HIDE DEF r
  <2>2. authorizedClient(r) /\ leaseOK(r)
    BY <1>0, <2>1 DEF authorizedClient, leaseOK
  <2> QED
    BY <2>1, <2>2 DEF r
<1>2. ASSUME NEW p \in {"waiting", "relay"}, becomes(k, [client[k] EXCEPT !.pc = p]), UNCHANGED session
      PROVE  IInv'
  <2> DEFINE r == [client[k] EXCEPT !.pc = p]
  <2>1. clientOK(r) /\ authorizedClient(r) /\ leaseOK(r) /\ r.pc = p /\ r.lease = client[k].lease /\ becomes(k, r)
    BY <1>1, <1>2
  <2> HIDE DEF r
  <2>2. holding(r) = holding(client[k])
    BY <1>0, <2>1 DEF holding
  <2> QED
    BY <1>0, <1>2, <2>1, <2>2, QuietClient
<1>3. ASSUME becomes(k, [client[k] EXCEPT !.pc = "failed"]), session' = released(client[k].lease)
      PROVE  IInv'
  <2> DEFINE r == [client[k] EXCEPT !.pc = "failed"]
  <2>1. clientOK(r) /\ authorizedClient(r) /\ leaseOK(r) /\ r.pc = "failed" /\ becomes(k, r)
    BY <1>1, <1>3
  <2> HIDE DEF r
  <2>2. holding(client[k]) /\ ~holding(r)
    BY <1>0, <2>1 DEF holding
  <2> QED
    BY <1>0, <1>3, <2>1, <2>2, Release
<1>4. CASE open(k)
  BY <1>2, <1>3, <1>4 DEF open
<1>5. CASE opened(k)
  BY <1>2, <1>5 DEF opened
<1> QED
  BY <1>4, <1>5

\* SetReady may mark another session than the one that failed.
LEMMA StepSetReady ==
  ASSUME IInv, NEW k \in Client, SetReady(k)
  PROVE  IInv'
<1>0. /\ Loop /\ Sessions /\ Clients /\ LeasesBalanced /\ client[k].pc = "failed" /\ becomes(k, NoClient)
      /\ UNCHANGED <<loop, config, pool>> /\ ~holding(client[k]) /\ leaseOK(client[k]) /\ clientOK(client[k])
  BY DEF IInv, Clients, SetReady, onlyClients, authorization, holding
<1> DEFINE s == pool[session[client[k].lease].id]
<1>1. CASE s = None
  <2>1. UNCHANGED session
    BY <1>1 DEF SetReady
  <2> QED
    BY <1>0, <2>1, ClientGone
<1>2. CASE s # None
  <2>1. client[k].lease \in Session /\ session[client[k].lease].pc # "none"
    BY <1>0 DEF clientOK, leaseOK
  <2>2. session[client[k].lease].id \in ID
    BY <1>0, <2>1 DEF Sessions, sessionOK
  <2>3. PICK x \in Session : x = s
    BY <1>0, <1>2, <2>2, ZenonT(30) DEF Sessions
  <2> DEFINE q == [session[x] EXCEPT !.ready = FALSE]
  <2>4. session' = [session EXCEPT ![x] = q]
    BY <1>0, <1>2, <2>3 DEF SetReady, Sessions
  <2>5. sessionOK(q) /\ keeps(q, session[x]) /\ q.active = session[x].active
    BY <1>0, SetReadiness, ZenonT(30) DEF Sessions
  <2> HIDE DEF q, s
  <2>6. /\ session' = [y \in Session |-> session'[y]] /\ session'[x] = q
        /\ \A y \in Session \ {x} : session'[y] = session[y]
    BY <1>0, <2>4 DEF Sessions
  <2>7. \A y \in Session : /\ sessionOK(session'[y]) /\ keeps(session'[y], session[y])
                           /\ session'[y].active = session[y].active
    BY <1>0, <2>5, <2>6 DEF Sessions, keeps
  <2>8. Sessions'
    BY <1>0, <2>6, <2>7, SameSessions
  <2>9. clientOK(NoClient) /\ authorizedClient(NoClient) /\ leaseOK(NoClient) /\ ~holding(NoClient)
    BY EmptyRecords DEF authorizedClient, leaseOK, holding
  <2>10. Clients'
    BY <1>0, <2>7, <2>9, ClientStep DEF keeps
  <2>11. \A y \in Client : client'[y] = IF y = k THEN NoClient ELSE client[y]
    BY <1>0 DEF Clients, becomes
  <2>12. \A y \in Client : /\ holding(client'[y]) = holding(client[y])
                           /\ holding(client[y]) => client'[y].lease = client[y].lease
    BY <1>0, <2>9, <2>11 DEF holding
  <2>13. LeasesBalanced'
    BY <1>0, <2>7, <2>12, SameHolders
  <2>14. Loop'
    BY <1>0, LoopKept
  <2> QED
    BY <2>8, <2>10, <2>13, <2>14 DEF IInv
<1> QED
  BY <1>1, <1>2

\* A connection ends, with its lease if it has one.
LEMMA StepEnds ==
  ASSUME IInv, NEW k \in Client, ends(k)
  PROVE  IInv'
<1>0. /\ clientOK(client[k]) /\ client[k].pc \in {"registered", "waiting", "relay"} /\ becomes(k, NoClient)
      /\ UNCHANGED <<loop, config, pool>>
  BY DEF IInv, Clients, ends, onlyClients, authorization
<1>1. clientOK(NoClient) /\ authorizedClient(NoClient) /\ leaseOK(NoClient) /\ ~holding(NoClient)
  BY EmptyRecords DEF authorizedClient, leaseOK, holding
<1>2. CASE client[k].lease = None
  <2>1. ~holding(client[k]) /\ UNCHANGED session
    BY <1>0, <1>2 DEF clientOK, holding, ends
  <2> QED
    BY <1>0, <2>1, ClientGone
<1>3. CASE client[k].lease # None
  <2>1. holding(client[k]) /\ session' = released(client[k].lease)
    BY <1>0, <1>3 DEF clientOK, holding, ends
  <2> QED
    BY <1>0, <1>1, <2>1, Release
<1> QED
  BY <1>2, <1>3

\* A step of a connection.
LEMMA StepClient ==
  ASSUME IInv, NEW k \in Client, (\E g \in Grant : grant(k, g)) \/ runClient(k) \/ opened(k) \/ ends(k)
  PROVE  IInv'
<1>1. CASE noPath(k)
  <2>1. becomes(k, NoClient) /\ UNCHANGED <<loop, config, pool, session>> /\ ~holding(client[k])
    BY <1>1 DEF noPath, onlyClients, authorization, holding
  <2> QED
    BY <2>1, ClientGone
<1> QED
  BY <1>1, StepGrant, StepHandleSOCKS, StepOpenStream, StepAcquire, StepOpen, StepSetReady, StepEnds DEF runClient

-----------------------------------------------------------------------------
(* Tunnels.                                                                *)

\* The clients stay in order when no session that one of them leases loses its ID.
LEMMA SameClients ==
  ASSUME Clients, UNCHANGED <<config, client>>,
         \A k \in Client, s \in Session : client[k].lease = s =>
           session'[s].pc \in {"added", "up", "done"} /\ session'[s].id = session[s].id
  PROVE  Clients'
<1>1. ASSUME NEW k \in Client
      PROVE  authorizedClient(client[k])' /\ leaseOK(client[k])'
  <2>1. PICK q : q = client[k]
    OBVIOUS
  <2>2. client'[k] = q /\ authorizedClient(q) /\ leaseOK(q)
    BY <2>1 DEF Clients
  <2>3. \A s \in Session : q.lease = s => session'[s].pc \in {"added", "up", "done"} /\ session'[s].id = session[s].id
    BY <2>1
  <2>4. leaseOK(q)' /\ authorizedClient(q)'
    BY <2>2, <2>3 DEF leaseOK, linkOf, authorizedClient, keepsConnection
  <2> QED
    BY <2>1, <2>2, <2>4 DEF authorizedClient, leaseOK
<1> QED
  BY <1>1 DEF Clients, clientOK

\* The leases stay balanced when only sessions without any lose their count.
LEMMA SameLeases ==
  ASSUME LeasesBalanced, client' = client,
         \A s \in Session : \/ session'[s].active = session[s].active
                            \/ session'[s].active = 0 /\ \A k \in Client : client[k].lease # s
  PROVE  LeasesBalanced'
<1> SUFFICES ASSUME NEW s \in Session PROVE session'[s].active = Cardinality(holders(s)')
  BY DEF LeasesBalanced
<1>1. holders(s)' = holders(s)
  BY DEF holders
<1>2. CASE session'[s].active = session[s].active
  BY <1>1, <1>2 DEF LeasesBalanced
<1>3. CASE session'[s].active = 0 /\ \A k \in Client : client[k].lease # s
  <2>1. holders(s) = {}
    BY <1>3 DEF holders
  <2> QED
    BY <1>1, <1>3, <2>1, FS_EmptySet
<1> QED
  BY <1>2, <1>3

\* No connection leases a session that is not in the pool yet.
LEMMA NotLeased ==
  ASSUME Clients, NEW s \in Session, session[s].pc \in {"none", "ready"}
  PROVE  \A k \in Client : client[k].lease # s
<1>1. s # None
  BY SetAssumption
<1> QED
  BY <1>1 DEF Clients, leaseOK

\* A step that changes only what keeps leaves open of one session.
LEMMA QuietTunnel ==
  ASSUME IInv, NEW s \in Session, NEW q, session' = [session EXCEPT ![s] = q], UNCHANGED pool, onlySessions,
         sessionOK(q), keeps(q, session[s]), q.active = session[s].active
  PROVE  IInv'
<1>0. /\ Loop /\ Sessions /\ Clients /\ LeasesBalanced /\ UNCHANGED <<loop, config, client>>
  BY DEF IInv, onlySessions, authorization
<1>1. /\ session' = [x \in Session |-> session'[x]] /\ session'[s] = q
      /\ \A x \in Session \ {s} : session'[x] = session[x]
  BY <1>0 DEF Sessions
<1>2. \A x \in Session : /\ sessionOK(session'[x]) /\ keeps(session'[x], session[x])
                         /\ session'[x].active = session[x].active
  BY <1>0, <1>1 DEF Sessions, keeps
<1>3. Sessions'
  BY <1>0, <1>1, <1>2, SameSessions
<1>4. \A k \in Client, x \in Session : client[k].lease = x =>
           session'[x].pc \in {"added", "up", "done"} /\ session'[x].id = session[x].id
  <2>1. \A x \in Session : x # None
    BY SetAssumption
  <2> QED
    BY <1>0, <1>2, <2>1 DEF Clients, leaseOK, keeps
<1>5. Clients'
  BY <1>0, <1>4, SameClients
<1>6. LeasesBalanced'
  BY <1>0, <1>2, SameLeases
<1> QED
  BY <1>0, <1>3, <1>5, <1>6, LoopKept DEF IInv

\* A tunnel breaks, or is probed.
LEMMA StepProbe ==
  ASSUME IInv, NEW s \in Session, tunnelBreaks(s) \/ probed(s) \/ probeFails(s)
  PROVE  IInv'
<1>0. sessionOK(session[s]) /\ session = [x \in Session |-> session[x]]
  BY DEF IInv, Sessions
<1>1. CASE tunnelBreaks(s)
  <2> DEFINE q == [session[s] EXCEPT !.open = FALSE]
  <2>1. session' = [session EXCEPT ![s] = q]
    BY <1>0, <1>1, ZenonT(30) DEF tunnelBreaks, closed
  <2>2. sessionOK(q) /\ keeps(q, session[s]) /\ q.active = session[s].active
    BY <1>0, SetOpen, ZenonT(30)
  <2> QED
    BY <1>1, <2>1, <2>2, QuietTunnel, ZenonT(30) DEF tunnelBreaks
<1>2. ASSUME NEW n \in Nat, NEW b \in BOOLEAN, session' = [session EXCEPT ![s].timeouts = n, ![s].ready = b],
             UNCHANGED pool, onlySessions
      PROVE  IInv'
  <2> DEFINE q == [session[s] EXCEPT !.timeouts = n, !.ready = b]
  <2>1. session' = [session EXCEPT ![s] = q]
    BY <1>0, <1>2, ZenonT(30)
  <2>2. sessionOK(q) /\ keeps(q, session[s]) /\ q.active = session[s].active
    BY <1>0, ZenonT(30) DEF sessionOK, SessionRecord, keeps
  <2> QED
    BY <1>2, <2>1, <2>2, QuietTunnel, ZenonT(30)
<1>3. CASE probed(s)
  BY <1>2, <1>3, ZenonT(30) DEF probed
<1>4. CASE probeFails(s)
  <2>1. session[s].timeouts + 1 \in Nat
    BY <1>0 DEF sessionOK, SessionRecord
  <2> DEFINE b == session[s].ready /\ session[s].timeouts + 1 < MaxProbes
             n == session[s].timeouts + 1
  <2>2. session' = [session EXCEPT ![s].timeouts = n, ![s].ready = b] /\ UNCHANGED pool /\ onlySessions
    BY <1>0, <1>4 DEF probeFails
  <2>3. b \in BOOLEAN
    OBVIOUS
  <2> HIDE DEF b, n
  <2> QED
    BY <1>2, <2>1, <2>2, <2>3, ZenonT(30) DEF n
<1> QED
  BY <1>1, <1>3, <1>4

\* A session that is not about to close another begins or ends outside the pool.
LEMMA Replaced ==
  ASSUME Sessions, config' = config, NEW s \in Session, NEW q, session' = [session EXCEPT ![s] = q], sessionOK(q),
         session[s].pc # "added", q.pc # "added", q.open => q.pc = "ready",
         pool' \in [ID -> Session \cup {None}],
         \A i \in ID : pool'[i] = IF pool[i] = s THEN None ELSE pool[i]
  PROVE  Sessions'
<1>1. /\ session' = [x \in Session |-> session'[x]] /\ session'[s] = q
      /\ \A x \in Session \ {s} : session'[x] = session[x]
  BY DEF Sessions
<1>2. \A x \in Session : sessionOK(session'[x])
  BY <1>1 DEF Sessions
<1>3. ASSUME NEW i \in ID, pool'[i] # None
      PROVE  session'[pool'[i]].id = i /\ session'[pool'[i]].pc \in {"added", "up"}
  <2>1. pool'[i] = pool[i] /\ pool[i] # s /\ pool[i] \in Session
    BY <1>3 DEF Sessions
  <2>2. session'[pool[i]] = session[pool[i]]
    BY <1>1, <2>1
  <2> QED
    BY <1>3, <2>1, <2>2 DEF Sessions
<1>4. SessionsCurrent'
  <2> SUFFICES ASSUME NEW x \in Session, session'[x].open, session'[x].pc # "ready", ~aboutToClose(x)'
               PROVE  /\ (x \in pooled)' /\ authorizeTunnelLocked(config, TRUE, linkOf(x)', session'[x].token)
                      /\ LET l == config.links[linkOf(x)']
                         IN <<session'[x].priority, session'[x].weight, session'[x].max>> = <<l.priority, l.weight, l.max>>
    BY DEF SessionsCurrent, authorizeTunnelLocked
  <2>1. x # s /\ session'[x] = session[x]
    BY <1>1
  <2>2. ~aboutToClose(x)
    BY <1>1 DEF aboutToClose
  <2>3. /\ x \in pooled /\ authorizeTunnelLocked(config, TRUE, linkOf(x), session[x].token)
        /\ LET l == config.links[linkOf(x)]
           IN <<session[x].priority, session[x].weight, session[x].max>> = <<l.priority, l.weight, l.max>>
    BY <2>1, <2>2 DEF Sessions, SessionsCurrent
  <2>4. linkOf(x)' = linkOf(x)
    BY <2>1 DEF linkOf
  <2>5. session[x].id \in ID /\ pool[session[x].id] = x
    BY <2>3, PooledFacts
  <2>6. (x \in pooled)'
    BY <2>1, <2>5, SetAssumption DEF pooled
  <2> QED
    BY <2>1, <2>3, <2>4, <2>6, ZenonT(30)
<1> QED
  BY <1>1, <1>2, <1>3, <1>4 DEF Sessions

\* A tunnel registers, as an object that no lease and no successor knows.
LEMMA StepAcceptTunnel ==
  ASSUME IInv, NEW s \in Session, NEW i \in ID, NEW t \in Token, acceptTunnel(s, i, t)
  PROVE  IInv'
<1> DEFINE q == [NoSession EXCEPT !.pc = "ready", !.id = i, !.token = t, !.open = TRUE, !.ready = TRUE]
<1>0. /\ Loop /\ Sessions /\ Clients /\ LeasesBalanced /\ UNCHANGED <<loop, config, client, pool>>
      /\ session' = [session EXCEPT ![s] = q]
  BY DEF IInv, acceptTunnel, onlySessions, authorization
<1>1. s \in free
  BY DEF acceptTunnel
<1>2. session[s].pc \in {"none", "done"} /\ \A k \in Client : client[k].lease # s
  BY <1>1 DEF free, unreferenced
<1>3. sessionOK(q) /\ q.pc = "ready" /\ q.active = 0
  <2>1. NoSession \in SessionRecord /\ NoSession.active = 0
    BY EmptyRecords DEF sessionOK
  <2> QED
    BY <2>1, ZenonT(30) DEF sessionOK, SessionRecord
<1> HIDE DEF q
<1>4. \A j \in ID : pool[j] # s
  BY <1>0, <1>2, PooledFacts
<1>5. pool' \in [ID -> Session \cup {None}] /\ \A j \in ID : pool'[j] = IF pool[j] = s THEN None ELSE pool[j]
  BY <1>0, <1>4 DEF Sessions
<1>6. Sessions'
  BY <1>0, <1>2, <1>3, <1>5, Replaced, ZenonT(30)
<1>7. session'[s] = q /\ \A x \in Session \ {s} : session'[x] = session[x]
  BY <1>0 DEF Sessions
<1>8. Clients'
  <2>1. \A x \in Session : x # None
    BY SetAssumption
  <2>2. \A k \in Client, x \in Session : client[k].lease = x =>
          session'[x].pc \in {"added", "up", "done"} /\ session'[x].id = session[x].id
    BY <1>0, <1>2, <1>7, <2>1 DEF Clients, leaseOK
  <2> QED
    BY <1>0, <2>2, SameClients
<1>9. LeasesBalanced'
  BY <1>0, <1>2, <1>3, <1>7, SameLeases
<1> QED
  BY <1>0, <1>6, <1>8, <1>9, LoopKept DEF IInv

\* A tunnel's goroutine ends; its object is gone or waits for the last lease.
LEMMA StepSessionEnds ==
  ASSUME IInv, NEW s \in Session, sessionEnds(s)
  PROVE  IInv'
<1> DEFINE q == IF unreferenced(s) THEN NoSession ELSE [session[s] EXCEPT !.pc = "done"]
<1>0. /\ Loop /\ Sessions /\ Clients /\ LeasesBalanced /\ UNCHANGED <<loop, config, client>>
      /\ session[s].pc = "up" /\ ~session[s].open /\ sessionOK(session[s]) /\ pool' = Remove(session[s].id, s)
  BY DEF IInv, Sessions, sessionEnds, onlySessions, authorization
<1>1. session' = [session EXCEPT ![s] = q]
  BY <1>0 DEF sessionEnds, Sessions
<1>2. /\ sessionOK(q) /\ q.pc \in {"none", "done"} /\ ~q.open
      /\ unreferenced(s) => q.active = 0
      /\ ~unreferenced(s) => q.pc = "done" /\ q.id = session[s].id /\ q.active = session[s].active
  <2>1. CASE unreferenced(s)
    BY <2>1, EmptyRecords
  <2>2. CASE ~unreferenced(s)
    BY <1>0, <2>2 DEF sessionOK, SessionRecord
  <2> QED
    BY <2>1, <2>2
<1> HIDE DEF q
<1>3. session[s].id \in ID
  BY <1>0 DEF sessionOK
<1>4. pool' \in [ID -> Session \cup {None}] /\ \A j \in ID : pool'[j] = IF pool[j] = s THEN None ELSE pool[j]
  <2>1. \A j \in ID : pool[j] = s => j = session[s].id
    BY <1>0, PooledFacts
  <2> QED
    BY <1>0, <1>3, <2>1 DEF Remove, Sessions
<1>5. Sessions'
  BY <1>0, <1>1, <1>2, <1>4, Replaced, ZenonT(30)
<1>6. session'[s] = q /\ \A x \in Session \ {s} : session'[x] = session[x]
  BY <1>0, <1>1 DEF Sessions
<1>7. unreferenced(s) => \A k \in Client : client[k].lease # s
  BY DEF unreferenced
<1>8. Clients'
  <2>1. \A x \in Session : x # None
    BY SetAssumption
  <2>2. \A k \in Client, x \in Session : client[k].lease = x =>
          session'[x].pc \in {"added", "up", "done"} /\ session'[x].id = session[x].id
    BY <1>0, <1>2, <1>6, <1>7, <2>1 DEF Clients, leaseOK
  <2> QED
    BY <1>0, <2>2, SameClients
<1>9. LeasesBalanced'
  BY <1>0, <1>2, <1>6, <1>7, SameLeases
<1> QED
  BY <1>0, <1>5, <1>8, <1>9, LoopKept DEF IInv

\* A registration that is no longer authorized is dropped.
LEMMA StepTurnedAway ==
  ASSUME IInv, NEW s \in Session, session[s].pc = "ready", session' = [session EXCEPT ![s] = NoSession],
         UNCHANGED pool, onlySessions
  PROVE  IInv'
<1>0. /\ Loop /\ Sessions /\ Clients /\ LeasesBalanced /\ UNCHANGED <<loop, config, client>>
  BY DEF IInv, onlySessions, authorization
<1>1. \A j \in ID : pool[j] # s
  BY <1>0, PooledFacts
<1>2. pool' \in [ID -> Session \cup {None}] /\ \A j \in ID : pool'[j] = IF pool[j] = s THEN None ELSE pool[j]
  BY <1>0, <1>1 DEF Sessions
<1>3. Sessions'
  BY <1>0, <1>2, EmptyRecords, Replaced, ZenonT(30)
<1>4. session'[s] = NoSession /\ \A x \in Session \ {s} : session'[x] = session[x]
  BY <1>0 DEF Sessions
<1>5. \A k \in Client : client[k].lease # s
  BY <1>0, NotLeased
<1>6. Clients'
  <2>1. \A x \in Session : x # None
    BY SetAssumption
  <2>2. \A k \in Client, x \in Session : client[k].lease = x =>
          session'[x].pc \in {"added", "up", "done"} /\ session'[x].id = session[x].id
    BY <1>0, <1>4, <1>5, <2>1 DEF Clients, leaseOK
  <2> QED
    BY <1>0, <2>2, SameClients
<1>7. LeasesBalanced'
  BY <1>0, <1>4, <1>5, EmptyRecords, SameLeases
<1> QED
  BY <1>0, <1>3, <1>6, <1>7, LoopKept DEF IInv

\* A registration is added to the pool, where it may replace another session.
LEMMA StepAdded ==
  ASSUME IInv, NEW s \in Session, addSession(s),
         authorizeTunnelLocked(config, leased, session[s].id[1], session[s].token)
  PROVE  IInv'
<1>0. /\ Loop /\ Sessions /\ Clients /\ LeasesBalanced /\ UNCHANGED <<loop, config, client>>
      /\ session[s].pc = "ready" /\ sessionOK(session[s])
  BY DEF IInv, Sessions, addSession, onlySessions, authorization
<1>1. PICK i \in ID : i = session[s].id
  BY <1>0 DEF sessionOK
<1>2. PICK l \in LinkConfig : l = config.links[i[1]]
  BY <1>0, <1>1 DEF Loop, isConfig, authorizeTunnelLocked
<1>3. pool[i] \in Session \cup {None}
  BY <1>0 DEF Sessions
<1> DEFINE q == [session[s] EXCEPT !.pc = "added", !.previous = pool[i],
                                   !.priority = l.priority, !.weight = l.weight, !.max = l.max]
<1>4. session' = [session EXCEPT ![s] = q] /\ pool' = [pool EXCEPT ![i] = s]
  BY <1>0, <1>1, <1>2 DEF addSession, Sessions
<1>5. /\ sessionOK(q) /\ q.pc = "added" /\ q.previous = pool[i] /\ q.id = i /\ q.token = session[s].token
      /\ q.active = session[s].active /\ q.priority = l.priority /\ q.weight = l.weight /\ q.max = l.max
  <2>1. l.priority \in Nat /\ l.weight \in Nat /\ l.max \in Nat
    BY DEF LinkConfig
  <2> QED
    BY <1>0, <1>1, <1>3, <2>1, ZenonT(30) DEF sessionOK, SessionRecord
<1> HIDE DEF q
<1>6. /\ session' = [x \in Session |-> session'[x]] /\ session'[s] = q
      /\ \A x \in Session \ {s} : session'[x] = session[x]
  BY <1>0, <1>4 DEF Sessions
<1>7. /\ pool' \in [ID -> Session \cup {None}] /\ pool'[i] = s
      /\ \A j \in ID \ {i} : pool'[j] = pool[j]
  BY <1>0, <1>4 DEF Sessions
<1>8. \A j \in ID : pool[j] # s
  BY <1>0, PooledFacts
<1>9. ASSUME NEW j \in ID, pool'[j] # None
      PROVE  session'[pool'[j]].id = j /\ session'[pool'[j]].pc \in {"added", "up"}
  <2>1. CASE j = i
    BY <1>5, <1>6, <1>7, <2>1
  <2>2. CASE j # i
    <3>1. pool'[j] = pool[j] /\ pool[j] \in Session /\ pool[j] # s
      BY <1>0, <1>7, <1>8, <1>9, <2>2 DEF Sessions
    <3> QED
      BY <1>0, <1>6, <1>9, <3>1 DEF Sessions
  <2> QED
    BY <2>1, <2>2
<1>10. SessionsCurrent'
  <2> SUFFICES ASSUME NEW x \in Session, session'[x].open, session'[x].pc # "ready", ~aboutToClose(x)'
               PROVE  /\ (x \in pooled)' /\ authorizeTunnelLocked(config, TRUE, linkOf(x)', session'[x].token)
                      /\ LET y == config.links[linkOf(x)']
                         IN <<session'[x].priority, session'[x].weight, session'[x].max>> = <<y.priority, y.weight, y.max>>
    BY <1>0 DEF SessionsCurrent, authorizeTunnelLocked
  <2>1. CASE x = s
    <3>1. (x \in pooled)' /\ linkOf(x)' = i[1]
      BY <1>5, <1>6, <1>7, <2>1, SetAssumption DEF pooled, linkOf
    <3>2. authorizeTunnelLocked(config, TRUE, i[1], session[s].token)
      BY <1>1 DEF authorizeTunnelLocked
    <3>3. /\ session'[x].token = session[s].token /\ session'[x].priority = l.priority
          /\ session'[x].weight = l.weight /\ session'[x].max = l.max
      BY <1>5, <1>6, <2>1
    <3> QED
      BY <1>2, <3>1, <3>2, <3>3
  <2>2. CASE x # s
    <3>1. session'[x] = session[x]
      BY <1>6, <2>2
    <3>2. ~aboutToClose(x) /\ pool[i] # x
      BY <1>0, <1>5, <1>6 DEF aboutToClose
    <3>3. /\ x \in pooled /\ authorizeTunnelLocked(config, TRUE, linkOf(x), session[x].token)
          /\ LET y == config.links[linkOf(x)]
             IN <<session[x].priority, session[x].weight, session[x].max>> = <<y.priority, y.weight, y.max>>
      <4>1. SessionsCurrent
        BY <1>0 DEF Sessions
      <4> QED
        BY <3>1, <3>2, <4>1, ZenonT(30) DEF SessionsCurrent
    <3>4. linkOf(x)' = linkOf(x)
      BY <3>1 DEF linkOf
    <3>5. session[x].id \in ID /\ pool[session[x].id] = x
      BY <1>0, <3>3, PooledFacts
    <3>6. (x \in pooled)'
      BY <1>7, <3>1, <3>2, <3>5, SetAssumption DEF pooled
    <3> QED
      BY <3>1, <3>3, <3>4, <3>6, ZenonT(30)
  <2> QED
    BY <2>1, <2>2
<1>11. Sessions'
  BY <1>0, <1>5, <1>6, <1>7, <1>9, <1>10 DEF Sessions
<1>12. Clients'
  <2>1. \A x \in Session : x # None
    BY SetAssumption
  <2>2. \A k \in Client : client[k].lease # s
    BY <1>0, NotLeased
  <2>3. \A k \in Client, x \in Session : client[k].lease = x =>
          session'[x].pc \in {"added", "up", "done"} /\ session'[x].id = session[x].id
    BY <1>0, <1>6, <2>1, <2>2 DEF Clients, leaseOK
  <2> QED
    BY <1>0, <2>3, SameClients
<1>13. LeasesBalanced'
  BY <1>0, <1>5, <1>6, SameLeases
<1> QED
  BY <1>0, <1>11, <1>12, <1>13, LoopKept DEF IInv

\* The session that was replaced is closed.
LEMMA StepClosePrevious ==
  ASSUME IInv, NEW s \in Session, closePrevious(s)
  PROVE  IInv'
<1>0. /\ Loop /\ Sessions /\ Clients /\ LeasesBalanced /\ UNCHANGED <<loop, config, client, pool>>
      /\ session[s].pc = "added" /\ \A x \in Session : sessionOK(session[x])
  BY DEF IInv, Sessions, closePrevious, onlySessions, authorization
<1>1. PICK p : p = session[s].previous
  OBVIOUS
<1>2. session' = [closed({p} \ {None}) EXCEPT ![s].pc = "up", ![s].previous = None]
  BY <1>1 DEF closePrevious
<1> DEFINE c(x) == IF x \in {p} \ {None} THEN [session[x] EXCEPT !.open = FALSE] ELSE session[x]
           q(x) == IF x = s THEN [c(x) EXCEPT !.pc = "up", !.previous = None] ELSE c(x)
<1>3. session' = [x \in Session |-> q(x)]
  BY <1>2 DEF closed
<1>4. ASSUME NEW x \in Session
      PROVE  /\ sessionOK(q(x)) /\ q(x).id = session[x].id /\ q(x).token = session[x].token
             /\ q(x).active = session[x].active /\ q(x).priority = session[x].priority
             /\ q(x).weight = session[x].weight /\ q(x).max = session[x].max
             /\ q(x).open => session[x].open /\ x # p
             /\ q(x).pc = (IF x = s THEN "up" ELSE session[x].pc)
             /\ x # s => q(x).previous = session[x].previous
  <2>1. x # None
    BY SetAssumption
  <2>2. PICK y : y = c(x)
    OBVIOUS
  <2>3. /\ sessionOK(y) /\ keeps(y, session[x]) /\ y.active = session[x].active
        /\ y.open => session[x].open /\ x # p
    <3>1. CASE x = p
      BY <1>0, <2>1, <2>2, <3>1, SetOpen, ZenonT(30)
    <3>2. CASE x # p
      BY <1>0, <2>2, <3>2 DEF keeps
    <3> QED
      BY <3>1, <3>2
  <2> HIDE DEF c
  <2>4. CASE x = s
    BY <1>0, <2>2, <2>3, <2>4, ZenonT(30) DEF keeps, sessionOK, SessionRecord
  <2>5. CASE x # s
    BY <2>2, <2>3, <2>5 DEF keeps
  <2> QED
    BY <2>4, <2>5
<1>5. \A x \in Session : session'[x] = q(x)
  BY <1>3
<1>6. session' = [x \in Session |-> session'[x]]
  BY <1>3
<1> HIDE DEF c, q
<1>7. \A j \in ID : pool[j] # None => session'[pool[j]].id = j /\ session'[pool[j]].pc \in {"added", "up"}
  <2>1. \A j \in ID : pool[j] # None => pool[j] \in Session
    BY <1>0 DEF Sessions
  <2> QED
    BY <1>0, <1>4, <1>5, <2>1 DEF Sessions
<1>8. SessionsCurrent'
  <2> SUFFICES ASSUME NEW x \in Session, session'[x].open, session'[x].pc # "ready", ~aboutToClose(x)'
               PROVE  /\ (x \in pooled)' /\ authorizeTunnelLocked(config, TRUE, linkOf(x)', session'[x].token)
                      /\ LET y == config.links[linkOf(x)']
                         IN <<session'[x].priority, session'[x].weight, session'[x].max>> = <<y.priority, y.weight, y.max>>
    BY <1>0 DEF SessionsCurrent, authorizeTunnelLocked
  <2>1. /\ session'[x].id = session[x].id /\ session'[x].token = session[x].token /\ session[x].open /\ x # p
        /\ session'[x].priority = session[x].priority /\ session'[x].weight = session[x].weight
        /\ session'[x].max = session[x].max /\ session[x].pc # "ready"
    BY <1>0, <1>4, <1>5
  <2>2. ~aboutToClose(x)
    <3> SUFFICES ASSUME NEW o \in Session, session[o].pc = "added", session[o].previous = x
                 PROVE  FALSE
      BY DEF aboutToClose
    <3>1. o # s
      BY <1>1, <2>1
    <3>2. session'[o].pc = "added" /\ session'[o].previous = x
      BY <1>4, <1>5, <3>1
    <3> QED
      BY <3>2 DEF aboutToClose
  <2>3. /\ x \in pooled /\ authorizeTunnelLocked(config, TRUE, linkOf(x), session[x].token)
        /\ LET y == config.links[linkOf(x)]
           IN <<session[x].priority, session[x].weight, session[x].max>> = <<y.priority, y.weight, y.max>>
    BY <1>0, <2>1, <2>2, ZenonT(30) DEF Sessions, SessionsCurrent
  <2>4. linkOf(x)' = linkOf(x) /\ (x \in pooled)'
    BY <1>0, <2>1, <2>3, ZenonT(30) DEF linkOf, pooled
  <2> QED
    BY <2>1, <2>3, <2>4, ZenonT(30)
<1>9. Sessions'
  BY <1>0, <1>4, <1>5, <1>6, <1>7, <1>8 DEF Sessions
<1>10. Clients'
  <2>1. \A x \in Session : x # None
    BY SetAssumption
  <2>2. \A k \in Client, x \in Session : client[k].lease = x =>
          session'[x].pc \in {"added", "up", "done"} /\ session'[x].id = session[x].id
    BY <1>0, <1>4, <1>5, <2>1 DEF Clients, leaseOK
  <2> QED
    BY <1>0, <2>2, SameClients
<1>11. LeasesBalanced'
  BY <1>0, <1>4, <1>5, SameLeases
<1> QED
  BY <1>0, <1>9, <1>10, <1>11, LoopKept DEF IInv

\* A step of a tunnel.
LEMMA StepTunnel ==
  ASSUME IInv, NEW s \in Session,
         \/ \E i \in ID, t \in Token : acceptTunnel(s, i, t)
         \/ runTunnel(s) \/ tunnelBreaks(s) \/ probed(s) \/ probeFails(s)
  PROVE  IInv'
<1>1. CASE addSession(s)
  <2>1. CASE authorizeTunnelLocked(config, leased, session[s].id[1], session[s].token)
    BY <1>1, <2>1, StepAdded
  <2>2. CASE ~authorizeTunnelLocked(config, leased, session[s].id[1], session[s].token)
    BY <1>1, <2>2, StepTurnedAway DEF addSession
  <2> QED
    BY <2>1, <2>2
<1> QED
  BY <1>1, StepAcceptTunnel, StepClosePrevious, StepSessionEnds, StepProbe DEF runTunnel

-----------------------------------------------------------------------------
(* The configuration in force.                                             *)

\* retireConnectionsLocked cancels the connections the new configuration does not
\* keep, and tunnels it does not keep are closed.
LEMMA NewConfig ==
  ASSUME IInv, UNCHANGED pool, retireConnectionsLocked(config'),
         session' = [s \in Session |-> session'[s]],
         \A s \in Session :
           /\ sessionOK(session'[s]) /\ session'[s].active = session[s].active
           /\ session'[s].pc = session[s].pc /\ session'[s].id = session[s].id
           /\ session'[s].token = session[s].token /\ session'[s].previous = session[s].previous
           /\ session'[s].open => session[s].open,
         \A s \in pooled : session'[s].open /\ ~aboutToClose(s) =>
           /\ authorizeTunnelLocked(config', TRUE, linkOf(s), session[s].token)
           /\ session'[s].priority = config'.links[linkOf(s)].priority
           /\ session'[s].weight = config'.links[linkOf(s)].weight
           /\ session'[s].max = config'.links[linkOf(s)].max
  PROVE  Sessions' /\ Clients' /\ LeasesBalanced'
<1>0. Sessions /\ Clients /\ LeasesBalanced
  BY DEF IInv
<1>1. \A s \in Session : /\ (s \in pooled)' = (s \in pooled) /\ linkOf(s)' = linkOf(s)
                         /\ aboutToClose(s)' = aboutToClose(s)
  BY DEF pooled, linkOf, aboutToClose
<1>2. SessionsCurrent'
  <2> SUFFICES ASSUME NEW s \in Session, session'[s].open, session'[s].pc # "ready", ~aboutToClose(s)
               PROVE  /\ s \in pooled /\ authorizeTunnelLocked(config', TRUE, linkOf(s), session'[s].token)
                      /\ LET l == config'.links[linkOf(s)]
                         IN <<session'[s].priority, session'[s].weight, session'[s].max>> = <<l.priority, l.weight, l.max>>
    BY <1>1 DEF SessionsCurrent, authorizeTunnelLocked
  <2>1. session[s].open /\ session[s].pc # "ready" /\ session'[s].token = session[s].token
    OBVIOUS
  <2>2. s \in pooled
    <3>1. SessionsCurrent
      BY <1>0 DEF Sessions
    <3> QED
      BY <2>1, <3>1, ZenonT(30) DEF SessionsCurrent
  <2> QED
    BY <2>1, <2>2, ZenonT(30)
<1>3. Sessions'
  <2>1. ASSUME NEW i \in ID, pool[i] # None
        PROVE  session'[pool[i]].id = i /\ session'[pool[i]].pc \in {"added", "up"}
    <3>1. pool[i] \in Session /\ session[pool[i]].id = i /\ session[pool[i]].pc \in {"added", "up"}
      BY <1>0, <2>1, ZenonT(30) DEF Sessions
    <3> QED
      BY <3>1
  <2> QED
    BY <1>0, <1>2, <2>1 DEF Sessions
<1>4. client' = [k \in Client |-> client'[k]]
  BY DEF retireConnectionsLocked
<1>5. ASSUME NEW k \in Client
      PROVE  /\ clientOK(client'[k]) /\ authorizedClient(client[k])' /\ leaseOK(client[k])'
             /\ client'[k].pc = client[k].pc /\ client'[k].lease = client[k].lease
  <2>1. PICK q : q = client[k]
    OBVIOUS
  <2>2. PICK r : r = client'[k]
    OBVIOUS
  <2>3. clientOK(q) /\ authorizedClient(q) /\ leaseOK(q)
    BY <1>0, <2>1 DEF Clients
  <2>4. r = IF registered(k) /\ ~keepsConnection(config', q.grant, q.config)
            THEN [q EXCEPT !.cancelled = TRUE] ELSE q
    BY <2>1, <2>2 DEF retireConnectionsLocked
  <2>5. /\ clientOK(r) /\ r.pc = q.pc /\ r.lease = q.lease /\ r.grant = q.grant /\ r.config = q.config
        /\ r.allowed = q.allowed
        /\ ~r.cancelled => ~q.cancelled
    BY <2>3, <2>4, ZenonT(30) DEF clientOK, ClientRecord
  <2>6. registered(k) /\ ~r.cancelled => keepsConnection(config', r.grant, r.config)
    <3>1. CASE registered(k) /\ ~keepsConnection(config', q.grant, q.config)
      BY <2>3, <2>4, <3>1 DEF clientOK, ClientRecord
    <3>2. CASE ~(registered(k) /\ ~keepsConnection(config', q.grant, q.config))
      BY <2>4, <3>2
    <3> QED
      BY <3>1, <3>2
  <2>7. /\ r.pc \notin {"none", "granted"} /\ ~r.cancelled => keepsConnection(config', r.grant, r.config)
        /\ r.pc = "allowed" /\ ~r.cancelled => \A l \in r.allowed : routeOf[l] = r.config.route
    BY <2>1, <2>3, <2>5, <2>6 DEF registered, authorizedClient
  <2>8. r.lease # None =>
          /\ r.lease \in Session /\ session'[r.lease].pc \in {"added", "up", "done"}
          /\ ~r.cancelled => routeOf[session'[r.lease].id[1]] = r.config.route
    BY <2>3, <2>5 DEF leaseOK, linkOf
  <2>9. authorizedClient(client[k])'
    BY <2>2, <2>7 DEF authorizedClient, keepsConnection
  <2>10. leaseOK(client[k])'
    BY <2>2, <2>8 DEF leaseOK, linkOf
  <2> QED
    BY <2>1, <2>2, <2>5, <2>9, <2>10
<1>6. Clients'
  BY <1>4, <1>5 DEF Clients, clientOK
<1>7. \A k \in Client : /\ holding(client'[k]) = holding(client[k])
                        /\ holding(client[k]) => client'[k].lease = client[k].lease
  BY <1>5 DEF holding
<1>8. LeasesBalanced'
  BY <1>0, <1>7, SameHolders
<1> QED
  BY <1>3, <1>6, <1>8

\* The lease runs out or the Controller refuses: nothing stays authorized.
LEMMA StepInvalidate ==
  ASSUME IInv, invalidateAuthorizationLocked
  PROVE  Sessions' /\ Clients' /\ LeasesBalanced'
<1>0. Sessions /\ \A s \in Session : sessionOK(session[s])
  BY DEF IInv, Sessions
<1>1. UNCHANGED pool /\ retireConnectionsLocked(config')
  BY DEF invalidateAuthorizationLocked
<1>2. \A s \in Session : session'[s] = IF s \in pooled THEN [session[s] EXCEPT !.open = FALSE] ELSE session[s]
  BY DEF invalidateAuthorizationLocked, closed
<1>3. session' = [s \in Session |-> session'[s]]
  BY DEF invalidateAuthorizationLocked, closed
<1>4. ASSUME NEW s \in Session
      PROVE  /\ sessionOK(session'[s]) /\ session'[s].active = session[s].active
             /\ session'[s].pc = session[s].pc /\ session'[s].id = session[s].id
             /\ session'[s].token = session[s].token /\ session'[s].previous = session[s].previous
             /\ session'[s].open => session[s].open /\ s \notin pooled
  <2>1. CASE s \in pooled
    <3>1. PICK q : q = [session[s] EXCEPT !.open = FALSE]
      OBVIOUS
    <3>2. sessionOK(q) /\ keeps(q, session[s]) /\ q.active = session[s].active /\ q.open = FALSE
      BY <1>0, <3>1, SetOpen, ZenonT(30)
    <3>3. session'[s] = q
      BY <1>2, <2>1, <3>1
    <3> QED
      BY <3>2, <3>3 DEF keeps
  <2>2. CASE s \notin pooled
    BY <1>0, <1>2, <2>2, ZenonT(30)
  <2> QED
    BY <2>1, <2>2
<1>5. \A s \in pooled : s \in Session /\ ~session'[s].open
  BY <1>4 DEF pooled
<1> QED
  BY <1>1, <1>3, <1>4, <1>5, NewConfig, ZenonT(30)

\* What the steps of the control loop that change no authorization leave alone.
LEMMA SameAuthorization ==
  ASSUME IInv, UNCHANGED <<config, pool, session, client>>
  PROVE  Sessions' /\ Clients' /\ LeasesBalanced'
<1>0. Sessions /\ Clients /\ LeasesBalanced
  BY DEF IInv
<1>1. Clients'
  BY <1>0 DEF Clients, leaseOK, linkOf, authorizedClient, keepsConnection
<1>2. Sessions'
  <2>1. session' = [s \in Session |-> session'[s]]
    BY <1>0 DEF Sessions
  <2>2. \A s \in Session : sessionOK(session'[s]) /\ keeps(session'[s], session[s])
    BY <1>0 DEF Sessions, keeps
  <2> QED
    BY <1>0, <2>1, <2>2, SameSessions
<1>3. LeasesBalanced'
  BY <1>0 DEF LeasesBalanced, holders
<1> QED
  BY <1>1, <1>2, <1>3

\* refresh puts the configuration it fetched in force.
LEMMA StepApplyConfig ==
  ASSUME IInv, applyConfig
  PROVE  IInv'
<1>0. Loop /\ Sessions /\ Clients /\ LeasesBalanced /\ \A s \in Session : sessionOK(session[s])
  BY DEF IInv, Sessions
<1>1. CASE got.epoch # epoch
  <2>1. UNCHANGED <<config, client, session, pool, desired>> /\ pc' = "idle"
    BY <1>1 DEF applyConfig
  <2>2. Sessions' /\ Clients' /\ LeasesBalanced'
    BY <2>1, SameAuthorization
  <2>3. Loop'
    BY <1>0, <2>1 DEF Loop, isConfig
  <2> QED
    BY <2>2, <2>3 DEF IInv
<1>2. CASE got.epoch = epoch
  <2>1. PICK c : c = got.config
    OBVIOUS
  <2>2. isConfig(c) /\ config' = c /\ UNCHANGED <<pool, desired>> /\ pc' = "idle" /\ retireConnectionsLocked(config')
    BY <1>0, <1>2, <2>1 DEF applyConfig, Loop
  <2>3. session' = [s \in Session |->
               [UpdatePolicy(c, s) EXCEPT !.open = @ /\ (s \in pooled => keepsTunnel(c, linkOf(s)))]]
    BY <1>2, <2>1 DEF applyConfig
  <2>4. session' = [s \in Session |-> session'[s]]
    BY <2>3
  <2>5. ASSUME NEW s \in Session
        PROVE  /\ sessionOK(session'[s]) /\ session'[s].active = session[s].active
               /\ session'[s].pc = session[s].pc /\ session'[s].id = session[s].id
               /\ session'[s].token = session[s].token /\ session'[s].previous = session[s].previous
               /\ session'[s].open => session[s].open
               /\ s \in pooled /\ session'[s].open =>
                    /\ keepsTunnel(c, linkOf(s))
                    /\ session'[s].priority = c.links[linkOf(s)].priority
                    /\ session'[s].weight = c.links[linkOf(s)].weight
                    /\ session'[s].max = c.links[linkOf(s)].max
    <3>1. PICK q : q = UpdatePolicy(c, s)
      OBVIOUS
    <3>2. PICK b \in BOOLEAN : b = (q.open /\ (s \in pooled => keepsTunnel(c, linkOf(s))))
      OBVIOUS
    <3>3. session'[s] = [q EXCEPT !.open = b]
      BY <2>3, <3>1, <3>2
    <3>4. /\ sessionOK(q) /\ q.active = session[s].active /\ q.pc = session[s].pc /\ q.id = session[s].id
          /\ q.token = session[s].token /\ q.previous = session[s].previous /\ q.open = session[s].open
          /\ s \in pooled /\ linkOf(s) \in DOMAIN c.links =>
               /\ q.priority = c.links[linkOf(s)].priority
               /\ q.weight = c.links[linkOf(s)].weight
               /\ q.max = c.links[linkOf(s)].max
      <4>1. CASE s \in pooled /\ linkOf(s) \in DOMAIN c.links
        <5>1. PICK l \in LinkConfig : l = c.links[linkOf(s)]
          BY <2>2, <4>1 DEF isConfig
        <5>2. q = [session[s] EXCEPT !.priority = l.priority, !.weight = l.weight, !.max = l.max]
          BY <3>1, <4>1, <5>1 DEF UpdatePolicy
        <5>3. l.priority \in Nat /\ l.weight \in Nat /\ l.max \in Nat
          BY DEF LinkConfig
        <5> QED
          BY <1>0, <5>1, <5>2, <5>3, ZenonT(30) DEF sessionOK, SessionRecord
      <4>2. CASE ~(s \in pooled /\ linkOf(s) \in DOMAIN c.links)
        BY <1>0, <3>1, <4>2 DEF UpdatePolicy
      <4> QED
        BY <4>1, <4>2
    <3>5. /\ sessionOK(session'[s]) /\ keeps(session'[s], q) /\ session'[s].active = q.active /\ session'[s].open = b
      <4>1. b => q.open
        BY <3>2, ZenonT(30)
      <4> QED
        BY <3>3, <3>4, <4>1, SetOpen
    <3>6. session'[s].open /\ s \in pooled => keepsTunnel(c, linkOf(s)) /\ linkOf(s) \in DOMAIN c.links
      <4>1. b /\ s \in pooled => keepsTunnel(c, linkOf(s))
        BY <3>2, ZenonT(30)
      <4>2. keepsTunnel(c, linkOf(s)) => linkOf(s) \in DOMAIN c.links
        BY DEF keepsTunnel
      <4> QED
        BY <3>5, <4>1, <4>2
    <3> QED
      BY <3>4, <3>5, <3>6 DEF keeps
  <2>6. ASSUME NEW s \in pooled, session'[s].open, ~aboutToClose(s)
        PROVE  /\ authorizeTunnelLocked(config', TRUE, linkOf(s), session[s].token)
               /\ session'[s].priority = config'.links[linkOf(s)].priority
               /\ session'[s].weight = config'.links[linkOf(s)].weight
               /\ session'[s].max = config'.links[linkOf(s)].max
    <3>1. s \in Session /\ session[s].pc \in {"added", "up"} /\ session[s].open
      BY <1>0, <2>5, <2>6, PooledFacts DEF pooled
    <3>2. authorizeTunnelLocked(config, TRUE, linkOf(s), session[s].token)
      BY <1>0, <2>6, <3>1, ZenonT(30) DEF Sessions, SessionsCurrent
    <3>3. /\ keepsTunnel(c, linkOf(s))
          /\ session'[s].priority = c.links[linkOf(s)].priority
          /\ session'[s].weight = c.links[linkOf(s)].weight
          /\ session'[s].max = c.links[linkOf(s)].max
      BY <2>5, <2>6, <3>1
    <3> QED
      BY <2>2, <3>2, <3>3 DEF keepsTunnel, authorizeTunnelLocked
  <2>7. Sessions' /\ Clients' /\ LeasesBalanced'
    BY <2>2, <2>4, <2>5, <2>6, NewConfig, ZenonT(30)
  <2>8. Loop'
    BY <1>0, <2>2 DEF Loop, isConfig
  <2> QED
    BY <2>7, <2>8 DEF IInv
<1> QED
  BY <1>1, <1>2

-----------------------------------------------------------------------------
(* The control loop, and the specification.                                *)

\* The steps of the control loop, of the Controller and of time.
LEMMA StepLoop ==
  ASSUME IInv, \/ \E c \in Snapshot : change(c)
               \/ leaseLapses \/ watchAuthorization \/ rejected \/ controlLoop \/ fetchFails
  PROVE  IInv'
<1>0. Loop
  BY DEF IInv
<1>1. ASSUME NEW c \in Snapshot, change(c)
      PROVE  IInv'
  <2>1. isConfig(c)
    BY ConfigAssumption
  <2>2. Loop' /\ UNCHANGED <<config, pool, session, client>>
    BY <1>0, <1>1, <2>1 DEF Loop, isConfig, change, authorization
  <2> QED
    BY <2>2, SameAuthorization DEF IInv
<1>2. CASE leaseLapses
  <2>1. UNCHANGED <<loop, config, pool, session, client>>
    BY <1>2 DEF leaseLapses
  <2> QED
    BY <1>0, <2>1, LoopKept, SameAuthorization DEF IInv
<1>3. isConfig(Off)
  BY DEF isConfig, Off, NoEntries
<1>4. CASE watchAuthorization
  <2>1. Loop'
    BY <1>0, <1>3, <1>4 DEF Loop, isConfig, watchAuthorization, invalidateAuthorizationLocked, loop
  <2> QED
    BY <1>4, <2>1, StepInvalidate DEF watchAuthorization, IInv
<1>5. CASE rejected
  <2>1. Loop'
    BY <1>0, <1>3, <1>5 DEF Loop, isConfig, rejected, invalidateAuthorizationLocked
  <2> QED
    BY <1>5, <2>1, StepInvalidate DEF rejected, IInv
<1>6. CASE refresh
  <2>1. Loop' /\ UNCHANGED <<config, pool, session, client>>
    BY <1>0, <1>6 DEF Loop, isConfig, refresh, authorization
  <2> QED
    BY <2>1, SameAuthorization DEF IInv
<1>7. CASE fetch
  <2>1. UNCHANGED <<config, desired, pool, session, client>> /\ pc' = "apply" /\ got' = [got EXCEPT !.config = desired]
    BY <1>7 DEF fetch, authorization
  <2>2. got' = [epoch |-> got.epoch, config |-> desired]
    BY <1>0, <1>7, <2>1 DEF fetch, Loop
  <2>3. Loop'
    BY <1>0, <2>1, <2>2 DEF Loop, isConfig
  <2> QED
    BY <2>1, <2>3, SameAuthorization DEF IInv
<1>8. CASE fetchFails
  <2>1. Loop' /\ UNCHANGED <<config, pool, session, client>>
    BY <1>0, <1>8 DEF Loop, isConfig, fetchFails, authorization
  <2> QED
    BY <2>1, SameAuthorization DEF IInv
<1> QED
  BY <1>1, <1>2, <1>4, <1>5, <1>6, <1>7, <1>8, StepApplyConfig DEF controlLoop

\* Nothing is in force, pooled or leased at the start.
LEMMA InitInvariant == Init => IInv
<1> SUFFICES ASSUME Init PROVE IInv
  OBVIOUS
<1>1. Loop
  BY ConfigAssumption DEF Init, Loop, isConfig, Off, NoEntries
<1>2. \A s \in Session : session[s] = NoSession
  BY DEF Init
<1>3. Sessions
  BY <1>2, EmptyRecords DEF Init, Sessions, SessionsCurrent
<1>4. \A k \in Client : client[k] = NoClient
  BY DEF Init
<1>5. clientOK(NoClient) /\ authorizedClient(NoClient) /\ leaseOK(NoClient) /\ ~holding(NoClient)
  BY EmptyRecords DEF authorizedClient, leaseOK, holding
<1>6. Clients
  BY <1>4, <1>5 DEF Init, Clients
<1>7. LeasesBalanced
  <2>1. \A s \in Session : holders(s) = {}
    BY <1>4, <1>5 DEF holders, holding
  <2> QED
    BY <1>2, <2>1, EmptyRecords, FS_EmptySet DEF LeasesBalanced
<1> QED
  BY <1>1, <1>3, <1>6, <1>7 DEF IInv

\* Every step preserves the invariant.
LEMMA Inductive == IInv /\ [Next]_vars => IInv'
<1> SUFFICES ASSUME IInv, [Next]_vars PROVE IInv'
  OBVIOUS
<1>1. CASE UNCHANGED vars
  <2>1. UNCHANGED <<loop, config, pool, session, client>>
    BY <1>1 DEF vars, loop
  <2> QED
    BY <2>1, LoopKept, SameAuthorization DEF IInv
<1>2. CASE \E s \in Session : \/ \E i \in ID, t \in Token : acceptTunnel(s, i, t)
                              \/ runTunnel(s) \/ tunnelBreaks(s) \/ probed(s) \/ probeFails(s)
  BY <1>2, StepTunnel
<1>3. CASE \E k \in Client : (\E g \in Grant : grant(k, g)) \/ runClient(k) \/ opened(k) \/ ends(k)
  BY <1>3, StepClient
<1> QED
  BY <1>1, <1>2, <1>3, StepLoop DEF Next

\* The invariant implies the properties of the pool and of its connections.
LEMMA InvariantSafe == IInv => SessionsCurrent /\ RelayAuthorized /\ LeasesBalanced
<1> SUFFICES ASSUME IInv PROVE SessionsCurrent /\ RelayAuthorized /\ LeasesBalanced
  OBVIOUS
<1>1. SessionsCurrent /\ LeasesBalanced
  BY DEF IInv, Sessions
<1>2. RelayAuthorized
  <2> SUFFICES ASSUME NEW k \in Client, client[k].pc = "relay", ~client[k].cancelled
               PROVE  /\ keepsConnection(config, client[k].grant, client[k].config)
                      /\ LET s == client[k].lease IN
                         session[s].open => /\ routeOf[linkOf(s)] = client[k].config.route
                                            /\ linkOf(s) \in DOMAIN config.links \/ aboutToClose(s)
    BY DEF RelayAuthorized
  <2>1. clientOK(client[k]) /\ authorizedClient(client[k]) /\ leaseOK(client[k])
    BY DEF IInv, Clients
  <2>2. PICK s \in Session : s = client[k].lease
    BY <2>1 DEF clientOK, leaseOK
  <2>3. session[s].pc # "ready" /\ routeOf[linkOf(s)] = client[k].config.route
    BY <2>1, <2>2, SetAssumption DEF leaseOK
  <2>4. session[s].open => linkOf(s) \in DOMAIN config.links \/ aboutToClose(s)
    BY <1>1, <2>3 DEF SessionsCurrent, authorizeTunnelLocked
  <2>5. keepsConnection(config, client[k].grant, client[k].config)
    BY <2>1 DEF authorizedClient
  <2> QED
    BY <2>2, <2>3, <2>4, <2>5
<1> QED
  BY <1>1, <1>2

-----------------------------------------------------------------------------
(* What holds in every reachable state.                                    *)

\* The invariant of the pool, of its sessions and of the connections that use it
\* always holds, whatever the Controller answers and whenever the lease runs out.
THEOREM Invariant == Spec => []IInv
<1> QED
  BY InitInvariant, Inductive, PTL DEF Spec

\* No session stays open that the configuration in force does not authorize with
\* its token, or that is selected by another policy than the one in force, unless
\* its successor is about to close it.
THEOREM SessionsTheorem == Spec => []SessionsCurrent
<1>1. Spec => []IInv
  BY Invariant
<1> QED
  BY <1>1, InvariantSafe, PTL

\* A connection that relays and is not cancelled has its Grant in force and goes
\* through a Link of that Grant's route.
THEOREM RelayTheorem == Spec => []RelayAuthorized
<1>1. Spec => []IInv
  BY Invariant
<1> QED
  BY <1>1, InvariantSafe, PTL

\* The count of streams the scheduler keeps for a session is the number of
\* connections that lease it.
THEOREM LeasesTheorem == Spec => []LeasesBalanced
<1>1. Spec => []IInv
  BY Invariant
<1> QED
  BY <1>1, InvariantSafe, PTL

=============================================================================
