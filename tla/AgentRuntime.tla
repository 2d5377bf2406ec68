--------------------------- MODULE AgentRuntime ---------------------------
(* The Agent process: the control loop that fetches and applies the         *)
(* Controller's configuration, the watch over the authorization lease, the  *)
(* goroutines that keep the tunnels of each Link up, the embedded REALITY   *)
(* cores they share, and the streams a Gateway opens through them.          *)
(* (src/internal/agent/agent.go, config_apply.go, policy.go, reality.go)    *)
EXTENDS Integers, FiniteSets, Functions

CONSTANTS
  Link, Grant,
  Target,     \* addresses a policy may permit
  Tunnel,     \* what sameTunnel compares: URL, token, TLS or REALITY settings
  Reality,    \* the tunnels dialled through an embedded core
  Snapshot,   \* configurations the Controller may answer with
  First,      \* those it may begin with
  Worker,     \* linkLoop goroutines alive at a time
  Slot,       \* streamSlots: streams handled at a time
  MaxConns,   \* bound: connections of a Link
  MaxChanges, \* bound: changes of the desired configuration
  MaxLapses,  \* bound: lapses of the lease and refused requests
  MaxFaults,  \* bound: failed fetches, dials and tunnels
  None

NoLinks == [l \in {} |-> None]
Key == Link \X (0 .. MaxConns - 1)
LinkConfig == [tunnel : Tunnel, conns : 1 .. MaxConns, grants : SUBSET Grant]
Config == [on : BOOLEAN, policy : SUBSET Target, links : UNION {[D -> LinkConfig] : D \in SUBSET Link}]

ASSUME ConfigAssumption == Reality \subseteq Tunnel /\ First \subseteq Snapshot /\ Snapshot \subseteq Config
ASSUME SetAssumption == IsFiniteSet(Worker) /\ None \notin Worker \cup Target \cup Tunnel

VARIABLES
  desired,    \* the Controller's current configuration for this Agent
  config,     \* Runtime.config
  leased,     \* time.Now() is before authorizationUntil
  epoch,      \* authorizationEpoch
  pc, got,    \* the control loop and what it fetched: [epoch, config]
  workers,    \* Runtime.workers: the goroutine registered for a key
  worker,     \* the goroutines
  core,       \* Runtime.realities: the tunnel a Link's core is configured for
  status,     \* Runtime.statuses
  stream,     \* the handlers of the slots
  count       \* uses of the bounds

vars == <<desired, config, leased, epoch, pc, got, workers, worker, core, status, stream, count>>
authorization == <<config, leased, epoch>>
loop == <<desired, pc, got>>

NoWorker == [pc |-> "none", key |-> None, tunnel |-> None, cancelled |-> FALSE]
NoStream == [pc |-> "none", w |-> None, link |-> None, grant |-> None, policy |-> {}, target |-> None, cancelled |-> FALSE]

spend(what, max) == count[what] < max /\ count' = [count EXCEPT ![what] = @ + 1]

-----------------------------------------------------------------------------
(* Authorization of streams.                                               *)

\* grantAllowedLocked: the lease is checked when it is used.
grantAllowedLocked(c, lease, l, g) ==
  c.on /\ lease /\ l \in DOMAIN c.links /\ g \in c.links[l].grants

\* activeStreams: registered under the lock and not yet ended.
active(s) == stream[s].pc \in {"registered", "dial", "relay"}

\* Mutant: a changed policy spares the streams that have no address.
retiredStreams_connected(c, lease, policyChanged) ==
  {s \in Slot : active(s) /\
     \/ ~grantAllowedLocked(c, lease, stream[s].link, stream[s].grant)
     \/ policyChanged /\ stream[s].target \notin c.policy \cup {None}}

\* The streams retireStreamsLocked cancels under configuration c.
retiredStreams(c, lease, policyChanged) ==
  {s \in Slot : active(s) /\
     \/ ~grantAllowedLocked(c, lease, stream[s].link, stream[s].grant)
     \/ policyChanged /\ (stream[s].target = None \/ stream[s].target \notin c.policy)}

\* Cancelling a goroutine's context cancels those of the streams it accepted.
cancel(ws, ss) ==
  /\ worker' = [w \in Worker |-> IF w \in ws THEN [worker[w] EXCEPT !.cancelled = TRUE] ELSE worker[w]]
  /\ stream' = [s \in Slot |->
       IF s \in ss \/ stream[s].w \in ws THEN [stream[s] EXCEPT !.cancelled = TRUE] ELSE stream[s]]

\* invalidateAuthorizationLocked, on a 401 or 403 and when the lease has lapsed.
invalidateAuthorizationLocked ==
  /\ epoch' = epoch + 1
  /\ config' = [config EXCEPT !.on = FALSE, !.links = NoLinks]
  /\ cancel({workers[k] : k \in Key} \ {None}, retiredStreams(config', leased, FALSE))
  /\ workers' = [k \in Key |-> None]
  /\ core' = [l \in Link |-> None]
  /\ UNCHANGED <<leased, status>>

\* The lease is renewed every poll and lasts five minutes.
leaseLapses ==
  /\ leased /\ leased' = FALSE /\ spend("lapses", MaxLapses)
  /\ UNCHANGED <<config, epoch, loop, workers, worker, core, status, stream>>

watchAuthorization ==
  /\ config.on /\ ~leased
  /\ invalidateAuthorizationLocked
  /\ UNCHANGED <<loop, count>>

-----------------------------------------------------------------------------
(* The control loop.                                                       *)

\* An administrator changes what this Agent should do.
change(c) ==
  /\ c # desired /\ desired' = c /\ spend("changes", MaxChanges)
  /\ UNCHANGED <<authorization, pc, got, workers, worker, core, status, stream>>

\* refresh reads the epoch before it asks the Controller.
refresh ==
  /\ pc = "idle" /\ pc' = "fetch" /\ got' = [epoch |-> epoch, config |-> None]
  /\ UNCHANGED <<desired, authorization, workers, worker, core, status, stream, count>>

fetch ==
  /\ pc = "fetch" /\ pc' = "apply" /\ got' = [got EXCEPT !.config = desired]
  /\ UNCHANGED <<desired, authorization, workers, worker, core, status, stream, count>>

fetchFails ==
  /\ pc = "fetch" /\ pc' = "idle" /\ got' = None /\ spend("faults", MaxFaults)
  /\ UNCHANGED <<desired, authorization, workers, worker, core, status, stream>>

\* The Controller refuses the fetch, or the status report between two fetches.
rejected ==
  /\ pc \in {"fetch", "idle"} /\ pc' = "idle" /\ got' = None /\ spend("lapses", MaxLapses)
  /\ invalidateAuthorizationLocked
  /\ UNCHANGED desired

\* Mutant: a worker is kept when the settings of its tunnel have changed.
keepsWorker_anyTunnel(c, k) ==
  c.on /\ k[1] \in DOMAIN c.links /\ k[1] \in DOMAIN config.links /\ k[2] < c.links[k[1]].conns

\* A worker survives a new configuration that asks for the same connection.
keepsWorker(c, k) ==
  LET l == k[1] IN
  /\ c.on /\ l \in DOMAIN c.links /\ l \in DOMAIN config.links
  /\ k[2] < c.links[l].conns /\ c.links[l].tunnel = config.links[l].tunnel

keepsCore(c, l) ==
  c.on /\ l \in DOMAIN c.links /\ c.links[l].tunnel = config.links[l].tunnel

\* retireWorkersLocked.
retireWorkersLocked(c, ss) ==
  LET gone == {k \in Key : workers[k] # None /\ ~keepsWorker(c, k)} IN
  /\ cancel({workers[k] : k \in gone}, ss)
  /\ workers' = [k \in Key |-> IF k \in gone THEN None ELSE workers[k]]
  /\ core' = [l \in Link |-> IF l \in DOMAIN config.links /\ ~keepsCore(c, l) THEN None ELSE core[l]]

\* applyConfig.
applyConfig ==
  LET c == IF got.config.on THEN got.config ELSE [got.config EXCEPT !.links = NoLinks] IN
  /\ pc = "apply" /\ got' = None
  /\ IF got.epoch = epoch
     THEN /\ pc' = "reconcile" /\ config' = c /\ leased' = TRUE
          /\ retireWorkersLocked(c, retiredStreams(c, TRUE, c.policy # config.policy))
          /\ status' = [l \in Link |-> IF l \in DOMAIN c.links THEN status[l] ELSE None]
     ELSE /\ pc' = "idle"
          /\ UNCHANGED <<config, leased, workers, worker, core, status, stream>>
  /\ UNCHANGED <<desired, epoch, count>>

\* The connections the applied configuration asks for.
desiredKeys(c) == {k \in Key : c.on /\ k[1] \in DOMAIN c.links /\ k[2] < c.links[k[1]].conns}

\* reconcile stops the workers nobody asks for and starts the missing ones; which
\* free identifier a goroutine gets does not matter.
reconcile ==
  LET missing == {k \in desiredKeys(config) : workers[k] = None}
      gone    == {k \in Key \ desiredKeys(config) : workers[k] # None}
      fresh   == Injection(missing, {w \in Worker : worker[w].pc = "none"})
      f       == CHOOSE f \in fresh : TRUE
  IN
  /\ pc = "reconcile" /\ pc' = "idle"
  /\ fresh # {}
  /\ workers' = [k \in Key |-> IF k \in missing THEN f[k] ELSE IF k \in gone THEN None ELSE workers[k]]
  /\ worker' = [w \in Worker |->
       IF w \in Range(f)
       THEN LET k == CHOOSE k \in missing : f[k] = w
            IN [pc |-> "loop", key |-> k, tunnel |-> config.links[k[1]].tunnel, cancelled |-> FALSE]
       ELSE IF \E k \in gone : workers[k] = w THEN [worker[w] EXCEPT !.cancelled = TRUE]
       ELSE worker[w]]
  /\ stream' = [s \in Slot |->
       IF \E k \in gone : workers[k] = stream[s].w THEN [stream[s] EXCEPT !.cancelled = TRUE] ELSE stream[s]]
  /\ status' = [l \in Link |->
       IF status[l] = None /\ (\E k \in missing : k[1] = l) THEN [conns |-> 0, ready |-> FALSE] ELSE status[l]]
  /\ UNCHANGED <<desired, got, authorization, core, count>>

-----------------------------------------------------------------------------
(* linkLoop and runSession: one goroutine per connection of a Link.        *)

at(w, label) == worker[w].pc = label
goes(w, label) == worker' = [worker EXCEPT ![w].pc = label]
exits(w) == worker' = [worker EXCEPT ![w] = NoWorker]
linkOf(w) == worker[w].key[1]

\* updateStatus changes the Link's entry to e, if it has one.
updateStatus(l, e) == status' = [status EXCEPT ![l] = IF @ = None THEN None ELSE e]

\* The top of linkLoop, and the wait before the next attempt.
linkLoop(w) ==
  /\ worker[w].pc \in {"loop", "backoff"}
  /\ IF worker[w].cancelled THEN exits(w) ELSE goes(w, IF at(w, "loop") THEN "session" ELSE "loop")
  /\ UNCHANGED <<loop, authorization, workers, core, status, stream, count>>

\* Mutant: the context is not looked at again before the core is made.
dialReality_unchecked(w) ==
  /\ at(w, "session") /\ goes(w, "dial")
  /\ core' = [core EXCEPT ![linkOf(w)] = worker[w].tunnel]
  /\ UNCHANGED <<loop, authorization, workers, status, stream, count>>

\* dialReality looks at the context under the lock, then takes or makes the
\* Link's core; other tunnels are dialled directly.
dialReality(w) ==
  /\ at(w, "session")
  /\ IF worker[w].tunnel \notin Reality THEN goes(w, "dial") /\ UNCHANGED core
     ELSE IF worker[w].cancelled THEN goes(w, "ended") /\ UNCHANGED core
     ELSE goes(w, "dial") /\ core' = [core EXCEPT ![linkOf(w)] = worker[w].tunnel]
  /\ UNCHANGED <<loop, authorization, workers, status, stream, count>>

\* The Gateway accepts the registration.
ready(w) ==
  /\ at(w, "dial") /\ goes(w, "up")
  /\ updateStatus(linkOf(w), [conns |-> status[linkOf(w)].conns + 1, ready |-> TRUE])
  /\ UNCHANGED <<loop, authorization, workers, core, stream, count>>

dialFails(w) ==
  /\ at(w, "dial") /\ goes(w, "ended")
  /\ IF worker[w].cancelled THEN UNCHANGED count ELSE spend("faults", MaxFaults)
  /\ UNCHANGED <<loop, authorization, workers, core, status, stream>>

\* Mutant: the entry is cleared only by the loop that reconnects.
disconnected_later(e) == [e EXCEPT !.conns = IF @ > 0 THEN @ - 1 ELSE 0]

\* The deferred update when a session ends.
disconnected(e) ==
  LET n == IF e.conns > 0 THEN e.conns - 1 ELSE 0 IN [conns |-> n, ready |-> e.ready /\ n > 0]

\* The tunnel breaks, or is closed because its context was cancelled.
sessionEnds(w) ==
  /\ at(w, "up") /\ goes(w, "ended")
  /\ updateStatus(linkOf(w), disconnected(status[linkOf(w)]))
  /\ IF worker[w].cancelled THEN UNCHANGED count ELSE spend("faults", MaxFaults)
  /\ UNCHANGED <<loop, authorization, workers, core, stream>>

\* linkLoop looks at the context and, in a later step, reports the Link offline.
sessionEnded(w) ==
  /\ at(w, "ended")
  /\ IF worker[w].cancelled THEN exits(w) ELSE goes(w, "failed")
  /\ UNCHANGED <<loop, authorization, workers, core, status, stream, count>>

offline(w) ==
  /\ at(w, "failed") /\ goes(w, "backoff")
  /\ updateStatus(linkOf(w), [status[linkOf(w)] EXCEPT !.ready = FALSE])
  /\ UNCHANGED <<loop, authorization, workers, core, stream, count>>

runLink(w) ==
  \/ linkLoop(w) \/ dialReality(w) \/ ready(w) \/ dialFails(w)
  \/ sessionEnds(w) \/ sessionEnded(w) \/ offline(w)

-----------------------------------------------------------------------------
(* Streams.                                                                *)

becomes(s, r) == stream' = [stream EXCEPT ![s] = r]
onlyStream == UNCHANGED <<loop, authorization, workers, worker, core, status, count>>

\* A stream of the Gateway gets a free slot (without one it is closed).
acquireStreamSlot(s, w) ==
  /\ stream[s].pc = "none" /\ at(w, "up")
  /\ becomes(s, [NoStream EXCEPT !.pc = "request", !.w = w, !.link = linkOf(w), !.cancelled = worker[w].cancelled])
  /\ onlyStream

\* handleStream registers the stream under the lock when its grant is allowed.
handleStream(s, g) ==
  /\ stream[s].pc = "request"
  /\ becomes(s, IF grantAllowedLocked(config, leased, stream[s].link, g) /\ ~stream[s].cancelled
                THEN [stream[s] EXCEPT !.pc = "registered", !.grant = g]
                ELSE NoStream)
  /\ onlyStream

\* policy() for a TCP stream is read before the target is resolved and dialled.
policy(s) ==
  /\ stream[s].pc = "registered"
  /\ becomes(s, [stream[s] EXCEPT !.pc = "dial", !.policy = config.policy])
  /\ onlyStream

\* handleUDP keeps the policy it was started with.
handleUDP(s) ==
  /\ stream[s].pc = "registered"
  /\ becomes(s, [stream[s] EXCEPT !.pc = "relay", !.policy = config.policy])
  /\ onlyStream

\* handleTCP, connected to address t, checks everything again under the lock.
handleTCP(s, t) ==
  /\ stream[s].pc = "dial" /\ t \in stream[s].policy
  /\ becomes(s, IF /\ ~stream[s].cancelled /\ t \in config.policy
                   /\ grantAllowedLocked(config, leased, stream[s].link, stream[s].grant)
                THEN [stream[s] EXCEPT !.pc = "relay", !.target = t, !.policy = {}]
                ELSE NoStream)
  /\ onlyStream

\* A stream ends by itself, with its session, or because it was cancelled.
streamEnds(s) ==
  /\ stream[s].pc # "none" /\ becomes(s, NoStream)
  /\ onlyStream

runStream(s) ==
  \/ \E w \in Worker : acquireStreamSlot(s, w)
  \/ \E g \in Grant : handleStream(s, g)
  \/ policy(s) \/ handleUDP(s) \/ (\E t \in Target : handleTCP(s, t))
  \/ streamEnds(s)

-----------------------------------------------------------------------------
Init ==
  /\ desired \in First
  /\ config = [on |-> FALSE, policy |-> {}, links |-> NoLinks] /\ leased = TRUE /\ epoch = 0
  /\ pc = "idle" /\ got = None
  /\ workers = [k \in Key |-> None] /\ worker = [w \in Worker |-> NoWorker]
  /\ core = [l \in Link |-> None] /\ status = [l \in Link |-> None]
  /\ stream = [s \in Slot |-> NoStream]
  /\ count = [changes |-> 0, lapses |-> 0, faults |-> 0]

controlLoop == refresh \/ fetch \/ applyConfig \/ reconcile

Next ==
  \/ \E c \in Snapshot : change(c)
  \/ leaseLapses \/ watchAuthorization
  \/ controlLoop \/ fetchFails \/ rejected
  \/ \E w \in Worker : runLink(w)
  \/ \E s \in Slot : runStream(s)

Spec == Init /\ [][Next]_vars

\* What a goroutine does when nothing goes wrong.
proceeds(w) ==
  \/ linkLoop(w) \/ dialReality(w) \/ ready(w) \/ sessionEnded(w) \/ offline(w)
  \/ worker[w].cancelled /\ sessionEnds(w)

\* Tickers drive the control loop and the watch; a goroutine that can run does;
\* a cancelled stream is closed by its AfterFunc.
FairSpec ==
  /\ Spec
  /\ WF_vars(controlLoop) /\ WF_vars(watchAuthorization)
  /\ \A w \in Worker : WF_vars(proceeds(w))
  /\ \A s \in Slot : WF_vars(stream[s].cancelled /\ streamEnds(s))

-----------------------------------------------------------------------------
(* Properties.                                                             *)

\* A stream that relays and has not been cancelled is allowed by the
\* configuration in force now: its Link and grant, the address a TCP stream is
\* connected to, and the policy a UDP stream filters its datagrams with, although
\* handleStream, policy() and handleTCP look at it at three different times.
StreamsAuthorized ==
  \A s \in Slot : stream[s].pc = "relay" /\ ~stream[s].cancelled =>
    /\ grantAllowedLocked(config, TRUE, stream[s].link, stream[s].grant)
    /\ IF stream[s].target = None THEN stream[s].policy = config.policy ELSE stream[s].target \in config.policy

\* dialReality: "Do not let a cancelled worker recreate a retired core".  A core
\* runs only for a Link in force, with the settings in force.
CoresCurrent ==
  \A l \in Link : core[l] # None => config.on /\ l \in DOMAIN config.links /\ core[l] = config.links[l].tunnel

\* The Controller lets an upgrade batch go on when an Agent reports a Link
\* ready: a Link is never reported ready without an open session, also when old
\* and new goroutines of the Link, or an old and a new status entry, overlap.
ReadyHasSession ==
  \A l \in Link : status[l] # None /\ status[l].ready => \E w \in Worker : at(w, "up") /\ linkOf(w) = l

wanted(k, t) == k \in desiredKeys(desired) /\ desired.links[k[1]].tunnel = t

revoked(s, l, g) == stream[s].link = l /\ stream[s].grant = g /\ ~grantAllowedLocked(desired, TRUE, l, g)

\* What the Controller wants takes effect: every connection it asks for is brought
\* up with its current settings, and a stream whose grant it has taken away ends,
\* through failed dials, lost tunnels, refusals and lapses of the lease.
DesiredTakesEffect ==
  /\ \A k \in Key, t \in Tunnel :
       []<>(wanted(k, t) => \E w \in Worker : at(w, "up") /\ worker[w].key = k /\ worker[w].tunnel = t)
  /\ \A s \in Slot, l \in Link, g \in Grant : []<>~revoked(s, l, g)

=============================================================================
