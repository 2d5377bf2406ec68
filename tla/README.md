# xmesh verification

TLA+ models of xmesh, model-checked with TLC on small instances.  The safety of
the upgrade service, of its helper on a host, of both halves of a Gateway process,
of an Agent process and of usage accounting is also proved with TLAPS, for every
size.  All paths below are relative to the repository root (`src/`); the correspondence of every
definition to lines of code is in `PROJECT.json` (`map`).

## The system

xmesh is a Go program with three roles and a helper.

| Part | State | Operations that change it |
|---|---|---|
| **Controller** (`internal/controller`, `internal/store`) | one JSON state: Gateways, Agents, routes (attachments), Links, users, Grants, upstreams, node status, usage, upgrade tasks and batches, helper records; audit logs in files of their own | some thirty administrator requests; enrolment; configuration fetch and status report of nodes; pairing, heartbeat, poll and report of helpers; audit batches. Each is one serialized `Store.Update` |
| **Gateway** (`internal/gateway`) | accepted configuration, authorization lease and epoch, the Xray child, tunnel sessions, connections | control loop (fetch, accept, report), Xray loop, lease watch, tunnel server, SOCKS |
| **Agent** (`internal/agent`) | accepted configuration, lease, one goroutine per connection of a Link, REALITY cores, streams, status entries, audit queue | refresh, apply, invalidate, worker loops, stream handling, audit reports |
| **Helper** (`internal/updater`, `cmd/xmesh-updater`) | a journal per task, the node's files and service | poll, download, switch, verify, roll back, recover; local installer |

They interact by HTTP only.  A node polls its *desired configuration*, which has
a revision; it applies it and reports the revision it applied; the Controller
publishes a Grant in subscriptions when the Gateway's report acknowledges the
desired revision.  A helper polls tasks, works on the host, and reports; the
node's own status reports let the Controller and the helper judge the result.

What makes it hard: requests are authenticated on a snapshot and executed
later; reports arrive late or twice and carry no order; nodes restart and change
their build; helpers crash between any two writes; a Gateway has several
goroutines around one lock and one child process, an Agent has more; revisions
must identify content although many handlers maintain them by hand; what was
deleted must stay known until its last traffic has been reported.

## Modules

| Module | Models | Relation |
|---|---|---|
| `NodeUpgrades` | upgrade tasks, batches, pairing, enrolment, recovery of Links (`node_upgrades.go`, `node_upgrade_recovery.go`, parts of `api_handlers.go`, `node_management.go`) | implements `TaskLedger` |
| `TaskLedger` | what the Controller promises helpers about tasks | abstract |
| `NodeUpgradesLedger` | the refinement mapping from `NodeUpgrades` to `TaskLedger` | |
| `NodeUpdater` | helper daemon and installer on one host (`internal/updater`) | composed with `TaskLedger` as its Controller |
| `DesiredState` | desired configuration, revisions, reports, publication (`admin_handlers.go`, `route_management.go`, `connections.go`, `automation.go`, `embedded_agent.go`, `gateway_address.go`, `ingress.go`, `hy2.go`, `upstreams.go`, `api_handlers.go`, `subscription.go`) | |
| `GatewayXray` | how a Gateway process accepts, applies and acknowledges a configuration (`gateway.go`, `xray.go`, `xray_hot.go`) | justifies the atomic `poll` of `DesiredState` |
| `GatewayTunnels` | tunnel sessions, the scheduler pool, user connections and their streams (`gateway.go`, `socks.go`, `scheduler.go`) | the other half of the same `refresh` |
| `AgentRuntime` | control loop, lease, connections, REALITY cores, streams (`agent.go`, `config_apply.go`, `policy.go`, `reality.go`) | the far end of those tunnels |
| `UsageReports` | counters of a Gateway, their reports, usage and retired Grants and Links (`usage.go`, `retired_usage.go`, `api_handlers.go`, `gateway.go`, `xray.go`) | Gateway and Controller composed |
| `AuditTrail` | audit events from the Agent's queue to the user's log (`agent/audit.go`, `controller/audit.go`, `audit/store.go`) | Agent and Controller composed |
| `NodeUpgradesProofs` | proofs about `NodeUpgrades`, also that it implements `TaskLedger` | |
| `NodeUpdaterProofs` | proofs about `NodeUpdater`: helper and Controller, then the host | |
| `GatewayXrayProofs`, `GatewayTunnelsProofs`, `AgentRuntimeProofs`, `UsageReportsProofs` | proofs about `GatewayXray`, `GatewayTunnels`, `AgentRuntime`, `UsageReports` | |
| `MC...` | instances for TLC | |

Names follow the code: an action has the name of its handler or function, a
record field that of the struct field.  Definitions whose comment starts with
*Mutant* are deliberately wrong variants; they are not part of the models and
show which mistake in the code each property would detect.  Variables described
as *history* record what happened for the sake of a property and guard nothing.

### NodeUpgrades

State: nodes (enabled, disabled, deleted), their last version report, Link
reports, helper records (credential, mode, pairing), tasks, batches, and
`authed`, the requests that passed `authenticateUpdater` on a snapshot and whose
transaction has not run.  `reconcileUpgradeRecovery` is part of every handler
that calls it.  Time is a set of actions that make one thing late or old
(heartbeat, pairing, status, Link report, task, recovery deadline).

### NodeUpdater

At most one process holds the lock; `pc` is the point after its last durable or
visible step, and a crash may happen at each.  Files are per component, so a
crash in the middle of a switch leaves a mixture.  Writes of the journal,
commands and requests may fail; requests nobody waits for may arrive later.  The
output of a failed command becomes the error text of the outcome and may be longer
than `updaterReport` takes (`long`).  A task nobody claimed may be withdrawn in each
of the ways of the Controller: cancelled, failed in preparation, expired.

### DesiredState

The Controller's state is a record with one function per kind of object;
`gatewayConfig` and `agentConfig` compute what `nodeConfig` returns.  A node has
the configuration it applied and a build (what it can report and serve).
Reports that were sent and not yet processed are in `late`, in any order.
Abstractions: one route per `enableConnections` and `openSubscription` request;
ports and paths are part of the address; IPv6 ingress, the probe-failure grace
period and custom Link URLs are left out; all Links use REALITY; editing,
selecting and refreshing an upstream is a changed endpoint; `gatewayConfig`
keeps what the Gateway's users and routes depend on.  The guards of deletions
against running upgrades are dropped, which only adds behaviour.  A map entry that
is missing reads as the zero record and a bump creates it; so the empty Agent ID
may have a record, and `createAttachment` then accepts it.  Since a
transaction of the store is atomic, a restart of the Controller changes nothing.

### GatewayXray

Two threads with explicit steps (control loop, Xray loop), the lease watch, the
child and the Controller as environment.  Every place where the lock is released
is a step boundary; the report reads its flags one at a time because it does not
hold the lock; `settle` and `settled` are one critical section whose two stores
a report can see between.  A configuration has a switch and a set of users; the
payload is the set of users.  `authorizationEpoch` and `configGeneration` are
kept as "still the same since my copy".  Connections and tunnel sessions, which
`refresh` and `invalidateAuthorizationLocked` also close, are in
`GatewayTunnels`, traffic counters in `UsageReports`; error texts are left out,
so a report may be accepted in the model in a moment in which an old error text
would prevent it.

### GatewayTunnels

A session object has the state of its `acceptTunnel` goroutine: authorized a
first time, added to the pool after the second check, closing the session it
replaced, running, ended.  `pool` maps the ID of a connection to the object that
holds it, so an object can outlive its entry.  A client has the state of its
`handleSOCKS` goroutine: Grant looked up, allowed Links computed, session leased,
waiting for the stream, relaying.  All reads that the code makes under separate
locks are separate steps.  A datagram association is a client like any other;
bytes and round-trip times are left out, a stalled write is a set of sessions.

### AgentRuntime

A `linkLoop` goroutine dials (through the Link's REALITY core if it has one),
is up, or waits; `workers` maps a key to the goroutine registered for it, and a
cancelled goroutine goes on until it notices.  `status` distinguishes an entry
that was deleted and created again.  A stream is registered, takes the policy,
dials and relays in separate steps.  A policy is the set of addresses it permits;
`sameTunnel` compares one value.

### UsageReports

One route.  The control loop and the Xray loop each have at most one report
under way, and a report that was given up may be handled later.  A report is
refused as a whole, as the transaction of `nodeStatus` is.  Usage is one number
per Grant and Link: upload and download are compared separately in the code and
move together here; the history windows, which only age the sums, are left out,
and so are routes of external upstreams, whose counters are read from Xray.  The
traffic of a deleted Grant stops when the deletion is applied; in the code a relay
that is being cancelled may still count the chunk it is copying.  A Grant or Link is never added, so a change of Xray's payload is always a reload.

### AuditTrail

`queue` and `drops` are the Agent's event queue and loss counters; `auditing` is
the set of audited Grants of the last configuration, kept when the authorization
lapses, `allowed` whether events may be taken now.  The bounds of the code, which
it uses twice each, are two constants each: a queue of `QueueSize` events and
counters for `MaxKeys` users and generations (`audit.QueueSize`), `MaxBatch` events
and `MaxDropped` counters in a batch (`audit.MaxBatch`).  An Agent has just started
or is at work with a queued event and a counted loss.  A line of a log is its
generation; sizes are numbers of lines, and a compressed archive takes half.  `Append_` gives all outcomes of `Append`: success, a refused
write, a failure after any line.  A rotation that fails halfway, and may leave a
segment both archived and current, is not among them; reading and exporting a
log change nothing and are left out.

## Runs

Bounds are constants named `Max...` in the modules and set in the `.cfg` files.

| Run | Instance | Shows |
|---|---|---|
| `upgrade_batch` | a batch of a Gateway and an Agent joined by a Link, two credentials, one disturbance of the Link | the inductive invariant, rolling order, halting, the recovery gate, final outcomes; a recovery is decided in the end |
| `upgrade_pairing` | one node, a batch and a manual task, two authenticated requests in flight, two re-enrolments or pairings | exclusive upgrades, no pairing during one, stable credential; `NodeUpgrades` implements `TaskLedger` |
| `updater_safety` | systemd Gateway or Docker node, one batch and one manual task, two faults, one late request | torn installations are accounted for, Controller and host agree, outcomes are true |
| `updater_live` | systemd Agent or Docker node, two faults | claimed tasks settle, the service returns |
| `updater_failure_reported` | systemd Agent, one batch task and one manual task, a failed preparation | *violated*: a failure whose error text is too long never reaches the Controller |
| `desired_changes` | one or two objects of every kind, every stored start of `MCDesiredState`, two requests, one restart | references and embedded switches are consistent, revisions identify content, publication implies acknowledgement |
| `desired_publication` | one request, one late report, one restart with another build | publication implies acknowledgement although a report is late; a servable Grant is published in the end |
| `xray_control` | one user, two revisions, one failure, lapse of the lease or removal of the Gateway | acknowledged means served; what was revoked stays off; a desired revision is acknowledged, removed users leave Xray |
| `gateway_sessions` | one Link, two session objects, one client, one change, one failure | sessions and relays are authorized, leases balance; sessions come to serve and revocation ends relays |
| `agent_tunnels` | one Link, two goroutines, one stream, five snapshots, one change, lapse and failure | streams are authorized, cores and status are current; what is desired takes effect |
| `audit_reports` | two users, one connection, one change, one failure, a queue and batches of two, one loss counter per batch | a cleared log stays clear, lost events are counted, the quota is kept |
| `usage_accounting` | one Grant, one Link, two Gateway processes, one deletion, two faults | traffic is counted, that of a deleted Grant too; reports are accepted again and again |

Why the bounds are enough to be interesting: in each module the hazards need at
most two actors and one or two disturbances.  Two tasks show order, a third
identifier adds a manual upgrade; two credentials show a replaced one.  Two
requests reach change and deletion from stores that already hold every kind of
object, so a third object is never needed for a reference to dangle.  Two revisions
show a change during each step of the Xray loop; one user suffices for addition, removal, partial addition (nothing added)
and restart.  Two session objects or goroutines show a predecessor that is still
there when its successor takes over its ID.  Two processes and two faults show a
lost answer before or after a restart.  Two users show that clearing one log
leaves the other alone and that they compete for the queue and for the loss
counters of a batch.  Several runs have a single Link, Grant or client; for most of
their safety properties the proofs below cover any number.

`upgrade_batch` has two action constraints, in `MCNodeUpgrades`: `InOrder` takes
identifiers in their order, which removes behaviours that differ from others in
names only (`SYMMETRY` would not be sound for its liveness property), and
`LinkDisturbed` leaves the disturbances of nodes and helpers to
`upgrade_pairing`.  Neither removes a step that fairness is about.  `xray_control`
has one, `OneDisturbance`: at most one failure, lapse or removal in a behaviour.

Larger instances were checked once and held, and are not kept as runs because
they take longer: the safety properties of `upgrade_batch` with one disturbance of
any kind; `xray_control`, liveness included, with three revisions, so that one
returns to the content of an earlier one; the safety properties of `gateway_sessions` with two Links and
two clients; `gateway_sessions` and `agent_tunnels`, liveness included, with two
changes of the configuration;
`usage_accounting` with two Links of which one is REALITY, with two Grants, and,
for safety, with two deletions.

Deadlock is checked for `GatewayTunnels`, `AgentRuntime`, `AuditTrail` and
`UsageReports`.  It is off for the other four, where tasks, requests or
revisions are bounded and the model rests when they are used up.

### Fairness

Most liveness properties have the form `[]<>P`: the bad state never lasts for
good.  Where it says `x => y` inside, this is the same as `x` leading to `y` or
to the end of `x`.

* `NodeUpgrades`: nodes go on reporting (a ticker), the preparation goroutine
  runs, a deadline passes.  Nothing is assumed of helpers or administrators.
* `NodeUpdater`: the process takes its next step, the daemon is started again
  whenever it is down (systemd `Restart`, hence strong fairness), the running
  node reports.
* `DesiredState`: nodes poll and Gateways report (tickers).
* `GatewayXray`: goroutines run, both tickers of `controlLoop` are served
  (`select` chooses at random, hence strong fairness), a killed child exits.
  A refresh, at most one per poll interval, does not fall into the window
  between a snapshot of the Xray loop and its lock *every* time.
* `GatewayTunnels`: the control loop ticks, tunnel goroutines, probes and client
  goroutines that can run do.  Nothing is assumed of Agents, of users, or of
  `watchAuthorization`.
* `AgentRuntime`: the control loop and the watch tick, `linkLoop` goroutines run,
  a cancelled stream is closed.
* `UsageReports`: reports are due again and again, a due refresh gets its turn
  between them (the same `select`, hence strong fairness), the Xray loop runs, a
  request is handled, and the seven days of a stored report pass.
* `AuditTrail` has safety properties only.

## What the properties leave room for

Each of these was met while modelling.  The properties are stated so that the
code satisfies them, and say where they except one of these cases.

* Changing Grants does not advance the Agent's revision, so an Agent counts as
  up to date with an older list (`dashboard.go:203`).  `RevisionIdentifiesConfig`
  is about Gateways.
* A new REALITY target of a Gateway with an external route creates an Agent
  record with an empty ID (`route_management.go:63`).  From then on
  `createAttachment` accepts the empty Agent ID and makes a route that has neither
  an Agent nor an upstream (`admin_handlers.go:478`); the record is never enabled,
  so the route is never available.  `Consistent` asks for the record only.
* After one failed journal write a claimed task stays without outcome until the
  helper is restarted (`updater.go:552`; `Abandoned`), and a reservation for the
  installed version makes every start of the helper fail (`updater.go:485`;
  `Refused`).  `ClaimedSettles` excepts both; that a job is left alone by a helper
  which goes on running, not merely at one moment.
* `updaterReport` answers 400 to an error text of more than 1024 bytes
  (`node_upgrades.go:617`), and the helper sends the whole output of a failed command
  and repeats it: the task stays in flight and its batch waits.
  `updater_failure_reported` shows it against `docs/automation.md`; `ClaimedSettles`
  excepts it (`Unreportable`).
* `restore` ignores an error of "stop" under systemd, and the check after it may be
  met by a status from before the switch: after a rollback the files are the saved
  ones, but the process may still be the one that ran before the rollback.
  `OutcomeTrue` says so.
* If the lease lapses between a hot addition and its commit, the child keeps a
  payload that no report acknowledges until the next change.  `DesiredAcknowledged`
  is about runs without a lapse.
* A refresh during a hot addition may acknowledge a revision that returns to the
  previous users while the added ones are in the running Xray (`gateway.go:238`).
  `AcknowledgedServed` asks that Xray was given the users of the revision, not
  that it has no other.
* A report that overtakes a later one lowers the baseline (`usage.go:88`), and
  the next one counts the difference again.  `UsageCounted` then asks only that
  nothing is lost.
* If the report before a reload fails and the answer to the report that let the
  Controller forget a deleted Grant is lost, every later report is refused until
  the stored counters expire after seven days.  Without that expiry
  `ReportsAccepted` fails.
* Deleting a Link without REALITY loses its traffic since the last report: the
  refresh applies the deletion in place.  Traffic between the report before an
  Xray reload and the stop of Xray is lost if the deletion of the Grant is taken
  up before Xray runs again.  Hence the condition `unreported` in
  `DeletedGrantCounted`.
* `SetReady` names a session by ID (`scheduler.go:105`), so a late failure of a
  replaced session marks its successor not ready until the next probe.
* An Agent reports a Link as not ready when one of its connections ends although
  another is up (`agent.go:313`); `ReadyHasSession` is the other direction.
* Audit events that are queued when the authorization lapses are discarded without a
  count, and so is everything of a user who is disabled; a loss that finds the table
  of loss counters full (`audit.QueueSize` users and generations) is not counted.
  `LossAccounted` excepts these: `lapsed` for waiting events, `excused` for a
  generation with a disabled user or a full table.

## Proofs

`NodeUpgradesProofs` proves, for any sets of nodes, tasks, batches,
credentials, versions and Links and any bounds (assumptions: the named `ASSUME`s
of `NodeUpgrades`):

* `Invariant`: `Spec => []IInv`;
* `TypeCorrect`, `OneActive`, `NoPairing`, `Rolls`, `Halted`, `Recovered`:
  the invariants that `upgrade_batch` and `upgrade_pairing` check;
* `Final`, `Credential`: the two action properties.

None of the invariants is inductive alone.  `IInv` adds: the shape of task and
batch records (`TaskShape`); that a task's place in its batch and the batch's
list agree (`Placed`); that in a batch everything before an open task has
succeeded and everything after it waits (`Rolling`); and the state of the
recovery gate (`Gate`): while a batch is recovering, its last succeeded task is
the one waited for, and when it runs, the Links of all succeeded tasks have been
confirmed by both ends.  `RecoveredBeforeNext` follows from the last part, and
`OneActivePerNode` is preserved because the active check and the insertion of
tasks are one transaction.

Each action has a lemma `Step...`; `reconcileUpgradeRecovery` is treated as an
operator first (`ReconcileFacts`, `ReconcileInv`).

The last section of `NodeUpgradesProofs` proves the refinement, `Implements`:
`Spec => ImplementsLedger`.  Under the mapping of `NodeUpgradesLedger` (a helper sees a
task that is prepared or pending as waiting) each handler makes one step of the
ledger, or none.  Creating a batch announces its tasks at once, one per node
and only on nodes without an active task; preparing, cancelling and expiry
withdraw what nobody claimed; a report is accepted only for a task in flight.
The types of `IInv` are all the step lemma needs of the reachable states: the
handlers' own checks do the rest.  `NodeUpdater` is composed with this ledger: its
Controller announces, withdraws (with each of the three outcomes) and accepts as the
ledger allows, for one node, and adds what the ledger leaves open, that a report
with too long an error is refused.

`NodeUpdaterProofs` proves, for any tasks, kinds of installation, versions and
bounds on faults and requests (assumptions: the named `ASSUME`s of
`NodeUpdater`; `Progress` is the set of stages the helper reports):

* `AgreementTheorem`: `Spec => []Agreement`;
* `WorkKnownTheorem`: `Spec => []WorkKnown`.

`Agreement` has one exception, a batch task whose preparation failed in the
Controller: it has an outcome and no journal, and no helper ever starts it.  The
inductive invariant is `World /\ Place`.  `World` relates ledger, journals
and requests on their way wherever the process is: an outcome in the ledger or
in a request is the one in the journal (so a late report cannot tell the
Controller anything else), at most one task is open, and a job that may change
the host is in flight.  `Place` says what the process relies on at each of its
steps: before the outcome is saved the journal has none, at a step that may
change the host its task is in flight, and at `reportTerminal` the journal holds
what is reported.  Three lemmas carry the steps: `WorldWritten` (a write of a
journal, with or without its effect), `ReportTaken` (a report, prompt or late)
and `ManualTaken` (a registration).  The invariant was checked on the instance of
`updater_safety` as well.

Its second half adds the host, for all three kinds of installation
and from the same assumptions:

* `TornTheorem`: `Spec => []TornAccounted`;
* `OutcomeTheorem`: `Spec => OutcomeTrue`, an action property: only a job whose
  journal says so changes files, and what is recorded as the outcome is what the
  host has: for a success the target everywhere, for a failure before the switch
  every saved file unchanged, for a rollback every saved file back and the node
  running the restored version (with the exception above).

`TornAccounted` says nothing of what the process is about to do, so it is not
inductive.  The invariant is `HInv == Machine /\ Spot`, with `IInv` as a hypothesis
of every step.  `Machine`: unless a human was
asked to help, files of different versions or a stopped node come with a journal in
phase switching, verifying or rolling_back, and the backup of a job that is prepared
or later is of one version; what a verifying journal names is installed and runs.
`Spot`: the phase in the journal at each step; while files are copied, those before
the current command have their new content (`copied`); an outcome that is about to
be saved is true (`Justified`).  `Kinds` spells out the commands of each
installation; `Copies`, `SwitchCommand` and `RestoreCommand` treat one command that
succeeds, `Fails` one that does not, `HostCrash` a crash at any step.

`GatewayXrayProofs` proves, for any users, revisions and numbers of failures and
lapses (assumption: `ConstantsAssumption`; `None` is no configuration and no set of
users):

* `AcknowledgedTheorem`: `Spec => []AcknowledgedServed`;
* `RevokedTheorem`: `Spec => []RevokedStaysOff`.

The invariant has five parts.  `Types`.  `StaysOff`: a Gateway that was told of its
removal has no answer in hand that a matching epoch could switch on, and the context
of a child it no longer wants is cancelled.  `Revisions`: no copy of a configuration
is newer than what it was copied from, and a copy with the desired revision has the
desired users.  `Child`: which users the child has at each step of the Xray loop, and
that a start began with the newest configuration accepted then.  `Served`: a revision
stored as applied *or read for a report that is not yet sent* is sound, because the
report reads its flags one by one.  Without the latter the step of `send` fails:
between its reads the Xray loop may restart the child.

`GatewayTunnelsProofs` proves, for any finite set of clients and any Links,
connections, Grants, session objects and configurations (assumptions:
`ConfigAssumption`, that configurations have the fields of `GatewayConfig`, and
`SetAssumption`):

* `SessionsTheorem`: `Spec => []SessionsCurrent`;
* `RelayTheorem`: `Spec => []RelayAuthorized`;
* `LeasesTheorem`: `Spec => []LeasesBalanced`.

`IInv` adds that an entry of the pool is an object with this ID whose goroutine has
added it and not ended (`Sessions`), and that a registered client which was not
cancelled has its Grant in force and may choose only Links of its route, so that the
lease it takes later is one of them (`Clients`).  `LeasesBalanced` needs that an
object keeps its ID until its last lease ends; its steps are about cardinalities, by
the facts of `FiniteSetTheorems`.

`AgentRuntimeProofs` proves, for any finite set of goroutines and any Links, Grants,
streams and configurations (assumptions: `ConfigAssumption`, `SetAssumption`):

* `StreamsTheorem`: `Spec => []StreamsAuthorized`;
* `CoresTheorem`: `Spec => []CoresCurrent`;
* `ReadyTheorem`: `Spec => []ReadyHasSession`.

`IInv` adds that a goroutine which runs and was not cancelled is the one registered
for its key, with the settings in force (`Workers`), that a Link's entry counts no
more connections than are up and at least one when it is ready (`Statuses`), and
that a stream which was not cancelled is allowed from its registration on and filters
with the policy in force until it is connected (`Streams`).  The entry may be deleted
and created again while old goroutines still end, which is why the count is only a
bound.

`UsageReportsProofs` proves, for any Grants and Links, any number of processes of the
Gateway and of faults (assumptions: `KindAssumption`, `BoundAssumption`,
`NoneAssumption`):

* `DeletedGrantTheorem`: `Spec => []DeletedGrantCounted`;
* `UsageTheorem`: `Spec => []UsageCounted`.

`IInv` adds the order in which configurations come to the Gateway (`Order`), what the
Controller knows of deletions (`Deleted`), that a pair whose Grant has left the
configuration stays in the reports until its last value was accepted (`Reportable`,
`Covers`, `Waits`), and what an acknowledged revision implies (`Acknowledges`).
`UsageCounted` is about a sum over the processes; `total` is a recursive function over
their number, and `TotalUpdate` says how it changes with one summand, by an induction
that `WellFoundedInduction` gives for sets (`SetInduction`).

Each inductive invariant was also checked by TLC on the instance of the run that
checks the properties.  That of `NodeUpgrades` is checked by its run.

Only model-checked:

* liveness under fairness, which is out of reach of TLAPS;
* `AuditTrail`: `Append_` and the queue are folds and filters of sequences, and what
  they compute for any input needs induction over data;
* the properties of `DesiredState`.

## Not modelled

* The store's file (`store.go`): a transaction is atomic and durable in all
  modules, as `Update` makes it by replacing the file; a crash between the
  temporary file and its renaming is left to the file system.
* Refreshing subscriptions and probing upstreams: their outcome is an arbitrary
  change of the stored upstreams in `DesiredState`, their parsing and network
  part is not modelled.
* Login and request limits, the dashboard and its caches, statistics windows:
  they count or show, and no modelled state depends on them.
* Datagram framing and the bounded queue of a UDP association in `socks.go`.
* Rendering of Xray and Clash configurations, input validation, cryptography and
  certificates, release downloads and signatures, pages and scripts of the
  panel, installation scripts, byte copying on the data path: data, not control.
