---------------------------- MODULE NodeUpgrades ----------------------------
(***************************************************************************)
(* The Controller's side of node upgrades: updater pairing, upgrade        *)
(* batches, manual upgrades, task claims, progress reports and the         *)
(* recovery gate between two nodes of a batch                              *)
(* (internal/controller/node_upgrades.go, node_upgrade_recovery.go and the *)
(* handlers that create, enrol, delete or report for a node).              *)
(*                                                                         *)
(* Every handler changes the state inside one serialised Store.Update, so  *)
(* a handler is one action.  authenticateUpdater reads a snapshot before   *)
(* the handler's own transaction: a request that passed it is an element   *)
(* of `authed' until its handler runs, and the state may change meanwhile. *)
(*                                                                         *)
(* Clocks are abstracted to what the code compares: a heartbeat, a node    *)
(* status or a Link report is fresh until a lapse action, a pairing token, *)
(* a pending task and a recovery deadline are live until they expire.      *)
(***************************************************************************)
EXTENDS Integers, Sequences, FiniteSets

CONSTANTS
  Node,          \* Gateways and standalone Agents
  TaskID,        \* upgrade task identifiers (identity.Token, never reused)
  ManualID,      \* those of them that local installers draw
  BatchID,       \* upgrade batch identifiers
  Cred,          \* updater credentials (identity.Token, never reused)
  Mode,          \* installation kinds: a pair (mode, architecture)
  Version,       \* release versions
  Link,          \* tunnel Links
  LinkEnd,       \* [Link -> [End -> Node]]: the nodes that report a Link
  Progress,      \* the progress stages an updater reports
  MaxBatchSize,  \* nodes in one batch (100 in the code)
  MaxAuthed,     \* bound: authenticated requests whose handler has not run
  MaxChurn,      \* bound: administrative switches, lapses and expiries
  None           \* Go's zero value: "" or a missing map entry

End == {"gateway", "agent"}

ASSUME ProgressAssumption ==
  Progress \subseteq {"downloading", "prepared", "switching", "verifying",
                      "uncertain", "rolling_back"}
ASSUME ManualAssumption == ManualID \subseteq TaskID
ASSUME LinkEndAssumption == LinkEnd \in [Link -> [End -> Node]]
ASSUME SizeAssumption == MaxBatchSize \in Nat \ {0} /\ MaxAuthed \in Nat \ {0} /\ MaxChurn \in Nat
ASSUME NoneAssumption ==
  None \notin Node \cup TaskID \cup BatchID \cup Cred \cup Mode \cup Version

VARIABLES
  node,     \* [Node -> {"enabled", "disabled", "deleted"}]
  status,   \* version in the node's fresh NodeStatus, None if stale or absent
  route,    \* Link and Attachment switches of each Link
  report,   \* is the last report of each end of each Link fresh, online and ready
  updater,  \* State.Updaters; the zero record is a missing entry
  task,     \* State.UpgradeTasks; stage "none" is a missing entry
  batch,    \* State.UpgradeBatches; stage "none" is a missing entry
  issued,   \* credentials handed out so far
  authed,   \* requests past authenticateUpdater, handler not yet run
  churn     \* events counted against MaxChurn

vars == <<node, status, route, report, updater, task, batch, issued, authed, churn>>

Failures == {"rolled_back", "manual_intervention", "failed"}
Outcomes == {"succeeded"} \cup Failures
InFlight == {"running"} \cup Progress
Terminal == Outcomes \cup {"cancelled", "expired"}
Stages   == {"none", "preparing", "pending"} \cup InFlight \cup Terminal
BatchStages ==
  {"none", "preparing", "running", "recovering", "paused", "succeeded", "failed"}
RouteStates == {"on", "attachment_off", "off"}

activeUpgrade(stage) == stage \in {"preparing", "pending"} \cup InFlight

UpdaterRecord ==
  [cred: Cred \cup {None}, pending: Cred \cup {None},
   pairing: BOOLEAN, mode: Mode \cup {None}, seen: BOOLEAN]
NoUpdater ==
  [cred |-> None, pending |-> None, pairing |-> FALSE, mode |-> None, seen |-> FALSE]

\* heard: the Link ends whose last report is not before the task's UpdatedAt.
TaskRecord ==
  [stage: Stages, node: Node \cup {None}, batch: BatchID \cup {None},
   attempt: Nat, mode: Mode \cup {None}, from: Version \cup {None},
   target: Version \cup {None}, baseline: SUBSET Link,
   heard: SUBSET (Link \X End), expired: BOOLEAN]
NoTask ==
  [stage |-> "none", node |-> None, batch |-> None, attempt |-> 0,
   mode |-> None, from |-> None, target |-> None, baseline |-> {},
   heard |-> {}, expired |-> FALSE]

\* linkCause: Error starts with upgradeLinkRecoveryError, which is all that
\* upgradeResumeTaskID reads of it.  late: RecoveryDeadline has passed.
BatchRecord ==
  [stage: BatchStages, ids: Seq(TaskID), rec: TaskID \cup {None},
   late: BOOLEAN, linkCause: BOOLEAN]
NoBatch ==
  [stage |-> "none", ids |-> <<>>, rec |-> None, late |-> FALSE,
   linkCause |-> FALSE]

Request == [node: Node, cred: Cred, mode: Mode \cup {None}]

nodeExists(n) == node[n] # "deleted"

nodeHasActiveUpgrade_claimedOnly(n) ==
  \E t \in TaskID : task[t].node = n /\ task[t].stage \in InFlight

nodeHasActiveUpgrade(n) ==
  \E t \in TaskID : task[t].node = n /\ activeUpgrade(task[t].stage)

\* A pairing token that expired is like none at all, its pending credential
\* is never looked at again.
pairingInProgress(n) == updater[n].pairing

\* TaskIDs of a batch as a set.
Members(b) == {batch[b].ids[i] : i \in 1..Len(batch[b].ids)}

Uses(l, n) == \E e \in End : LinkEnd[l][e] = n

Disturb == churn < MaxChurn /\ churn' = churn + 1

Init ==
  /\ node = [n \in Node |-> "enabled"]
  /\ status = [n \in Node |-> None]
  /\ route = [l \in Link |-> "on"]
  /\ report = [l \in Link |-> [e \in End |-> FALSE]]
  /\ updater = [n \in Node |-> NoUpdater]
  /\ task = [t \in TaskID |-> NoTask]
  /\ batch = [b \in BatchID |-> NoBatch]
  /\ issued = {}
  /\ authed = {}
  /\ churn = 0

-----------------------------------------------------------------------------
(* Recovery gate                                                           *)

upgradeRecovered_anyReport(tk, rep) ==
  \A l \in tk.baseline : route[l] = "on" /\ \A e \in End : rep[l][e]

\* No problem: every Link that was healthy before the upgrade is configured
\* and both its ends reported good news, freshly, since the task completed.
upgradeRecovered(tk, rep) ==
  \A l \in tk.baseline :
    /\ route[l] = "on"
    /\ \A e \in End : rep[l][e] /\ <<l, e>> \in tk.heard

finishUpgradeRecovery(tasks, b) ==
  [b EXCEPT !.stage = IF \A i \in 1..Len(b.ids) : tasks[b.ids[i]].stage = "succeeded"
                        THEN "succeeded" ELSE "running",
            !.rec = None, !.late = FALSE, !.linkCause = FALSE]

recoveryOverdue_never(b) == FALSE

recoveryOverdue(b) == b.late

reconcileUpgradeRecovery(tasks, batches, rep) ==
  [id \in BatchID |->
     LET b == batches[id] IN
     IF b.stage # "recovering" THEN b
     ELSE IF b.rec = None THEN [b EXCEPT !.stage = "paused", !.linkCause = FALSE]
     ELSE IF tasks[b.rec].batch # id \/ tasks[b.rec].stage # "succeeded"
       THEN [b EXCEPT !.stage = "paused", !.linkCause = FALSE]
     ELSE IF upgradeRecovered(tasks[b.rec], rep) THEN finishUpgradeRecovery(tasks, b)
     ELSE IF recoveryOverdue(b) THEN [b EXCEPT !.stage = "paused", !.linkCause = TRUE]
     ELSE [b EXCEPT !.linkCause = FALSE]]

-----------------------------------------------------------------------------
(* Administrator                                                           *)

pairUpdater(n) ==
  /\ nodeExists(n)
  /\ ~nodeHasActiveUpgrade(n)
  /\ updater' = [updater EXCEPT ![n].pairing = TRUE, ![n].pending = None]
  /\ Disturb
  /\ UNCHANGED <<node, status, route, report, task, batch, issued, authed>>

\* toggleGateway and toggleAgent, as far as upgrades see them.
toggleNode(n) ==
  /\ nodeExists(n)
  /\ node' = [node EXCEPT ![n] = IF @ = "enabled" THEN "disabled" ELSE "enabled"]
  /\ Disturb
  /\ UNCHANGED <<status, route, report, updater, task, batch, issued, authed>>

\* deleteGateway and deleteAgent with removeNodeReferences.
deleteNode(n) ==
  /\ nodeExists(n)
  /\ ~nodeHasActiveUpgrade(n)
  /\ node' = [node EXCEPT ![n] = "deleted"]
  /\ status' = [status EXCEPT ![n] = None]
  /\ updater' = [updater EXCEPT ![n] = NoUpdater]
  /\ route' = [l \in Link |-> IF Uses(l, n) THEN "off" ELSE route[l]]
  /\ report' = [l \in Link |-> IF Uses(l, n) THEN [e \in End |-> FALSE] ELSE report[l]]
  /\ Disturb
  /\ UNCHANGED <<task, batch, issued, authed>>

\* toggleLink, toggleAttachment, deleteLink and deleteAttachment.
changeRoute(l, s) ==
  /\ \A e \in End : nodeExists(LinkEnd[l][e])
  /\ route[l] # s
  /\ route' = [route EXCEPT ![l] = s]
  /\ Disturb
  /\ UNCHANGED <<node, status, report, updater, task, batch, issued, authed>>

baselineLinks(n) ==
  {l \in Link : Uses(l, n) /\ route[l] # "off" /\ \A e \in End : report[l][e]}

\* Refused as a whole when any of the nodes is not ready for an upgrade.
canUpgrade(n, version) ==
  /\ updater[n].cred # None
  /\ updater[n].seen
  /\ ~pairingInProgress(n)
  /\ node[n] = "enabled"
  /\ ~nodeHasActiveUpgrade(n)
  /\ status[n] \notin {None, version}

newTask(b, n, version) ==
  [NoTask EXCEPT !.stage = "preparing", !.node = n, !.batch = b,
                 !.mode = updater[n].mode, !.from = status[n],
                 !.target = version, !.baseline = baselineLinks(n)]

Injective(f) == \A i, j \in DOMAIN f : f[i] = f[j] => i = j

\* tids lists the new tasks in batch order, to[t] is the node of task t.
createUpgrade(b, tids, to, version) ==
  /\ batch[b].stage = "none"
  /\ Injective(tids) /\ Injective(to)
  /\ \A t \in DOMAIN to : task[t].stage = "none" /\ canUpgrade(to[t], version)
  /\ task' = [t \in TaskID |-> IF t \in DOMAIN to THEN newTask(b, to[t], version)
                                                  ELSE task[t]]
  /\ batch' = [batch EXCEPT ![b] = [NoBatch EXCEPT !.stage = "preparing", !.ids = tids]]
  /\ UNCHANGED <<node, status, route, report, updater, issued, authed, churn>>

\* The background goroutine that caches the release; New starts it again for
\* every batch a restart left "preparing".  ok: every asset was fetched.
prepareUpgradeBatch(b, ok) ==
  /\ batch[b].stage = "preparing"
  /\ batch' = [batch EXCEPT ![b].stage = IF ok THEN "running" ELSE "failed",
                            ![b].linkCause = FALSE]
  /\ task' = [t \in TaskID |->
                IF t \in Members(b) /\ task[t].stage = "preparing"
                  THEN [task[t] EXCEPT !.stage = IF ok THEN "pending" ELSE "failed"]
                  ELSE task[t]]
  /\ UNCHANGED <<node, status, route, report, updater, issued, authed, churn>>

cancelUpgrade(t) ==
  /\ task[t].stage \in {"pending", "preparing"}
  /\ LET b == task[t].batch IN
     /\ batch' = [batch EXCEPT ![b].stage = "paused", ![b].linkCause = FALSE,
                               ![b].rec = None, ![b].late = FALSE]
     /\ task' = [x \in TaskID |->
                   IF x \in Members(b) /\ task[x].stage \in {"pending", "preparing"}
                     THEN [task[x] EXCEPT !.stage = "cancelled"]
                     ELSE task[x]]
  /\ UNCHANGED <<node, status, route, report, updater, issued, authed, churn>>

\* upgradeResumeTaskID returns a task: the batch was paused by the recovery
\* gate and consists of a completed prefix followed by unclaimed tasks.
resumable(b) ==
  /\ batch[b].stage = "paused" /\ batch[b].linkCause
  /\ \E k \in 1..Len(batch[b].ids) :
       /\ \A i \in 1..k : task[batch[b].ids[i]].stage = "succeeded"
       /\ \A i \in (k + 1)..Len(batch[b].ids) : task[batch[b].ids[i]].stage = "pending"

resumeUpgrade(b) ==
  /\ resumable(b)
  /\ \A t \in Members(b) : IF task[t].stage = "pending" THEN ~task[t].expired
                                                        ELSE upgradeRecovered(task[t], report)
  /\ batch' = [batch EXCEPT ![b] = finishUpgradeRecovery(task, @)]
  /\ UNCHANGED <<node, status, route, report, updater, task, issued, authed, churn>>

-----------------------------------------------------------------------------
(* Hosts: enrolment and pairing of the updater                             *)

\* A host redeems a live enrolment token; wantUpdater replaces the updater.
enroll(n, c, wantUpdater) ==
  /\ nodeExists(n)
  /\ ~nodeHasActiveUpgrade(n)
  /\ wantUpdater => c \notin issued
  /\ issued' = IF wantUpdater THEN issued \cup {c} ELSE issued
  /\ updater' = IF wantUpdater THEN [updater EXCEPT ![n] = [NoUpdater EXCEPT !.cred = c]]
                               ELSE updater
  /\ UNCHANGED <<node, status, route, report, task, batch, authed, churn>>

\* The old credential stays valid until the new one authenticates.
updaterPair(n, c) ==
  /\ nodeExists(n)
  /\ pairingInProgress(n)
  /\ c \notin issued
  /\ issued' = issued \cup {c}
  /\ updater' = [updater EXCEPT ![n].pending = c]
  /\ UNCHANGED <<node, status, route, report, task, batch, authed, churn>>

admit(n, c) ==
  /\ Cardinality(authed) < MaxAuthed
  /\ authed' = authed \cup {[node |-> n, cred |-> c, mode |-> updater[n].mode]}

authenticateUpdater(n, c) ==
  /\ nodeExists(n)
  /\ admit(n, c)
  /\ \/ updater[n].cred = c /\ UNCHANGED updater
     \/ /\ updater[n].cred # c
        /\ pairingInProgress(n)
        /\ updater[n].pending = c
        /\ updater' = [updater EXCEPT ![n].cred = c, ![n].pending = None,
                                      ![n].pairing = FALSE]
  /\ UNCHANGED <<node, status, route, report, task, batch, issued, churn>>

-----------------------------------------------------------------------------
(* Updater API: each handler consumes one authenticated request            *)

\* A refused or invalid request, or a transaction the Store could not write.
dropRequest(r) ==
  /\ r \in authed
  /\ authed' = authed \ {r}
  /\ UNCHANGED <<node, status, route, report, updater, task, batch, issued, churn>>

\* Writes the entry even if the node was deleted after authentication.
updaterHeartbeat(r, m) ==
  /\ r \in authed
  /\ authed' = authed \ {r}
  /\ updater' = [updater EXCEPT ![r.node].mode = m, ![r.node].seen = TRUE]
  /\ batch' = reconcileUpgradeRecovery(task, batch, report)
  /\ UNCHANGED <<node, status, route, report, task, issued, churn>>

offered(t, n) ==
  /\ task[t].node = n
  /\ task[t].batch # None
  /\ task[t].stage \in {"pending"} \cup InFlight

priorSucceeded_skipsLast(t) ==
  LET ids == batch[task[t].batch].ids IN
  \A j \in 1..Len(ids) : ids[j] = t =>
     \A i \in 1..(j - 2) : task[ids[i]].stage = "succeeded"

priorSucceeded(t) ==
  LET ids == batch[task[t].batch].ids IN
  \A j \in 1..Len(ids) : ids[j] = t =>
     \A i \in 1..(j - 1) : task[ids[i]].stage = "succeeded"

claimable(t, n, batches) ==
  /\ offered(t, n)
  /\ task[t].stage = "pending"
  /\ batches[task[t].batch].stage = "running"
  /\ priorSucceeded(t)

\* Answers the task its node works on, or claims the next one.  That the node
\* has a task at all is read in an earlier snapshot (else: dropRequest).
updaterTask(r) ==
  LET batches == reconcileUpgradeRecovery(task, batch, report) IN
  /\ r \in authed
  /\ authed' = authed \ {r}
  /\ updater[r.node].seen
  /\ \A t \in TaskID : offered(t, r.node) => task[t].mode = r.mode
  /\ \/ /\ \A t \in TaskID : ~claimable(t, r.node, batches)
        /\ batch' = batches
        /\ UNCHANGED task
     \/ \E t \in TaskID :
          /\ claimable(t, r.node, batches)
          /\ ~task[t].expired
          /\ task' = [task EXCEPT ![t].stage = "running", ![t].attempt = @ + 1]
          /\ batch' = batches
     \/ \E t \in TaskID :
          /\ claimable(t, r.node, batches)
          /\ task[t].expired
          /\ task' = [task EXCEPT ![t].stage = "expired"]
          /\ batch' = [batches EXCEPT ![task[t].batch].stage = "paused",
                                      ![task[t].batch].linkCause = FALSE]
  /\ UNCHANGED <<node, status, route, report, updater, issued, churn>>

afterReport_noPause(tasks, t, s) ==
  LET b == tasks[t].batch IN
  IF b # None /\ s = "succeeded" /\ batch[b].stage = "running"
    THEN reconcileUpgradeRecovery(tasks,
           [batch EXCEPT ![b].stage = "recovering", ![b].rec = t, ![b].late = FALSE],
           report)
    ELSE batch

\* What a report of stage s on task t does to the batches.
afterReport(tasks, t, s) ==
  LET b == tasks[t].batch IN
  IF b = None THEN batch
  ELSE IF s \in Failures
    THEN [batch EXCEPT ![b].stage = "paused", ![b].linkCause = FALSE,
                       ![b].rec = None, ![b].late = FALSE]
  ELSE IF s = "succeeded" /\ batch[b].stage = "running"
    THEN reconcileUpgradeRecovery(tasks,
           [batch EXCEPT ![b].stage = "recovering", ![b].rec = t, ![b].late = FALSE],
           report)
  ELSE batch

acceptsReport_afterOutcome(t, n, s, attempt) ==
  /\ task[t].node = n
  /\ task[t].attempt = attempt
  /\ task[t].stage \in InFlight \cup Outcomes
  /\ s # task[t].stage

acceptsReport(t, n, s, attempt) ==
  /\ task[t].node = n
  /\ task[t].attempt = attempt
  /\ task[t].stage \in InFlight
  /\ s # task[t].stage

updaterReport(r, t, s, attempt) ==
  /\ r \in authed
  /\ authed' = authed \ {r}
  /\ acceptsReport(t, r.node, s, attempt)
  /\ task' = [task EXCEPT ![t].stage = s, ![t].heard = {}]
  /\ batch' = afterReport(task', t, s)
  /\ UNCHANGED <<node, status, route, report, updater, issued, churn>>

\* A retry with the same ID finds the task and changes nothing (dropRequest).
startManualUpgrade(r, t, from, target, m) ==
  LET n == r.node IN
  /\ r \in authed
  /\ authed' = authed \ {r}
  /\ from # target
  /\ task[t].stage = "none"
  /\ updater[n].cred = r.cred
  /\ nodeExists(n)
  /\ ~pairingInProgress(n)
  /\ updater[n].mode \in {None, m}
  /\ ~nodeHasActiveUpgrade(n)
  /\ status[n] = from
  /\ task' = [task EXCEPT ![t] = [NoTask EXCEPT !.stage = "running", !.node = n,
                !.attempt = 1, !.mode = m, !.from = from, !.target = target]]
  /\ UNCHANGED <<node, status, route, report, updater, batch, issued, churn>>

-----------------------------------------------------------------------------
(* Node reports and the passing of time                                    *)

OwnEnds(n) == {le \in Link \X End : LinkEnd[le[1]][le[2]] = n}

\* The nodeStatus handler: news says of the Link ends in the report whether
\* they are online and ready.
nodeStatus(n, version, news) ==
  LET rep == [l \in Link |-> [e \in End |->
                IF <<l, e>> \in DOMAIN news THEN news[<<l, e>>] ELSE report[l][e]]]
      tasks == [t \in TaskID |->
                  IF task[t].stage = "succeeded"
                    THEN [task[t] EXCEPT !.heard = @ \cup
                            {le \in DOMAIN news : le[1] \in task[t].baseline}]
                    ELSE task[t]]
  IN
  /\ node[n] = "enabled"
  /\ DOMAIN news \subseteq OwnEnds(n)
  /\ status' = [status EXCEPT ![n] = version]
  /\ report' = rep
  /\ task' = tasks
  /\ batch' = reconcileUpgradeRecovery(tasks, batch, rep)
  /\ UNCHANGED <<node, route, updater, issued, authed, churn>>

heartbeatLapses(n) ==
  /\ updater[n].seen
  /\ updater' = [updater EXCEPT ![n].seen = FALSE]
  /\ Disturb
  /\ UNCHANGED <<node, status, route, report, task, batch, issued, authed>>

pairingExpires(n) ==
  /\ pairingInProgress(n)
  /\ updater' = [updater EXCEPT ![n].pairing = FALSE, ![n].pending = None]
  /\ Disturb
  /\ UNCHANGED <<node, status, route, report, task, batch, issued, authed>>

statusLapses(n) ==
  /\ status[n] # None
  /\ status' = [status EXCEPT ![n] = None]
  /\ Disturb
  /\ UNCHANGED <<node, route, report, updater, task, batch, issued, authed>>

reportLapses(l, e) ==
  /\ report[l][e]
  /\ report' = [report EXCEPT ![l][e] = FALSE]
  /\ Disturb
  /\ UNCHANGED <<node, status, route, updater, task, batch, issued, authed>>

taskExpires(t) ==
  /\ task[t].stage = "pending"
  /\ ~task[t].expired
  /\ task' = [task EXCEPT ![t].expired = TRUE]
  /\ Disturb
  /\ UNCHANGED <<node, status, route, report, updater, batch, issued, authed>>

deadlinePasses(b) ==
  /\ batch[b].stage = "recovering"
  /\ ~batch[b].late
  /\ batch' = [batch EXCEPT ![b].late = TRUE]
  /\ UNCHANGED <<node, status, route, report, updater, task, issued, authed, churn>>

-----------------------------------------------------------------------------

Admin ==
  \/ \E n \in Node : pairUpdater(n) \/ toggleNode(n) \/ deleteNode(n)
  \/ \E l \in Link, s \in RouteStates : changeRoute(l, s)
  \/ \E b \in BatchID, v \in Version, k \in 1..MaxBatchSize :
       \E tids \in [1..k -> TaskID \ ManualID] :
         \E to \in [{tids[i] : i \in 1..k} -> Node] : createUpgrade(b, tids, to, v)
  \/ \E t \in TaskID : cancelUpgrade(t)
  \/ \E b \in BatchID : resumeUpgrade(b)

Prepare == \E b \in BatchID, ok \in BOOLEAN : prepareUpgradeBatch(b, ok)

Host ==
  \E n \in Node, c \in Cred :
    \/ \E want \in BOOLEAN : enroll(n, c, want)
    \/ updaterPair(n, c)
    \/ authenticateUpdater(n, c)

UpdaterAPI ==
  \E r \in authed :
    \/ dropRequest(r)
    \/ \E m \in Mode : updaterHeartbeat(r, m)
    \/ updaterTask(r)
    \/ \E t \in TaskID, s \in Progress \cup Outcomes, a \in 0..1 :
         updaterReport(r, t, s, a)
    \/ \E t \in ManualID, from, target \in Version, m \in Mode :
         startManualUpgrade(r, t, from, target, m)

NodeReport ==
  \E n \in Node, v \in Version :
    \E S \in SUBSET OwnEnds(n) :
      \E news \in [S -> BOOLEAN] : nodeStatus(n, v, news)

Time ==
  \/ \E n \in Node : heartbeatLapses(n) \/ pairingExpires(n) \/ statusLapses(n)
  \/ \E l \in Link, e \in End : reportLapses(l, e)
  \/ \E t \in TaskID : taskExpires(t)
  \/ \E b \in BatchID : deadlinePasses(b)

Next == Admin \/ Prepare \/ Host \/ UpdaterAPI \/ NodeReport \/ Time

Spec == Init /\ [][Next]_vars

\* Nodes report every few seconds, clocks advance and the goroutine that
\* prepares a batch ends (its context has a 12 minute timeout).
FairSpec == Spec /\ WF_vars(NodeReport) /\ WF_vars(Prepare)
                 /\ \A b \in BatchID : WF_vars(deadlinePasses(b))

-----------------------------------------------------------------------------
(* Properties                                                              *)

TypeOK ==
  /\ node \in [Node -> {"enabled", "disabled", "deleted"}]
  /\ status \in [Node -> Version \cup {None}]
  /\ route \in [Link -> RouteStates]
  /\ report \in [Link -> [End -> BOOLEAN]]
  /\ updater \in [Node -> UpdaterRecord]
  /\ task \in [TaskID -> TaskRecord]
  /\ batch \in [BatchID -> BatchRecord]
  /\ issued \subseteq Cred
  /\ authed \subseteq Request
  /\ churn \in 0..MaxChurn

\* A node never has two active upgrade tasks, whatever mix of batches and
\* local manual upgrades is started (createUpgrade, startManualUpgrade).
OneActivePerNode ==
  \A t, u \in TaskID :
    /\ activeUpgrade(task[t].stage)
    /\ activeUpgrade(task[u].stage)
    /\ task[t].node = task[u].node
    => t = u

\* While a node is being upgraded no updater pairing is open for it, so no
\* second helper can take over in the middle (pairUpdater, createUpgrade).
NoPairingDuringUpgrade ==
  \A t \in TaskID :
    activeUpgrade(task[t].stage) => ~updater[task[t].node].pairing

\* The credential of an updater never changes while its node has an active
\* upgrade: the helper that holds the journal can still report the outcome
\* (authenticateUpdater's promotion, enroll, deleteGateway, deleteAgent).
CredentialStable ==
  [][\A n \in Node : nodeHasActiveUpgrade(n) => updater'[n].cred = updater[n].cred]_vars

\* A batch upgrades its nodes one after the other: a task is claimed only
\* after every earlier task of its batch succeeded (updaterTask).
RollingOrder ==
  \A b \in BatchID : \A i, j \in 1..Len(batch[b].ids) :
    i < j /\ task[batch[b].ids[j]].attempt > 0
      => task[batch[b].ids[i]].stage = "succeeded"

\* A batch in which a task failed, expired or was cancelled never again is in
\* a stage from which a node can be claimed (updaterReport, cancelUpgrade,
\* resumeUpgrade: "Failure, rollback, expiry and administrator cancellation
\* cannot be resumed").
HaltedBatchStays ==
  \A b \in BatchID : \A t \in Members(b) :
    task[t].stage \in Failures \cup {"cancelled", "expired"}
      => batch[b].stage \in {"paused", "failed"} /\ ~resumable(b)

\* A batch goes on only after both ends of every previously healthy Link of
\* each upgraded node have reported since that node's completion ("Keep the
\* next task unclaimed until fresh reports confirm recovery").
RecoveredBeforeNext ==
  \A b \in BatchID : \A t \in Members(b) :
    batch[b].stage \in {"running", "succeeded"} /\ task[t].stage = "succeeded"
      => task[t].baseline \X End \subseteq task[t].heard

\* An outcome is final: late, repeated or reordered reports and polls never
\* change it (updaterReport "task is already terminal").
OutcomeFinal ==
  [][\A t \in TaskID : task[t].stage \in Terminal => task'[t].stage = task[t].stage]_vars

\* The recovery gate always opens or times out, with no timer of its own:
\* node reports drive it (reconcileUpgradeRecovery), as long as a node is
\* enabled.
RecoveryDecided ==
  \A b \in BatchID :
    []<>(batch[b].stage = "recovering" => \A n \in Node : node[n] # "enabled")

-----------------------------------------------------------------------------
(* The inductive invariant behind the safety properties                    *)

Bad == Failures \cup {"cancelled", "expired"}

\* Every end of every baseline Link has reported since the task completed.
Confirmed(tk) == tk.baseline \X End \subseteq tk.heard

\* What a task's stage says about the rest of its record.
TaskShape(tk) ==
  \A t \in TaskID :
    /\ activeUpgrade(tk[t].stage) => tk[t].node \in Node
    /\ tk[t].stage \in {"none", "preparing", "pending"} => tk[t].attempt = 0
    /\ tk[t].stage \in InFlight \cup {"succeeded"} => tk[t].attempt > 0
    /\ tk[t].stage \in {"preparing", "pending"} => tk[t].batch # None
    /\ tk[t].stage = "none" => tk[t].batch = None

\* A batch lists exactly the tasks that name it, each once.
Placed(tk, bt) ==
  \A b \in BatchID :
    /\ Injective(bt[b].ids)
    /\ bt[b].stage = "none" => bt[b].ids = <<>>
    /\ \A t \in TaskID :
         tk[t].batch = b <=> \E i \in 1..Len(bt[b].ids) : bt[b].ids[i] = t

Rolling(tk, bt) ==
  \A b \in BatchID : \A i, j \in 1..Len(bt[b].ids) :
    i < j /\ tk[bt[b].ids[j]].attempt > 0 => tk[bt[b].ids[i]].stage = "succeeded"

\* How the stage of a batch follows from the stages of its tasks.
GateOf(tk, x, b) ==
  /\ x.stage = "recovering" =>
       /\ x.rec \in TaskID
       /\ tk[x.rec].batch = b
       /\ tk[x.rec].stage = "succeeded"
  /\ \A t \in TaskID : tk[t].batch = b =>
       /\ x.stage = "preparing" => tk[t].stage = "preparing"
       /\ x.stage = "recovering" => tk[t].stage \notin InFlight
       /\ x.stage = "succeeded" => tk[t].stage = "succeeded"
       /\ tk[t].stage \in Bad => x.stage \in {"paused", "failed"}
       /\ tk[t].stage = "succeeded" /\ x.stage \in {"running", "succeeded"}
            => Confirmed(tk[t])
       /\ tk[t].stage = "succeeded" /\ x.stage = "recovering" /\ t # x.rec
            => Confirmed(tk[t])

Gate(tk, bt) == \A b \in BatchID : GateOf(tk, bt[b], b)

\* The inductive invariant of the Controller's upgrade handlers: it implies
\* every state property above (node_upgrades.go, node_upgrade_recovery.go).
IInv ==
  /\ TypeOK
  /\ OneActivePerNode
  /\ NoPairingDuringUpgrade
  /\ TaskShape(task)
  /\ Placed(task, batch)
  /\ Rolling(task, batch)
  /\ Gate(task, batch)
=============================================================================
