------------------------- MODULE NodeUpgradesProofs -------------------------
(***************************************************************************)
(* Theorems about the Controller side of upgrades, for any number of nodes, *)
(* tasks, batches, credentials and Links: every handler preserves the      *)
(* inductive invariant IInv of NodeUpgrades, which implies the properties the *)
(* runs check; and the Controller implements TaskLedger: each handler makes *)
(* one step of the ledger or none.                                         *)
(***************************************************************************)
EXTENDS NodeUpgrades, NodeUpgradesLedger, SequenceTheorems, TLAPS

\* The provers for a step, in turn: most need no more than Zenon.
USE ZenonT(4), SMTT(30), ZenonT(30)
-----------------------------------------------------------------------------
\* The recovery gate and the handlers that move no task.

\* The stage sets are disjoint: reconcileUpgradeRecovery and the handlers
\* compare stages as strings.
LEMMA StageFacts ==
  /\ InFlight \cap Terminal = {}
  /\ InFlight \cap {"none", "preparing", "pending"} = {}
  /\ Terminal \cap {"none", "preparing", "pending"} = {}
  /\ Progress \cup Outcomes \subseteq Stages
  /\ Bad \cup {"succeeded"} = Terminal
  /\ "succeeded" \notin Bad
BY ProgressAssumption DEF InFlight, Terminal, Outcomes, Failures, Stages, Bad

\* finishUpgradeRecovery keeps the list of tasks, and declares the batch
\* succeeded only if all its tasks are.
LEMMA FinishFacts ==
  ASSUME NEW tk \in [TaskID -> TaskRecord], NEW b \in BatchRecord
  PROVE  LET y == finishUpgradeRecovery(tk, b) IN
         /\ y \in BatchRecord
         /\ y.ids = b.ids
         /\ y.stage \in {"running", "succeeded"}
         /\ y.stage = "succeeded" =>
              \A i \in 1..Len(b.ids) : tk[b.ids[i]].stage = "succeeded"
BY DEF finishUpgradeRecovery, BatchRecord, BatchStages

\* What one run of the recovery gate may do to a batch
\* (reconcileUpgradeRecovery).
LEMMA ReconcileFacts ==
  ASSUME NEW tk \in [TaskID -> TaskRecord], NEW bt \in [BatchID -> BatchRecord],
         NEW rep, NEW b \in BatchID
  PROVE  LET x == bt[b]
             y == reconcileUpgradeRecovery(tk, bt, rep)[b] IN
         /\ y \in BatchRecord
         /\ y.ids = x.ids
         /\ x.stage # "recovering" => y = x
         /\ x.stage = "recovering" => y.stage \in {"running", "succeeded", "paused", "recovering"}
         /\ x.stage = "recovering" /\ y.stage = "recovering" => y.rec = x.rec
         /\ x.stage = "recovering" /\ y.stage \in {"running", "succeeded"} =>
              /\ x.rec \in TaskID
              /\ upgradeRecovered(tk[x.rec], rep)
         /\ x.stage = "recovering" /\ y.stage = "succeeded" =>
              \A i \in 1..Len(x.ids) : tk[x.ids[i]].stage = "succeeded"
<1> DEFINE x == bt[b]
           y == reconcileUpgradeRecovery(tk, bt, rep)[b]
<1>1. x \in BatchRecord
  OBVIOUS
<1>2. CASE x.stage # "recovering"
  BY <1>1, <1>2 DEF reconcileUpgradeRecovery
<1>3. CASE x.stage = "recovering" /\ y = finishUpgradeRecovery(tk, x) /\ x.rec \in TaskID
             /\ upgradeRecovered(tk[x.rec], rep)
  <2> HIDE DEF y
  <2> QED
    BY <1>1, <1>3, FinishFacts DEF y
<1>4. CASE x.stage = "recovering"
             /\ ~(y = finishUpgradeRecovery(tk, x) /\ x.rec \in TaskID
                  /\ upgradeRecovered(tk[x.rec], rep))
  <2>1. \/ y = [x EXCEPT !.stage = "paused", !.linkCause = FALSE]
        \/ y = [x EXCEPT !.stage = "paused", !.linkCause = TRUE]
        \/ y = [x EXCEPT !.linkCause = FALSE]
    BY <1>1, <1>4 DEF reconcileUpgradeRecovery, BatchRecord
  <2> QED
    BY <1>1, <1>4, <2>1 DEF BatchRecord, BatchStages
<1> QED
  BY <1>2, <1>3, <1>4

\* A recovered task is confirmed by both ends of its Links
\* (upgradeRecoveryProblem finds no problem).
LEMMA RecoveredConfirmed ==
  ASSUME NEW tk \in TaskRecord, NEW rep, upgradeRecovered(tk, rep)
  PROVE  Confirmed(tk)
BY DEF upgradeRecovered, Confirmed, TaskRecord

\* Running the recovery gate preserves the batch part of the invariant.
LEMMA ReconcileInv ==
  ASSUME NEW tk \in [TaskID -> TaskRecord], NEW bt \in [BatchID -> BatchRecord],
         NEW rep,
         Placed(tk, bt), Rolling(tk, bt), Gate(tk, bt)
  PROVE  LET rb == reconcileUpgradeRecovery(tk, bt, rep) IN
         /\ rb \in [BatchID -> BatchRecord]
         /\ Placed(tk, rb)
         /\ Rolling(tk, rb)
         /\ Gate(tk, rb)
<1> DEFINE rb == reconcileUpgradeRecovery(tk, bt, rep)
<1>1. rb \in [BatchID -> BatchRecord]
  <2>1. rb = [b \in BatchID |-> rb[b]]
    BY DEF reconcileUpgradeRecovery
  <2>2. \A b \in BatchID : rb[b] \in BatchRecord
    BY ReconcileFacts
  <2> HIDE DEF rb
  <2> QED
    BY <2>1, <2>2
<1>2. \A b \in BatchID : rb[b].ids = bt[b].ids
  BY ReconcileFacts
<1>3. \A b \in BatchID : rb[b].stage = "none" => bt[b].stage = "none"
  BY ReconcileFacts
<1> HIDE DEF rb
<1>4. Placed(tk, rb)
  BY <1>2, <1>3 DEF Placed
<1>5. Rolling(tk, rb)
  BY <1>2 DEF Rolling
<1>6. ASSUME NEW b \in BatchID
      PROVE  GateOf(tk, rb[b], b)
  <2>1. CASE bt[b].stage # "recovering"
    <3>1. rb[b] = bt[b]
      BY <2>1, ReconcileFacts DEF rb
    <3> QED
      BY <3>1 DEF Gate, GateOf
  <2>2. CASE bt[b].stage = "recovering"
    <3>1. /\ rb[b].stage \in {"running", "succeeded", "paused", "recovering"}
          /\ rb[b].stage = "recovering" => rb[b].rec = bt[b].rec
          /\ rb[b].stage \in {"running", "succeeded"} =>
               bt[b].rec \in TaskID /\ upgradeRecovered(tk[bt[b].rec], rep)
          /\ rb[b].stage = "succeeded" =>
               \A i \in 1..Len(bt[b].ids) : tk[bt[b].ids[i]].stage = "succeeded"
      BY <2>2, ReconcileFacts DEF rb
    <3>2. rb[b].stage \in {"running", "succeeded"} => Confirmed(tk[bt[b].rec])
      BY <3>1, RecoveredConfirmed
    <3>3. /\ bt[b].rec \in TaskID
          /\ tk[bt[b].rec].batch = b
          /\ tk[bt[b].rec].stage = "succeeded"
      BY <2>2 DEF Gate, GateOf
    <3>4. ASSUME NEW t \in TaskID, tk[t].batch = b
          PROVE  /\ tk[t].stage \notin InFlight
                 /\ tk[t].stage \notin Bad
                 /\ tk[t].stage = "succeeded" /\ t # bt[b].rec => Confirmed(tk[t])
                 /\ rb[b].stage = "succeeded" => tk[t].stage = "succeeded"
      <4>1. /\ tk[t].stage \notin InFlight
            /\ tk[t].stage \notin Bad
            /\ tk[t].stage = "succeeded" /\ t # bt[b].rec => Confirmed(tk[t])
        BY <2>2, <3>4 DEF Gate, GateOf
      <4>2. \E i \in 1..Len(bt[b].ids) : bt[b].ids[i] = t
        BY <3>4 DEF Placed
      <4> QED
        BY <3>1, <4>1, <4>2
    <3> QED
      BY <3>1, <3>2, <3>3, <3>4 DEF GateOf
  <2> QED
    BY <2>1, <2>2
<1>7. Gate(tk, rb)
  BY <1>6 DEF Gate, GateOf
<1> QED
  BY <1>1, <1>4, <1>5, <1>7 DEF rb
-----------------------------------------------------------------------------
(* The handlers that leave tasks and batches alone                         *)

\* They keep the shape of the state (pairUpdater, toggleGateway, toggleAgent,
\* deleteGateway, deleteAgent, enroll, updaterPair, authenticateUpdater).
LEMMA TypeNoTasks ==
  ASSUME TypeOK, task' = task, batch' = batch,
         \/ \E n \in Node : \/ pairUpdater(n)
                           \/ toggleNode(n)
                           \/ deleteNode(n)
                           \/ heartbeatLapses(n)
                           \/ pairingExpires(n)
                           \/ statusLapses(n)
         \/ \E l \in Link, s \in RouteStates : changeRoute(l, s)
         \/ \E l \in Link, e \in End : reportLapses(l, e)
         \/ Host
         \/ \E r \in authed : dropRequest(r)
  PROVE  TypeOK'
<1>1. ASSUME NEW n \in Node, pairUpdater(n) PROVE TypeOK'
  <2>1. updater' \in [Node -> UpdaterRecord]
    <3>1. /\ updater \in [Node -> UpdaterRecord] /\ updater[n] \in UpdaterRecord
          /\ updater' = [updater EXCEPT ![n] = [updater[n] EXCEPT !.pairing = TRUE, !.pending = None]]
      BY <1>1 DEF pairUpdater, TypeOK
    <3>2. [updater[n] EXCEPT !.pairing = TRUE, !.pending = None] \in UpdaterRecord
      BY <3>1 DEF UpdaterRecord
    <3> QED
      BY <3>1, <3>2
  <2> QED
    BY <1>1, <2>1, SizeAssumption DEF pairUpdater, TypeOK, Disturb
<1>2. ASSUME NEW n \in Node, toggleNode(n) PROVE TypeOK'
  BY <1>2, SizeAssumption DEF toggleNode, TypeOK, Disturb
<1>3. ASSUME NEW n \in Node, deleteNode(n) PROVE TypeOK'
  <2>1. updater' \in [Node -> UpdaterRecord]
    <3>1. /\ updater \in [Node -> UpdaterRecord]
          /\ updater' = [updater EXCEPT ![n] = NoUpdater]
      BY <1>3 DEF deleteNode, TypeOK
    <3> QED
      BY <3>1 DEF UpdaterRecord, NoUpdater
  <2> QED
    BY <1>3, <2>1, SizeAssumption DEF deleteNode, TypeOK, Disturb, RouteStates
<1>4. ASSUME NEW n \in Node, heartbeatLapses(n) PROVE TypeOK'
  <2>1. updater' \in [Node -> UpdaterRecord]
    <3>1. /\ updater \in [Node -> UpdaterRecord]
          /\ updater' = [updater EXCEPT ![n].seen = FALSE]
      BY <1>4 DEF heartbeatLapses, TypeOK
    <3> QED
      BY <3>1 DEF UpdaterRecord
  <2> QED
    BY <1>4, <2>1, SizeAssumption DEF heartbeatLapses, TypeOK, Disturb
<1>5. ASSUME NEW n \in Node, pairingExpires(n) PROVE TypeOK'
  <2>1. updater' \in [Node -> UpdaterRecord]
    <3>1. /\ updater \in [Node -> UpdaterRecord] /\ updater[n] \in UpdaterRecord
          /\ updater' = [updater EXCEPT ![n] = [updater[n] EXCEPT !.pairing = FALSE, !.pending = None]]
      BY <1>5 DEF pairingExpires, TypeOK
    <3>2. [updater[n] EXCEPT !.pairing = FALSE, !.pending = None] \in UpdaterRecord
      BY <3>1 DEF UpdaterRecord
    <3> QED
      BY <3>1, <3>2
  <2> QED
    BY <1>5, <2>1, SizeAssumption DEF pairingExpires, TypeOK, Disturb
<1>6. ASSUME NEW n \in Node, statusLapses(n) PROVE TypeOK'
  BY <1>6, SizeAssumption DEF statusLapses, TypeOK, Disturb
<1>7. ASSUME NEW l \in Link, NEW s \in RouteStates, changeRoute(l, s) PROVE TypeOK'
  BY <1>7, SizeAssumption DEF changeRoute, TypeOK, Disturb
<1>8. ASSUME NEW l \in Link, NEW e \in End, reportLapses(l, e) PROVE TypeOK'
  BY <1>8, SizeAssumption DEF reportLapses, TypeOK, Disturb
<1>9. ASSUME Host PROVE TypeOK'
  <2>1. PICK n \in Node, c \in Cred :
          \/ \E want \in BOOLEAN : enroll(n, c, want)
          \/ updaterPair(n, c)
          \/ authenticateUpdater(n, c)
    BY <1>9 DEF Host
  <2>2. CASE \E want \in BOOLEAN : enroll(n, c, want)
    <3>1. updater' \in [Node -> UpdaterRecord]
      <4>1. CASE updater' = updater
        BY <4>1 DEF TypeOK
      <4>2. CASE updater' = [updater EXCEPT ![n] = [NoUpdater EXCEPT !.cred = c]]
        <5>1. [NoUpdater EXCEPT !.cred = c] \in UpdaterRecord
          BY DEF NoUpdater, UpdaterRecord
        <5>2. updater \in [Node -> UpdaterRecord]
          BY DEF TypeOK
        <5> QED
          BY <4>2, <5>1, <5>2
      <4> QED
        BY <2>2, <4>1, <4>2 DEF enroll
    <3> QED
      BY <2>2, <3>1 DEF enroll, TypeOK
  <2>3. CASE updaterPair(n, c)
    <3>1. updater' \in [Node -> UpdaterRecord]
      <4>1. /\ updater \in [Node -> UpdaterRecord]
            /\ updater' = [updater EXCEPT ![n].pending = c]
        BY <2>3 DEF updaterPair, TypeOK
      <4> QED
        BY <4>1 DEF UpdaterRecord
    <3> QED
      BY <2>3, <3>1 DEF updaterPair, TypeOK
  <2>4. CASE authenticateUpdater(n, c)
    <3>1. updater' \in [Node -> UpdaterRecord]
      <4>1. CASE updater' = updater
        BY <4>1 DEF TypeOK
      <4>2. CASE updater' = [updater EXCEPT ![n].cred = c, ![n].pending = None,
                                            ![n].pairing = FALSE]
        <5>1. updater \in [Node -> UpdaterRecord] /\ updater[n] \in UpdaterRecord
          BY DEF TypeOK
        <5>2. [updater[n] EXCEPT !.cred = c, !.pending = None, !.pairing = FALSE] \in UpdaterRecord
          BY <5>1 DEF UpdaterRecord
        <5>3. updater' = [updater EXCEPT ![n] =
                [updater[n] EXCEPT !.cred = c, !.pending = None, !.pairing = FALSE]]
          BY <4>2
        <5> QED
          BY <5>1, <5>2, <5>3
      <4> QED
        BY <2>4, <4>1, <4>2 DEF authenticateUpdater
    <3>2. updater[n].mode \in Mode \cup {None}
      BY DEF TypeOK, UpdaterRecord
    <3> QED
      BY <2>4, <3>1, <3>2 DEF authenticateUpdater, admit, TypeOK, Request
  <2> QED
    BY <2>1, <2>2, <2>3, <2>4
<1>10. ASSUME NEW r \in authed, dropRequest(r) PROVE TypeOK'
  BY <1>10 DEF dropRequest, TypeOK
<1> QED
  BY <1>1, <1>2, <1>3, <1>4, <1>5, <1>6, <1>7, <1>8, <1>9, <1>10

\* A step that changes no task may open a pairing only where no upgrade is
\* active (pairUpdater).
LEMMA PairingKept ==
  ASSUME NoPairingDuringUpgrade, TaskShape(task), task' = task,
         \A n \in Node : updater'[n].pairing => updater[n].pairing \/ ~nodeHasActiveUpgrade(n)
  PROVE  NoPairingDuringUpgrade'
BY DEF NoPairingDuringUpgrade, TaskShape, nodeHasActiveUpgrade

\* A step that changes neither tasks nor batches keeps the invariant.
LEMMA SameTasks ==
  ASSUME IInv, TypeOK', NoPairingDuringUpgrade', task' = task, batch' = batch
  PROVE  IInv'
<1>1. OneActivePerNode'
  BY DEF IInv, OneActivePerNode
<1>2. TaskShape(task)' /\ Placed(task, batch)' /\ Rolling(task, batch)' /\ Gate(task, batch)'
  BY DEF IInv, TaskShape, Placed, Rolling, Gate, GateOf
<1> QED
  BY <1>1, <1>2 DEF IInv

\* None of them disturbs a task, a batch or the pairing of a node that is
\* being upgraded.
LEMMA StepNoTasks ==
  ASSUME IInv,
         \/ \E n \in Node : \/ pairUpdater(n)
                           \/ toggleNode(n)
                           \/ deleteNode(n)
                           \/ heartbeatLapses(n)
                           \/ pairingExpires(n)
                           \/ statusLapses(n)
         \/ \E l \in Link, s \in RouteStates : changeRoute(l, s)
         \/ \E l \in Link, e \in End : reportLapses(l, e)
         \/ Host
         \/ \E r \in authed : dropRequest(r)
  PROVE  IInv'
<1>1. task' = task /\ batch' = batch
  BY DEF pairUpdater, toggleNode, deleteNode, heartbeatLapses, pairingExpires, statusLapses,
         changeRoute, reportLapses, Host, enroll, updaterPair, authenticateUpdater, dropRequest
<1>2. TypeOK'
  BY <1>1, TypeNoTasks DEF IInv
<1>3. \A n \in Node : updater'[n].pairing => updater[n].pairing \/ ~nodeHasActiveUpgrade(n)
  <2> SUFFICES ASSUME NEW x \in Node, updater'[x].pairing
               PROVE  updater[x].pairing \/ ~nodeHasActiveUpgrade(x)
    OBVIOUS
  <2>0. updater \in [Node -> UpdaterRecord]
    BY DEF IInv, TypeOK
  <2>1. CASE updater' = updater
    BY <2>1
  <2>2. ASSUME NEW n \in Node, pairUpdater(n)
        PROVE  updater[x].pairing \/ ~nodeHasActiveUpgrade(x)
    BY <2>0, <2>2 DEF pairUpdater, UpdaterRecord
  <2>3. ASSUME NEW n \in Node, deleteNode(n) \/ heartbeatLapses(n) \/ pairingExpires(n)
        PROVE  updater[x].pairing
    BY <2>0, <2>3 DEF deleteNode, heartbeatLapses, pairingExpires, UpdaterRecord, NoUpdater
  <2>4. CASE Host
    <3>1. PICK n \in Node, c \in Cred :
            \/ \E want \in BOOLEAN : enroll(n, c, want)
            \/ updaterPair(n, c)
            \/ authenticateUpdater(n, c)
      BY <2>4 DEF Host
    <3> QED
      BY <2>0, <3>1 DEF enroll, updaterPair, authenticateUpdater, UpdaterRecord, NoUpdater
  <2>5. \/ updater' = updater
        \/ Host
        \/ \E n \in Node : \/ pairUpdater(n) \/ deleteNode(n)
                          \/ heartbeatLapses(n) \/ pairingExpires(n)
    BY DEF toggleNode, statusLapses, changeRoute, reportLapses, dropRequest
  <2> QED
    BY <2>1, <2>2, <2>3, <2>4, <2>5
<1>4. NoPairingDuringUpgrade'
  BY <1>1, <1>3, PairingKept DEF IInv
<1> QED
  BY <1>1, <1>2, <1>4, SameTasks

-----------------------------------------------------------------------------
(* The handlers that move batches but no task                              *)

\* Only the stage, the list of tasks and the recovering task of a batch matter.
LEMMA SameBatchShape ==
  ASSUME NEW tk, NEW bt, NEW ct,
         \A b \in BatchID : /\ ct[b].ids = bt[b].ids
                            /\ ct[b].stage = bt[b].stage
                            /\ ct[b].rec = bt[b].rec,
         Placed(tk, bt), Rolling(tk, bt), Gate(tk, bt)
  PROVE  Placed(tk, ct) /\ Rolling(tk, ct) /\ Gate(tk, ct)
<1>1. Placed(tk, ct)
  BY DEF Placed
<1>2. Rolling(tk, ct)
  BY DEF Rolling
<1>3. Gate(tk, ct)
  BY DEF Gate, GateOf
<1> QED
  BY <1>1, <1>2, <1>3

\* Hearing from more Link ends never disturbs a task or a batch (nodeStatus).
LEMMA MoreHeard ==
  ASSUME NEW tk, NEW uk, NEW bt,
         \A t \in TaskID : /\ uk[t].stage = tk[t].stage
                           /\ uk[t].node = tk[t].node
                           /\ uk[t].batch = tk[t].batch
                           /\ uk[t].attempt = tk[t].attempt
                           /\ uk[t].baseline = tk[t].baseline
                           /\ tk[t].heard \subseteq uk[t].heard,
         bt \in [BatchID -> BatchRecord],
         TaskShape(tk), Placed(tk, bt), Rolling(tk, bt), Gate(tk, bt)
  PROVE  TaskShape(uk) /\ Placed(uk, bt) /\ Rolling(uk, bt) /\ Gate(uk, bt)
<1>1. TaskShape(uk)
  BY DEF TaskShape
<1>2. Placed(uk, bt)
  BY DEF Placed
<1>3. Rolling(uk, bt)
  <2>1. \A b \in BatchID : \A i \in 1..Len(bt[b].ids) : bt[b].ids[i] \in TaskID
    BY DEF BatchRecord
  <2> QED
    BY <2>1 DEF Rolling
<1>4. \A t \in TaskID : Confirmed(tk[t]) => Confirmed(uk[t])
  BY DEF Confirmed
<1>5. Gate(uk, bt)
  BY <1>4 DEF Gate, GateOf
<1> QED
  BY <1>1, <1>2, <1>3, <1>5

\* An updater's heartbeat.
LEMMA StepHeartbeat ==
  ASSUME IInv, NEW r \in authed, NEW m \in Mode, updaterHeartbeat(r, m)
  PROVE  IInv'
<1>1. r.node \in Node
  BY DEF IInv, TypeOK, Request
<1>2. updater' \in [Node -> UpdaterRecord]
  <2>1. /\ updater \in [Node -> UpdaterRecord]
        /\ updater' = [updater EXCEPT ![r.node].mode = m, ![r.node].seen = TRUE]
    BY DEF updaterHeartbeat, IInv, TypeOK
  <2> QED
    BY <1>1, <2>1 DEF UpdaterRecord
<1>3. /\ batch' \in [BatchID -> BatchRecord]
      /\ Placed(task, batch') /\ Rolling(task, batch') /\ Gate(task, batch')
  BY ReconcileInv DEF updaterHeartbeat, IInv, TypeOK
<1>4. TypeOK'
  BY <1>2, <1>3 DEF updaterHeartbeat, IInv, TypeOK
<1>5. task' = task
  BY DEF updaterHeartbeat
<1>6. NoPairingDuringUpgrade'
  <2>1. \A n \in Node : updater'[n].pairing = updater[n].pairing
    BY <1>1 DEF updaterHeartbeat, IInv, TypeOK, UpdaterRecord
  <2> QED
    BY <1>5, <2>1, PairingKept DEF IInv
<1>7. OneActivePerNode'
  BY <1>5 DEF IInv, OneActivePerNode
<1>8. Placed(task, batch)' /\ Rolling(task, batch)' /\ Gate(task, batch)' /\ TaskShape(task)'
  BY <1>3, <1>5 DEF IInv
<1> QED
  BY <1>4, <1>6, <1>7, <1>8 DEF IInv

\* The recovery deadline of a batch passes.
LEMMA StepDeadline ==
  ASSUME IInv, NEW b \in BatchID, deadlinePasses(b)
  PROVE  IInv'
<1>1. /\ batch' \in [BatchID -> BatchRecord]
      /\ \A x \in BatchID : /\ batch'[x].ids = batch[x].ids
                             /\ batch'[x].stage = batch[x].stage
                             /\ batch'[x].rec = batch[x].rec
  <2>1. /\ batch \in [BatchID -> BatchRecord]
        /\ batch' = [batch EXCEPT ![b].late = TRUE]
    BY DEF deadlinePasses, IInv, TypeOK
  <2> QED
    BY <2>1 DEF BatchRecord
<1>2. Placed(task, batch') /\ Rolling(task, batch') /\ Gate(task, batch')
  BY <1>1, SameBatchShape DEF IInv
<1>3. TypeOK'
  BY <1>1 DEF deadlinePasses, IInv, TypeOK
<1>4. task' = task /\ updater' = updater
  BY DEF deadlinePasses
<1>5. OneActivePerNode' /\ NoPairingDuringUpgrade'
  BY <1>4 DEF IInv, OneActivePerNode, NoPairingDuringUpgrade
<1>6. Placed(task, batch)' /\ Rolling(task, batch)' /\ Gate(task, batch)' /\ TaskShape(task)'
  BY <1>2, <1>4 DEF IInv
<1> QED
  BY <1>3, <1>5, <1>6 DEF IInv

\* A node's status report, with the recovery gate it drives.
LEMMA StepNodeStatus ==
  ASSUME IInv, NEW n \in Node, NEW v \in Version, NEW S \in SUBSET OwnEnds(n),
         NEW news \in [S -> BOOLEAN], nodeStatus(n, v, news)
  PROVE  IInv'
<1> DEFINE rep == [l \in Link |-> [e \in End |->
                     IF <<l, e>> \in DOMAIN news THEN news[<<l, e>>] ELSE report[l][e]]]
           tk == [t \in TaskID |->
                    IF task[t].stage = "succeeded"
                      THEN [task[t] EXCEPT !.heard = @ \cup
                              {le \in DOMAIN news : le[1] \in task[t].baseline}]
                      ELSE task[t]]
<1>1. DOMAIN news \subseteq Link \X End
  BY DEF OwnEnds
<1>2. rep \in [Link -> [End -> BOOLEAN]]
  BY DEF IInv, TypeOK
<1>3. /\ status' = [status EXCEPT ![n] = v]
      /\ report' = rep
      /\ task' = tk
      /\ batch' = reconcileUpgradeRecovery(tk, batch, rep)
      /\ UNCHANGED <<node, route, updater, issued, authed, churn>>
  BY DEF nodeStatus
<1>4. tk \in [TaskID -> TaskRecord]
  <2>1. task \in [TaskID -> TaskRecord]
    BY DEF IInv, TypeOK
  <2> QED
    BY <1>1, <2>1 DEF TaskRecord
<1>5. \A t \in TaskID : /\ tk[t].stage = task[t].stage
                        /\ tk[t].node = task[t].node
                        /\ tk[t].batch = task[t].batch
                        /\ tk[t].attempt = task[t].attempt
                        /\ tk[t].baseline = task[t].baseline
                        /\ task[t].heard \subseteq tk[t].heard
  <2>1. task \in [TaskID -> TaskRecord]
    BY DEF IInv, TypeOK
  <2> QED
    BY <1>1, <2>1 DEF TaskRecord
<1> HIDE DEF rep, tk
<1>6. TaskShape(tk) /\ Placed(tk, batch) /\ Rolling(tk, batch) /\ Gate(tk, batch)
  BY <1>5, MoreHeard DEF IInv, TypeOK
<1>7. /\ batch' \in [BatchID -> BatchRecord]
      /\ Placed(tk, batch') /\ Rolling(tk, batch') /\ Gate(tk, batch')
  BY <1>3, <1>4, <1>6, ReconcileInv DEF IInv, TypeOK
<1>8. TypeOK'
  BY <1>2, <1>3, <1>4, <1>7 DEF IInv, TypeOK
<1>9. OneActivePerNode' /\ NoPairingDuringUpgrade'
  BY <1>3, <1>5 DEF IInv, OneActivePerNode, NoPairingDuringUpgrade
<1>10. TaskShape(task)' /\ Placed(task, batch)' /\ Rolling(task, batch)' /\ Gate(task, batch)'
  BY <1>3, <1>6, <1>7
<1> QED
  BY <1>8, <1>9, <1>10 DEF IInv

\* A batch that the recovery gate paused is resumed.
LEMMA StepResume ==
  ASSUME IInv, NEW b \in BatchID, resumeUpgrade(b)
  PROVE  IInv'
<1> DEFINE x == batch[b]
           y == finishUpgradeRecovery(task, x)
<1>1. /\ task' = task /\ updater' = updater
      /\ batch' = [batch EXCEPT ![b] = y]
      /\ batch \in [BatchID -> BatchRecord]
      /\ task \in [TaskID -> TaskRecord]
      /\ x.stage = "paused"
  BY DEF resumeUpgrade, resumable, IInv, TypeOK
<1>2. /\ y \in BatchRecord
      /\ y.ids = x.ids
      /\ y.stage \in {"running", "succeeded"}
      /\ y.stage = "succeeded" =>
           \A i \in 1..Len(x.ids) : task[x.ids[i]].stage = "succeeded"
  BY <1>1, FinishFacts
<1> HIDE DEF y
<1>3. /\ batch' \in [BatchID -> BatchRecord]
      /\ \A a \in BatchID : batch'[a] = IF a = b THEN y ELSE batch[a]
      /\ \A a \in BatchID : batch'[a].ids = batch[a].ids
  BY <1>1, <1>2
<1>4. ASSUME NEW t \in TaskID, task[t].batch = b
      PROVE  /\ task[t].stage \in {"succeeded", "pending"}
             /\ task[t].stage = "succeeded" => Confirmed(task[t])
             /\ y.stage = "succeeded" => task[t].stage = "succeeded"
  <2>1. PICK i \in 1..Len(x.ids) : x.ids[i] = t
    BY <1>4 DEF IInv, Placed
  <2>2. t \in Members(b)
    BY <2>1 DEF Members
  <2>3. task[t].stage \in {"succeeded", "pending"}
    <3>1. PICK k \in 1..Len(x.ids) :
            /\ \A j \in 1..k : task[x.ids[j]].stage = "succeeded"
            /\ \A j \in (k + 1)..Len(x.ids) : task[x.ids[j]].stage = "pending"
      BY DEF resumeUpgrade, resumable
    <3>2. i \in 1..k \/ i \in (k + 1)..Len(x.ids)
      BY <1>1, <2>1, <3>1 DEF BatchRecord
    <3> QED
      BY <2>1, <3>1, <3>2
  <2>4. task[t].stage = "succeeded" => upgradeRecovered(task[t], report)
    BY <2>2 DEF resumeUpgrade
  <2>5. task[t] \in TaskRecord
    BY <1>1
  <2>6. task[t].stage = "succeeded" => Confirmed(task[t])
    BY <2>4, <2>5, RecoveredConfirmed
  <2> QED
    BY <1>2, <2>1, <2>3, <2>6
<1>5. Placed(task, batch')
  BY <1>1, <1>2, <1>3 DEF IInv, Placed
<1>6. Rolling(task, batch')
  BY <1>3 DEF IInv, Rolling
<1>7. ASSUME NEW a \in BatchID PROVE GateOf(task, batch'[a], a)
  <2>1. CASE a = b
    <3>1. "succeeded" \notin Bad /\ "pending" \notin Bad
      BY StageFacts
    <3> QED
      BY <1>2, <1>3, <1>4, <2>1, <3>1 DEF GateOf
  <2>2. CASE a # b
    BY <1>3, <2>2 DEF IInv, Gate
  <2> QED
    BY <2>1, <2>2
<1>8. TypeOK'
  BY <1>3 DEF resumeUpgrade, IInv, TypeOK
<1>9. OneActivePerNode' /\ NoPairingDuringUpgrade'
  BY <1>1 DEF IInv, OneActivePerNode, NoPairingDuringUpgrade
<1> QED
  BY <1>1, <1>5, <1>6, <1>7, <1>8, <1>9 DEF IInv, Gate

-----------------------------------------------------------------------------
\* The handlers that claim a task, report on it or prepare a batch.

\* A step after which no further task is active.
LEMMA NoNewActive ==
  ASSUME OneActivePerNode, NoPairingDuringUpgrade, updater' = updater,
         \A t \in TaskID : activeUpgrade(task'[t].stage) =>
           activeUpgrade(task[t].stage) /\ task'[t].node = task[t].node
  PROVE  OneActivePerNode' /\ NoPairingDuringUpgrade'
BY DEF OneActivePerNode, NoPairingDuringUpgrade

\* Task t moves from tk to uk and at most its batch changes from bt to ct; if
\* it is claimed, the earlier tasks of its batch have succeeded.
OneMoves(tk, uk, bt, ct, t) ==
  /\ \A u \in TaskID : u # t => uk[u] = tk[u]
  /\ uk[t].batch = tk[t].batch
  /\ tk[t].stage # "succeeded"
  /\ \A b \in BatchID : ct[b].ids = bt[b].ids /\ (b # tk[t].batch => ct[b] = bt[b])
  /\ tk[t].batch \in BatchID => GateOf(uk, ct[tk[t].batch], tk[t].batch)
  /\ \/ uk[t].attempt = tk[t].attempt
     \/ \A b \in BatchID : \A i, j \in 1..Len(bt[b].ids) :
          i < j /\ bt[b].ids[j] = t => tk[bt[b].ids[i]].stage = "succeeded"

\* Then the batches still roll and the other batches are not affected.
LEMMA MoveTask ==
  ASSUME NEW tk \in [TaskID -> TaskRecord], NEW uk \in [TaskID -> TaskRecord],
         NEW bt \in [BatchID -> BatchRecord], NEW ct \in [BatchID -> BatchRecord],
         NEW t \in TaskID,
         Rolling(tk, bt), Gate(tk, bt), OneMoves(tk, uk, bt, ct, t)
  PROVE  Rolling(uk, ct) /\ Gate(uk, ct)
<1> USE DEF OneMoves
<1>1. Rolling(uk, ct)
  <2> SUFFICES ASSUME NEW b \in BatchID, NEW i \in 1..Len(bt[b].ids), NEW j \in 1..Len(bt[b].ids),
                      i < j, uk[bt[b].ids[j]].attempt > 0
               PROVE  uk[bt[b].ids[i]].stage = "succeeded"
    BY DEF Rolling
  <2>1. bt[b].ids[i] \in TaskID /\ bt[b].ids[j] \in TaskID
    BY DEF BatchRecord
  <2>2. tk[bt[b].ids[i]].stage = "succeeded"
    <3>1. CASE bt[b].ids[j] # t \/ uk[t].attempt = tk[t].attempt
      <4>1. tk[bt[b].ids[j]].attempt > 0
        BY <2>1, <3>1
      <4> QED
        BY <4>1 DEF Rolling
    <3>2. CASE bt[b].ids[j] = t /\ uk[t].attempt # tk[t].attempt
      BY <3>2
    <3> QED
      BY <3>1, <3>2
  <2> QED
    BY <2>1, <2>2
<1>2. ASSUME NEW b \in BatchID PROVE GateOf(uk, ct[b], b)
  <2>1. CASE b = tk[t].batch
    BY <2>1
  <2>2. CASE b # tk[t].batch
    BY <2>2 DEF Gate, GateOf
  <2> QED
    BY <2>1, <2>2
<1> QED
  BY <1>1, <1>2 DEF Gate

\* Placed needs only the batches' lists and the tasks' batches.
LEMMA SamePlaces ==
  ASSUME NEW tk, NEW uk, NEW bt, NEW ct, Placed(tk, bt),
         \A t \in TaskID : uk[t].batch = tk[t].batch,
         \A b \in BatchID : ct[b].ids = bt[b].ids /\ (ct[b].stage = "none" => bt[b].stage = "none")
  PROVE  Placed(uk, ct)
BY DEF Placed

\* An updater polls for its task: nothing to do, a claim, or an expiry.
LEMMA StepTask ==
  ASSUME IInv, NEW r \in authed, updaterTask(r)
  PROVE  IInv'
<1> DEFINE bt == reconcileUpgradeRecovery(task, batch, report)
<1>1. /\ task \in [TaskID -> TaskRecord]
      /\ batch \in [BatchID -> BatchRecord]
      /\ TaskShape(task)
      /\ UNCHANGED <<node, status, route, report, updater, issued, churn>>
      /\ authed' \subseteq Request
  BY DEF IInv, TypeOK, updaterTask
<1>2. /\ bt \in [BatchID -> BatchRecord]
      /\ Placed(task, bt) /\ Rolling(task, bt) /\ Gate(task, bt)
  BY <1>1, ReconcileInv DEF IInv
<1>3. \A b \in BatchID : bt[b].ids = batch[b].ids
  BY <1>1, ReconcileFacts
<1> HIDE DEF bt
<1>4. SUFFICES ASSUME TRUE
               PROVE  /\ task' \in [TaskID -> TaskRecord]
                      /\ batch' \in [BatchID -> BatchRecord]
                      /\ TaskShape(task') /\ Placed(task', batch')
                      /\ Rolling(task', batch') /\ Gate(task', batch')
                      /\ \A t \in TaskID : activeUpgrade(task'[t].stage) =>
                           activeUpgrade(task[t].stage) /\ task'[t].node = task[t].node
  <2>1. OneActivePerNode' /\ NoPairingDuringUpgrade'
    BY <1>1, <1>4, NoNewActive DEF IInv
  <2>2. TypeOK'
    BY <1>1, <1>4 DEF IInv, TypeOK
  <2> QED
    BY <1>4, <2>1, <2>2 DEF IInv
<1>5. CASE UNCHANGED task /\ batch' = bt
  BY <1>1, <1>2, <1>5
<1>6. ASSUME NEW t \in TaskID, claimable(t, r.node, bt)
      PROVE  /\ task[t].batch \in BatchID
             /\ task[t].stage = "pending"
             /\ task[t].attempt = 0
             /\ bt[task[t].batch].stage = "running"
             /\ \A b \in BatchID : \A i, j \in 1..Len(bt[b].ids) :
                  i < j /\ bt[b].ids[j] = t => task[bt[b].ids[i]].stage = "succeeded"
  <2>1. /\ task[t].batch \in BatchID
        /\ task[t].stage = "pending"
        /\ bt[task[t].batch].stage = "running"
        /\ priorSucceeded(t)
    BY <1>1, <1>6 DEF claimable, offered, TaskRecord
  <2>2. task[t].attempt = 0
    BY <1>1, <2>1 DEF TaskShape
  <2>3. ASSUME NEW b \in BatchID, NEW i \in 1..Len(bt[b].ids), NEW j \in 1..Len(bt[b].ids),
               i < j, bt[b].ids[j] = t
        PROVE  task[bt[b].ids[i]].stage = "succeeded"
    <3>1. task[t].batch = b
      BY <1>2, <2>3 DEF Placed
    <3>2. i \in 1..(j - 1)
      BY <1>2, <2>3 DEF BatchRecord
    <3> QED
      BY <1>3, <2>1, <2>3, <3>1, <3>2 DEF priorSucceeded
  <2> QED
    BY <2>1, <2>2, <2>3
<1>7. ASSUME NEW t \in TaskID, claimable(t, r.node, bt),
             task' = [task EXCEPT ![t].stage = "running", ![t].attempt = @ + 1],
             batch' = bt
      PROVE  /\ task' \in [TaskID -> TaskRecord]
             /\ TaskShape(task') /\ Placed(task', batch')
             /\ Rolling(task', batch') /\ Gate(task', batch')
             /\ \A u \in TaskID : activeUpgrade(task'[u].stage) =>
                  activeUpgrade(task[u].stage) /\ task'[u].node = task[u].node
  <2>1. task' \in [TaskID -> TaskRecord]
    BY <1>1, <1>7 DEF TaskRecord, Stages, InFlight
  <2>2. /\ \A u \in TaskID : u # t => task'[u] = task[u]
        /\ task'[t].stage = "running" /\ task'[t].attempt = 1
        /\ task'[t].batch = task[t].batch /\ task'[t].node = task[t].node
    BY <1>1, <1>6, <1>7 DEF TaskRecord
  <2>3. TaskShape(task')
    BY <1>1, <1>6, <1>7, <2>2, StageFacts DEF TaskShape, activeUpgrade, InFlight
  <2>4. /\ task[t].batch \in BatchID
        /\ task[t].stage = "pending"
        /\ bt[task[t].batch].stage = "running"
        /\ \A b \in BatchID : \A i, j \in 1..Len(bt[b].ids) :
             i < j /\ bt[b].ids[j] = t => task[bt[b].ids[i]].stage = "succeeded"
    BY <1>6, <1>7
  <2>5. "running" \in InFlight /\ "running" \notin Bad
    BY StageFacts DEF InFlight
  <2>6. GateOf(task', bt[task[t].batch], task[t].batch)
    BY <1>2, <2>2, <2>4, <2>5 DEF Gate, GateOf
  <2>7. \A u \in TaskID : task'[u].batch = task[u].batch
    BY <2>2
  <2>8. Placed(task', bt)
    BY <1>2, <2>7, SamePlaces
  <2>9. Rolling(task', bt) /\ Gate(task', bt)
    <3>1. OneMoves(task, task', bt, bt, t)
      BY <2>2, <2>4, <2>6 DEF OneMoves
    <3> QED
      BY <1>1, <1>2, <2>1, <3>1, MoveTask
  <2> QED
    BY <1>7, <2>1, <2>2, <2>3, <2>4, <2>8, <2>9 DEF activeUpgrade
<1>8. ASSUME NEW t \in TaskID, claimable(t, r.node, bt),
             task' = [task EXCEPT ![t].stage = "expired"],
             batch' = [bt EXCEPT ![task[t].batch].stage = "paused",
                                 ![task[t].batch].linkCause = FALSE]
      PROVE  /\ task' \in [TaskID -> TaskRecord]
             /\ batch' \in [BatchID -> BatchRecord]
             /\ TaskShape(task') /\ Placed(task', batch')
             /\ Rolling(task', batch') /\ Gate(task', batch')
             /\ \A u \in TaskID : activeUpgrade(task'[u].stage) =>
                  activeUpgrade(task[u].stage) /\ task'[u].node = task[u].node
  <2>1. task' \in [TaskID -> TaskRecord]
    BY <1>1, <1>8 DEF TaskRecord, Stages, Terminal
  <2>2. /\ \A u \in TaskID : u # t => task'[u] = task[u]
        /\ task'[t].stage = "expired" /\ task'[t].attempt = task[t].attempt
        /\ task'[t].batch = task[t].batch /\ task'[t].node = task[t].node
    BY <1>1, <1>6, <1>8 DEF TaskRecord
  <2>3. batch' \in [BatchID -> BatchRecord]
    <3>1. PICK b \in BatchID :
            batch' = [bt EXCEPT ![b] = [bt[b] EXCEPT !.stage = "paused", !.linkCause = FALSE]]
      <4>1. task[t].batch \in BatchID
        BY <1>6, <1>8
      <4>2. batch' = [bt EXCEPT ![task[t].batch] =
                        [bt[task[t].batch] EXCEPT !.stage = "paused", !.linkCause = FALSE]]
        BY <1>8
      <4> QED
        BY <4>1, <4>2
    <3>2. bt[b] \in BatchRecord
      BY <1>2
    <3>3. [bt[b] EXCEPT !.stage = "paused", !.linkCause = FALSE] \in BatchRecord
      BY <3>2 DEF BatchRecord, BatchStages
    <3> QED
      BY <1>2, <3>1, <3>3
  <2>4. /\ \A b \in BatchID : /\ batch'[b].ids = bt[b].ids
                              /\ b # task[t].batch => batch'[b] = bt[b]
        /\ batch'[task[t].batch].stage = "paused"
    BY <1>2, <1>6, <1>8 DEF BatchRecord
  <2>5. "expired" \in Terminal /\ "expired" \notin InFlight \cup {"succeeded", "none", "preparing", "pending"}
    BY StageFacts DEF Terminal, Outcomes, Failures
  <2>6. TaskShape(task')
    BY <1>1, <1>6, <1>8, <2>2, <2>5 DEF TaskShape, activeUpgrade
  <2>7. GateOf(task', batch'[task[t].batch], task[t].batch)
    BY <1>2, <1>6, <1>8, <2>2, <2>4 DEF Gate, GateOf
  <2>8. /\ task[t].batch \in BatchID
        /\ task[t].stage = "pending"
        /\ bt[task[t].batch].stage = "running"
        /\ \A b \in BatchID : \A i, j \in 1..Len(bt[b].ids) :
             i < j /\ bt[b].ids[j] = t => task[bt[b].ids[i]].stage = "succeeded"
    BY <1>6, <1>8
  <2>9. /\ \A u \in TaskID : task'[u].batch = task[u].batch
        /\ \A b \in BatchID : batch'[b].stage = "none" => bt[b].stage = "none"
    BY <2>2, <2>4
  <2>10. Placed(task', batch')
    BY <1>2, <2>4, <2>9, SamePlaces
  <2>11. Rolling(task', batch') /\ Gate(task', batch')
    <3>1. OneMoves(task, task', bt, batch', t)
      BY <2>2, <2>4, <2>7, <2>8 DEF OneMoves
    <3> QED
      BY <1>1, <1>2, <2>1, <2>3, <3>1, MoveTask
  <2> QED
    BY <2>1, <2>2, <2>3, <2>5, <2>6, <2>10, <2>11 DEF activeUpgrade
<1> QED
  BY <1>2, <1>5, <1>7, <1>8 DEF updaterTask, bt

\* An updater reports progress or an outcome.
LEMMA StepReport ==
  ASSUME IInv, NEW r \in authed, NEW t \in TaskID, NEW s \in Progress \cup Outcomes,
         NEW a, updaterReport(r, t, s, a)
  PROVE  IInv'
<1> DEFINE b == task[t].batch
           uk == [task EXCEPT ![t].stage = s, ![t].heard = {}]
<1>0. task \in [TaskID -> TaskRecord] /\ batch \in [BatchID -> BatchRecord]
  BY DEF IInv, TypeOK
<1>1a. Placed(task, batch) /\ Rolling(task, batch) /\ Gate(task, batch)
  BY DEF IInv
<1>1. /\ task \in [TaskID -> TaskRecord]
      /\ batch \in [BatchID -> BatchRecord]
      /\ TaskShape(task) /\ Placed(task, batch) /\ Rolling(task, batch) /\ Gate(task, batch)
      /\ UNCHANGED <<node, status, route, report, updater, issued, churn>>
      /\ authed' \subseteq Request
      /\ task' = uk
      /\ batch' = afterReport(uk, t, s)
      /\ task[t].stage \in InFlight
  BY DEF IInv, TypeOK, updaterReport, acceptsReport
<1>2. s \in Stages /\ s \notin {"none", "preparing", "pending", "cancelled", "expired"}
  BY StageFacts DEF InFlight, Outcomes, Failures, Stages, Terminal
<1>3. uk \in [TaskID -> TaskRecord]
  BY <1>1, <1>2 DEF TaskRecord
<1>4. /\ \A u \in TaskID : u # t => uk[u] = task[u]
      /\ uk[t].stage = s /\ uk[t].attempt = task[t].attempt
      /\ uk[t].batch = b /\ uk[t].node = task[t].node
  BY <1>1 DEF TaskRecord
<1>5. task[t].attempt > 0 /\ task[t].node \in Node
      /\ task[t].stage \notin {"succeeded", "preparing"} /\ task[t].stage \notin Bad
  BY <1>1, StageFacts DEF TaskShape, activeUpgrade
<1> HIDE DEF uk
<1>6. TaskShape(uk)
  BY <1>1, <1>2, <1>4, <1>5 DEF TaskShape
<1>7. \A u \in TaskID : uk[u].batch = task[u].batch
  BY <1>4
<1>8. b \in BatchID \/ (b = None /\ b \notin BatchID)
  <2>1. b \in BatchID \cup {None}
    BY <1>0 DEF TaskRecord
  <2> QED
    BY <2>1, NoneAssumption
<1>9. b \in BatchID => batch[b].stage \notin {"preparing", "recovering", "succeeded"}
  BY <1>1, <1>5 DEF Gate, GateOf
<1>10. /\ batch' \in [BatchID -> BatchRecord]
       /\ Placed(uk, batch') /\ Rolling(uk, batch') /\ Gate(uk, batch')
  <2>1. CASE b = None \/ ~(s \in Failures \/ (s = "succeeded" /\ batch[b].stage = "running"))
    <3>1. batch' = batch
      <4>1. batch' = afterReport(uk, t, s) /\ uk[t].batch = b
        BY <1>1, <1>4
      <4> QED
        BY <2>1, <4>1 DEF afterReport
    <3>2. s \notin Bad \/ b = None
      <4>1. s \in Bad => s \in Failures
        BY <1>2 DEF Bad
      <4> QED
        BY <2>1, <4>1
    <3>3. b \in BatchID => GateOf(uk, batch[b], b)
      <4> SUFFICES ASSUME b \in BatchID PROVE GateOf(uk, batch[b], b)
        OBVIOUS
      <4>1. GateOf(task, batch[b], b) /\ b # None
        BY <1>1, NoneAssumption DEF Gate
      <4>2. /\ batch[b].stage \notin {"preparing", "recovering", "succeeded"}
            /\ s = "succeeded" => batch[b].stage # "running"
            /\ s \notin Bad
        BY <1>9, <2>1, <3>2, <4>1
      <4> QED
        BY <1>4, <4>1, <4>2 DEF GateOf
    <3>4. Placed(uk, batch)
      BY <1>1a, <1>7, SamePlaces
    <3>5. Rolling(uk, batch) /\ Gate(uk, batch)
      <4>1. OneMoves(task, uk, batch, batch, t)
        BY <1>4, <1>5, <3>3 DEF OneMoves
      <4> QED
        BY <1>0, <1>1a, <1>3, <4>1, MoveTask
    <3> QED
      BY <1>1, <3>1, <3>4, <3>5
  <2>2. CASE b \in BatchID /\ s \in Failures
    <3>1. batch' = [batch EXCEPT ![b].stage = "paused", ![b].linkCause = FALSE,
                                 ![b].rec = None, ![b].late = FALSE]
      BY <1>1, <1>4, <1>8, <2>2, NoneAssumption DEF afterReport
    <3>2. batch' \in [BatchID -> BatchRecord]
      <4> DEFINE y == [batch[b] EXCEPT !.stage = "paused", !.linkCause = FALSE, !.rec = None,
                                       !.late = FALSE]
      <4>0. batch[b] \in BatchRecord
        BY <1>0, <2>2
      <4>1. y \in BatchRecord
        BY <4>0 DEF BatchRecord, BatchStages
      <4>2. batch' = [batch EXCEPT ![b] = y]
        BY <3>1
      <4> QED
        BY <1>0, <2>2, <4>1, <4>2
    <3>3. /\ \A x \in BatchID : batch'[x].ids = batch[x].ids /\ (x # b => batch'[x] = batch[x])
          /\ batch'[b].stage = "paused"
          /\ \A x \in BatchID : batch'[x].stage = "none" => batch[x].stage = "none"
      BY <1>0, <2>2, <3>1 DEF BatchRecord
    <3>4. GateOf(uk, batch'[b], b)
      BY <3>3 DEF GateOf
    <3>5. Placed(uk, batch')
      BY <1>1a, <1>7, <3>3, SamePlaces
    <3>6. Rolling(uk, batch') /\ Gate(uk, batch')
      <4>1. OneMoves(task, uk, batch, batch', t)
        BY <1>4, <1>5, <3>3, <3>4 DEF OneMoves
      <4> QED
        BY <1>0, <1>1a, <1>3, <3>2, <4>1, MoveTask
    <3> QED
      BY <3>2, <3>5, <3>6
  <2>3. CASE b \in BatchID /\ s = "succeeded" /\ batch[b].stage = "running"
    <3> DEFINE ct == [batch EXCEPT ![b].stage = "recovering", ![b].rec = t, ![b].late = FALSE]
    <3>1. batch' = reconcileUpgradeRecovery(uk, ct, report)
      <4>1. s \notin Failures /\ b # None
        BY <1>8, <2>3, NoneAssumption DEF Failures
      <4> QED
        BY <1>1, <1>4, <2>3, <4>1 DEF afterReport
    <3>2. ct \in [BatchID -> BatchRecord]
      <4> DEFINE y == [batch[b] EXCEPT !.stage = "recovering", !.rec = t, !.late = FALSE]
      <4>0. batch[b] \in BatchRecord
        BY <1>0, <2>3
      <4>1. y \in BatchRecord
        BY <4>0 DEF BatchRecord, BatchStages
      <4>2. ct = [batch EXCEPT ![b] = y]
        OBVIOUS
      <4> QED
        BY <1>0, <2>3, <4>1, <4>2
    <3>3. /\ \A x \in BatchID : ct[x].ids = batch[x].ids /\ (x # b => ct[x] = batch[x])
          /\ ct[b].stage = "recovering" /\ ct[b].rec = t
          /\ \A x \in BatchID : ct[x].stage = "none" => batch[x].stage = "none"
      BY <1>1, <2>3 DEF BatchRecord
    <3> HIDE DEF ct
    <3>4. ASSUME NEW u \in TaskID, u # t, task[u].batch = b
          PROVE  task[u].stage \notin InFlight
      <4>1. PICK i \in 1..Len(batch[b].ids), j \in 1..Len(batch[b].ids) :
              batch[b].ids[i] = t /\ batch[b].ids[j] = u
        BY <1>1, <2>3, <3>4 DEF Placed
      <4>2. i \in Int /\ j \in Int /\ i # j
        BY <3>4, <4>1
      <4>3. i < j \/ j < i
        BY <4>2
      <4>4. task[u].stage \in InFlight => task[u].attempt > 0
        BY <1>1 DEF TaskShape
      <4>5. "succeeded" \notin InFlight
        BY StageFacts DEF Terminal, Outcomes
      <4> QED
        BY <1>1, <1>5, <2>3, <4>1, <4>3, <4>4, <4>5 DEF Rolling
    <3>5. GateOf(uk, ct[b], b)
      <4>1. "succeeded" \notin InFlight /\ "succeeded" \notin Bad
        BY StageFacts DEF Terminal, Outcomes
      <4>2. GateOf(task, batch[b], b)
        BY <1>1, <2>3 DEF Gate
      <4>3. ASSUME NEW u \in TaskID, uk[u].batch = b
            PROVE  /\ uk[u].stage \notin InFlight
                   /\ uk[u].stage \notin Bad
                   /\ uk[u].stage = "succeeded" /\ u # t => Confirmed(uk[u])
        <5>1. CASE u = t
          BY <1>4, <2>3, <4>1, <5>1
        <5>2. CASE u # t
          BY <1>4, <2>3, <3>4, <4>2, <4>3, <5>2 DEF GateOf
        <5> QED
          BY <5>1, <5>2
      <4> QED
        BY <1>4, <2>3, <3>3, <4>3 DEF GateOf
    <3>6. Placed(uk, ct)
      BY <1>1a, <1>7, <3>3, SamePlaces
    <3>7. Rolling(uk, ct) /\ Gate(uk, ct)
      <4>1. OneMoves(task, uk, batch, ct, t)
        BY <1>4, <1>5, <3>3, <3>5 DEF OneMoves
      <4> QED
        BY <1>0, <1>1a, <1>3, <3>2, <4>1, MoveTask
    <3> QED
      BY <1>3, <3>1, <3>2, <3>6, <3>7, ReconcileInv
  <2> QED
    BY <1>8, <2>1, <2>2, <2>3
<1>11. OneActivePerNode' /\ NoPairingDuringUpgrade'
  <2>1. \A u \in TaskID : activeUpgrade(task'[u].stage) =>
          activeUpgrade(task[u].stage) /\ task'[u].node = task[u].node
    BY <1>1, <1>4 DEF activeUpgrade
  <2> QED
    BY <1>1, <2>1, NoNewActive, ZenonT(30) DEF IInv
<1>12. TypeOK'
  BY <1>1, <1>3, <1>10 DEF IInv, TypeOK
<1> QED
  BY <1>1, <1>6, <1>10, <1>11, <1>12 DEF IInv

\* Several tasks of batch b move, none of them claimed or completed.
SomeMove(tk, uk, bt, ct, b) ==
  /\ \A u \in TaskID : /\ tk[u].batch # b => uk[u] = tk[u]
                       /\ uk[u].batch = tk[u].batch
                       /\ uk[u].attempt = tk[u].attempt
                       /\ tk[u].stage = "succeeded" => uk[u].stage = "succeeded"
  /\ \A x \in BatchID : ct[x].ids = bt[x].ids /\ (x # b => ct[x] = bt[x])
  /\ GateOf(uk, ct[b], b)

\* Then the batches still roll and the other batches are not affected.
LEMMA MoveBatch ==
  ASSUME NEW tk \in [TaskID -> TaskRecord], NEW uk \in [TaskID -> TaskRecord],
         NEW bt \in [BatchID -> BatchRecord], NEW ct \in [BatchID -> BatchRecord],
         NEW b \in BatchID,
         Rolling(tk, bt), Gate(tk, bt), SomeMove(tk, uk, bt, ct, b)
  PROVE  Rolling(uk, ct) /\ Gate(uk, ct)
<1>0. \A x \in BatchID : ct[x].ids = bt[x].ids
  BY DEF SomeMove
<1>1. Rolling(uk, ct)
  <2> SUFFICES ASSUME NEW x \in BatchID, NEW i \in 1..Len(bt[x].ids), NEW j \in 1..Len(bt[x].ids),
                      i < j, uk[bt[x].ids[j]].attempt > 0
               PROVE  uk[bt[x].ids[i]].stage = "succeeded"
    BY <1>0 DEF Rolling
  <2>1. bt[x].ids[i] \in TaskID /\ bt[x].ids[j] \in TaskID
    BY DEF BatchRecord
  <2>2. tk[bt[x].ids[i]].stage = "succeeded"
    BY <2>1 DEF Rolling, SomeMove
  <2> QED
    BY <2>1, <2>2 DEF SomeMove
<1>2. ASSUME NEW x \in BatchID PROVE GateOf(uk, ct[x], x)
  <2>1. CASE x = b
    BY <2>1 DEF SomeMove
  <2>2. CASE x # b
    BY <2>2 DEF Gate, GateOf, SomeMove
  <2> QED
    BY <2>1, <2>2
<1> QED
  BY <1>1, <1>2 DEF Gate

\* Members(b) are the tasks that name the batch.
LEMMA MembersFact ==
  ASSUME Placed(task, batch), NEW b \in BatchID, NEW t \in TaskID
  PROVE  t \in Members(b) <=> task[t].batch = b
BY DEF Placed, Members

\* The goroutine that prepares a batch ends.
LEMMA StepPrepare ==
  ASSUME IInv, NEW b \in BatchID, NEW ok \in BOOLEAN, prepareUpgradeBatch(b, ok)
  PROVE  IInv'
<1> DEFINE s == IF ok THEN "pending" ELSE "failed"
           q == IF ok THEN "running" ELSE "failed"
<1>0. task \in [TaskID -> TaskRecord] /\ batch \in [BatchID -> BatchRecord]
  BY DEF IInv, TypeOK
<1>1. /\ TaskShape(task) /\ Placed(task, batch) /\ Rolling(task, batch) /\ Gate(task, batch)
      /\ batch[b].stage = "preparing"
      /\ UNCHANGED <<node, status, route, report, updater, issued, authed, churn>>
  BY DEF IInv, prepareUpgradeBatch
<1>2. s \in Stages /\ s \notin InFlight \cup {"none", "succeeded"} /\ (s \in Bad => ~ok)
      /\ (activeUpgrade(s) => ok)
  BY StageFacts DEF Stages, Terminal, Outcomes, Failures, Bad, activeUpgrade
<1>3. \A u \in TaskID : task'[u] = IF task[u].batch = b THEN [task[u] EXCEPT !.stage = s] ELSE task[u]
  <2>1. \A u \in TaskID : task[u].batch = b => u \in Members(b) /\ task[u].stage = "preparing"
    BY <1>1, MembersFact DEF Gate, GateOf
  <2>2. \A u \in TaskID : task[u].batch # b => u \notin Members(b)
    BY <1>1, MembersFact
  <2> QED
    BY <2>1, <2>2 DEF prepareUpgradeBatch
<1> HIDE DEF s
<1>4. task' \in [TaskID -> TaskRecord]
  <2>1. ASSUME NEW u \in TaskID PROVE task'[u] \in TaskRecord
    <3>1. task[u] \in TaskRecord
      BY <1>0
    <3>2. [task[u] EXCEPT !.stage = s] \in TaskRecord
      BY <1>2, <3>1 DEF TaskRecord
    <3> QED
      BY <1>3, <3>1, <3>2
  <2>2. task' = [u \in TaskID |-> task'[u]]
    BY DEF prepareUpgradeBatch
  <2> QED
    BY <2>1, <2>2
<1>5. /\ batch' \in [BatchID -> BatchRecord]
      /\ \A x \in BatchID : batch'[x].ids = batch[x].ids /\ (x # b => batch'[x] = batch[x])
      /\ batch'[b].stage = q /\ q # "none"
  <2>1. batch' = [batch EXCEPT ![b].stage = q, ![b].linkCause = FALSE]
    BY DEF prepareUpgradeBatch
  <2>2. q \in BatchStages /\ q # "none"
    BY DEF BatchStages
  <2> HIDE DEF q
  <2> QED
    BY <1>0, <2>1, <2>2 DEF BatchRecord
<1>6. \A u \in TaskID :
        /\ task'[u].batch = task[u].batch /\ task'[u].attempt = task[u].attempt
        /\ task'[u].node = task[u].node
        /\ task[u].batch # b => task'[u] = task[u]
        /\ task[u].batch = b => task'[u].stage = s /\ task[u].stage = "preparing"
  <2>1. \A u \in TaskID : task[u].batch = b => task[u].stage = "preparing"
    BY <1>1 DEF Gate, GateOf
  <2> SUFFICES ASSUME NEW u \in TaskID
               PROVE  /\ task'[u].batch = task[u].batch /\ task'[u].attempt = task[u].attempt
                      /\ task'[u].node = task[u].node
                      /\ task[u].batch # b => task'[u] = task[u]
                      /\ task[u].batch = b => task'[u].stage = s
    BY <2>1
  <2>2. task[u] \in TaskRecord
    BY <1>0
  <2>3. task'[u] = [task[u] EXCEPT !.stage = s] \/ (task'[u] = task[u] /\ task[u].batch # b)
    BY <1>3
  <2>4. task[u].batch # b => task'[u] = task[u]
    BY <1>3
  <2> QED
    BY <2>2, <2>3, <2>4 DEF TaskRecord
<1>7. TaskShape(task')
  BY <1>1, <1>2, <1>6, NoneAssumption DEF TaskShape, activeUpgrade
<1>8. Placed(task', batch')
  <2>1. \A x \in BatchID : batch'[x].stage = "none" => batch[x].stage = "none"
    BY <1>5
  <2> QED
    BY <1>1, <1>5, <1>6, <2>1, SamePlaces
<1>9. GateOf(task', batch'[b], b)
  BY <1>2, <1>5, <1>6 DEF GateOf
<1>10. Rolling(task', batch') /\ Gate(task', batch')
  <2>1. \A u \in TaskID : /\ task[u].batch # b => task'[u] = task[u]
                          /\ task'[u].batch = task[u].batch
                          /\ task'[u].attempt = task[u].attempt
                          /\ task[u].stage = "succeeded" => task'[u].stage = "succeeded"
    BY <1>6
  <2>2. \A x \in BatchID : batch'[x].ids = batch[x].ids /\ (x # b => batch'[x] = batch[x])
    BY <1>5
  <2> QED
    <3>1. SomeMove(task, task', batch, batch', b)
      BY <1>9, <2>1, <2>2 DEF SomeMove
    <3>2. Rolling(task, batch) /\ Gate(task, batch) /\ batch' \in [BatchID -> BatchRecord]
      BY <1>1, <1>5
    <3> QED
      BY <1>0, <1>4, <3>1, <3>2, MoveBatch
<1>11. OneActivePerNode' /\ NoPairingDuringUpgrade'
  <2>1. \A u \in TaskID : activeUpgrade(task'[u].stage) =>
          activeUpgrade(task[u].stage) /\ task'[u].node = task[u].node
    BY <1>6 DEF activeUpgrade
  <2> QED
    BY <1>1, <2>1, NoNewActive DEF IInv
<1>12. TypeOK'
  BY <1>1, <1>4, <1>5 DEF IInv, TypeOK
<1> QED
  BY <1>7, <1>8, <1>10, <1>11, <1>12 DEF IInv

-----------------------------------------------------------------------------
\* The handlers that create, cancel or expire tasks, and the theorems.

\* The administrator cancels the unclaimed tasks of a batch.
LEMMA StepCancel ==
  ASSUME IInv, NEW t \in TaskID, cancelUpgrade(t)
  PROVE  IInv'
<1> DEFINE b == task[t].batch
           Moves(u) == task[u].batch = b /\ task[u].stage \in {"pending", "preparing"}
<1>0. task \in [TaskID -> TaskRecord] /\ batch \in [BatchID -> BatchRecord]
  BY DEF IInv, TypeOK
<1>1a. Rolling(task, batch) /\ Gate(task, batch)
  BY DEF IInv
<1>1. /\ TaskShape(task) /\ Placed(task, batch) /\ Rolling(task, batch) /\ Gate(task, batch)
      /\ task[t].stage \in {"pending", "preparing"}
      /\ UNCHANGED <<node, status, route, report, updater, issued, authed, churn>>
  BY DEF IInv, cancelUpgrade
<1>2. b \in BatchID
  BY <1>0, <1>1 DEF TaskShape, TaskRecord
<1>3. \A u \in TaskID :
        /\ Moves(u) => task'[u] = [task[u] EXCEPT !.stage = "cancelled"]
        /\ ~Moves(u) => task'[u] = task[u]
  <2>1. \A u \in TaskID : u \in Members(b) <=> task[u].batch = b
    BY <1>1, <1>2, MembersFact
  <2> QED
    BY <2>1 DEF cancelUpgrade
<1>4. "cancelled" \in Stages /\ "cancelled" \notin InFlight \cup {"none", "succeeded"}
      /\ ~activeUpgrade("cancelled")
  BY StageFacts DEF Stages, Terminal, Outcomes, Failures, Bad, activeUpgrade
<1>5. task' \in [TaskID -> TaskRecord]
  <2>1. ASSUME NEW u \in TaskID PROVE task'[u] \in TaskRecord
    <3>1. task[u] \in TaskRecord
      BY <1>0
    <3>2. [task[u] EXCEPT !.stage = "cancelled"] \in TaskRecord
      BY <1>4, <3>1 DEF TaskRecord
    <3> QED
      BY <1>3, <3>1, <3>2
  <2>2. task' = [u \in TaskID |-> task'[u]]
    BY DEF cancelUpgrade
  <2> QED
    BY <2>1, <2>2
<1>6. /\ batch' \in [BatchID -> BatchRecord]
      /\ \A x \in BatchID : batch'[x].ids = batch[x].ids /\ (x # b => batch'[x] = batch[x])
      /\ batch'[b].stage = "paused"
  <2> DEFINE y == [batch[b] EXCEPT !.stage = "paused", !.linkCause = FALSE, !.rec = None,
                                   !.late = FALSE]
  <2>0. batch[b] \in BatchRecord
    BY <1>0, <1>2
  <2>1. y \in BatchRecord /\ y.ids = batch[b].ids /\ y.stage = "paused"
    BY <2>0 DEF BatchRecord, BatchStages
  <2>2. batch' = [batch EXCEPT ![b] = y]
    BY DEF cancelUpgrade
  <2> HIDE DEF y
  <2> QED
    BY <1>0, <1>2, <2>1, <2>2
<1>7. \A u \in TaskID :
        /\ task'[u].batch = task[u].batch /\ task'[u].attempt = task[u].attempt
        /\ task'[u].node = task[u].node
        /\ task[u].batch # b => task'[u] = task[u]
        /\ task'[u].stage = IF Moves(u) THEN "cancelled" ELSE task[u].stage
  <2> SUFFICES ASSUME NEW u \in TaskID
               PROVE  /\ task'[u].batch = task[u].batch /\ task'[u].attempt = task[u].attempt
                      /\ task'[u].node = task[u].node
                      /\ task[u].batch # b => task'[u] = task[u]
                      /\ task'[u].stage = IF Moves(u) THEN "cancelled" ELSE task[u].stage
    OBVIOUS
  <2>1. task[u] \in TaskRecord
    BY <1>0
  <2>2. CASE Moves(u)
    BY <1>3, <2>1, <2>2 DEF TaskRecord
  <2>3. CASE ~Moves(u)
    BY <1>3, <2>3
  <2> QED
    BY <2>2, <2>3
<1>8. TaskShape(task')
  BY <1>1, <1>4, <1>7 DEF TaskShape
<1>9. Placed(task', batch')
  <2>1. \A x \in BatchID : batch'[x].stage = "none" => batch[x].stage = "none"
    BY <1>6
  <2> QED
    BY <1>1, <1>6, <1>7, <2>1, SamePlaces
<1>10. GateOf(task', batch'[b], b)
  BY <1>6 DEF GateOf
<1>11. Rolling(task', batch') /\ Gate(task', batch')
  <2>1. \A u \in TaskID : /\ task[u].batch # b => task'[u] = task[u]
                          /\ task'[u].batch = task[u].batch
                          /\ task'[u].attempt = task[u].attempt
                          /\ task[u].stage = "succeeded" => task'[u].stage = "succeeded"
    BY <1>7
  <2>2. \A x \in BatchID : batch'[x].ids = batch[x].ids /\ (x # b => batch'[x] = batch[x])
    BY <1>6
  <2> QED
    <3>1. SomeMove(task, task', batch, batch', b)
      BY <1>10, <2>1, <2>2 DEF SomeMove
    <3>2. batch' \in [BatchID -> BatchRecord]
      BY <1>6
    <3> QED
      BY <1>0, <1>1a, <1>2, <1>5, <3>1, <3>2, MoveBatch
<1>12. OneActivePerNode' /\ NoPairingDuringUpgrade'
  <2>1. \A u \in TaskID : activeUpgrade(task'[u].stage) =>
          activeUpgrade(task[u].stage) /\ task'[u].node = task[u].node
    BY <1>4, <1>7
  <2> QED
    BY <1>1, <2>1, NoNewActive DEF IInv
<1>13. TypeOK'
  BY <1>1, <1>5, <1>6 DEF IInv, TypeOK
<1> QED
  BY <1>8, <1>9, <1>11, <1>12, <1>13 DEF IInv

\* A pending task outlives its validity.
LEMMA StepExpires ==
  ASSUME IInv, NEW t \in TaskID, taskExpires(t)
  PROVE  IInv'
<1>0. task \in [TaskID -> TaskRecord] /\ batch \in [BatchID -> BatchRecord]
  BY DEF IInv, TypeOK
<1>1. task' = [task EXCEPT ![t].expired = TRUE] /\ batch' = batch /\ updater' = updater
  BY DEF taskExpires
<1>2. task' \in [TaskID -> TaskRecord]
  <2>1. task[t] \in TaskRecord
    BY <1>0
  <2>2. [task[t] EXCEPT !.expired = TRUE] \in TaskRecord
    BY <2>1 DEF TaskRecord
  <2>3. task' = [task EXCEPT ![t] = [task[t] EXCEPT !.expired = TRUE]]
    BY <1>1
  <2> QED
    BY <1>0, <2>2, <2>3
<1>3. \A u \in TaskID : /\ task'[u].stage = task[u].stage
                        /\ task'[u].node = task[u].node
                        /\ task'[u].batch = task[u].batch
                        /\ task'[u].attempt = task[u].attempt
                        /\ task'[u].baseline = task[u].baseline
                        /\ task[u].heard \subseteq task'[u].heard
  BY <1>0, <1>1 DEF TaskRecord
<1>4. /\ TaskShape(task') /\ Placed(task', batch)
      /\ Rolling(task', batch) /\ Gate(task', batch)
  BY <1>0, <1>3, MoreHeard DEF IInv
<1>5. OneActivePerNode' /\ NoPairingDuringUpgrade'
  BY <1>1, <1>3, NoNewActive DEF IInv
<1>6. TypeOK'
  BY <1>1, <1>2, SizeAssumption DEF IInv, TypeOK, taskExpires, Disturb
<1> QED
  BY <1>1, <1>4, <1>5, <1>6 DEF IInv

\* A local installer registers a manual upgrade.
LEMMA StepManual ==
  ASSUME IInv, NEW r \in authed, NEW t \in ManualID, NEW from \in Version,
         NEW target \in Version, NEW m \in Mode, startManualUpgrade(r, t, from, target, m)
  PROVE  IInv'
<1> DEFINE x == [NoTask EXCEPT !.stage = "running", !.node = r.node, !.attempt = 1,
                               !.mode = m, !.from = from, !.target = target]
<1>0. /\ task \in [TaskID -> TaskRecord] /\ batch \in [BatchID -> BatchRecord]
      /\ t \in TaskID /\ r.node \in Node
  BY ManualAssumption DEF IInv, TypeOK, Request
<1>1. /\ TaskShape(task) /\ Placed(task, batch) /\ Rolling(task, batch) /\ Gate(task, batch)
      /\ task[t].stage = "none"
      /\ ~pairingInProgress(r.node) /\ ~nodeHasActiveUpgrade(r.node)
      /\ task' = [task EXCEPT ![t] = x]
      /\ authed' \subseteq authed
      /\ UNCHANGED <<node, status, route, report, updater, batch, issued, churn>>
  BY DEF IInv, startManualUpgrade
<1>2. /\ x \in TaskRecord /\ x.stage = "running" /\ x.node = r.node
      /\ x.batch = None /\ x.attempt = 1
  BY <1>0, ZenonT(30) DEF NoTask, TaskRecord, Stages, InFlight
<1> HIDE DEF x
<1>3. /\ task' \in [TaskID -> TaskRecord]
      /\ task'[t] = x
      /\ \A u \in TaskID : u # t => task'[u] = task[u]
  BY <1>0, <1>1, <1>2
<1>4. task[t].batch = None
  BY <1>0, <1>1 DEF TaskShape
<1>5. "running" \in InFlight /\ activeUpgrade("running")
  BY DEF InFlight, activeUpgrade
<1>6. TaskShape(task')
  BY <1>0, <1>1, <1>2, <1>3, <1>5, StageFacts DEF TaskShape
<1>7. Placed(task', batch)
  <2>1. \A u \in TaskID : task'[u].batch = task[u].batch
    BY <1>2, <1>3, <1>4
  <2>2. Placed(task, batch)
    BY <1>1
  <2> QED
    BY <2>1, <2>2, SamePlaces
<1>8. None \notin BatchID
  BY NoneAssumption
<1>9. Rolling(task', batch) /\ Gate(task', batch)
  <2>1. \A b \in BatchID : \A i, j \in 1..Len(batch[b].ids) :
          i < j /\ batch[b].ids[j] = t => task[batch[b].ids[i]].stage = "succeeded"
    BY <1>0, <1>1, <1>4, <1>8 DEF Placed
  <2>2. /\ Placed(task, batch) /\ Rolling(task, batch) /\ Gate(task, batch)
        /\ task[t].stage # "succeeded"
        /\ task[t].batch \notin BatchID
        /\ task'[t].batch = task[t].batch
    BY <1>1, <1>2, <1>3, <1>4, <1>8
  <2> QED
    <3>1. OneMoves(task, task', batch, batch, t)
      BY <1>3, <2>1, <2>2 DEF OneMoves
    <3> QED
      BY <1>0, <1>3, <2>2, <3>1, MoveTask
<1>10. OneActivePerNode'
  BY <1>0, <1>1, <1>2, <1>3 DEF IInv, OneActivePerNode, nodeHasActiveUpgrade
<1>11. NoPairingDuringUpgrade'
  BY <1>0, <1>1, <1>2, <1>3 DEF IInv, NoPairingDuringUpgrade, pairingInProgress
<1>12. TypeOK'
  BY <1>1, <1>3 DEF IInv, TypeOK
<1> QED
  BY <1>1, <1>6, <1>7, <1>9, <1>10, <1>11, <1>12 DEF IInv

\* The administrator starts a batch.
LEMMA StepCreate ==
  ASSUME IInv, NEW b \in BatchID, NEW v \in Version, NEW k \in 1..MaxBatchSize,
         NEW tids \in [1..k -> TaskID \ ManualID],
         NEW to \in [{tids[i] : i \in 1..k} -> Node],
         createUpgrade(b, tids, to, v)
  PROVE  IInv'
<1> DEFINE D == DOMAIN to
           y == [NoBatch EXCEPT !.stage = "preparing", !.ids = tids]
<1>0. task \in [TaskID -> TaskRecord] /\ batch \in [BatchID -> BatchRecord]
  BY DEF IInv, TypeOK
<1>1. /\ TaskShape(task) /\ Placed(task, batch) /\ Rolling(task, batch) /\ Gate(task, batch)
      /\ batch[b].stage = "none"
      /\ Injective(tids) /\ Injective(to)
      /\ \A t \in D : task[t].stage = "none" /\ canUpgrade(to[t], v)
      /\ task' = [t \in TaskID |-> IF t \in D THEN newTask(b, to[t], v) ELSE task[t]]
      /\ batch' = [batch EXCEPT ![b] = y]
      /\ UNCHANGED <<node, status, route, report, updater, issued, authed, churn>>
  BY DEF IInv, createUpgrade
<1>2. k \in Nat /\ tids \in Seq(TaskID) /\ Len(tids) = k
  <2>1. k \in Nat
    BY SizeAssumption
  <2> QED
    BY <2>1, LenProperties
<1>3. D \subseteq TaskID /\ \A t \in TaskID : t \in D <=> \E i \in 1..Len(tids) : tids[i] = t
  BY <1>2
<1>4. y \in BatchRecord /\ y.stage = "preparing" /\ y.ids = tids
  BY <1>2 DEF NoBatch, BatchRecord, BatchStages
<1>5. ASSUME NEW t \in D
      PROVE  LET x == newTask(b, to[t], v) IN
             /\ x \in TaskRecord /\ x.stage = "preparing" /\ x.node = to[t]
             /\ x.batch = b /\ x.attempt = 0
             /\ to[t] \in Node
  <2>1. to[t] \in Node
    OBVIOUS
  <2>2. /\ updater[to[t]].mode \in Mode \cup {None}
        /\ status[to[t]] \in Version \cup {None}
        /\ baselineLinks(to[t]) \in SUBSET Link
    BY <2>1 DEF IInv, TypeOK, UpdaterRecord, baselineLinks
  <2> QED
    BY <2>1, <2>2 DEF newTask, NoTask, TaskRecord, Stages
<1> HIDE DEF y, D
<1>6. /\ task' \in [TaskID -> TaskRecord]
      /\ \A t \in TaskID : t \notin D => task'[t] = task[t]
      /\ \A t \in D : /\ task'[t].stage = "preparing" /\ task'[t].node = to[t]
                      /\ task'[t].batch = b /\ task'[t].attempt = 0
  BY <1>0, <1>1, <1>3, <1>5
<1>7. /\ batch' \in [BatchID -> BatchRecord]
      /\ batch'[b] = y
      /\ \A a \in BatchID : a # b => batch'[a] = batch[a]
  BY <1>0, <1>1, <1>4
<1>8. /\ \A t \in D : task[t].batch = None
      /\ None \notin BatchID
      /\ \A t \in TaskID : task[t].batch # b
  <2>1. \A t \in TaskID : task[t].batch # b
    BY <1>1 DEF Placed
  <2> QED
    BY <1>1, <1>3, <2>1, NoneAssumption DEF TaskShape
<1>9. TaskShape(task')
  <2>1. "preparing" \notin InFlight
    BY StageFacts
  <2> QED
    BY <1>1, <1>3, <1>5, <1>6, <1>8, <2>1 DEF TaskShape
<1>10. Placed(task', batch')
  <2> SUFFICES ASSUME NEW a \in BatchID
               PROVE  /\ Injective(batch'[a].ids)
                      /\ batch'[a].stage = "none" => batch'[a].ids = <<>>
                      /\ \A t \in TaskID : task'[t].batch = a <=>
                           \E i \in 1..Len(batch'[a].ids) : batch'[a].ids[i] = t
    BY DEF Placed
  <2>1. CASE a = b
    <3>1. batch'[a].ids = tids /\ batch'[a].stage = "preparing" /\ Injective(tids)
      BY <1>1, <1>4, <1>7, <2>1
    <3>2. \A t \in TaskID : task'[t].batch = a <=> t \in D
      BY <1>6, <1>8, <2>1
    <3> QED
      BY <1>3, <3>1, <3>2
  <2>2. CASE a # b
    <3>1. \A t \in TaskID : task'[t].batch = a <=> task[t].batch = a
      BY <1>3, <1>6, <1>8, <2>2
    <3> QED
      BY <1>1, <1>7, <2>2, <3>1 DEF Placed
  <2> QED
    BY <2>1, <2>2
<1>11. \A a \in BatchID, t \in TaskID : a # b /\ task'[t].batch = a => task'[t] = task[t]
  BY <1>6
<1>12. Rolling(task', batch')
  <2> SUFFICES ASSUME NEW a \in BatchID, NEW i \in 1..Len(batch'[a].ids),
                      NEW j \in 1..Len(batch'[a].ids), i < j, task'[batch'[a].ids[j]].attempt > 0
               PROVE  task'[batch'[a].ids[i]].stage = "succeeded"
    BY DEF Rolling
  <2>0. /\ batch'[a].ids[i] \in TaskID /\ batch'[a].ids[j] \in TaskID
        /\ task'[batch'[a].ids[i]].batch = a /\ task'[batch'[a].ids[j]].batch = a
    BY <1>7, <1>10 DEF BatchRecord, Placed
  <2>1. CASE a = b
    <3>1. \A t \in TaskID : task'[t].batch = b => task'[t].attempt = 0
      BY <1>6, <1>8
    <3> QED
      BY <2>0, <2>1, <3>1
  <2>2. CASE a # b
    <3>1. batch'[a] = batch[a] /\ Rolling(task, batch)
      BY <1>1, <1>7, <2>2
    <3>2. /\ task'[batch'[a].ids[i]] = task[batch'[a].ids[i]]
          /\ task'[batch'[a].ids[j]] = task[batch'[a].ids[j]]
      BY <1>11, <2>0, <2>2
    <3> QED
      BY <3>1, <3>2 DEF Rolling
  <2> QED
    BY <2>1, <2>2
<1>13. Gate(task', batch')
  <2> SUFFICES ASSUME NEW a \in BatchID PROVE GateOf(task', batch'[a], a)
    BY DEF Gate
  <2>1. CASE a = b
    <3>1. \A t \in TaskID : task'[t].batch = b => task'[t].stage = "preparing"
      BY <1>6, <1>8
    <3>2. "preparing" \notin Bad
      BY StageFacts
    <3> QED
      BY <1>4, <1>7, <2>1, <3>1, <3>2 DEF GateOf
  <2>2. CASE a # b
    <3>1. \A t \in TaskID : task'[t].batch = a => task[t].batch = a /\ task'[t] = task[t]
      BY <1>11, <2>2
    <3>2. \A t \in TaskID : task[t].batch = a => task'[t] = task[t]
      BY <1>6, <1>8
    <3>3. GateOf(task, batch[a], a) /\ batch'[a] = batch[a]
      BY <1>1, <1>7, <2>2 DEF Gate
    <3> QED
      BY <3>1, <3>2, <3>3 DEF GateOf
  <2> QED
    BY <2>1, <2>2
<1>14. \A t \in D : /\ ~updater[to[t]].pairing
                    /\ \A u \in TaskID : task[u].node = to[t] => ~activeUpgrade(task[u].stage)
  BY <1>1 DEF canUpgrade, pairingInProgress, nodeHasActiveUpgrade
<1>15. OneActivePerNode'
  <2> SUFFICES ASSUME NEW t \in TaskID, NEW u \in TaskID,
                      activeUpgrade(task'[t].stage), activeUpgrade(task'[u].stage),
                      task'[t].node = task'[u].node
               PROVE  t = u
    BY DEF OneActivePerNode
  <2>1. CASE t \in D /\ u \in D
    <3>1. to[t] = to[u] /\ Injective(to)
      BY <1>1, <1>6, <2>1, ZenonT(30)
    <3> QED
      BY <2>1, <3>1 DEF Injective, D
  <2>2. CASE ~(t \in D /\ u \in D)
    BY <1>6, <1>14, <2>2 DEF IInv, OneActivePerNode
  <2> QED
    BY <2>1, <2>2
<1>16. NoPairingDuringUpgrade'
  <2>1. updater' = updater /\ NoPairingDuringUpgrade
    BY <1>1 DEF IInv
  <2> QED
    BY <1>6, <1>14, <2>1 DEF NoPairingDuringUpgrade
<1>17. TypeOK'
  BY <1>1, <1>6, <1>7 DEF IInv, TypeOK
<1> QED
  BY <1>9, <1>10, <1>12, <1>13, <1>15, <1>16, <1>17 DEF IInv

-----------------------------------------------------------------------------
(* The invariant and what follows from it                                  *)

\* The Controller starts with no updater, task or batch.
LEMMA InitInv == Init => IInv
<1> SUFFICES ASSUME Init PROVE IInv
  OBVIOUS
<1>1. /\ NoTask \in TaskRecord /\ NoTask.stage = "none" /\ NoTask.attempt = 0
      /\ NoTask.batch = None
  BY DEF NoTask, TaskRecord, Stages
<1>2. NoBatch \in BatchRecord /\ NoBatch.stage = "none" /\ NoBatch.ids = <<>>
  BY DEF NoBatch, BatchRecord, BatchStages
<1>3. NoUpdater \in UpdaterRecord
  BY DEF NoUpdater, UpdaterRecord
<1>4. TypeOK
  BY <1>1, <1>2, <1>3, SizeAssumption DEF Init, TypeOK, RouteStates
<1>5. \A t \in TaskID : task[t] = NoTask /\ ~activeUpgrade(task[t].stage)
  BY <1>1, StageFacts DEF Init, activeUpgrade
<1>6. \A b \in BatchID : batch[b] = NoBatch
  BY DEF Init
<1>7. OneActivePerNode /\ NoPairingDuringUpgrade
  BY <1>5 DEF OneActivePerNode, NoPairingDuringUpgrade
<1>8. TaskShape(task)
  BY <1>1, <1>5, StageFacts DEF TaskShape, Terminal, Outcomes
<1>9. Placed(task, batch)
  BY <1>1, <1>2, <1>5, <1>6, NoneAssumption DEF Placed, Injective
<1>10. Rolling(task, batch)
  BY <1>2, <1>6 DEF Rolling
<1>11. Gate(task, batch)
  BY <1>1, <1>2, <1>5, <1>6, NoneAssumption DEF Gate, GateOf
<1> QED
  BY <1>4, <1>7, <1>8, <1>9, <1>10, <1>11 DEF IInv

\* Every handler, node report and lapse preserves the invariant.
LEMMA NextInv == IInv /\ [Next]_vars => IInv'
<1> SUFFICES ASSUME IInv, [Next]_vars PROVE IInv'
  OBVIOUS
<1>1. CASE Admin
  BY <1>1, StepNoTasks, StepCreate, StepCancel, StepResume DEF Admin
<1>2. CASE Prepare
  BY <1>2, StepPrepare DEF Prepare
<1>3. CASE Host
  BY <1>3, StepNoTasks
<1>4. CASE UpdaterAPI
  BY <1>4, StepNoTasks, StepHeartbeat, StepTask, StepReport, StepManual DEF UpdaterAPI
<1>5. CASE NodeReport
  BY <1>5, StepNodeStatus DEF NodeReport
<1>6. CASE Time
  BY <1>6, StepNoTasks, StepExpires, StepDeadline DEF Time
<1>7. CASE UNCHANGED vars
  <2>1. task' = task /\ batch' = batch /\ updater' = updater
    BY <1>7 DEF vars
  <2>2. TypeOK'
    BY <1>7 DEF IInv, TypeOK, vars
  <2>3. NoPairingDuringUpgrade'
    BY <2>1 DEF IInv, NoPairingDuringUpgrade
  <2> QED
    BY <2>1, <2>2, <2>3, SameTasks
<1> QED
  BY <1>1, <1>2, <1>3, <1>4, <1>5, <1>6, <1>7 DEF Next

\* The inductive invariant holds in every reachable state of the Controller's
\* upgrade handlers, for any nodes, tasks, batches and Links.
THEOREM Invariant == Spec => []IInv
BY InitInv, NextInv, PTL DEF Spec

\* The state keeps its shape under every handler.
THEOREM TypeCorrect == Spec => []TypeOK
<1>1. IInv => TypeOK
  BY DEF IInv
<1> QED
  BY <1>1, Invariant, PTL

\* No interleaving of batches, manual upgrades, enrolments and late requests
\* gives a node two active upgrades (createUpgrade, startManualUpgrade).
THEOREM OneActive == Spec => []OneActivePerNode
<1>1. IInv => OneActivePerNode
  BY DEF IInv
<1> QED
  BY <1>1, Invariant, PTL

\* A pairing is never open on a node that is being upgraded (pairUpdater,
\* createUpgrade, startManualUpgrade).
THEOREM NoPairing == Spec => []NoPairingDuringUpgrade
<1>1. IInv => NoPairingDuringUpgrade
  BY DEF IInv
<1> QED
  BY <1>1, Invariant, PTL

\* A batch upgrades its nodes strictly one after the other (updaterTask).
THEOREM Rolls == Spec => []RollingOrder
<1>1. IInv => RollingOrder
  BY DEF IInv, Rolling, RollingOrder
<1> QED
  BY <1>1, Invariant, PTL

\* A batch with a failed, cancelled or expired task is halted for good
\* (updaterReport, cancelUpgrade, updaterTask, upgradeResumeTaskID).
THEOREM Halted == Spec => []HaltedBatchStays
<1>1. IInv => HaltedBatchStays
  <2> SUFFICES ASSUME IInv, NEW b \in BatchID, NEW t \in Members(b),
                      task[t].stage \in Failures \cup {"cancelled", "expired"}
               PROVE  batch[b].stage \in {"paused", "failed"} /\ ~resumable(b)
    BY DEF HaltedBatchStays
  <2>1. batch[b] \in BatchRecord
    BY DEF IInv, TypeOK
  <2>2. PICK i \in 1..Len(batch[b].ids) : batch[b].ids[i] = t
    BY DEF Members
  <2>3. t \in TaskID
    BY <2>1, <2>2 DEF BatchRecord
  <2>4. task[t].batch = b
    BY <2>2, <2>3 DEF IInv, Placed
  <2>5. batch[b].stage \in {"paused", "failed"}
    BY <2>3, <2>4 DEF IInv, Gate, GateOf, Bad
  <2>6. task[t].stage \notin {"succeeded", "pending"}
    BY DEF Failures
  <2>7. \A k \in 1..Len(batch[b].ids) : i \in 1..k \/ i \in (k + 1)..Len(batch[b].ids)
    BY <2>1, <2>2 DEF BatchRecord
  <2>8. ~resumable(b)
    BY <2>2, <2>6, <2>7 DEF resumable
  <2> QED
    BY <2>5, <2>8
<1> QED
  BY <1>1, Invariant, PTL

\* A batch goes on only when the Links of the upgraded nodes were confirmed by
\* both ends after the upgrade (reconcileUpgradeRecovery, resumeUpgrade).
THEOREM Recovered == Spec => []RecoveredBeforeNext
<1>1. IInv => RecoveredBeforeNext
  <2> SUFFICES ASSUME IInv, NEW b \in BatchID, NEW t \in Members(b),
                      batch[b].stage \in {"running", "succeeded"}, task[t].stage = "succeeded"
               PROVE  Confirmed(task[t])
    BY DEF RecoveredBeforeNext, Confirmed
  <2>1. batch[b] \in BatchRecord
    BY DEF IInv, TypeOK
  <2>2. PICK i \in 1..Len(batch[b].ids) : batch[b].ids[i] = t
    BY DEF Members
  <2>3. t \in TaskID
    BY <2>1, <2>2 DEF BatchRecord
  <2>4. task[t].batch = b
    BY <2>2, <2>3 DEF IInv, Placed
  <2> QED
    BY <2>3, <2>4 DEF IInv, Gate, GateOf
<1> QED
  BY <1>1, Invariant, PTL

\* An outcome is final, whatever reports and polls arrive late or twice
\* (updaterReport, updaterTask, cancelUpgrade, prepareUpgradeBatch).
THEOREM Final == Spec => OutcomeFinal
<1> DEFINE A == \A t \in TaskID : task[t].stage \in Terminal => task'[t].stage = task[t].stage
<1>1. IInv /\ [Next]_vars => [A]_vars
  <2> SUFFICES ASSUME IInv, Next, NEW t \in TaskID, task[t].stage \in Terminal
               PROVE  task'[t].stage = task[t].stage
    BY DEF vars
  <2>1. /\ task \in [TaskID -> TaskRecord]
        /\ task[t].stage \notin InFlight \cup {"none", "preparing", "pending"}
    BY StageFacts DEF IInv, TypeOK
  <2>2. CASE task' = task
    BY <2>2
  <2>3. ASSUME NEW b \in BatchID, NEW v \in Version, NEW k \in 1..MaxBatchSize,
               NEW tids \in [1..k -> TaskID \ ManualID],
               NEW to \in [{tids[i] : i \in 1..k} -> Node],
               createUpgrade(b, tids, to, v)
        PROVE  task'[t].stage = task[t].stage
    <3>1. t \notin DOMAIN to
      BY <2>1, <2>3 DEF createUpgrade
    <3> QED
      BY <2>3, <3>1 DEF createUpgrade
  <2>4. ASSUME NEW x \in TaskID, cancelUpgrade(x) PROVE task'[t].stage = task[t].stage
    BY <2>1, <2>4 DEF cancelUpgrade
  <2>5. CASE Prepare
    BY <2>1, <2>5 DEF Prepare, prepareUpgradeBatch
  <2>6. ASSUME NEW r \in authed, updaterTask(r) PROVE task'[t].stage = task[t].stage
    BY <2>1, <2>6 DEF updaterTask, claimable
  <2>7. ASSUME NEW r \in authed, NEW x \in TaskID, NEW s, NEW a, updaterReport(r, x, s, a)
        PROVE  task'[t].stage = task[t].stage
    BY <2>1, <2>7 DEF updaterReport, acceptsReport
  <2>8. ASSUME NEW r \in authed, NEW x \in ManualID, NEW from, NEW target, NEW m,
               startManualUpgrade(r, x, from, target, m)
        PROVE  task'[t].stage = task[t].stage
    BY <2>1, <2>8, ManualAssumption DEF startManualUpgrade
  <2>9. CASE NodeReport
    <3>1. PICK n, v, news : nodeStatus(n, v, news)
      BY <2>9 DEF NodeReport
    <3>2. task[t] \in TaskRecord
      BY <2>1
    <3>3. \/ task'[t] = task[t]
          \/ task'[t] = [task[t] EXCEPT !.heard = @ \cup
                           {le \in DOMAIN news : le[1] \in task[t].baseline}]
      BY <3>1 DEF nodeStatus
    <3> QED
      BY <3>2, <3>3 DEF TaskRecord
  <2>10. ASSUME NEW x \in TaskID, taskExpires(x) PROVE task'[t].stage = task[t].stage
    BY <2>1, <2>10 DEF taskExpires
  <2>11. CASE Admin
    BY <2>2, <2>3, <2>4, <2>11 DEF Admin, pairUpdater, toggleNode, deleteNode, changeRoute,
         resumeUpgrade
  <2>12. CASE Host
    BY <2>2, <2>12 DEF Host, enroll, updaterPair, authenticateUpdater
  <2>13. CASE UpdaterAPI
    BY <2>2, <2>6, <2>7, <2>8, <2>13 DEF UpdaterAPI, dropRequest, updaterHeartbeat
  <2>14. CASE Time
    BY <2>2, <2>10, <2>14 DEF Time, heartbeatLapses, pairingExpires, statusLapses, reportLapses,
         deadlinePasses
  <2> QED
    BY <2>5, <2>9, <2>11, <2>12, <2>13, <2>14 DEF Next
<1> QED
  BY <1>1, Invariant, PTL DEF Spec, OutcomeFinal

\* The helper that runs an upgrade keeps its credential until the upgrade is
\* over (authenticateUpdater, enroll, deleteGateway, deleteAgent).
THEOREM Credential == Spec => CredentialStable
<1> DEFINE A == \A n \in Node : nodeHasActiveUpgrade(n) => updater'[n].cred = updater[n].cred
<1>1. IInv /\ [Next]_vars => [A]_vars
  <2> SUFFICES ASSUME IInv, Next, NEW n \in Node, nodeHasActiveUpgrade(n)
               PROVE  updater'[n].cred = updater[n].cred
    BY DEF vars
  <2>1. /\ updater \in [Node -> UpdaterRecord]
        /\ ~updater[n].pairing
    BY DEF IInv, TypeOK, NoPairingDuringUpgrade, nodeHasActiveUpgrade
  <2>2. CASE updater' = updater
    BY <2>2
  <2>3. ASSUME NEW x \in Node, pairUpdater(x) \/ heartbeatLapses(x) \/ pairingExpires(x)
        PROVE  updater'[n].cred = updater[n].cred
    BY <2>1, <2>3 DEF pairUpdater, heartbeatLapses, pairingExpires, UpdaterRecord
  <2>4. ASSUME NEW x \in Node, deleteNode(x) PROVE updater'[n].cred = updater[n].cred
    BY <2>1, <2>4 DEF deleteNode
  <2>5. CASE Host
    <3>1. PICK x \in Node, c \in Cred :
            \/ \E want \in BOOLEAN : enroll(x, c, want)
            \/ updaterPair(x, c)
            \/ authenticateUpdater(x, c)
      BY <2>5 DEF Host
    <3>2. CASE \E want \in BOOLEAN : enroll(x, c, want)
      BY <2>1, <3>2 DEF enroll
    <3>3. CASE updaterPair(x, c)
      BY <2>1, <3>3 DEF updaterPair, UpdaterRecord
    <3>4. CASE authenticateUpdater(x, c)
      BY <2>1, <3>4 DEF authenticateUpdater, pairingInProgress
    <3> QED
      BY <3>1, <3>2, <3>3, <3>4
  <2>6. ASSUME NEW r \in authed, NEW m \in Mode, updaterHeartbeat(r, m)
        PROVE  updater'[n].cred = updater[n].cred
    BY <2>1, <2>6 DEF updaterHeartbeat, UpdaterRecord
  <2>7. CASE Admin
    BY <2>2, <2>3, <2>4, <2>7 DEF Admin, toggleNode, changeRoute, createUpgrade, cancelUpgrade,
         resumeUpgrade
  <2>8. CASE Prepare \/ NodeReport
    BY <2>2, <2>8 DEF Prepare, prepareUpgradeBatch, NodeReport, nodeStatus
  <2>9. CASE UpdaterAPI
    <3>1. PICK r \in authed :
            \/ dropRequest(r)
            \/ \E m \in Mode : updaterHeartbeat(r, m)
            \/ updaterTask(r)
            \/ \E t, s, a : updaterReport(r, t, s, a)
            \/ \E t, from, target, m : startManualUpgrade(r, t, from, target, m)
      BY <2>9 DEF UpdaterAPI
    <3>2. updater' = updater \/ \E m \in Mode : updaterHeartbeat(r, m)
      BY <3>1 DEF dropRequest, updaterTask, updaterReport, startManualUpgrade
    <3> QED
      BY <2>2, <2>6, <3>2
  <2>10. CASE Time
    BY <2>2, <2>3, <2>10 DEF Time, statusLapses, reportLapses, taskExpires, deadlinePasses
  <2> QED
    BY <2>5, <2>7, <2>8, <2>9, <2>10 DEF Next
<1> QED
  BY <1>1, Invariant, PTL DEF Spec, CredentialStable

-----------------------------------------------------------------------------
(* The refinement.                                                         *)

\* What a helper sees of a task record.
SeenStage(tk) == IF tk.stage \in {"preparing", "pending"} THEN "waiting" ELSE tk.stage

\* The entries of the ledger, field by field.
LEMMA EntryFacts ==
  \A t \in TaskID : /\ ledgerOf[t].stage = SeenStage(task[t])
                    /\ ledgerOf[t].node = task[t].node
                    /\ ledgerOf[t].from = task[t].from
                    /\ ledgerOf[t].target = task[t].target
BY DEF ledgerOf, SeenStage

\* A step that leaves every task's stage, node and versions alone, as reports of
\* nodes and the passing of time do, is no step of the ledger.
LEMMA Stutter ==
  ASSUME \A t \in TaskID : /\ SeenStage(task'[t]) = SeenStage(task[t])
                           /\ task'[t].node = task[t].node
                           /\ task'[t].from = task[t].from
                           /\ task'[t].target = task[t].target
  PROVE  ledgerOf' = ledgerOf
BY DEF ledgerOf, SeenStage

\* The stages as the two modules name them.
LEMMA SeenFacts ==
  ASSUME NEW t \in TaskID, task \in [TaskID -> TaskRecord]
  PROVE  /\ ledgerOf[t].stage = "none" <=> task[t].stage = "none"
         /\ ledgerOf[t].stage = "waiting" <=> task[t].stage \in {"preparing", "pending"}
         /\ ledgerOf[t].stage \in Ledger!InFlight <=> task[t].stage \in InFlight
         /\ ledgerOf[t].stage \in Ledger!Opened <=> activeUpgrade(task[t].stage)
<1>1. task[t].stage \in Stages
  BY DEF TaskRecord
<1>2. ledgerOf[t].stage = SeenStage(task[t])
  BY EntryFacts
<1> QED
  BY <1>1, <1>2, ProgressAssumption DEF SeenStage, Stages, InFlight, Terminal, Outcomes, Failures,
     activeUpgrade, Ledger!InFlight, Ledger!Opened

\* A node is busy in the ledger exactly when it has an active upgrade.
LEMMA BusyFact ==
  ASSUME NEW n \in Node, task \in [TaskID -> TaskRecord]
  PROVE  Ledger!Busy(n) <=> nodeHasActiveUpgrade(n)
<1>1. \A t \in TaskID : ledgerOf[t].node = task[t].node
  BY EntryFacts
<1> QED
  BY <1>1, SeenFacts DEF Ledger!Busy, nodeHasActiveUpgrade

\* The tasks in S move to stage s and keep their node and versions.
Move(S, s) ==
  \A t \in TaskID : /\ SeenStage(task'[t]) = IF t \in S THEN s ELSE SeenStage(task[t])
                    /\ task'[t].node = task[t].node
                    /\ task'[t].from = task[t].from
                    /\ task'[t].target = task[t].target

\* Then only the stages of their entries change.
LEMMA MovedSet ==
  ASSUME NEW S \in SUBSET TaskID, NEW s, Move(S, s)
  PROVE  ledgerOf' = [t \in TaskID |-> IF t \in S THEN [ledgerOf[t] EXCEPT !.stage = s]
                                                  ELSE ledgerOf[t]]
BY DEF Move, ledgerOf, SeenStage

\* The same for one task.
LEMMA MovedOne ==
  ASSUME NEW t \in TaskID, NEW s, Move({t}, s)
  PROVE  ledgerOf' = [ledgerOf EXCEPT ![t].stage = s]
<1>1. ledgerOf' = [u \in TaskID |-> IF u \in {t} THEN [ledgerOf[u] EXCEPT !.stage = s]
                                                 ELSE ledgerOf[u]]
  BY MovedSet
<1>2. ledgerOf = [u \in TaskID |-> ledgerOf[u]]
  BY DEF ledgerOf
<1> QED
  BY <1>1, <1>2

\* createUpgrade announces the tasks of its batch.
LEMMA CreateAnnounces ==
  ASSUME IInv, NEW b \in BatchID, NEW v \in Version, NEW k \in 1..MaxBatchSize,
         NEW tids \in [1..k -> TaskID \ ManualID],
         NEW to \in [{tids[i] : i \in 1..k} -> Node], createUpgrade(b, tids, to, v)
  PROVE  Ledger!LedgerNext
<1> DEFINE S == DOMAIN to
           new == [t \in S |-> [stage |-> "waiting", node |-> to[t], from |-> status[to[t]],
                                target |-> v]]
<1>1. /\ task \in [TaskID -> TaskRecord]
      /\ status \in [Node -> Version \cup {None}]
  BY DEF IInv, TypeOK
<1>2. S \in SUBSET TaskID
  OBVIOUS
<1>3. \A t \in S : /\ to[t] \in Node
                   /\ task[t].stage = "none"
                   /\ canUpgrade(to[t], v)
  BY DEF createUpgrade
<1>4. \A t \in S : ledgerOf'[t] = [stage |-> "waiting", node |-> to[t], from |-> status[to[t]],
                                   target |-> v]
  <2> TAKE t \in S
  <2>1. task'[t] = newTask(b, to[t], v)
    BY <1>2 DEF createUpgrade
  <2>2. /\ task'[t].stage = "preparing" /\ task'[t].node = to[t]
        /\ task'[t].from = status[to[t]] /\ task'[t].target = v
    BY <2>1 DEF newTask, NoTask
  <2> QED
    BY <1>2, <2>2 DEF ledgerOf
<1> HIDE DEF S, new
<1>5. ASSUME NEW t \in S
      PROVE  /\ ledgerOf[t].stage = "none"
             /\ new[t].stage = "waiting"
             /\ Ledger!Openable(new[t])
             /\ \A u \in S : new[u].node = new[t].node => u = t
  <2>1. ledgerOf[t].stage = "none"
    BY <1>1, <1>2, <1>3, SeenFacts
  <2>2. ~Ledger!Busy(to[t])
    BY <1>1, <1>3, BusyFact DEF canUpgrade
  <2>3. status[to[t]] \in Version /\ status[to[t]] # v
    BY <1>1, <1>3 DEF canUpgrade
  <2>4. Ledger!Openable(new[t])
    BY <1>3, <2>2, <2>3 DEF Ledger!Openable, new
  <2>5. \A u \in S : new[u].node = new[t].node => u = t
    BY DEF createUpgrade, Injective, S, new
  <2> QED
    BY <2>1, <2>4, <2>5 DEF new
<1>6. ledgerOf' = [t \in TaskID |-> IF t \in S THEN new[t] ELSE ledgerOf[t]]
  <2>1. \A t \in TaskID \ S : task'[t] = task[t]
    BY DEF createUpgrade, S
  <2>2. \A t \in TaskID \ S : ledgerOf'[t] = ledgerOf[t]
    BY <2>1 DEF ledgerOf
  <2>3. ledgerOf' = [t \in TaskID |-> ledgerOf'[t]]
    BY DEF ledgerOf
  <2>4. \A t \in TaskID : ledgerOf'[t] = IF t \in S THEN new[t] ELSE ledgerOf[t]
    BY <1>4, <2>2 DEF new
  <2> QED
    BY <2>3, <2>4
<1>7. Ledger!Announce(new)
  <2>1. DOMAIN new = S
    BY DEF new
  <2> QED
    BY <1>5, <1>6, <2>1 DEF Ledger!Announce
<1>8. new = [t \in S |-> ledgerOf'[t]]
  BY <1>4 DEF new
<1> QED
  BY <1>2, <1>7, <1>8, ZenonT(30) DEF Ledger!LedgerNext

\* A withdrawal of unclaimed tasks is a step of the ledger.
LEMMA Withdraws ==
  ASSUME task \in [TaskID -> TaskRecord], NEW S \in SUBSET TaskID,
         NEW s \in {"cancelled", "expired", "failed"},
         \A t \in S : task[t].stage \in {"preparing", "pending"}, Move(S, s)
  PROVE  Ledger!LedgerNext
<1>1. \A t \in S : ledgerOf[t].stage = "waiting"
  BY SeenFacts
<1>2. Ledger!Withdraw(S, s)
  BY <1>1, MovedSet DEF Ledger!Withdraw
<1> QED
  BY <1>2 DEF Ledger!LedgerNext, Ledger!Withdrawn

\* prepareUpgradeBatch changes nothing a helper sees, or withdraws the batch.
LEMMA PrepareWithdraws ==
  ASSUME IInv, NEW b \in BatchID, NEW ok \in BOOLEAN, prepareUpgradeBatch(b, ok)
  PROVE  [Ledger!LedgerNext]_ledgerOf
<1> DEFINE S == {t \in TaskID : t \in Members(b) /\ task[t].stage = "preparing"}
<1>1. task \in [TaskID -> TaskRecord]
  BY DEF IInv, TypeOK
<1>2. \A t \in TaskID : task'[t] = IF t \in S
                                     THEN [task[t] EXCEPT !.stage = IF ok THEN "pending" ELSE "failed"]
                                     ELSE task[t]
  BY DEF prepareUpgradeBatch
<1>3. \A t \in S : task[t].stage = "preparing"
  OBVIOUS
<1>4. S \in SUBSET TaskID
  OBVIOUS
<1> HIDE DEF S
<1>5. CASE ok
  <2>1. Move({}, "waiting")
    BY <1>1, <1>2, <1>3, <1>5, ZenonT(30) DEF Move, SeenStage, TaskRecord
  <2> QED
    BY <2>1, Stutter DEF Move
<1>6. CASE ~ok
  <2>1. Move(S, "failed")
    BY <1>1, <1>2, <1>6, ZenonT(30) DEF Move, SeenStage, TaskRecord
  <2> QED
    BY <1>1, <1>3, <1>4, <2>1, Withdraws
<1> QED
  BY <1>5, <1>6

\* cancelUpgrade withdraws what is left of the batch.
LEMMA CancelWithdraws ==
  ASSUME IInv, NEW x \in TaskID, cancelUpgrade(x)
  PROVE  Ledger!LedgerNext
<1> DEFINE S == {t \in TaskID : t \in Members(task[x].batch)
                                /\ task[t].stage \in {"pending", "preparing"}}
<1>1. task \in [TaskID -> TaskRecord]
  BY DEF IInv, TypeOK
<1>2. \A t \in TaskID : task'[t] = IF t \in S THEN [task[t] EXCEPT !.stage = "cancelled"]
                                              ELSE task[t]
  BY DEF cancelUpgrade
<1>3. S \in SUBSET TaskID /\ \A t \in S : task[t].stage \in {"preparing", "pending"}
  OBVIOUS
<1> HIDE DEF S
<1>4. Move(S, "cancelled")
  BY <1>1, <1>2, ZenonT(30) DEF Move, SeenStage, TaskRecord
<1> QED
  BY <1>1, <1>3, <1>4, Withdraws

\* updaterTask claims a task, lets one expire, or answers what is known.
LEMMA TaskClaims ==
  ASSUME IInv, NEW r \in authed, updaterTask(r)
  PROVE  [Ledger!LedgerNext]_ledgerOf
<1>1. task \in [TaskID -> TaskRecord]
  BY DEF IInv, TypeOK
<1>2. CASE task' = task
  BY <1>2, Stutter
<1>3. ASSUME NEW t \in TaskID, task[t].stage = "pending",
             task' = [task EXCEPT ![t].stage = "running", ![t].attempt = @ + 1]
      PROVE  Ledger!LedgerNext
  <2>1. Move({t}, "running")
    BY <1>1, <1>3 DEF Move, SeenStage, TaskRecord
  <2>2. ledgerOf[t].stage = "waiting"
    BY <1>1, <1>3, SeenFacts
  <2>3. Ledger!Claim(t)
    BY <2>1, <2>2, MovedOne DEF Ledger!Claim
  <2> QED
    BY <2>3 DEF Ledger!LedgerNext
<1>4. ASSUME NEW t \in TaskID, task[t].stage = "pending",
             task' = [task EXCEPT ![t].stage = "expired"]
      PROVE  Ledger!LedgerNext
  <2>1. Move({t}, "expired")
    BY <1>1, <1>4 DEF Move, SeenStage, TaskRecord
  <2>2. {t} \in SUBSET TaskID /\ \A u \in {t} : task[u].stage \in {"preparing", "pending"}
    BY <1>4
  <2> QED
    BY <1>1, <2>1, <2>2, Withdraws
<1>5. \/ task' = task
      \/ \E t \in TaskID : /\ task[t].stage = "pending"
                           /\ task' = [task EXCEPT ![t].stage = "running", ![t].attempt = @ + 1]
      \/ \E t \in TaskID : /\ task[t].stage = "pending"
                           /\ task' = [task EXCEPT ![t].stage = "expired"]
  BY DEF updaterTask, claimable
<1> QED
  BY <1>2, <1>3, <1>4, <1>5

\* updaterReport moves a task in flight.
LEMMA ReportReports ==
  ASSUME IInv, NEW r \in authed, NEW t \in TaskID, NEW s \in Progress \cup Outcomes, NEW a,
         updaterReport(r, t, s, a)
  PROVE  Ledger!LedgerNext
<1>1. task \in [TaskID -> TaskRecord]
  BY DEF IInv, TypeOK
<1>2. s \notin {"preparing", "pending"} /\ s \in Progress \cup Ledger!Outcomes
  BY ProgressAssumption DEF Outcomes, Failures, Ledger!Outcomes, Ledger!Failures
<1>3. /\ task[t].stage \in InFlight
      /\ task' = [task EXCEPT ![t].stage = s, ![t].heard = {}]
  BY DEF updaterReport, acceptsReport
<1>4. Move({t}, s)
  BY <1>1, <1>2, <1>3 DEF Move, SeenStage, TaskRecord
<1>5. ledgerOf[t].stage \in Ledger!InFlight
  BY <1>1, <1>3, SeenFacts
<1>6. Ledger!Report(t, s)
  BY <1>4, <1>5, MovedOne DEF Ledger!Report
<1> QED
  BY <1>2, <1>6 DEF Ledger!LedgerNext

\* startManualUpgrade registers the task of a local installer.
LEMMA ManualRegisters ==
  ASSUME IInv, NEW r \in authed, NEW t \in ManualID, NEW from \in Version,
         NEW target \in Version, NEW m, startManualUpgrade(r, t, from, target, m)
  PROVE  Ledger!LedgerNext
<1> DEFINE e == [stage |-> "running", node |-> r.node, from |-> from, target |-> target]
<1>1. /\ task \in [TaskID -> TaskRecord]
      /\ t \in TaskID
      /\ r.node \in Node
  BY ManualAssumption DEF IInv, TypeOK, Request
<1>2. /\ task'[t].stage = "running" /\ task'[t].node = r.node
      /\ task'[t].from = from /\ task'[t].target = target
  BY <1>1 DEF startManualUpgrade, NoTask
<1>3. \A u \in TaskID \ {t} : task'[u] = task[u]
  BY <1>1 DEF startManualUpgrade
<1>4. ledgerOf'[t] = e
  BY <1>1, <1>2, ZenonT(30) DEF ledgerOf
<1> HIDE DEF e
<1>5. ledgerOf' = [ledgerOf EXCEPT ![t] = e]
  BY <1>1, <1>3, <1>4 DEF ledgerOf
<1>6. ledgerOf[t].stage = "none"
  BY <1>1, SeenFacts DEF startManualUpgrade
<1>7. ~Ledger!Busy(r.node)
  BY <1>1, BusyFact DEF startManualUpgrade
<1>8. e.stage = "running" /\ Ledger!Openable(e)
  BY <1>1, <1>7 DEF e, Ledger!Openable, startManualUpgrade
<1>9. Ledger!Register(t, e)
  BY <1>5, <1>6, <1>8 DEF Ledger!Register
<1> QED
  BY <1>1, <1>4, <1>9 DEF Ledger!LedgerNext

\* A report of a node and the expiry of a task are not seen by helpers.
LEMMA ReportUnseen ==
  ASSUME IInv, NodeReport \/ \E t \in TaskID : taskExpires(t)
  PROVE  ledgerOf' = ledgerOf
<1>1. task \in [TaskID -> TaskRecord]
  BY DEF IInv, TypeOK
<1>2. CASE NodeReport
  <2>1. PICK n, v, news : nodeStatus(n, v, news)
    BY <1>2 DEF NodeReport
  <2>2. \A u \in TaskID : \/ task'[u] = task[u]
                          \/ task'[u] = [task[u] EXCEPT !.heard = @ \cup
                                           {le \in DOMAIN news : le[1] \in task[u].baseline}]
    BY <2>1 DEF nodeStatus
  <2>3. ASSUME NEW u \in TaskID
        PROVE  /\ task'[u].stage = task[u].stage /\ task'[u].node = task[u].node
               /\ task'[u].from = task[u].from /\ task'[u].target = task[u].target
    <3>1. task[u] \in TaskRecord
      BY <1>1
    <3> QED
      BY <2>2, <3>1 DEF TaskRecord
  <2> QED
    BY <2>3, Stutter DEF SeenStage
<1>3. CASE \E t \in TaskID : taskExpires(t)
  <2>1. Move({}, "waiting")
    BY <1>1, <1>3 DEF taskExpires, Move, SeenStage, TaskRecord
  <2> QED
    BY <2>1, Stutter DEF Move
<1> QED
  BY <1>2, <1>3

\* Every step of the Controller is a step of the ledger or none.
LEMMA StepLedger == IInv /\ [Next]_vars => [Ledger!LedgerNext]_ledgerOf
<1> SUFFICES ASSUME IInv, [Next]_vars PROVE [Ledger!LedgerNext]_ledgerOf
  OBVIOUS
<1>1. CASE task' = task
  BY <1>1, Stutter
<1>2. CASE Admin
  BY <1>1, <1>2, CreateAnnounces, CancelWithdraws DEF Admin, pairUpdater, toggleNode, deleteNode,
     changeRoute, resumeUpgrade
<1>3. CASE Prepare
  BY <1>3, PrepareWithdraws DEF Prepare
<1>4. CASE Host
  BY <1>1, <1>4 DEF Host, enroll, updaterPair, authenticateUpdater
<1>5. CASE UpdaterAPI
  BY <1>1, <1>5, TaskClaims, ReportReports, ManualRegisters DEF UpdaterAPI, dropRequest,
     updaterHeartbeat
<1>6. CASE NodeReport
  BY <1>6, ReportUnseen
<1>7. CASE Time
  BY <1>1, <1>7, ReportUnseen, ZenonT(30) DEF Time, heartbeatLapses, pairingExpires, statusLapses,
     reportLapses, deadlinePasses
<1>8. CASE UNCHANGED vars
  BY <1>1, <1>8 DEF vars
<1> QED
  BY <1>2, <1>3, <1>4, <1>5, <1>6, <1>7, <1>8 DEF Next

\* Whatever batches, manual upgrades, polls, reports and cancellations do, helpers
\* see the ledger that NodeUpdater is built on (node_upgrades.go).
THEOREM Implements == Spec => ImplementsLedger
<1>1. Init => Ledger!LedgerInit
  BY DEF Init, NoTask, ledgerOf, Ledger!LedgerInit, Ledger!NoEntry
<1> QED
  BY <1>1, StepLedger, Invariant, PTL DEF Spec, ImplementsLedger, Ledger!LedgerSpec

=============================================================================
