----------------------------- MODULE TaskLedger -----------------------------
(***************************************************************************)
(* What the Controller promises the helpers on the node hosts about        *)
(* upgrade tasks: a task is announced or registered only for a node with   *)
(* no other open task, is claimed once, moves through progress stages as   *)
(* its helper reports, and its outcome is final.                           *)
(*                                                                         *)
(* NodeUpgrades implements this specification (NodeUpgradesLedger);        *)
(* NodeUpdater, the host's side, is built on it.                           *)
(***************************************************************************)
EXTENDS Integers, FiniteSets

CONSTANTS
  Node,      \* the nodes that can be upgraded
  TaskID,    \* task identifiers, never reused
  Version,   \* release versions
  Progress,  \* the progress stages a helper reports
  None       \* no node, no version

VARIABLE ledger  \* [TaskID -> Entry]: what the Controller knows of each task

Failures  == {"rolled_back", "manual_intervention", "failed"}
Outcomes  == {"succeeded"} \cup Failures
Withdrawn == {"cancelled", "expired", "failed"}
InFlight  == {"running"} \cup Progress
Opened    == {"waiting"} \cup InFlight

Entry ==
  [stage: {"none"} \cup Opened \cup Outcomes \cup Withdrawn,
   node: Node \cup {None}, from: Version \cup {None}, target: Version \cup {None}]
NoEntry == [stage |-> "none", node |-> None, from |-> None, target |-> None]

Busy(n) == \E t \in TaskID : ledger[t].node = n /\ ledger[t].stage \in Opened

\* An entry for a task that may be opened now.
Openable(e) ==
  /\ e.node \in Node /\ ~Busy(e.node)
  /\ e.from \in Version /\ e.target \in Version /\ e.from # e.target

LedgerInit == ledger = [t \in TaskID |-> NoEntry]

\* A batch announces the tasks in DOMAIN new, one per node.
Announce(new) ==
  /\ \A t \in DOMAIN new :
       /\ ledger[t].stage = "none"
       /\ new[t].stage = "waiting" /\ Openable(new[t])
       /\ \A u \in DOMAIN new : new[u].node = new[t].node => u = t
  /\ ledger' = [t \in TaskID |-> IF t \in DOMAIN new THEN new[t] ELSE ledger[t]]

\* A local installer registers an upgrade it is about to make.
Register(t, e) ==
  /\ ledger[t].stage = "none"
  /\ e.stage = "running" /\ Openable(e)
  /\ ledger' = [ledger EXCEPT ![t] = e]

Claim(t) ==
  /\ ledger[t].stage = "waiting"
  /\ ledger' = [ledger EXCEPT ![t].stage = "running"]

Report(t, s) ==
  /\ ledger[t].stage \in InFlight
  /\ ledger' = [ledger EXCEPT ![t].stage = s]

\* Tasks nobody claimed are cancelled, expire, or cannot be prepared.
Withdraw(S, s) ==
  /\ \A t \in S : ledger[t].stage = "waiting"
  /\ ledger' = [t \in TaskID |-> IF t \in S THEN [ledger[t] EXCEPT !.stage = s]
                                            ELSE ledger[t]]

LedgerNext ==
  \/ \E S \in SUBSET TaskID :
       \/ Announce([t \in S |-> ledger'[t]])
       \/ \E s \in Withdrawn : Withdraw(S, s)
  \/ \E t \in TaskID :
       \/ Register(t, ledger'[t])
       \/ Claim(t)
       \/ \E s \in Progress \cup Outcomes : Report(t, s)

LedgerSpec == LedgerInit /\ [][LedgerNext]_ledger
=============================================================================
