------------------------- MODULE NodeUpgradesLedger -------------------------
(***************************************************************************)
(* The Controller's upgrade handlers implement TaskLedger: seen from the   *)
(* helpers, a task that is being prepared is simply waiting.               *)
(***************************************************************************)
EXTENDS NodeUpgrades

ledgerOf ==
  [t \in TaskID |->
     [stage  |-> IF task[t].stage \in {"preparing", "pending"} THEN "waiting"
                                                              ELSE task[t].stage,
      node   |-> task[t].node,
      from   |-> task[t].from,
      target |-> task[t].target]]

Ledger == INSTANCE TaskLedger WITH ledger <- ledgerOf

\* Whatever batches, manual upgrades, polls, reports and cancellations do, a
\* helper sees at most one open task for its node, claimed once, between two
\* different versions that never change, with a final outcome.
ImplementsLedger == Ledger!LedgerSpec
=============================================================================
