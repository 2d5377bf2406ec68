--------------------------- MODULE MCNodeUpgrades ---------------------------
(* Instances of NodeUpgrades for TLC.                                      *)
EXTENDS NodeUpgradesLedger, TLC

CONSTANTS gw, ag

\* One Link between the Gateway gw and the Agent ag.
OneLink == [l \in {"link"} |-> [e \in End |-> IF e = "gateway" THEN gw ELSE ag]]

NoLinks == [l \in {} |-> [e \in End |-> gw]]

\* Identifiers, credentials and versions are only compared with each other.
Symmetry == Permutations(TaskID \ ManualID) \cup Permutations(ManualID)
              \cup Permutations(Cred) \cup Permutations(Version)

\* The same without SYMMETRY, which liveness does not admit: numbers for identifiers,
\* credentials and versions, taken in their order.  Each behaviour left out becomes
\* one of those kept when identifiers are renamed; no step that fairness is about
\* is left out.
InOrder ==
  /\ \A c \in issued' \ issued : \A d \in Cred \ issued' : c < d
  /\ \A t \in TaskID : task[t] = NoTask /\ task'[t] # NoTask =>
       /\ \A u \in TaskID : task'[u] = NoTask => t < u
       /\ \A v \in Version : v <= task'[t].target
  /\ \A b \in BatchID : \A i, j \in 1..Len(batch'[b].ids) : i < j => batch'[b].ids[i] < batch'[b].ids[j]

\* The disturbance is one of the Link; upgrade_pairing has those of helpers and nodes.
LinkDisturbed == churn' # churn => <<route, report>>' # <<route, report>> /\ node' = node
=============================================================================
