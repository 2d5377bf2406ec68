--------------------------- MODULE MCAgentRuntime ---------------------------
(* Instances of AgentRuntime for TLC.                                      *)
EXTENDS AgentRuntime

CONSTANTS l1, g1, a1, a2, old, new

with(p, D, t, n, gs) == [on |-> TRUE, policy |-> p, links |-> [l \in D |-> [tunnel |-> t, conns |-> n, grants |-> gs]]]

OneLink == with({a1, a2}, {l1}, old, 1, {g1})
Off == [on |-> FALSE, policy |-> {}, links |-> NoLinks]
Start == {OneLink, Off}

\* The Agent disabled; a Link; its tunnel settings, the policy or the grants changed.
Snapshots ==
  {Off, OneLink, with({a1, a2}, {l1}, new, 1, {g1}),
   with({a1}, {l1}, old, 1, {g1}), with({a1, a2}, {l1}, old, 1, {})}
=============================================================================
