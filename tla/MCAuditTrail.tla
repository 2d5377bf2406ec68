---------------------------- MODULE MCAuditTrail ----------------------------
(* Instances of AuditTrail for TLC.                                        *)
EXTENDS AuditTrail, TLC

\* Users are interchangeable.
Sym == Permutations(User)

\* A compressed segment takes half of its lines.
Half(n) == (n + 1) \div 2
=============================================================================
