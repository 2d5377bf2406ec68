---- MODULE MCGatewayXray ----
(* Instances of GatewayXray for TLC. *)
EXTENDS GatewayXray

CONSTANT u1

MCUser == {u1}

\* One disturbance: a failure, a lapse of the lease or a removal of the Gateway.
OneDisturbance == faults' + lapses' + (IF authorized' THEN 0 ELSE 1) <= 1
====
