---------------------------- MODULE MCNodeUpdater ---------------------------
(* Instances of NodeUpdater for TLC.                                       *)
EXTENDS NodeUpdater, TLC

AllProgress ==
  {"downloading", "prepared", "switching", "verifying", "uncertain", "rolling_back"}
=============================================================================
