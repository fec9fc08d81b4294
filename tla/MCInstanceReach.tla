--------------------------- MODULE MCInstanceReach ---------------------------
(* InstanceReach as TLC checks it: its constants are all given by the cfg.  *)
EXTENDS InstanceReach, TLC
=============================================================================
