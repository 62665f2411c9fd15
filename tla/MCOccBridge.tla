---------------------------- MODULE MCOccBridge ----------------------------
(* One fingerprint and three shapes: one kept, one swept, one made again.  *)
EXTENDS OccBridge
============================================================================
