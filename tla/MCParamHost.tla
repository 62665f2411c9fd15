---------------------------- MODULE MCParamHost ----------------------------
(* One parameter with two values.                                          *)
EXTENDS ParamHost

CONSTANTS v1, v2
============================================================================
