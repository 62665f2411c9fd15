-------------------------- MODULE MCRuntimeWorker --------------------------
(* Two programs that share their first operation, so that a scrub from one *)
(* to the other reuses one shape and drops one.                            *)
EXTENDS RuntimeWorker, TLC

CONSTANTS k1, k2, p, q, r

MCKeys == {k1, k2}
MCPrints == {p, q, r}
MCProg == (k1 :> <<p, q>>) @@ (k2 :> <<p, r>>)
============================================================================
