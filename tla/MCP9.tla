-------------------------------- MODULE MCP9 --------------------------------
(***************************************************************************)
(* A queue of four descriptors, two chains: a request that timed out and   *)
(* the next one fill it.  Two calls after p9_init; ring indices wrap.      *)
(***************************************************************************)
EXTENDS P9
=============================================================================
