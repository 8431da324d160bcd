----------------------------- MODULE MCMsgBridge -----------------------------
(***************************************************************************)
(* Instances of MsgBridge for TLC: the capacities per pipe, 8 and 16 in    *)
(* the code, are cut down so that a few events fill the queues.            *)
(***************************************************************************)
EXTENDS MsgBridge, TLC

CONSTANTS intr, bulk

MCReadySize == (intr :> 2) @@ (bulk :> 1)
MCPendingSize == (intr :> 1) @@ (bulk :> 2)
==============================================================================
