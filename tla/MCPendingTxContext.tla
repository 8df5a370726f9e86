------------------------- MODULE MCPendingTxContext -------------------------
(***************************************************************************)
(* Model-checking instance of PendingTxContext.                            *)
(***************************************************************************)
EXTENDS PendingTxContext
=============================================================================
