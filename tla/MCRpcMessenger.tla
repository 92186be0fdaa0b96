--------------------------- MODULE MCRpcMessenger ---------------------------
(* RpcMessenger with four calls against a pending map of two, so that a    *)
(* call can be dropped while an earlier one waits for the log tail.        *)
EXTENDS RpcMessenger
=============================================================================
