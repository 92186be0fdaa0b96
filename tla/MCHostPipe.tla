----------------------------- MODULE MCHostPipe -----------------------------
(* Two invokes and a capabilities query between them, a pending map of     *)
(* two, and frames that the port may cut in two.                           *)
EXTENDS HostPipe
=============================================================================
