--------------------------- MODULE MCWebTransport ---------------------------
(* WebTransport with three requests against a queue of two and two tracked *)
(* invokes: a current socket, a late one and a spare for a foreground      *)
(* reconnect.  No symmetry, since liveness is checked.                     *)
EXTENDS WebTransport
=============================================================================
