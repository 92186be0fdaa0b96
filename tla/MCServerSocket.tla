--------------------------- MODULE MCServerSocket ---------------------------
(* Three requests against a gate of two, two of which wait for the host    *)
(* when they come from it; a push; a response larger than the hard cap.    *)
(* One request has an ordinary id and result; one the longest id and event *)
(* there can be and a result that does not fit a header; one an id of      *)
(* four-byte characters and a result that is not JSON.                     *)
EXTENDS ServerSocket, TLC

CONSTANTS r1, r2, r3, p1

MCSizeOf == (r1 :> 1) @@ (r2 :> 2) @@ (r3 :> 4) @@ (p1 :> 1)

Id(units, bytes) == [string |-> TRUE, units |-> units, bytes |-> bytes]

Header(requestId, event, json, text) ==
  [type |-> "INVOKE_REQUEST", requestId |-> requestId,
   pluginId |-> Id(10, 10), event |-> event, record |-> TRUE, huge |-> FALSE,
   utf8 |-> TRUE, json |-> json, text |-> text]

MCHeaderOf ==
  (r1 :> Header(Id(36, 36), Id(4, 4), TRUE, 200)) @@
  (r2 :> Header(Id(256, 256), Id(86, 256), TRUE, 3000)) @@
  (r3 :> Header(Id(86, 172), Id(5, 5), TRUE, 65535))

MCResultOf ==
  (r1 :> Header(Id(0, 0), Id(0, 0), TRUE, 300)) @@
  (r2 :> Header(Id(0, 0), Id(0, 0), TRUE, 65536)) @@
  (r3 :> Header(Id(0, 0), Id(0, 0), FALSE, 100))
=============================================================================
