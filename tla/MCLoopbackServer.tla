-------------------------- MODULE MCLoopbackServer --------------------------
EXTENDS LoopbackServer

CONSTANTS m1, m2, m3

MCPicks == <<m1, m2, m3>>

(* The page itself, a navigation, an <img> of a page on another loopback   *)
(* port, a page of an origin the app listed, a foreign page.               *)
MCHeaders ==
  {[host |-> TRUE, origin |-> "loopback", site |-> "same-origin"],
   [host |-> TRUE, origin |-> "unsent",   site |-> "same-site"],
   [host |-> TRUE, origin |-> "foreign",  site |-> "cross-site"]}

MCMessages ==
  {BackendLine} \cup {Line(p, n) : p \in Consoles, n \in 1 .. MaxLines}

(* Tokens that open the server and tokens that close it, a port and an     *)
(* origin that are none, and the directories a host passes.                *)
MCArguments ==
  {[key |-> "directory", value |-> "app"], [key |-> "file", value |-> "app"],
   [key |-> "origin", value |-> "http://localhost:5173"],
   [key |-> "origin", value |-> "localhost:5173"],
   [key |-> "mode", value |-> "dev"], [key |-> "mode", value |-> "device"],
   [key |-> "auth", value |-> "off"], [key |-> "auth", value |-> "on"],
   [key |-> "host", value |-> "0.0.0.0"],
   [key |-> "host", value |-> "localhost"],
   [key |-> "port", value |-> 70000], [key |-> "port", value |-> 8081],
   [key |-> "storage", value |-> "data"],
   [key |-> "bootstrap", value |-> "127.0.0.1:49737"]}

MCConsumers ==
  {[id |-> "app.photos", namespaced |-> TRUE, reserved |-> FALSE],
   [id |-> "core.health", namespaced |-> TRUE, reserved |-> TRUE],
   [id |-> "core.extra", namespaced |-> TRUE, reserved |-> TRUE],
   [id |-> "photos", namespaced |-> FALSE, reserved |-> FALSE]}

(* Bounds on what goes on at once: time passes before files and logs are   *)
(* used, and those are used one without the other, by one page, between    *)
(* its logins.                                                             *)
FilesAtRest ==
  /\ \A d \in Pages : conn[d] = "idle"
  /\ mounted = <<>> /\ ~shared

LogsAtRest == store.seq = 0 /\ \A p \in Consoles : written[p] = 0

OnePage ==
  /\ posting = {} /\ pausedAt = Never
  /\ given \subseteq Pages
  /\ \A d \in Docs \ Pages : reply[d] = "none"

InScope ==
  \/ FilesAtRest /\ LogsAtRest
  \/ (FilesAtRest \/ LogsAtRest) /\ OnePage /\ now = 0
=============================================================================
