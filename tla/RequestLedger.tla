--------------------------- MODULE RequestLedger ---------------------------
(***************************************************************************)
(* What every component that carries requests promises its callers.        *)
(*                                                                         *)
(* A request is new until it is issued, open while somebody owes it an     *)
(* answer, and answered once.  A component whose bookkeeping is bounded    *)
(* may forget an open request (its caller then relies on a timeout of its  *)
(* own), but only when Capacity younger ones, all still open, have crowded *)
(* it out.  A component that can be shut down answers everything it holds  *)
(* when that happens and holds nothing afterwards.                         *)
(*                                                                         *)
(* WebTransport, RpcMessenger and HostBridge are shown to implement this   *)
(* module under a refinement mapping.                                      *)
(***************************************************************************)
EXTENDS Naturals, FiniteSets

CONSTANTS
  Requests,  \* the requests callers may issue, each once, in ascending order
  Capacity   \* how many open requests the component can keep track of

VARIABLES
  status,     \* status[r]: where request r stands
  shut        \* has the component been shut down for good?

vars == <<status, shut>>

Status == {"new", "open", "answered", "forgotten"}

TypeOK ==
  /\ status \in [Requests -> Status]
  /\ shut \in BOOLEAN

Init ==
  /\ status = [r \in Requests |-> "new"]
  /\ shut = FALSE

(* How a request may move whatever else happens.  Nothing leaves           *)
(* "answered", and a late answer may still find a forgotten request.       *)
Moves == {<<"new", "open">>, <<"new", "answered">>, <<"open", "answered">>,
          <<"forgotten", "answered">>}

(* The younger requests that are open after this step fill the books.      *)
CrowdedOut(r) ==
  Cardinality({q \in Requests : q > r /\ status'[q] = "open"}) >= Capacity

Forgets(r) ==
  status[r] = "open" /\ status'[r] = "forgotten" /\ CrowdedOut(r)

Next ==
  /\ \A r \in Requests :
       \/ status'[r] = status[r]
       \/ <<status[r], status'[r]>> \in Moves
       \/ Forgets(r)
  /\ status' \in [Requests -> Status]
  /\ shut' \in BOOLEAN
  /\ shut => shut'
  /\ shut' => \A r \in Requests : status'[r] # "open"

Spec == Init /\ [][Next]_vars
=============================================================================
