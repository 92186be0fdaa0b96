------------------------- MODULE ConnectionMachine -------------------------
(***************************************************************************)
(* The WebSocket connection lifecycle of web/connection-machine.ts: a      *)
(* state machine over idle, opening, connected, backoff, gaveUp and the    *)
(* final closed.  Every handler the code registers with m.on(...) is an    *)
(* operator from a machine record to the next one; an event without a      *)
(* handler in the current state leaves the record alone.                   *)
(*                                                                         *)
(* Delays are abstracted to events that may arrive at any time while the   *)
(* effect that armed them is alive.  The retry counter is compared with    *)
(* maxRetries only, so it saturates just above it.                         *)
(***************************************************************************)
EXTENDS Naturals

CONSTANT MaxRetries   \* options.maxRetries

ASSUME MaxRetriesAssumption == MaxRetries \in Nat

States == {"idle", "opening", "connected", "backoff", "gaveUp", "closed"}

Machine ==
  [ state         : States,
    retries       : 0 .. MaxRetries + 1,  \* saturates at MaxRetries + 1
    everConnected : BOOLEAN,
    bootOver      : BOOLEAN,  \* now - bootStartedAt >= minBootWindowMs
    replaced      : BOOLEAN ]

InitialMachine ==
  [state |-> "idle", retries |-> 0, everConnected |-> FALSE,
   bootOver |-> TRUE, replaced |-> FALSE]

(* retries + 1, as far as the comparisons with maxRetries can tell.        *)
Bump(n) == IF n > MaxRetries THEN n ELSE n + 1

LoginOk(m) ==
  IF m.state = "idle"
    THEN [m EXCEPT !.state = "opening", !.bootOver = FALSE]
    ELSE m

LoginFail(m) ==
  IF m.state = "idle" THEN [m EXCEPT !.state = "gaveUp"] ELSE m

(* retries is not reset here: only the stable timer proves health.         *)
SocketOpen(m) ==
  IF m.state = "opening"
    THEN [m EXCEPT !.state = "connected", !.everConnected = TRUE,
                   !.replaced = FALSE]
    ELSE m

(* A plausible bug: the cap applies to a client that was connected too.    *)
CappedForEver(m) == m.retries >= MaxRetries /\ m.bootOver

(* The give-up test of openFailed: never connected, out of retries, and    *)
(* past the boot window.                                                   *)
OutOfAttempts(m) ==
  ~m.everConnected /\ m.retries >= MaxRetries /\ m.bootOver

RetryLater(m) ==
  [m EXCEPT !.state = "backoff", !.retries = Bump(m.retries),
            !.replaced = FALSE]

OpenFailed(m) ==
  IF OutOfAttempts(m) THEN [m EXCEPT !.state = "gaveUp"] ELSE RetryLater(m)

OpenTimeout(m) == IF m.state = "opening" THEN OpenFailed(m) ELSE m

SocketClose(m) ==
  CASE m.state = "opening"   -> OpenFailed(m)
    [] m.state = "connected" -> RetryLater(m)
    [] OTHER                 -> m

SocketReplaced(m) ==
  CASE m.state = "opening"   -> OpenFailed(m)
    [] m.state = "connected" -> [m EXCEPT !.state = "backoff", !.retries = 0,
                                          !.replaced = TRUE]
    [] OTHER                 -> m

StableTimer(m) ==
  IF m.state = "connected" THEN [m EXCEPT !.retries = 0] ELSE m

RetryTimer(m) ==
  IF m.state = "backoff" THEN [m EXCEPT !.state = "opening"] ELSE m

Wake(m) ==
  CASE m.state = "backoff" -> [m EXCEPT !.state = "opening"]
    [] m.state = "gaveUp"  -> [m EXCEPT !.state = "idle", !.retries = 0,
                                        !.replaced = FALSE]
    [] OTHER               -> m

Stop(m) == [m EXCEPT !.state = "closed"]

(* The boot window passes: a fact about the clock, not an event.           *)
BootWindowPasses(m) == [m EXCEPT !.bootOver = TRUE]

IsReplaced(m) == m.state = "backoff" /\ m.replaced

IsDegraded(m) ==
  m.state # "connected" /\ m.everConnected /\ m.retries > MaxRetries
=============================================================================
