----------------------------- MODULE HostBridge -----------------------------
(***************************************************************************)
(* createHostIpcBridge of core/messages/host-ipc.ts: the worklet's calls   *)
(* to its host.  waitFor() arms a timer and tracks a slot; a full map      *)
(* drops its oldest call; responses consumed from the stream resolve the   *)
(* slot they name; close() fails everything.                               *)
(*                                                                         *)
(* Each call has two promises: the slot's, settled by the bridge, and the  *)
(* caller's, which adopts the slot's only once the request was written. A  *)
(* write that throws fails the caller and leaves the slot to its timer.    *)
(***************************************************************************)
EXTENDS Naturals, FiniteSets

CONSTANTS
  NumCalls,    \* host calls 1, 2, ..., NumCalls, each with a fresh id
  MaxPending   \* MAX_CONCURRENT_HOST_CALLS

ASSUME BridgeAssumption == NumCalls \in Nat /\ MaxPending \in Nat \ {0}

VARIABLES
  calls,     \* how many calls were made
  pending,   \* the keys of the pending map, inserted in the order of calls
  armed,     \* calls whose timer is running
  slot,      \* slot[c]: the state of the promise waitFor returned
  caller,    \* caller[c]: the state of the promise the caller holds
  adopted,   \* calls whose caller awaits the slot's promise
  closed     \* closedReason # null

vars == <<calls, pending, armed, slot, caller, adopted, closed>>

Calls == 1 .. NumCalls

Made == 1 .. calls

Outcome == {"unsettled", "resolved", "rejected"}

TypeOK ==
  /\ calls \in 0 .. NumCalls
  /\ pending \subseteq Made /\ Cardinality(pending) <= MaxPending
  /\ armed \subseteq Calls
  /\ slot \in [Calls -> Outcome]
  /\ caller \in [Calls -> Outcome]
  /\ adopted \subseteq Calls
  /\ closed \in BOOLEAN

Init ==
  /\ calls = 0
  /\ pending = {}
  /\ armed = {}
  /\ slot = [c \in Calls |-> "unsettled"]
  /\ caller = [c \in Calls |-> "unsettled"]
  /\ adopted = {}
  /\ closed = FALSE

Settle(promise, how, S) ==
  [c \in Calls |-> IF c \in S /\ promise[c] = "unsettled"
                     THEN how ELSE promise[c]]

(* The bridge settles the slots of S, and the callers that adopted them.   *)
SettleSlots(how, S) ==
  /\ slot' = Settle(slot, how, S)
  /\ caller' = Settle(caller, how, S \cap adopted)

(* Plausible bugs, as mutants of the definitions below: close() forgets to *)
(* fail what it drops, and an evicted call is not failed.                  *)
ClosedFailsNothing == {}

FailsNoEvicted == {}

Full == Cardinality(pending) >= MaxPending

(* track(): the first key of a full map is evicted.                        *)
Oldest == {c \in pending : \A d \in pending : c <= d}

Evicted == IF Full THEN Oldest ELSE {}

(* The evicted call's slot is rejected, and with it its caller.            *)
FailsEvicted == Evicted

Forget(c) == armed' = armed \ {c} /\ pending' = pending \ {c}

(* The closed check of both calls, before anything is tracked.             *)
Refuses == closed

(* The calls close() fails.                                                *)
ClosedFails == pending

(* queryCapabilities or invokeOnHost, up to the await.                     *)
Call(writeThrows) ==
  /\ calls < NumCalls
  /\ calls' = calls + 1
  /\ LET new == calls + 1 IN
       IF Refuses
         THEN /\ caller' = [caller EXCEPT ![new] = "rejected"]
              /\ UNCHANGED <<pending, armed, slot, adopted>>
         ELSE /\ pending' = (pending \ Evicted) \cup {new}
              /\ armed' = (armed \ Evicted) \cup {new}
              /\ adopted' = IF writeThrows THEN adopted ELSE adopted \cup {new}
              /\ slot' = Settle(slot, "rejected", FailsEvicted)
              /\ caller' = Settle(caller, "rejected",
                             (FailsEvicted \cap adopted)
                               \cup (IF writeThrows THEN {new} ELSE {}))
  /\ UNCHANGED closed

(* consumeDownstream: a response of another type than the call expects     *)
(* fails it; an error response fails a capabilities query.  The host       *)
(* answers what it was sent, at any time and as often as it likes.         *)
ConsumeDownstream(c, good) ==
  /\ c \in adopted
  /\ IF c \in pending
       THEN /\ Forget(c)
            /\ SettleSlots(IF good THEN "resolved" ELSE "rejected", {c})
       ELSE UNCHANGED <<armed, pending, slot, caller>>
  /\ UNCHANGED <<calls, adopted, closed>>

Timeout(c) ==
  /\ c \in armed
  /\ Forget(c)
  /\ SettleSlots("rejected", {c})
  /\ UNCHANGED <<calls, adopted, closed>>

(* close(): may be called again, and then finds nothing to do.             *)
Close ==
  /\ closed' = TRUE
  /\ pending' = {}
  /\ armed' = armed \ pending
  /\ SettleSlots("rejected", ClosedFails)
  /\ UNCHANGED <<calls, adopted>>

Next ==
  \/ \E throws \in BOOLEAN : Call(throws)
  \/ \E c \in Calls, good \in BOOLEAN : ConsumeDownstream(c, good)
  \/ \E c \in Calls : Timeout(c)
  \/ Close

Spec == Init /\ [][Next]_vars

-----------------------------------------------------------------------------
(* Properties.                                                             *)

(* Slots, timers and the pending map stay in step: exactly the unsettled   *)
(* slots of calls that were tracked have an entry and a running timer, so  *)
(* nothing hangs and no timer fires into another call's slot.              *)
SlotsTimersPending ==
  /\ armed = pending
  /\ \A c \in pending : slot[c] = "unsettled"
  /\ \A c \in adopted : slot[c] = "unsettled" => c \in pending

(* No caller is stranded: one that has not been answered awaits a slot     *)
(* that is still tracked, hence timed, and a closed bridge tracks none.    *)
NoCallerStranded ==
  /\ \A c \in Made :
       caller[c] = "unsettled" => c \in adopted /\ c \in pending
  /\ closed => pending = {}

(* The inductive invariant: the two above, typed, with calls to come       *)
(* untouched.                                                              *)
Inv ==
  /\ TypeOK
  /\ SlotsTimersPending
  /\ NoCallerStranded
  /\ adopted \subseteq Made
  /\ \A c \in Calls \ Made : slot[c] = "unsettled" /\ caller[c] = "unsettled"

(* The bridge implements RequestLedger, close() included, and never        *)
(* forgets a call: with room for all of them none is ever crowded out.     *)
LedgerStatus ==
  [c \in Calls |->
     CASE c \notin Made                                         -> "new"
       [] c \in Made /\ caller[c] # "unsettled"                 -> "answered"
       [] c \in Made /\ caller[c] = "unsettled" /\
            c \in pending                                -> "open"
       [] OTHER                                                 -> "forgotten"]

Ledger == INSTANCE RequestLedger
            WITH Requests <- Calls, Capacity <- NumCalls,
                 status <- LedgerStatus, shut <- closed

ImplementsLedger == Ledger!Spec
=============================================================================
