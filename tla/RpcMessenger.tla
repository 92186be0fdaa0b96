---------------------------- MODULE RpcMessenger ----------------------------
(***************************************************************************)
(* createProtocolMessenger of core/messages/rpc-messenger.ts: the caller's *)
(* side of an invoke.  It correlates responses with pending calls, bounds  *)
(* the pending map by dropping its oldest entry, arms one timer per call,  *)
(* and, with diagnostics, holds a timed-out call until a tail of the       *)
(* server log has been fetched; concurrent timeouts share that fetch.      *)
(*                                                                         *)
(* Calls are numbered in the order invoke() is called.  The peer may       *)
(* answer a call at any time, late, twice, or for another plugin or event. *)
(***************************************************************************)
EXTENDS Naturals, FiniteSets

CONSTANTS
  NumCalls,     \* invoke() is called for 1, 2, ..., NumCalls
  MaxPending,   \* MAX_CONCURRENT_INVOKES
  Diagnostics   \* options.diagnostics

ASSUME MessengerAssumption ==
  /\ NumCalls \in Nat
  /\ MaxPending \in Nat \ {0}
  /\ Diagnostics \in BOOLEAN

VARIABLES
  calls,     \* how many calls were made
  pending,   \* the keys of the pending map, inserted in the order of calls
  armed,     \* calls whose timeout timer is running
  outcome,   \* outcome[c]: the state of the caller's promise
  awaiting,  \* timed-out calls waiting for the log tail
  fetching,  \* how far the shared log-tail fetch is (`inflight`)
  fresh      \* a tail fetched less than INVOKE_TAIL_MIN_INTERVAL_MS ago

vars == <<calls, pending, armed, outcome, awaiting, fetching, fresh>>

Calls == 1 .. NumCalls

Made == 1 .. calls

(* "asking" is fetch(), raced with a timer; "reading" is text(), which has *)
(* none.                                                                   *)
Fetching == {"idle", "asking", "reading"}

TypeOK ==
  /\ calls \in 0 .. NumCalls
  /\ pending \subseteq Made /\ Cardinality(pending) <= MaxPending
  /\ armed \subseteq Made
  /\ outcome \in [Calls -> {"unsettled", "resolved", "rejected"}]
  /\ awaiting \subseteq Made
  /\ fetching \in Fetching
  /\ fresh \in BOOLEAN

Init ==
  /\ calls = 0
  /\ pending = {}
  /\ armed = {}
  /\ outcome = [c \in Calls |-> "unsettled"]
  /\ awaiting = {}
  /\ fetching = "idle"
  /\ fresh = FALSE

(* A promise settles once; settling it again is ignored.                   *)
Settle(how, S) ==
  [c \in Calls |-> IF c \in S /\ outcome[c] = "unsettled"
                     THEN how ELSE outcome[c]]

(* Plausible bugs, as mutants of the definitions below: a removed entry    *)
(* keeps its timer, a fired timer its entry, a dropped call is not         *)
(* rejected, and neither are the waiters for a tail.                       *)
RemoveEntryOnly(c) == armed' = armed /\ pending' = pending \ {c}

RemoveTimerOnly(c) == armed' = armed \ {c} /\ pending' = pending

RejectedIfThrown(new, sendThrows) == IF sendThrows THEN {new} ELSE {}

NoTailWaiters == {}

Full == Cardinality(pending) >= MaxPending

(* The first key of a full map.                                            *)
Oldest == {c \in pending : \A d \in pending : c <= d}

Dropped == IF Full THEN Oldest ELSE {}

(* The entry of c is deleted and its timer cleared.                        *)
Forget(c) == armed' = armed \ {c} /\ pending' = pending \ {c}

(* The promises invoke() rejects at once.                                  *)
Rejected(new, sendThrows) ==
  Dropped \cup (IF sendThrows THEN {new} ELSE {})

TailWaiters == awaiting

(* invoke(): a full map drops its oldest call, then the request is sent.   *)
(* A send that throws rejects the promise from inside its executor and     *)
(* leaves the entry and its timer behind.                                  *)
Invoke(sendThrows) ==
  /\ calls < NumCalls
  /\ calls' = calls + 1
  /\ LET new == calls + 1 IN
       /\ pending' = (pending \ Dropped) \cup {new}
       /\ armed' = (armed \ Dropped) \cup {new}
       /\ outcome' = Settle("rejected", Rejected(new, sendThrows))
  /\ UNCHANGED <<awaiting, fetching, fresh>>

(* handleIncoming(): a response for an unknown call, or for another plugin *)
(* or event than the pending call's, is dropped.                           *)
HandleIncoming(c, matches) ==
  /\ c \in Made
  /\ IF c \in pending /\ matches
       THEN Forget(c) /\ outcome' = Settle("resolved", {c})
       ELSE UNCHANGED <<armed, pending, outcome>>
  /\ UNCHANGED <<calls, awaiting, fetching, fresh>>

(* The timer of c fires: without diagnostics, or with a fresh tail, the    *)
(* call is rejected at once; otherwise it waits for a fetch, its own or    *)
(* the one under way.                                                      *)
Timeout(c) ==
  /\ c \in armed
  /\ Forget(c)
  /\ IF ~Diagnostics \/ (fresh /\ fetching = "idle")
       THEN /\ outcome' = Settle("rejected", {c})
            /\ UNCHANGED <<awaiting, fetching>>
       ELSE /\ awaiting' = awaiting \cup {c}
            /\ fetching' = IF fetching = "idle" THEN "asking" ELSE fetching
            /\ UNCHANGED outcome
  /\ UNCHANGED <<calls, fresh>>

(* serverLogTail() is over, with a tail or with null.                      *)
TailSettles ==
  /\ fetching' = "idle"
  /\ fresh' = TRUE
  /\ outcome' = Settle("rejected", TailWaiters)
  /\ awaiting' = {}
  /\ UNCHANGED <<calls, pending, armed>>

(* fetch() fails, its timer is first, or the response is not ok.           *)
TailFails == fetching = "asking" /\ TailSettles

(* fetch() resolves with the headers of a good response: the race with the *)
(* timer is over, and text() waits for the body with no timer of its own.  *)
TailAnswers ==
  /\ fetching = "asking"
  /\ fetching' = "reading"
  /\ UNCHANGED <<calls, pending, armed, outcome, awaiting, fresh>>

(* The body is there, or reading it failed.                                *)
BodyArrives == fetching = "reading" /\ TailSettles

TailAges ==
  /\ fresh
  /\ fresh' = FALSE
  /\ UNCHANGED <<calls, pending, armed, outcome, awaiting, fetching>>

Next ==
  \/ \E throws \in BOOLEAN : Invoke(throws)
  \/ \E c \in Calls, matches \in BOOLEAN : HandleIncoming(c, matches)
  \/ \E c \in Calls : Timeout(c)
  \/ TailFails \/ TailAnswers \/ BodyArrives
  \/ TailAges

Spec == Init /\ [][Next]_vars

(* Timers fire, and the fetch() of a tail is raced with a timer.  Nothing  *)
(* makes the peer answer or the body of the tail arrive.                   *)
Fairness ==
  /\ \A c \in Calls : WF_vars(Timeout(c))
  /\ WF_vars(TailFails \/ TailAnswers)

FairSpec == Spec /\ Fairness

-----------------------------------------------------------------------------
(* Properties.                                                             *)

(* The pending map and the timers stay in step: each entry has its timer   *)
(* and no timer outlives its entry.                                        *)
TimersMatchPending == armed = pending

(* No caller is stranded: a promise that has not settled is still in the   *)
(* pending map or waits for a fetch that is under way, and no call that    *)
(* timed out is still open to its late response.                           *)
NoCallerStranded ==
  /\ \A c \in Made :
       outcome[c] = "unsettled" => c \in pending \cup awaiting
  /\ awaiting # {} => fetching # "idle"
  /\ awaiting \cap pending = {}

(* The inductive invariant: the two above, typed, with calls to come       *)
(* untouched and no call resolved before its entry is removed.             *)
Inv ==
  /\ TypeOK
  /\ TimersMatchPending
  /\ NoCallerStranded
  /\ \A c \in Calls \ Made : outcome[c] = "unsettled"
  /\ \A c \in pending \cup awaiting : outcome[c] # "resolved"

(* A call that timed out stays failed: the response that comes while its   *)
(* rejection waits for the log tail does not turn it into a success.       *)
TimedOutStaysFailed ==
  [][ \A c \in awaiting : outcome'[c] # "resolved" ]_vars

(* Every call settles, whatever the peer does.  Only one thing can keep a  *)
(* caller for ever: the log tail its timeout waits for answered with       *)
(* headers and then sends no body, which no timer ends.                    *)
EveryCallSettles ==
  \A c \in Calls :
    <>[](c \in Made /\ outcome[c] = "unsettled")
      => <>[](c \in awaiting /\ fetching = "reading")

(* The messenger implements RequestLedger, and never forgets a call: with  *)
(* room for all of them none is ever crowded out.                          *)
LedgerStatus ==
  [c \in Calls |->
     CASE c \notin Made                                          -> "new"
       [] c \in Made /\ outcome[c] # "unsettled"                 -> "answered"
       [] c \in Made /\ outcome[c] = "unsettled" /\
            c \in pending \cup awaiting                   -> "open"
       [] OTHER                                                  -> "forgotten"]

Ledger == INSTANCE RequestLedger
            WITH Requests <- Calls, Capacity <- NumCalls,
                 status <- LedgerStatus, shut <- FALSE

ImplementsLedger == Ledger!Spec
=============================================================================
