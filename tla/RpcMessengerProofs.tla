------------------------- MODULE RpcMessengerProofs -------------------------
(***************************************************************************)
(* RpcMessenger, for every number of calls and every bound on the pending  *)
(* map, with and without diagnostics: its invariant, that a timed-out call *)
(* stays failed, and that it implements RequestLedger.                     *)
(***************************************************************************)
EXTENDS RpcMessenger, FiniteSetTheorems, WellFoundedInduction, TLAPS

-----------------------------------------------------------------------------
(* Bounded maps, whose keys are finite sets of numbered calls.             *)

(* A non-empty set of naturals has a least element, so a full map always   *)
(* has an oldest entry to evict.                                           *)
LEMMA LeastElement ==
  ASSUME NEW S \in SUBSET Nat, S # {}
  PROVE  \E x \in S : \A y \in S : x <= y
<1>1. \E x \in S : \A y \in S : ~ (<<y, x>> \in OpToRel(<, Nat))
  BY NatLessThanWellFounded, WFMin
<1>2. PICK x \in S : \A y \in S : ~ (<<y, x>> \in OpToRel(<, Nat))
  BY <1>1
<1>3. ASSUME NEW y \in S PROVE x <= y
  <2>1. ~ (y < x)
    BY <1>2 DEF OpToRel
  <2>. QED  BY <2>1
<1>. QED  BY <1>3

(* Sets of calls made so far are finite, and so is what is left of them.   *)
LEMMA UpToFinite ==
  ASSUME NEW n \in Nat, NEW S \in SUBSET (1 .. n)
  PROVE  /\ IsFiniteSet(S)
         /\ Cardinality(S) \in Nat
         /\ \A T \in SUBSET S :
              /\ IsFiniteSet(T)
              /\ Cardinality(T) \in Nat
              /\ Cardinality(T) <= Cardinality(S)
<1>1. IsFiniteSet(1 .. n)
  BY FS_Interval
<1>2. IsFiniteSet(S)
  BY <1>1, FS_Subset
<1>. QED  BY <1>2, FS_CardinalityType, FS_Subset

(* A map that evicts something whenever it is full keeps its bound.        *)
LEMMA EvictionBounds ==
  ASSUME NEW n \in Nat, NEW S \in SUBSET (1 .. n), NEW x,
         NEW max \in Nat, Cardinality(S) <= max,
         NEW E \in SUBSET S, Cardinality(S) < max \/ E # {}
  PROVE  Cardinality((S \ E) \cup {x}) <= max
<1>. DEFINE kept == S \ E
<1>1. IsFiniteSet(kept) /\ Cardinality(kept) \in Nat
       /\ Cardinality(S) \in Nat /\ Cardinality(kept) <= Cardinality(S)
  BY UpToFinite
<1>2. Cardinality(kept) < max
  <2>1. CASE Cardinality(S) < max
    BY <2>1, <1>1
  <2>2. CASE E # {}
    <3>1. kept # S
      BY <2>2
    <3>2. Cardinality(kept) # Cardinality(S)
      BY <3>1, UpToFinite, FS_Subset
    <3>. QED  BY <3>2, <1>1
  <2>. QED  BY <2>1, <2>2
<1>3. Cardinality(kept \cup {x}) <= Cardinality(kept) + 1
  BY <1>1, FS_AddElement
<1>4. Cardinality(kept \cup {x}) \in Nat
  BY <1>1, FS_AddElement, FS_CardinalityType
<1>. QED  BY <1>1, <1>2, <1>3, <1>4

-----------------------------------------------------------------------------
(* The invariant.                                                          *)

(* The pending map is finite and so is what is left of it.                 *)
LEMMA PendingFinite ==
  ASSUME TypeOK
  PROVE  \A S \in SUBSET pending :
           /\ Cardinality(S) \in Nat /\ Cardinality(pending) \in Nat
           /\ Cardinality(S) <= Cardinality(pending)
<1>1. calls \in Nat /\ pending \in SUBSET (1 .. calls)
  BY MessengerAssumption DEF TypeOK, Made
<1>. QED  BY <1>1, UpToFinite

(* One more call keeps the map within its bound.                           *)
LEMMA AddBounded ==
  ASSUME TypeOK, NEW new
  PROVE  Cardinality((pending \ Dropped) \cup {new}) <= MaxPending
<1>1. calls \in Nat /\ pending \in SUBSET (1 .. calls)
  BY MessengerAssumption DEF TypeOK, Made
<1>2. Dropped \in SUBSET pending
  BY DEF Dropped, Oldest
<1>3. ASSUME Full PROVE Dropped # {}
  <2>1. pending # {}
    BY <1>3, FS_EmptySet, MessengerAssumption DEF Full
  <2>2. \E x \in pending : \A y \in pending : x <= y
    BY <1>1, <2>1, LeastElement
  <2>. QED  BY <1>3, <2>2 DEF Dropped, Oldest
<1>4. Cardinality(pending) < MaxPending \/ Dropped # {}
  <2>1. Cardinality(pending) \in Nat
    BY PendingFinite
  <2>. QED  BY <2>1, <1>3, MessengerAssumption DEF Full
<1>. QED  BY <1>1, <1>2, <1>4, EvictionBounds, MessengerAssumption DEF TypeOK

(* Nothing is pending at the start.                                        *)
LEMMA InitInv == Init => Inv
<1>1. Cardinality({}) = 0
  BY FS_EmptySet
<1>2. ASSUME Init PROVE Made = {} /\ calls \in 0 .. NumCalls
  BY <1>2, MessengerAssumption DEF Init, Made
<1>3. 0 <= MaxPending
  BY MessengerAssumption
<1>. QED
  BY <1>1, <1>2, <1>3
     DEF Init, Inv, TypeOK, Fetching, TimersMatchPending, NoCallerStranded

(* invoke(), whether or not its send throws.                               *)
LEMMA InvokeInv ==
  ASSUME Inv, NEW throws \in BOOLEAN, Invoke(throws)
  PROVE  Inv'
<1>. DEFINE new == calls + 1
<1>1. new \in Calls /\ new \notin Made /\ calls' \in 0 .. NumCalls
       /\ Made' = Made \cup {new} /\ Made \subseteq Calls
  BY MessengerAssumption DEF Inv, TypeOK, Invoke, Calls, Made
<1>2. pending' = (pending \ Dropped) \cup {new}
       /\ armed' = (armed \ Dropped) \cup {new}
       /\ outcome' = Settle("rejected", Rejected(new, throws))
       /\ UNCHANGED <<awaiting, fetching, fresh>>
  BY DEF Invoke
<1>3. Dropped \subseteq pending
       /\ Dropped \subseteq Rejected(new, throws)
       /\ Rejected(new, throws) \subseteq Dropped \cup {new}
  BY DEF Dropped, Oldest, Rejected
<1>4. Cardinality(pending') <= MaxPending
  BY <1>2, AddBounded DEF Inv
<1>5. TypeOK'
  BY <1>1, <1>2, <1>3, <1>4 DEF Inv, TypeOK, Settle
<1>6. TimersMatchPending'
  BY <1>2 DEF Inv, TimersMatchPending
<1>7. NoCallerStranded'
  BY <1>1, <1>2, <1>3 DEF Inv, TypeOK, NoCallerStranded, Settle
<1>8. (\A c \in Calls \ Made : outcome[c] = "unsettled")'
  BY <1>1, <1>2, <1>3 DEF Inv, TypeOK, Settle
<1>9. (\A c \in pending \cup awaiting : outcome[c] # "resolved")'
  BY <1>1, <1>2, <1>3 DEF Inv, TypeOK, Settle
<1>. QED  BY <1>5, <1>6, <1>7, <1>8, <1>9 DEF Inv

(* An entry and its timer go together, and the bound is kept.              *)
LEMMA ForgetKeeps ==
  ASSUME Inv, NEW c \in pending, Forget(c), calls' = calls
  PROVE  /\ pending' = pending \ {c} /\ armed' = pending'
         /\ Made' = Made /\ Made \subseteq Calls
         /\ Cardinality(pending') <= MaxPending
<1>1. pending' = pending \ {c} /\ armed' = pending'
  BY DEF Forget, Inv, TimersMatchPending
<1>2. Cardinality(pending') <= Cardinality(pending)
       /\ Cardinality(pending) \in Nat /\ Cardinality(pending') \in Nat
  BY <1>1, PendingFinite DEF Inv
<1>3. Cardinality(pending') <= MaxPending
  BY <1>2, MessengerAssumption DEF Inv, TypeOK
<1>4. Made' = Made /\ Made \subseteq Calls
  BY MessengerAssumption DEF Made, Calls, Inv, TypeOK
<1>. QED  BY <1>1, <1>3, <1>4

(* handleIncoming(): the response of a pending call.                       *)
LEMMA ResponseInv ==
  ASSUME Inv, NEW c \in pending, Forget(c), outcome' = Settle("resolved", {c}),
         UNCHANGED <<calls, awaiting, fetching, fresh>>
  PROVE  Inv'
<1>1. /\ pending' = pending \ {c} /\ armed' = pending'
      /\ Made' = Made /\ Made \subseteq Calls
      /\ Cardinality(pending') <= MaxPending
  BY ForgetKeeps
<1>2. TypeOK'
  BY <1>1 DEF Inv, TypeOK, Settle
<1>3. NoCallerStranded'
  BY <1>1 DEF Inv, TypeOK, NoCallerStranded, Settle
<1>4. (\A d \in Calls \ Made : outcome[d] = "unsettled")'
  BY <1>1 DEF Inv, TypeOK, Settle
<1>5. (\A d \in pending \cup awaiting : outcome[d] # "resolved")'
  BY <1>1 DEF Inv, TypeOK, NoCallerStranded, Settle
<1>. QED  BY <1>1, <1>2, <1>3, <1>4, <1>5 DEF Inv, TimersMatchPending

(* The timer of c: rejected at once, or kept until the tail is here.       *)
LEMMA TimeoutInv ==
  ASSUME Inv, NEW c \in Calls, Timeout(c)
  PROVE  Inv'
<1>1. c \in pending /\ Forget(c) /\ calls' = calls /\ fresh' = fresh
  BY DEF Timeout, Inv, TimersMatchPending
<1>2. /\ pending' = pending \ {c} /\ armed' = pending'
      /\ Made' = Made /\ Made \subseteq Calls
      /\ Cardinality(pending') <= MaxPending
  BY <1>1, ForgetKeeps
<1>3. CASE ~Diagnostics \/ (fresh /\ fetching = "idle")
  <2>1. outcome' = Settle("rejected", {c}) /\ UNCHANGED <<awaiting, fetching>>
    BY <1>3 DEF Timeout
  <2>2. TypeOK'
    BY <1>1, <1>2, <2>1 DEF Inv, TypeOK, Settle
  <2>3. NoCallerStranded'
    BY <1>1, <1>2, <2>1 DEF Inv, TypeOK, NoCallerStranded, Settle
  <2>4. (\A d \in Calls \ Made : outcome[d] = "unsettled")'
         /\ (\A d \in pending \cup awaiting : outcome[d] # "resolved")'
    BY <1>1, <1>2, <2>1 DEF Inv, TypeOK, Settle
  <2>. QED  BY <1>2, <2>2, <2>3, <2>4 DEF Inv, TimersMatchPending
<1>4. CASE ~(~Diagnostics \/ (fresh /\ fetching = "idle"))
  <2>1. /\ awaiting' = awaiting \cup {c} /\ outcome' = outcome
        /\ fetching' \in Fetching \ {"idle"}
    BY <1>4 DEF Timeout, Fetching, Inv, TypeOK
  <2>2. TypeOK'
    BY <1>1, <1>2, <2>1 DEF Inv, TypeOK
  <2>3. NoCallerStranded'
    BY <1>1, <1>2, <2>1 DEF Inv, NoCallerStranded
  <2>4. (\A d \in Calls \ Made : outcome[d] = "unsettled")'
         /\ (\A d \in pending \cup awaiting : outcome[d] # "resolved")'
    BY <1>1, <1>2, <2>1 DEF Inv
  <2>. QED  BY <1>2, <2>2, <2>3, <2>4 DEF Inv, TimersMatchPending
<1>. QED  BY <1>3, <1>4

(* Every step keeps the invariant.                                         *)
LEMMA NextInv == Inv /\ [Next]_vars => Inv'
<1>. SUFFICES ASSUME Inv, [Next]_vars PROVE Inv'
  OBVIOUS
<1>1. CASE UNCHANGED vars
  BY <1>1
     DEF vars, Inv, TypeOK, TimersMatchPending, NoCallerStranded, Made
<1>2. ASSUME NEW throws \in BOOLEAN, Invoke(throws) PROVE Inv'
  BY <1>2, InvokeInv
<1>3. ASSUME NEW c \in Calls, NEW matches \in BOOLEAN,
             HandleIncoming(c, matches)
      PROVE  Inv'
  <2>1. CASE c \in pending /\ matches
    BY <1>3, <2>1, ResponseInv DEF HandleIncoming
  <2>2. CASE ~(c \in pending /\ matches)
    <3>1. UNCHANGED vars
      BY <1>3, <2>2 DEF HandleIncoming, vars
    <3>. QED  BY <3>1, <1>1
  <2>. QED  BY <2>1, <2>2
<1>4. ASSUME NEW c \in Calls, Timeout(c) PROVE Inv'
  BY <1>4, TimeoutInv
<1>5. ASSUME TailSettles PROVE Inv'
  <2>1. Made' = Made /\ Made \subseteq Calls
    BY <1>5, MessengerAssumption DEF TailSettles, Made, Calls, Inv, TypeOK
  <2>2. outcome' = Settle("rejected", awaiting)
         /\ awaiting' = {} /\ fetching' = "idle" /\ fresh' = TRUE
         /\ UNCHANGED <<calls, pending, armed>>
    BY <1>5 DEF TailSettles, TailWaiters
  <2>3. TypeOK'
    BY <2>1, <2>2 DEF Inv, TypeOK, Settle, Fetching
  <2>4. NoCallerStranded'
    BY <2>1, <2>2 DEF Inv, TypeOK, NoCallerStranded, Settle
  <2>5. (\A d \in Calls \ Made : outcome[d] = "unsettled")'
         /\ (\A d \in pending \cup awaiting : outcome[d] # "resolved")'
    BY <2>1, <2>2 DEF Inv, TypeOK, Settle
  <2>. QED  BY <2>2, <2>3, <2>4, <2>5 DEF Inv, TimersMatchPending
<1>6. ASSUME TailAnswers \/ TailAges PROVE Inv'
  BY <1>6
     DEF TailAnswers, TailAges, Inv, TypeOK, Fetching, TimersMatchPending,
         NoCallerStranded, Made
<1>. QED
  BY <1>1, <1>2, <1>3, <1>4, <1>5, <1>6 DEF Next, TailFails, BodyArrives

(* Each pending call has its timer, the map keeps its bound, and no caller *)
(* of invoke() is stranded, whatever the peer and send() do.               *)
THEOREM MessengerInvariant == Spec => []Inv
  BY InitInv, NextInv, PTL DEF Spec

(* A call whose timer fired is never resolved, although its rejection may  *)
(* wait for a log tail while its late response arrives.                    *)
THEOREM LateResponseIgnored == Spec => TimedOutStaysFailed
<1>1. Inv /\ Inv' /\ [Next]_vars => [\A c \in awaiting : outcome'[c] # "resolved"]_vars
  <2>. SUFFICES ASSUME Inv, Inv', [Next]_vars, NEW c \in awaiting,
                       ~ UNCHANGED vars
                PROVE  outcome'[c] # "resolved"
    OBVIOUS
  <2>1. c \in Calls /\ outcome[c] # "resolved" /\ c \notin pending
    BY MessengerAssumption
       DEF Inv, TypeOK, NoCallerStranded, Made, Calls
  <2>2. outcome' \in [Calls -> {"unsettled", "resolved", "rejected"}]
    BY DEF Inv, TypeOK
  <2>3. ASSUME NEW throws \in BOOLEAN, Invoke(throws)
        PROVE  outcome'[c] # "resolved"
    BY <2>1, <2>3 DEF Invoke, Settle
  <2>4. ASSUME NEW d \in Calls, NEW matches \in BOOLEAN,
               HandleIncoming(d, matches)
        PROVE  outcome'[c] # "resolved"
    BY <2>1, <2>4 DEF HandleIncoming, Settle
  <2>5. ASSUME NEW d \in Calls, Timeout(d) PROVE outcome'[c] # "resolved"
    BY <2>1, <2>5 DEF Timeout, Settle
  <2>6. ASSUME TailSettles PROVE outcome'[c] # "resolved"
    BY <2>1, <2>6 DEF TailSettles, Settle
  <2>7. ASSUME TailAnswers \/ TailAges PROVE outcome'[c] # "resolved"
    BY <2>1, <2>7 DEF TailAnswers, TailAges
  <2>. QED
    BY <2>3, <2>4, <2>5, <2>6, <2>7 DEF Next, TailFails, BodyArrives
<1>. QED
  BY <1>1, MessengerInvariant, PTL DEF Spec, TimedOutStaysFailed

-----------------------------------------------------------------------------
(* The refinement.  A settled promise stays settled.                       *)
LEMMA NothingUndone ==
  ASSUME Inv, [Next]_vars
  PROVE  /\ Made \subseteq Made'
         /\ \A c \in Calls :
              outcome[c] # "unsettled" => outcome'[c] # "unsettled"
<1>1. calls \in Nat
  BY MessengerAssumption DEF Inv, TypeOK
<1>2. ASSUME NEW throws \in BOOLEAN, Invoke(throws)
      PROVE  /\ Made \subseteq Made'
             /\ \A c \in Calls :
                  outcome[c] # "unsettled" => outcome'[c] # "unsettled"
  BY <1>1, <1>2 DEF Invoke, Settle, Made
<1>3. ASSUME NEW c \in Calls, NEW matches \in BOOLEAN,
             HandleIncoming(c, matches)
      PROVE  /\ Made' = Made
             /\ \A d \in Calls :
                  outcome[d] # "unsettled" => outcome'[d] # "unsettled"
  BY <1>3 DEF HandleIncoming, Settle, Made
<1>4. ASSUME NEW c \in Calls, Timeout(c)
      PROVE  /\ Made' = Made
             /\ \A d \in Calls :
                  outcome[d] # "unsettled" => outcome'[d] # "unsettled"
  BY <1>4 DEF Timeout, Settle, Made
<1>5. ASSUME TailSettles
      PROVE  /\ Made' = Made
             /\ \A d \in Calls :
                  outcome[d] # "unsettled" => outcome'[d] # "unsettled"
  BY <1>5 DEF TailSettles, Settle, Made
<1>6. CASE TailAnswers \/ TailAges \/ UNCHANGED vars
  BY <1>6 DEF TailAnswers, TailAges, vars, Made
<1>. QED
  BY <1>2, <1>3, <1>4, <1>5, <1>6 DEF Next, TailFails, BodyArrives

(* Every step of the messenger is a step of the ledger.                    *)
LEMMA LedgerStep ==
  ASSUME Inv, Inv', [Next]_vars
  PROVE  Ledger!Next
<1>1. /\ Made \subseteq Made'
      /\ \A c \in Calls : outcome[c] # "unsettled" => outcome'[c] # "unsettled"
  BY NothingUndone
(* Under the invariant no call is forgotten.                               *)
<1>2. LedgerStatus = [c \in Calls |->
                        IF c \notin Made THEN "new"
                        ELSE IF outcome[c] # "unsettled" THEN "answered"
                        ELSE "open"]
  BY DEF Inv, NoCallerStranded, LedgerStatus
<1>3. LedgerStatus' = [c \in Calls |->
                         IF c \notin Made' THEN "new"
                         ELSE IF outcome'[c] # "unsettled" THEN "answered"
                         ELSE "open"]
  BY DEF Inv, NoCallerStranded, LedgerStatus
<1>4. ASSUME NEW r \in Calls
      PROVE  LedgerStatus'[r] = LedgerStatus[r]
              \/ <<LedgerStatus[r], LedgerStatus'[r]>> \in Ledger!Moves
  BY <1>1, <1>2, <1>3 DEF Ledger!Moves
<1>5. LedgerStatus' \in [Calls -> Ledger!Status]
  BY <1>3 DEF Ledger!Status
<1>. QED  BY <1>4, <1>5 DEF Ledger!Next

(* The messenger settles every invoke at most once and forgets none: it    *)
(* implements RequestLedger.                                               *)
THEOREM MessengerImplementsLedger == Spec => ImplementsLedger
<1>1. Init => Ledger!Init
  <2>. SUFFICES ASSUME Init PROVE Ledger!Init
    OBVIOUS
  <2>1. Made = {}
    BY DEF Init, Made
  <2>2. LedgerStatus = [c \in Calls |-> "new"]
    BY <2>1 DEF LedgerStatus
  <2>. QED  BY <2>2 DEF Ledger!Init
<1>2. Inv /\ Inv' /\ [Next]_vars => [Ledger!Next]_Ledger!vars
  BY LedgerStep
<1>. QED
  BY <1>1, <1>2, MessengerInvariant, PTL
     DEF Spec, ImplementsLedger, Ledger!Spec
=============================================================================
