--------------------------- MODULE HostPipeProofs --------------------------
(***************************************************************************)
(* HostBridge and the coordinators at the other end of its pipe, for every *)
(* number of calls, every bound on the pending map and every size of a     *)
(* frame.                                                                  *)
(***************************************************************************)
EXTENDS HostPipe, Integers, FiniteSetTheorems, WellFoundedInduction,
        SequenceTheorems, TLAPS

-----------------------------------------------------------------------------
(* Bounded maps, whose keys are finite sets of numbered calls.             *)

(* A non-empty set of naturals has a least element, so a full map always   *)
(* has an oldest entry to evict.                                           *)
LEMMA LeastElement ==
  ASSUME NEW S \in SUBSET Nat, S # {}
  PROVE  \E x \in S : \A y \in S : x <= y
<1>1. \E x \in S : \A y \in S : ~ (<<y, x>> \in OpToRel(<, Nat))
  BY NatLessThanWellFounded, WFMin
<1>2. PICK x \in S : \A y \in S : ~ (<<y, x>> \in OpToRel(<, Nat))
  BY <1>1
<1>3. ASSUME NEW y \in S PROVE x <= y
  <2>1. ~ (y < x)
    BY <1>2 DEF OpToRel
  <2>. QED  BY <2>1
<1>. QED  BY <1>3

(* Sets of calls made so far are finite, and so is what is left of them.   *)
LEMMA UpToFinite ==
  ASSUME NEW n \in Nat, NEW S \in SUBSET (1 .. n)
  PROVE  /\ IsFiniteSet(S)
         /\ Cardinality(S) \in Nat
         /\ \A T \in SUBSET S :
              /\ IsFiniteSet(T)
              /\ Cardinality(T) \in Nat
              /\ Cardinality(T) <= Cardinality(S)
<1>1. IsFiniteSet(1 .. n)
  BY FS_Interval
<1>2. IsFiniteSet(S)
  BY <1>1, FS_Subset
<1>. QED  BY <1>2, FS_CardinalityType, FS_Subset

(* A map that evicts something whenever it is full keeps its bound.        *)
LEMMA EvictionBounds ==
  ASSUME NEW n \in Nat, NEW S \in SUBSET (1 .. n), NEW x,
         NEW max \in Nat, Cardinality(S) <= max,
         NEW E \in SUBSET S, Cardinality(S) < max \/ E # {}
  PROVE  Cardinality((S \ E) \cup {x}) <= max
<1>. DEFINE kept == S \ E
<1>1. IsFiniteSet(kept) /\ Cardinality(kept) \in Nat
       /\ Cardinality(S) \in Nat /\ Cardinality(kept) <= Cardinality(S)
  BY UpToFinite
<1>2. Cardinality(kept) < max
  <2>1. CASE Cardinality(S) < max
    BY <2>1, <1>1
  <2>2. CASE E # {}
    <3>1. kept # S
      BY <2>2
    <3>2. Cardinality(kept) # Cardinality(S)
      BY <3>1, UpToFinite, FS_Subset
    <3>. QED  BY <3>2, <1>1
  <2>. QED  BY <2>1, <2>2
<1>3. Cardinality(kept \cup {x}) <= Cardinality(kept) + 1
  BY <1>1, FS_AddElement
<1>4. Cardinality(kept \cup {x}) \in Nat
  BY <1>1, FS_AddElement, FS_CardinalityType
<1>. QED  BY <1>1, <1>2, <1>3, <1>4

-----------------------------------------------------------------------------
(* The invariant.                                                          *)

(* The pending map is finite and so is what is left of it.                 *)
LEMMA PendingFinite ==
  ASSUME TypeOK
  PROVE  \A S \in SUBSET pending :
           /\ Cardinality(S) \in Nat /\ Cardinality(pending) \in Nat
           /\ Cardinality(S) <= Cardinality(pending)
<1>1. calls \in Nat /\ pending \in SUBSET (1 .. calls)
  BY BridgeAssumption DEF TypeOK, Made
<1>. QED  BY <1>1, UpToFinite

(* One more call keeps the map within its bound.                           *)
LEMMA AddBounded ==
  ASSUME TypeOK, NEW new
  PROVE  Cardinality((pending \ Evicted) \cup {new}) <= MaxPending
<1>1. calls \in Nat /\ pending \in SUBSET (1 .. calls)
  BY BridgeAssumption DEF TypeOK, Made
<1>2. Evicted \in SUBSET pending
  BY DEF Evicted, Oldest
<1>3. ASSUME Full PROVE Evicted # {}
  <2>1. pending # {}
    BY <1>3, FS_EmptySet, BridgeAssumption DEF Full
  <2>2. \E x \in pending : \A y \in pending : x <= y
    BY <1>1, <2>1, LeastElement
  <2>. QED  BY <1>3, <2>2 DEF Evicted, Oldest
<1>4. Cardinality(pending) < MaxPending \/ Evicted # {}
  <2>1. Cardinality(pending) \in Nat
    BY PendingFinite
  <2>. QED  BY <2>1, <1>3, BridgeAssumption DEF Full
<1>. QED  BY <1>1, <1>2, <1>4, EvictionBounds, BridgeAssumption DEF TypeOK

(* Calls are made in the order of their numbers.                           *)
LEMMA MadeAreCalls == TypeOK => Made \subseteq Calls
  BY BridgeAssumption DEF TypeOK, Made, Calls

(* The bridge starts with nothing tracked.                                 *)
LEMMA InitInv == Init => Inv
<1>1. Cardinality({}) = 0
  BY FS_EmptySet
<1>2. ASSUME Init PROVE Made = {} /\ calls \in 0 .. NumCalls
  BY <1>2, BridgeAssumption DEF Init, Made
<1>3. 0 <= MaxPending
  BY BridgeAssumption
<1>. QED
  BY <1>1, <1>2, <1>3
     DEF Init, Inv, TypeOK, SlotsTimersPending, NoCallerStranded, Outcome

(* What every call leaves behind, tracked or refused.                      *)
LEMMA CallInv ==
  ASSUME Inv, NEW throws \in BOOLEAN, Call(throws)
  PROVE  Inv'
<1>. DEFINE new == calls + 1
<1>1. new \in Calls /\ new \notin Made /\ calls \in Nat /\ calls' = new
       /\ Made' = Made \cup {new} /\ Made \subseteq Calls
       /\ calls' \in 0 .. NumCalls
  BY BridgeAssumption DEF Inv, TypeOK, Call, Calls, Made
<1>2. CASE Refuses
  BY <1>1, <1>2
     DEF Inv, TypeOK, SlotsTimersPending, NoCallerStranded, Call, Refuses,
         Outcome
<1>3. CASE ~Refuses
  <2>1. pending' = (pending \ Evicted) \cup {new}
         /\ armed' = (armed \ Evicted) \cup {new}
         /\ adopted' = (IF throws THEN adopted ELSE adopted \cup {new})
         /\ slot' = Settle(slot, "rejected", Evicted)
         /\ caller' = Settle(caller, "rejected", (Evicted \cap adopted)
                               \cup (IF throws THEN {new} ELSE {}))
         /\ closed' = closed /\ ~closed
    BY <1>3 DEF Call, Refuses, FailsEvicted
  <2>2. Evicted \subseteq pending
    BY DEF Evicted, Oldest
  <2>3. Cardinality(pending') <= MaxPending
    BY <2>1, AddBounded DEF Inv
  <2>4. TypeOK'
    BY <1>1, <2>1, <2>2, <2>3 DEF Inv, TypeOK, Settle, Outcome
  <2>5. SlotsTimersPending'
    BY <1>1, <2>1, <2>2 DEF Inv, TypeOK, SlotsTimersPending, Settle
  <2>6. NoCallerStranded'
    BY <1>1, <2>1, <2>2
       DEF Inv, TypeOK, SlotsTimersPending, NoCallerStranded, Settle
  <2>7. (adopted \subseteq Made)'
         /\ (\A c \in Calls \ Made :
               slot[c] = "unsettled" /\ caller[c] = "unsettled")'
    BY <1>1, <2>1, <2>2 DEF Inv, TypeOK, Settle
  <2>. QED  BY <2>4, <2>5, <2>6, <2>7 DEF Inv
<1>. QED  BY <1>2, <1>3

(* A call that is answered or timed out leaves the map, its timer and its  *)
(* slot together.                                                          *)
LEMMA ForgetInv ==
  ASSUME Inv, NEW c \in pending, NEW how \in {"resolved", "rejected"},
         Forget(c), SettleSlots(how, {c}),
         UNCHANGED <<calls, adopted, closed>>
  PROVE  Inv'
<1>1. Cardinality(pending') <= MaxPending
  <2>1. pending' \in SUBSET pending
    BY DEF Forget
  <2>2. Cardinality(pending') <= Cardinality(pending)
         /\ Cardinality(pending) \in Nat /\ Cardinality(pending') \in Nat
    BY <2>1, PendingFinite, FS_CardinalityType DEF Inv
  <2>. QED  BY <2>2, BridgeAssumption DEF Inv, TypeOK
<1>2. Made' = Made /\ Made \subseteq Calls
  BY MadeAreCalls DEF Inv, Made
<1>3. TypeOK'
  BY <1>1, <1>2 DEF Inv, TypeOK, Forget, SettleSlots, Settle, Outcome
<1>4. SlotsTimersPending'
  BY <1>2 DEF Inv, TypeOK, SlotsTimersPending, Forget, SettleSlots, Settle
<1>5. NoCallerStranded'
  BY <1>2 DEF Inv, TypeOK, NoCallerStranded, Forget, SettleSlots, Settle
<1>6. (adopted \subseteq Made)'
       /\ (\A d \in Calls \ Made :
             slot[d] = "unsettled" /\ caller[d] = "unsettled")'
  BY <1>2 DEF Inv, TypeOK, SettleSlots, Settle
<1>. QED  BY <1>3, <1>4, <1>5, <1>6 DEF Inv

(* Every step keeps the invariant.                                         *)
LEMMA NextInv == Inv /\ [Next]_vars => Inv'
<1>. SUFFICES ASSUME Inv, [Next]_vars PROVE Inv'
  OBVIOUS
<1>1. ASSUME NEW throws \in BOOLEAN, Call(throws) PROVE Inv'
  BY <1>1, CallInv
<1>2. ASSUME NEW c \in Calls, NEW good \in BOOLEAN, ConsumeDownstream(c, good)
      PROVE  Inv'
  <2>1. CASE c \in pending
    BY <1>2, <2>1, ForgetInv DEF ConsumeDownstream
  <2>2. CASE c \notin pending
    <3>1. UNCHANGED vars
      BY <1>2, <2>2 DEF ConsumeDownstream, vars
    <3>. QED
      BY <3>1
         DEF vars, Inv, TypeOK, SlotsTimersPending, NoCallerStranded, Made
  <2>. QED  BY <2>1, <2>2
<1>3. ASSUME NEW c \in Calls, Timeout(c) PROVE Inv'
  <2>1. c \in pending
    BY <1>3 DEF Timeout, Inv, SlotsTimersPending
  <2>. QED  BY <1>3, <2>1, ForgetInv DEF Timeout
<1>4. ASSUME Close PROVE Inv'
  <2>1. Cardinality(pending') <= MaxPending
    BY <1>4, FS_EmptySet, BridgeAssumption DEF Close
  <2>2. Made' = Made /\ Made \subseteq Calls
    BY <1>4, MadeAreCalls DEF Close, Inv, Made
  <2>3. slot' = Settle(slot, "rejected", pending)
         /\ caller' = Settle(caller, "rejected", pending \cap adopted)
    BY <1>4 DEF Close, ClosedFails, SettleSlots
  <2>4. TypeOK'
    BY <1>4, <2>1, <2>2, <2>3
       DEF Close, Inv, TypeOK, SlotsTimersPending, Settle, Outcome
  <2>5. SlotsTimersPending'
    BY <1>4, <2>2, <2>3
       DEF Close, Inv, TypeOK, SlotsTimersPending, Settle
  <2>6. NoCallerStranded'
    BY <1>4, <2>2, <2>3
       DEF Close, Inv, TypeOK, NoCallerStranded, Settle
  <2>7. (adopted \subseteq Made)'
         /\ (\A d \in Calls \ Made :
               slot[d] = "unsettled" /\ caller[d] = "unsettled")'
    BY <1>4, <2>2, <2>3 DEF Close, Inv, TypeOK, Settle
  <2>. QED  BY <2>4, <2>5, <2>6, <2>7 DEF Inv
<1>5. CASE UNCHANGED vars
  BY <1>5 DEF vars, Inv, TypeOK, SlotsTimersPending, NoCallerStranded, Made
<1>. QED  BY <1>1, <1>2, <1>3, <1>4, <1>5 DEF Next

(* Slots, timers and the pending map of createHostIpcBridge stay in step,  *)
(* the map keeps its bound and no caller is stranded, close() included.    *)
THEOREM BridgeInvariant == Spec => []Inv
  BY InitInv, NextInv, PTL DEF Spec

-----------------------------------------------------------------------------
(* The refinement.  A caller that was answered stays answered, and a       *)
(* closed bridge stays closed.                                             *)
LEMMA NothingUndone ==
  ASSUME Inv, [Next]_vars
  PROVE  /\ Made \subseteq Made'
         /\ \A c \in Calls : caller[c] # "unsettled" => caller'[c] = caller[c]
         /\ closed => closed'
<1>1. calls \in Nat
  BY BridgeAssumption DEF Inv, TypeOK
<1>2. ASSUME NEW throws \in BOOLEAN, Call(throws)
      PROVE  /\ Made \subseteq Made' /\ closed' = closed
             /\ \A c \in Calls :
                  caller[c] # "unsettled" => caller'[c] = caller[c]
  <2>1. Made \subseteq Made' /\ closed' = closed
    BY <1>1, <1>2 DEF Call, Made
  <2>2. calls + 1 \in Calls \ Made
    BY <1>1, <1>2, BridgeAssumption DEF Call, Made, Calls, Inv, TypeOK
  <2>3. caller[calls + 1] = "unsettled"
    BY <2>2 DEF Inv
  <2>4. ASSUME NEW c \in Calls, caller[c] # "unsettled"
        PROVE  caller'[c] = caller[c]
    BY <1>2, <2>3, <2>4 DEF Call, Settle, Inv, TypeOK
  <2>. QED  BY <2>1, <2>4
<1>3. ASSUME NEW c \in Calls, NEW good \in BOOLEAN, ConsumeDownstream(c, good)
      PROVE  /\ Made' = Made /\ closed' = closed
             /\ \A d \in Calls :
                  caller[d] # "unsettled" => caller'[d] = caller[d]
  BY <1>3 DEF ConsumeDownstream, SettleSlots, Settle, Made, Inv, TypeOK
<1>4. ASSUME NEW c \in Calls, Timeout(c)
      PROVE  /\ Made' = Made /\ closed' = closed
             /\ \A d \in Calls :
                  caller[d] # "unsettled" => caller'[d] = caller[d]
  BY <1>4 DEF Timeout, SettleSlots, Settle, Made, Inv, TypeOK
<1>5. ASSUME Close
      PROVE  /\ Made' = Made /\ closed'
             /\ \A d \in Calls :
                  caller[d] # "unsettled" => caller'[d] = caller[d]
  BY <1>5 DEF Close, SettleSlots, Settle, Made, Inv, TypeOK
<1>6. CASE UNCHANGED vars
  BY <1>6 DEF vars, Made
<1>. QED  BY <1>2, <1>3, <1>4, <1>5, <1>6 DEF Next

(* Every step of the bridge is a step of the ledger, or leaves it alone.   *)
LEMMA LedgerStep ==
  ASSUME Inv, Inv', [Next]_vars
  PROVE  Ledger!Next
<1>1. /\ Made \subseteq Made'
      /\ \A c \in Calls : caller[c] # "unsettled" => caller'[c] = caller[c]
      /\ closed => closed'
  BY NothingUndone
(* Under the invariant no call is forgotten.                               *)
<1>2. LedgerStatus = [c \in Calls |->
                        IF c \notin Made THEN "new"
                        ELSE IF caller[c] # "unsettled" THEN "answered"
                        ELSE "open"]
  BY DEF Inv, NoCallerStranded, LedgerStatus
<1>3. LedgerStatus' = [c \in Calls |->
                         IF c \notin Made' THEN "new"
                         ELSE IF caller'[c] # "unsettled" THEN "answered"
                         ELSE "open"]
  BY DEF Inv, NoCallerStranded, LedgerStatus
<1>4. ASSUME NEW r \in Calls
      PROVE  LedgerStatus'[r] = LedgerStatus[r]
              \/ <<LedgerStatus[r], LedgerStatus'[r]>> \in Ledger!Moves
  BY <1>1, <1>2, <1>3 DEF Ledger!Moves
<1>5. LedgerStatus' \in [Calls -> Ledger!Status]
  BY <1>3 DEF Ledger!Status
<1>6. ASSUME closed', NEW r \in Calls PROVE LedgerStatus'[r] # "open"
  BY <1>3, <1>6 DEF Inv, NoCallerStranded
<1>7. closed' \in BOOLEAN
  BY DEF Inv, TypeOK
<1>. QED  BY <1>1, <1>4, <1>5, <1>6, <1>7 DEF Ledger!Next

(* The bridge answers every host call at most once, forgets none, and      *)
(* close() answers all it holds: it implements RequestLedger.              *)
THEOREM BridgeImplementsLedger == Spec => ImplementsLedger
<1>1. Init => Ledger!Init
  <2>. SUFFICES ASSUME Init PROVE Ledger!Init
    OBVIOUS
  <2>1. Made = {}
    BY DEF Init, Made
  <2>2. LedgerStatus = [c \in Calls |-> "new"]
    BY <2>1 DEF LedgerStatus
  <2>. QED  BY <2>2 DEF Ledger!Init, Init
<1>2. Inv /\ Inv' /\ [Next]_vars => [Ledger!Next]_Ledger!vars
  BY LedgerStep
<1>. QED
  BY <1>1, <1>2, BridgeInvariant, PTL
     DEF Spec, ImplementsLedger, Ledger!Spec

-----------------------------------------------------------------------------
(* The units of frames, one frame after the other.                         *)

(* The only multiple of d between -d and d is zero.                        *)
LEMMA SmallMultiple ==
  ASSUME NEW d \in Nat \ {0}, NEW m \in Int, m * d < d, -d < m * d
  PROVE  m = 0
<1>1. CASE m >= 1
  <2>1. m * d = (m - 1) * d + d /\ (m - 1) * d >= 0
    BY <1>1
  <2> QED
    BY <2>1
<1>2. CASE m <= -1
  <2>1. (-m - 1) * d >= 0 /\ m * d = -((-m - 1) * d) - d
    BY <1>2
  <2> QED
    BY <2>1
<1> QED
  BY <1>1, <1>2

(* x lies in the q-th interval of length d.                                *)
LEMMA DivOf ==
  ASSUME NEW d \in Nat \ {0}, NEW q \in Nat, NEW x \in Nat
  PROVE  x \div d = q <=> q * d <= x /\ x < q * d + d
<1> DEFINE e == x \div d
<1>1. e \in Int /\ x = e * d + (x % d) /\ x % d \in 0 .. d - 1
  OBVIOUS
<1> HIDE DEF e
<1>2. e * d <= x /\ x < e * d + d /\ e * d \in Int /\ q * d \in Int
  BY <1>1
<1>3. ASSUME q * d <= x, x < q * d + d
      PROVE  e = q
  <2>1. (e - q) * d = e * d - q * d
    BY <1>1
  <2>2. (e - q) * d < d /\ -d < (e - q) * d
    BY <1>2, <1>3, <2>1
  <2>3. e - q = 0
    BY <1>1, <2>2, SmallMultiple
  <2> QED
    BY <1>1, <2>3
<1>4. e = q => q * d <= x /\ x < q * d + d
  BY <1>2
<1> QED
  BY <1>3, <1>4 DEF e

(* One frame's units after those of another.                               *)
Grouped(w) ==
  \A i, j \in DOMAIN w :
    w[i] = w[j] <=> (i - 1) \div FrameUnits = (j - 1) \div FrameUnits

(* w may end in units of c, the frame after q whole ones; v may have more  *)
(* of them.                                                                *)
EndsIn(w, c, q) ==
  /\ q * FrameUnits <= Len(w)
  /\ \A i \in DOMAIN w : i > q * FrameUnits <=> w[i] = c

Fits(w, q) == Len(w) <= q * FrameUnits + FrameUnits

Lengthens(v, w, c) ==
  /\ Len(w) <= Len(v)
  /\ \A i \in 1 .. Len(v) : v[i] = IF i <= Len(w) THEN w[i] ELSE c

(* More units of the frame that w ends in keep frames one after the other. *)
LEMMA GroupedGrows ==
  ASSUME NEW w \in Seq(Calls), Grouped(w), NEW c \in Calls,
         NEW q \in Nat, EndsIn(w, c, q),
         NEW v \in Seq(Calls), Lengthens(v, w, c), Fits(v, q)
  PROVE  /\ Grouped(v)
         /\ EndsIn(v, c, q)
         /\ \A i \in DOMAIN v : v[i] = c \/ \E j \in DOMAIN w : v[i] = w[j]
<1> DEFINE b == q * FrameUnits
<1>0. /\ FrameUnits \in Nat \ {0} /\ b \in Nat
      /\ Len(w) \in Nat /\ Len(v) \in Nat /\ DOMAIN w = 1 .. Len(w)
      /\ b <= Len(w) /\ Len(w) <= Len(v) /\ Len(v) <= b + FrameUnits
  BY PipeAssumption DEF EndsIn, Lengthens, Fits
<1>2. /\ DOMAIN v = 1 .. Len(v)
      /\ \A i \in 1 .. Len(v) : v[i] = IF i <= Len(w) THEN w[i] ELSE c
  BY <1>0 DEF Lengthens
<1>3. \A i \in 1 .. Len(v) :
        (i - 1) \div FrameUnits = q <=> i > b
  <2> SUFFICES ASSUME NEW i \in 1 .. Len(v)
               PROVE  (i - 1) \div FrameUnits = q <=> i > b
    OBVIOUS
  <2>1. i - 1 \in Nat /\ i - 1 < b + FrameUnits
    BY <1>0, <1>2
  <2>2. (i - 1) \div FrameUnits = q <=> b <= i - 1 /\ i - 1 < b + FrameUnits
    BY ONLY <1>0, <2>1, q \in Nat, DivOf
  <2> QED
    BY ONLY <1>0, <2>1, <2>2
<1> HIDE DEF b
<1>4. \A i \in 1 .. Len(w) : i > b <=> w[i] = c
  BY <1>0 DEF b, EndsIn
<1>5. ASSUME NEW i \in 1 .. Len(v)
      PROVE  /\ i > b <=> v[i] = c
             /\ i <= b => i \in 1 .. Len(w) /\ v[i] = w[i]
             /\ v[i] = c \/ \E j \in DOMAIN w : v[i] = w[j]
  <2>1. CASE i <= Len(w)
    <3>1. i \in 1 .. Len(w) /\ v[i] = w[i]
      BY <1>0, <1>2, <2>1
    <3> QED
      BY <1>0, <1>4, <3>1
  <2>2. CASE ~(i <= Len(w))
    <3>1. i > b /\ ~(i <= b)
      BY <1>0, <1>2, <2>2
    <3>2. v[i] = c
      BY <1>2, <2>2, <3>1
    <3> QED
      BY <3>1, <3>2
  <2> QED
    BY <2>1, <2>2
<1>6. ASSUME NEW i \in 1 .. Len(v), NEW j \in 1 .. Len(v)
      PROVE  v[i] = v[j] <=> (i - 1) \div FrameUnits = (j - 1) \div FrameUnits
  <2>1. CASE i > b /\ j > b
    BY <1>3, <1>5, <2>1
  <2>2. CASE i > b /\ ~(j > b)
    BY <1>3, <1>5, <2>2
  <2>3. CASE ~(i > b) /\ j > b
    BY <1>3, <1>5, <2>3
  <2>4. CASE ~(i > b) /\ ~(j > b)
    <3>0. i \in Nat /\ j \in Nat
      OBVIOUS
    <3>1. i <= b /\ j <= b
      BY ONLY <1>0, <2>4, <3>0
    <3>2. /\ i \in 1 .. Len(w) /\ v[i] = w[i]
          /\ j \in 1 .. Len(w) /\ v[j] = w[j]
      BY <1>5, <3>1
    <3> QED
      BY <1>0, <3>2 DEF Grouped
  <2> QED
    BY <2>1, <2>2, <2>3, <2>4
<1>7. Grouped(v)
  BY <1>2, <1>6 DEF Grouped
<1>8. b <= Len(v)
  BY <1>0
<1> QED
  BY <1>2, <1>5, <1>7, <1>8 DEF b, EndsIn

-----------------------------------------------------------------------------
(* The host's end of the pipe.                                             *)

(* The calls of which a frame is owed or was written.                      *)
SentCalls ==
  {outbound[k].call : k \in DOMAIN outbound} \cup {wire[i] : i \in DOMAIN wire}

(* What is on its way to the coordinator, or in the chunk it works on, are *)
(* calls it has not begun with.                                            *)
QueueInv ==
  /\ toHost \in Seq(Made) /\ batch \in Seq(Made)
  /\ \A i, j \in DOMAIN toHost : toHost[i] = toHost[j] => i = j
  /\ \A i, j \in DOMAIN batch : batch[i] = batch[j] => i = j
  /\ \A i \in DOMAIN toHost, j \in DOMAIN batch : toHost[i] # batch[j]
  /\ \A i \in DOMAIN toHost :
       at[toHost[i]] = "none" /\ toHost[i] \notin SentCalls
  /\ \A j \in DOMAIN batch :
       at[batch[j]] = "none" /\ batch[j] \notin SentCalls

(* A frame is sent for a query, or by the answer of an invoke that is done.*)
AnswersInv ==
  /\ \A c \in Calls :
       /\ at[c] = "none" => timer[c] = "none" /\ answer[c] = "none"
       /\ at[c] # "none" => c \in Made /\ c \notin Queries
  /\ \A c \in SentCalls : c \in Made /\ (c \in Queries \/ answer[c] = "done")

(* The port may still be written to.                                       *)
Writable == ~gone /\ stopping \in {"running", "flagged", "finished"}

(* The port has taken q frames whole, and of the first one that is owed    *)
(* what it lacks.                                                          *)
Taken(q) ==
  IF outbound = <<>>
    THEN Len(wire) = q * FrameUnits
    ELSE /\ Len(wire) = q * FrameUnits + (FrameUnits - outbound[1].left)
         /\ \A i \in DOMAIN wire :
              i > q * FrameUnits <=> wire[i] = outbound[1].call

Frames == [call : Calls, left : 1 .. FrameUnits]

FramesInv ==
  /\ outbound \in Seq(Frames) /\ wire \in Seq(Calls)
  /\ \A j, k \in DOMAIN outbound : outbound[j].call = outbound[k].call => j = k
  /\ \A k \in DOMAIN outbound : k # 1 =>
       /\ outbound[k].left = FrameUnits
       /\ \A i \in DOMAIN wire : wire[i] # outbound[k].call
  /\ Writable => \E q \in Nat : Taken(q)
  /\ Grouped(wire)

DeadlinesInv ==
  /\ Host!DeadlineArmed /\ Host!NoTimerLeaked
  /\ \A c \in tracked : at[c] \notin {"none", "scheduled", "stored"}

AndroidInv ==
  /\ Host!DeadlinesTidy /\ Host!NoFrameForgotten
  /\ stopping # "finished"
  /\ stopping \in {"unhooked", "cancelled", "stopped"} =>
       outbound = <<>> /\ ~draining

(* What the coordinator does besides the queues: its calls, their timers   *)
(* and answers, and stop().                                                *)
BooksInv ==
  /\ at \in [Calls -> Host!Places]
  /\ timer \in [Calls -> {"none", "running", "fired", "cancelled"}]
  /\ tracked \subseteq Calls
  /\ answer \in [Calls -> {"none", "won", "untracked", "done"}]
  /\ waiting \in BOOLEAN /\ draining \in BOOLEAN /\ gone \in BOOLEAN
  /\ stopping \in {"running", "flagged", "unhooked", "cancelled", "stopped",
                   "finished"}
  /\ AnswersInv /\ DeadlinesInv
  /\ platform = "android" => AndroidInv
  /\ platform = "ios" => Host!TimersHeld /\ stopping \in {"running", "finished"}

PipeInv ==
  /\ Inv
  /\ platform \in {"android", "ios"}
  /\ partial \in 0 .. FrameUnits - 1
  /\ QueueInv /\ FramesInv /\ BooksInv

(* FramesWhole of the coordinator is Grouped of what the port took.        *)
LEMMA FramesAreGrouped == Host!FramesWhole <=> Grouped(wire)
BY DEF Host!FramesWhole, Grouped

(* What is neither queued nor written stays as it is.                      *)
LEMMA FramesStay ==
  ASSUME FramesInv, UNCHANGED <<outbound, wire>>, Writable' => Writable
  PROVE  FramesInv'
BY DEF FramesInv, Taken, Grouped

(* A call of which no frame was sent yet is owed one.                      *)
LEMMA FrameAdded ==
  ASSUME FramesInv, NEW c \in Calls, c \notin SentCalls,
         outbound' = Append(outbound, [call |-> c, left |-> FrameUnits]),
         UNCHANGED wire, Writable' => Writable
  PROVE  FramesInv' /\ SentCalls' = SentCalls \cup {c}
<1> DEFINE new == [call |-> c, left |-> FrameUnits]
           L == Len(outbound)
<1>1. /\ new \in Frames /\ outbound \in Seq(Frames) /\ L \in Nat
      /\ outbound' \in Seq(Frames) /\ Len(outbound') = L + 1
      /\ DOMAIN outbound = 1 .. L /\ DOMAIN outbound' = 1 .. L + 1
      /\ \A i \in 1 .. L : outbound'[i] = outbound[i]
      /\ outbound'[L + 1] = new
      /\ outbound' # <<>>
  BY PipeAssumption DEF FramesInv, Frames
<1>2. \A k \in 1 .. L + 1 : k \in 1 .. L \/ k = L + 1
  BY <1>1
<1>3. /\ \A k \in 1 .. L : outbound[k].call # c
      /\ \A i \in DOMAIN wire : wire[i] # c
  BY <1>1 DEF SentCalls
<1>4. new.call = c /\ new.left = FrameUnits
  OBVIOUS
<1> HIDE DEF new
<1>5. \A j, k \in DOMAIN outbound' : outbound'[j].call = outbound'[k].call => j = k
  BY <1>1, <1>2, <1>3, <1>4 DEF FramesInv
<1>6. \A k \in DOMAIN outbound' : k # 1 =>
        /\ outbound'[k].left = FrameUnits
        /\ \A i \in DOMAIN wire : wire[i] # outbound'[k].call
  BY <1>1, <1>2, <1>3, <1>4 DEF FramesInv
<1>7. ASSUME Writable'
      PROVE  \E q \in Nat : Taken(q)'
  <2>1. PICK q \in Nat : Taken(q)
    BY <1>7 DEF FramesInv
  <2>2. CASE outbound = <<>>
    <3>1. L = 0 /\ outbound'[1] = new
      BY <1>1, <2>2
    <3>2. /\ Len(wire) = q * FrameUnits /\ q * FrameUnits \in Nat
          /\ \A i \in DOMAIN wire : i \in 1 .. Len(wire)
          /\ FrameUnits - new.left = 0
      BY <1>4, <2>1, <2>2, PipeAssumption DEF Taken, FramesInv
    <3>3. \A i \in DOMAIN wire : ~(i > q * FrameUnits)
      BY ONLY <3>2
    <3>4. Len(wire) = q * FrameUnits + (FrameUnits - new.left)
      BY ONLY <3>2
    <3>5. Taken(q)'
      BY <1>1, <1>3, <1>4, <3>1, <3>3, <3>4 DEF Taken
    <3> QED
      BY <3>5
  <2>3. CASE outbound # <<>>
    <3>1. outbound'[1] = outbound[1]
      BY <1>1, <2>3
    <3>2. Taken(q)'
      BY <1>1, <2>1, <2>3, <3>1 DEF Taken
    <3> QED
      BY <3>2
  <2> QED
    BY <2>2, <2>3
<1>8. SentCalls' = SentCalls \cup {c}
  BY <1>1, <1>2, <1>4 DEF SentCalls
<1> QED
  BY <1>1, <1>5, <1>6, <1>7, <1>8 DEF FramesInv, Grouped

(* Nothing is written any more, or nothing was owed.                       *)
LEMMA FramesDropped ==
  ASSUME FramesInv, ~Writable', UNCHANGED wire,
         outbound' = <<>> \/ (outbound # <<>> /\ outbound' = Tail(outbound))
  PROVE  FramesInv' /\ SentCalls' \subseteq SentCalls
<1>1. CASE outbound' = <<>>
  <2>1. <<>> \in Seq(Frames) /\ DOMAIN <<>> = {}
    OBVIOUS
  <2> QED
    BY <1>1, <2>1 DEF FramesInv, SentCalls, Grouped
<1>2. CASE outbound # <<>> /\ outbound' = Tail(outbound)
  <2>1. /\ outbound \in Seq(Frames) /\ outbound' \in Seq(Frames)
        /\ \A k \in DOMAIN outbound' :
             /\ k + 1 \in DOMAIN outbound /\ k + 1 # 1
             /\ outbound'[k] = outbound[k + 1]
        /\ \A j, k \in DOMAIN outbound' : j + 1 = k + 1 => j = k
    BY <1>2 DEF FramesInv
  <2>2. \A j, k \in DOMAIN outbound' : outbound'[j].call = outbound'[k].call => j = k
    BY <2>1 DEF FramesInv
  <2>3. \A k \in DOMAIN outbound' : k # 1 =>
          /\ outbound'[k].left = FrameUnits
          /\ \A i \in DOMAIN wire : wire[i] # outbound'[k].call
    BY <2>1 DEF FramesInv
  <2>4. SentCalls' \subseteq SentCalls
    BY <2>1 DEF SentCalls
  <2> QED
    BY <2>1, <2>2, <2>3, <2>4 DEF FramesInv, Grouped
<1> QED
  BY <1>1, <1>2

(* The port takes n units of the first frame.                              *)
LEMMA FrameWritten ==
  ASSUME FramesInv, Writable, outbound # <<>>,
         NEW n \in 0 .. outbound[1].left,
         wire' = wire \o [i \in 1 .. n |-> outbound[1].call],
         \/ n = outbound[1].left /\ outbound' = Tail(outbound)
         \/ /\ n < outbound[1].left
            /\ outbound' = <<[outbound[1] EXCEPT !.left = @ - n]>> \o Tail(outbound)
  PROVE  FramesInv' /\ SentCalls' \subseteq SentCalls
<1> DEFINE head == outbound[1]
           c    == outbound[1].call
           left == outbound[1].left
           rest == Tail(outbound)
           cut  == [outbound[1] EXCEPT !.left = @ - n]
<1>1. /\ outbound \in Seq(Frames) /\ wire \in Seq(Calls)
      /\ DOMAIN outbound = 1 .. Len(outbound) /\ DOMAIN wire = 1 .. Len(wire)
      /\ Len(outbound) \in Nat /\ Len(wire) \in Nat /\ 1 \in DOMAIN outbound
      /\ head \in Frames /\ c \in Calls /\ left \in 1 .. FrameUnits
      /\ FrameUnits \in Nat \ {0} /\ left \in Nat /\ n \in Nat /\ n <= left
  <2>1. outbound \in Seq(Frames) /\ wire \in Seq(Calls) /\ outbound # <<>>
    BY DEF FramesInv
  <2>2. /\ DOMAIN outbound = 1 .. Len(outbound) /\ DOMAIN wire = 1 .. Len(wire)
        /\ Len(outbound) \in Nat /\ Len(wire) \in Nat /\ 1 \in DOMAIN outbound
        /\ head \in Frames
    BY ONLY <2>1
  <2>3. c \in Calls /\ left \in 1 .. FrameUnits
    BY ONLY <2>2 DEF Frames
  <2>4. n \in 0 .. left
    OBVIOUS
  <2> QED
    BY ONLY <2>1, <2>2, <2>3, <2>4, PipeAssumption
<1>2. /\ rest \in Seq(Frames) /\ Len(rest) = Len(outbound) - 1
      /\ DOMAIN rest = 1 .. Len(outbound) - 1
      /\ \A k \in DOMAIN rest :
           k + 1 \in DOMAIN outbound /\ k + 1 # 1 /\ rest[k] = outbound[k + 1]
  BY <1>1
<1>3. PICK q \in Nat : Taken(q)
  BY DEF FramesInv
<1>4. /\ Len(wire) = q * FrameUnits + (FrameUnits - left)
      /\ \A i \in DOMAIN wire : i > q * FrameUnits <=> wire[i] = c
  BY <1>3 DEF Taken
<1>5. /\ FrameUnits - left \in 0 .. FrameUnits
      /\ n \in 0 .. FrameUnits - (FrameUnits - left)
      /\ q * FrameUnits \in Nat
  BY <1>1
<1> HIDE DEF head, c, left, rest, cut
<1>6. /\ wire' \in Seq(Calls) /\ Grouped(wire')
      /\ Len(wire') = q * FrameUnits + (FrameUnits - left) + n
      /\ \A i \in DOMAIN wire' : i > q * FrameUnits <=> wire'[i] = c
      /\ \A i \in DOMAIN wire' : wire'[i] = c \/ \E j \in DOMAIN wire : wire'[i] = wire[j]
  <2>1. wire' = wire \o [i \in 1 .. n |-> c]
    BY DEF c
  <2>2. wire \in Seq(Calls) /\ Grouped(wire)
    BY DEF FramesInv
  <2> QED
    <3>1. EndsIn(wire, c, q)
      BY ONLY <1>1, <1>4, <1>5 DEF EndsIn
    <3> DEFINE more == [i \in 1 .. n |-> c]
    <3>2. more \in Seq(Calls) /\ Len(more) = n /\ \A i \in 1 .. n : more[i] = c
      BY ONLY <1>1
    <3>3. wire' = wire \o more
      BY ONLY <2>1
    <3> HIDE DEF more
    <3>4. /\ wire' \in Seq(Calls) /\ Len(wire') = Len(wire) + n
          /\ \A i \in 1 .. Len(wire) + n :
               wire'[i] = IF i <= Len(wire) THEN wire[i] ELSE more[i - Len(wire)]
      BY ONLY <1>1, <3>2, <3>3, ConcatProperties
    <3>5. \A i \in 1 .. Len(wire) + n :
            i <= Len(wire) \/ i - Len(wire) \in 1 .. n
      BY ONLY <1>1
    <3>6. \A i \in 1 .. Len(wire) + n :
            wire'[i] = IF i <= Len(wire) THEN wire[i] ELSE c
      BY ONLY <3>2, <3>4, <3>5
    <3>7. Lengthens(wire', wire, c)
      BY ONLY <1>1, <3>4, <3>6 DEF Lengthens
    <3>8. Fits(wire', q) /\ Len(wire') = q * FrameUnits + (FrameUnits - left) + n
      BY ONLY <1>1, <1>4, <1>5, <3>4 DEF Fits
    <3>9. q \in Nat /\ c \in Calls
      BY <1>1
    <3>10. /\ Grouped(wire') /\ EndsIn(wire', c, q)
           /\ \A i \in DOMAIN wire' :
                wire'[i] = c \/ \E j \in DOMAIN wire : wire'[i] = wire[j]
      BY ONLY <2>2, <3>1, <3>4, <3>7, <3>8, <3>9, GroupedGrows
    <3> QED
      BY ONLY <3>4, <3>8, <3>10 DEF EndsIn
<1>7. /\ \A k \in DOMAIN rest :
           /\ rest[k].left = FrameUnits /\ rest[k].call # c
           /\ \A i \in DOMAIN wire : wire[i] # rest[k].call
      /\ \A j, k \in DOMAIN rest : rest[j].call = rest[k].call => j = k
  <2>1. \A j, k \in DOMAIN rest : j + 1 = k + 1 => j = k
    BY <1>1, <1>2
  <2>2. /\ \A k \in DOMAIN outbound : k # 1 =>
             /\ outbound[k].left = FrameUnits
             /\ \A i \in DOMAIN wire : wire[i] # outbound[k].call
        /\ \A j, k \in DOMAIN outbound :
             outbound[j].call = outbound[k].call => j = k
    BY DEF FramesInv
  <2>3. \A k \in DOMAIN outbound : k # 1 => outbound[k].call # c
    BY <1>1, <2>2 DEF c
  <2> QED
    BY ONLY <1>1, <1>2, <2>1, <2>2, <2>3
<1>8. \A k \in DOMAIN rest : \A i \in DOMAIN wire' : wire'[i] # rest[k].call
  BY <1>6, <1>7
<1>9. \A i \in DOMAIN wire' : wire'[i] \in SentCalls
  BY <1>1, <1>6 DEF SentCalls, c
<1>10. \A k \in DOMAIN rest : rest[k].call \in SentCalls
  BY <1>2 DEF SentCalls
<1>11. CASE n = left /\ outbound' = rest
  <2>1. SentCalls' \subseteq SentCalls
    <3>1. SentCalls' = {outbound'[k].call : k \in DOMAIN outbound'}
                         \cup {wire'[i] : i \in DOMAIN wire'}
      BY DEF SentCalls
    <3> QED
      BY ONLY <1>9, <1>10, <1>11, <3>1
  <2>2. Taken(q + 1)'
    <3>1. (q + 1) * FrameUnits = q * FrameUnits + FrameUnits
      BY <1>1
    <3>2. Len(wire') = (q + 1) * FrameUnits
      BY <1>1, <1>5, <1>6, <1>11, <3>1
    <3>3. CASE rest = <<>>
      BY <1>11, <3>2, <3>3 DEF Taken
    <3>4. CASE rest # <<>>
      <4>1. 1 \in DOMAIN rest
        BY <1>1, <1>2, <3>4
      <4>2. rest[1].left = FrameUnits /\ FrameUnits - rest[1].left = 0
        BY <1>1, <1>7, <4>1
      <4>3. \A i \in DOMAIN wire' : ~(i > (q + 1) * FrameUnits)
        BY <1>6, <3>2
      <4>4. Len(wire') = (q + 1) * FrameUnits + (FrameUnits - rest[1].left)
        BY <1>5, <1>1, <3>1, <3>2, <4>2
      <4> QED
        BY <1>8, <1>11, <3>4, <4>1, <4>3, <4>4 DEF Taken
    <3> QED
      BY <3>3, <3>4
  <2>3. q + 1 \in Nat
    OBVIOUS
  <2> QED
    BY <1>2, <1>6, <1>7, <1>8, <1>11, <2>1, <2>2, <2>3 DEF FramesInv
<1>12. CASE n < left /\ outbound' = <<cut>> \o rest
  <2>1. cut \in Frames /\ cut.call = c /\ cut.left = left - n
    <3>1. head.call = c /\ head.left = left /\ cut = [head EXCEPT !.left = @ - n]
      BY DEF head, c, left, cut
    <3>2. left - n \in 1 .. FrameUnits
      BY ONLY <1>1, <1>12
    <3> QED
      BY ONLY <1>1, <3>1, <3>2 DEF Frames
  <2>2. /\ outbound' \in Seq(Frames) /\ DOMAIN outbound' = 1 .. Len(outbound)
        /\ outbound'[1] = cut /\ outbound' # <<>>
        /\ \A k \in 1 .. Len(outbound) :
             k # 1 => k - 1 \in DOMAIN rest /\ outbound'[k] = rest[k - 1]
    <3>1. <<cut>> \in Seq(Frames) /\ Len(<<cut>>) = 1 /\ <<cut>>[1] = cut
      BY ONLY <2>1
    <3>2. /\ outbound' \in Seq(Frames)
          /\ Len(outbound') = 1 + Len(rest)
          /\ \A k \in 1 .. 1 + Len(rest) :
               outbound'[k] = IF k <= 1 THEN <<cut>>[k] ELSE rest[k - 1]
      BY ONLY <1>2, <1>12, <3>1, ConcatProperties
    <3>3. 1 + Len(rest) = Len(outbound) /\ 1 \in 1 .. Len(outbound)
          /\ Len(rest) \in Nat
      BY ONLY <1>1, <1>2
    <3>4. \A k \in 1 .. Len(outbound) : k # 1 =>
            k - 1 \in DOMAIN rest /\ ~(k <= 1)
      BY ONLY <1>2, <3>3
    <3> QED
      BY ONLY <3>1, <3>2, <3>3, <3>4
  <2>3. \A j, k \in DOMAIN outbound' : outbound'[j].call = outbound'[k].call => j = k
    <3>1. \A j, k \in 1 .. Len(outbound) : j - 1 = k - 1 => j = k
      BY <1>1
    <3> QED
      BY ONLY <1>7, <2>1, <2>2, <3>1
  <2>4. \A k \in DOMAIN outbound' : k # 1 =>
          /\ outbound'[k].left = FrameUnits
          /\ \A i \in DOMAIN wire' : wire'[i] # outbound'[k].call
    BY <1>7, <1>8, <2>2
  <2>5. Taken(q)'
    <3>1. Len(wire') = q * FrameUnits + (FrameUnits - cut.left)
      <4> DEFINE b == q * FrameUnits
      <4>1. /\ b \in Nat /\ FrameUnits \in Nat /\ left \in Nat /\ n \in Nat
            /\ Len(wire') = b + (FrameUnits - left) + n
            /\ cut.left = left - n
        BY ONLY <1>1, <1>5, <1>6, <2>1
      <4> HIDE DEF b
      <4>2. Len(wire') = b + (FrameUnits - cut.left)
        BY ONLY <4>1
      <4> QED
        BY ONLY <4>2 DEF b
    <3> QED
      BY <1>6, <2>1, <2>2, <3>1 DEF Taken
  <2>6. c \in SentCalls
    BY <1>1 DEF SentCalls, c
  <2>7. SentCalls' \subseteq SentCalls
    <3>1. \A k \in DOMAIN outbound' : outbound'[k].call \in SentCalls
      BY <1>10, <2>1, <2>2, <2>6
    <3> QED
      BY <1>9, <3>1 DEF SentCalls
  <2> QED
    BY <1>6, <2>2, <2>3, <2>4, <2>5, <2>7 DEF FramesInv
<1> QED
  BY <1>11, <1>12 DEF left, cut, rest

-----------------------------------------------------------------------------
(* The steps of the coordinators.                                          *)

(* The type invariant is among what the invariant says.                    *)
LEMMA PipeIsTyped == PipeInv => Host!HostTypeOK
<1>1. /\ DOMAIN Host!Stops = 1 .. 5
      /\ Host!Stops[1] = "running" /\ Host!Stops[2] = "flagged"
      /\ Host!Stops[3] = "unhooked" /\ Host!Stops[4] = "cancelled"
      /\ Host!Stops[5] = "stopped"
  BY DEF Host!Stops
<1>2. /\ 1 \in 1 .. 5 /\ 2 \in 1 .. 5 /\ 3 \in 1 .. 5 /\ 4 \in 1 .. 5
      /\ 5 \in 1 .. 5
  OBVIOUS
<1>3. ASSUME NEW x \in {"running", "flagged", "unhooked", "cancelled", "stopped"}
      PROVE  x \in {Host!Stops[i] : i \in DOMAIN Host!Stops}
  <2>1. \E i \in DOMAIN Host!Stops : x = Host!Stops[i]
    <3>1. CASE x = "running"
      BY ONLY <1>1, <1>2, <3>1
    <3>2. CASE x = "flagged"
      BY ONLY <1>1, <1>2, <3>2
    <3>3. CASE x = "unhooked"
      BY ONLY <1>1, <1>2, <3>3
    <3>4. CASE x = "cancelled"
      BY ONLY <1>1, <1>2, <3>4
    <3>5. CASE x = "stopped"
      BY ONLY <1>1, <1>2, <3>5
    <3> QED
      BY <3>1, <3>2, <3>3, <3>4, <3>5
  <2> QED
    BY ONLY <2>1, Zenon
<1>4. BooksInv =>
        stopping \in {Host!Stops[i] : i \in DOMAIN Host!Stops} \cup {"finished"}
  <2> DEFINE S == {Host!Stops[i] : i \in DOMAIN Host!Stops}
  <2>1. BooksInv => \/ stopping = "finished"
                    \/ stopping \in {"running", "flagged", "unhooked",
                                     "cancelled", "stopped"}
    BY DEF BooksInv
  <2>2. \A x \in {"running", "flagged", "unhooked", "cancelled", "stopped"} :
          x \in S
    BY <1>3
  <2> HIDE DEF S
  <2>3. BooksInv => stopping \in S \cup {"finished"}
    BY ONLY <2>1, <2>2
  <2> QED
    BY <2>3 DEF S
<1>5. FramesInv => \A i \in DOMAIN outbound :
                     outbound[i] \in [call : Calls, left : 1 .. FrameUnits]
  <2>1. FramesInv => outbound \in Seq(Frames)
    BY DEF FramesInv
  <2>2. FramesInv => \A i \in DOMAIN outbound : outbound[i] \in Frames
    BY ONLY <2>1
  <2> QED
    BY ONLY <2>2, Zenon DEF Frames
<1>6. BooksInv => {waiting, draining, gone} \subseteq BOOLEAN
  BY DEF BooksInv
<1>7. PipeInv =>
        /\ at \in [Calls -> Host!Places]
        /\ timer \in [Calls -> {"none", "running", "fired", "cancelled"}]
        /\ tracked \subseteq Calls
        /\ answer \in [Calls -> {"none", "won", "untracked", "done"}]
        /\ partial \in 0 .. FrameUnits - 1
        /\ FramesInv /\ BooksInv
  BY DEF PipeInv, BooksInv
<1> QED
  BY ONLY <1>4, <1>5, <1>6, <1>7, Zenon DEF Host!HostTypeOK

(* The bridge's side stands still.                                         *)
LEMMA BridgeStays ==
  ASSUME Inv, UNCHANGED vars
  PROVE  Inv' /\ Made' = Made /\ calls' = calls /\ Made \subseteq Calls
<1>1. Inv'
  BY NextInv
<1> QED
  BY <1>1, MadeAreCalls DEF vars, Made, Inv

(* A step that leaves both queues alone and forgets no call's place.       *)
LEMMA QueuesStay ==
  ASSUME QueueInv, UNCHANGED <<calls, toHost, batch, outbound, wire>>,
         \A c \in Calls : at[c] = "none" => at'[c] = "none",
         Made \subseteq Calls
  PROVE  QueueInv' /\ SentCalls' = SentCalls /\ Made' = Made
<1>1. SentCalls' = SentCalls /\ Made' = Made
  BY DEF SentCalls, Made
<1>2. /\ \A i \in DOMAIN toHost : toHost[i] \in Calls
      /\ \A i \in DOMAIN batch : batch[i] \in Calls
  BY DEF QueueInv
<1> QED
  BY <1>1, <1>2 DEF QueueInv

(* What such a step has to show of the books.                              *)
LEMMA QuietStep ==
  ASSUME PipeInv,
         UNCHANGED <<vars, platform, toHost, partial, batch, outbound, wire>>,
         \A c \in Calls : at[c] = "none" => at'[c] = "none",
         Writable' => Writable,
         BooksInv'
  PROVE  PipeInv'
<1>1. Inv' /\ Made \subseteq Calls /\ calls' = calls
  BY BridgeStays DEF PipeInv
<1>2. QueueInv'
  BY <1>1, QueuesStay DEF PipeInv
<1>3. FramesInv'
  BY FramesStay DEF PipeInv
<1>4. partial' \in 0 .. FrameUnits - 1 /\ platform' \in {"android", "ios"}
  BY DEF PipeInv
<1> QED
  BY <1>1, <1>2, <1>3, <1>4 DEF PipeInv

(* No call is made and no frame sent.                                      *)
LEMMA StillSent ==
  ASSUME UNCHANGED <<vars, outbound, wire>>
  PROVE  Made' = Made /\ SentCalls' = SentCalls
BY DEF vars, Made, SentCalls

(* The steps of an invoke between its deadline and its handler.            *)
LEMMA InvokesKeep ==
  ASSUME PipeInv, platform = "android", UNCHANGED <<vars, platform>>,
         NEW c \in Calls,
         \/ Host!StoreDeadline(c) \/ Host!TrackDeadline(c) \/ Host!Recheck(c)
         \/ Host!Dispatch(c)
  PROVE  PipeInv'
<1>1. /\ at[c] # "none" /\ UNCHANGED <<toHost, partial, batch, answer, outbound,
                                       waiting, draining, wire, stopping, gone>>
      /\ at' = [at EXCEPT ![c] = at'[c]]
      /\ at'[c] \in Host!Places \ {"none"}
  BY DEF Host!StoreDeadline, Host!TrackDeadline, Host!Recheck, Host!Dispatch,
         Host!Advance, Host!writer, Host!Places, PipeInv, BooksInv
<1>2. /\ \A d \in Calls : at[d] = "none" <=> at'[d] = "none"
      /\ at' \in [Calls -> Host!Places]
  BY <1>1 DEF PipeInv, BooksInv
<1>3. /\ timer' \in [Calls -> {"none", "running", "fired", "cancelled"}]
      /\ tracked' \subseteq Calls
      /\ \A d \in Calls : timer[d] = "none" <=> timer'[d] = "none"
  BY DEF Host!StoreDeadline, Host!TrackDeadline, Host!Recheck, Host!Dispatch,
         Host!Cancelled, PipeInv, BooksInv
<1>4. AnswersInv'
  BY <1>1, <1>2, <1>3, StillSent DEF PipeInv, BooksInv, AnswersInv
<1>5. DeadlinesInv'
  <2>1. DeadlinesInv /\ timer \in [Calls -> {"none", "running", "fired", "cancelled"}]
        /\ at \in [Calls -> Host!Places]
    BY DEF PipeInv, BooksInv
  <2>2. CASE Host!StoreDeadline(c)
    BY <2>1, <2>2 DEF DeadlinesInv, Host!DeadlineArmed, Host!NoTimerLeaked,
                      Host!StoreDeadline, Host!Advance
  <2>3. CASE Host!TrackDeadline(c)
    BY <2>1, <2>3 DEF DeadlinesInv, Host!DeadlineArmed, Host!NoTimerLeaked,
                      Host!TrackDeadline, Host!Advance
  <2>4. CASE Host!Recheck(c)
    BY <2>1, <2>4 DEF DeadlinesInv, Host!DeadlineArmed, Host!NoTimerLeaked,
                      Host!Recheck, Host!Advance, Host!Cancelled
  <2>5. CASE Host!Dispatch(c)
    BY <2>1, <2>5 DEF DeadlinesInv, Host!DeadlineArmed, Host!NoTimerLeaked,
                      Host!Dispatch, Host!Advance
  <2> QED
    BY <2>2, <2>3, <2>4, <2>5
<1>6. AndroidInv'
  <2>1. AndroidInv /\ DeadlinesInv /\ at \in [Calls -> Host!Places]
        /\ answer \in [Calls -> {"none", "won", "untracked", "done"}]
    BY DEF PipeInv, BooksInv
  <2>2. Host!DeadlinesTidy'
    <3>1. CASE Host!StoreDeadline(c)
      BY <2>1, <3>1 DEF AndroidInv, DeadlinesInv, Host!DeadlinesTidy,
                        Host!StoreDeadline, Host!Advance
    <3>2. CASE Host!TrackDeadline(c)
      BY <2>1, <3>2 DEF AndroidInv, Host!DeadlinesTidy, Host!TrackDeadline,
                        Host!Advance
    <3>3. CASE Host!Recheck(c)
      BY <2>1, <3>3 DEF AndroidInv, Host!DeadlinesTidy, Host!Recheck,
                        Host!Advance
    <3>4. CASE Host!Dispatch(c)
      BY <2>1, <3>4 DEF AndroidInv, Host!DeadlinesTidy, Host!Dispatch,
                        Host!Advance
    <3> QED
      BY <3>1, <3>2, <3>3, <3>4
  <2> QED
    BY <1>1, <2>1, <2>2 DEF AndroidInv, Host!NoFrameForgotten
<1>7. BooksInv'
  BY <1>1, <1>2, <1>3, <1>4, <1>5, <1>6 DEF PipeInv, BooksInv
<1> QED
  BY <1>1, <1>2, <1>7, QuietStep DEF Writable

(* The handler, the deadline and the answers they start.                   *)
LEMMA AnswersKeep ==
  ASSUME PipeInv, platform = "android", UNCHANGED <<vars, platform>>,
         NEW c \in Calls,
         Host!HandlerResponds(c) \/ Host!DeadlinePasses(c) \/ Host!Untrack(c)
  PROVE  PipeInv'
<1>1. /\ UNCHANGED <<toHost, partial, batch, at, outbound, waiting, draining,
                     wire, stopping, gone>>
      /\ AnswersInv /\ DeadlinesInv /\ AndroidInv
      /\ at \in [Calls -> Host!Places]
      /\ timer \in [Calls -> {"none", "running", "fired", "cancelled"}]
      /\ answer \in [Calls -> {"none", "won", "untracked", "done"}]
  BY DEF Host!HandlerResponds, Host!DeadlinePasses, Host!Untrack, Host!writer,
         PipeInv, BooksInv
<1>2. at[c] # "none"
  BY <1>1 DEF Host!HandlerResponds, Host!DeadlinePasses, Host!Untrack,
              AnswersInv
<1>3. /\ timer' \in [Calls -> {"none", "running", "fired", "cancelled"}]
      /\ tracked' \subseteq tracked
      /\ \A d \in Calls : timer[d] = "none" <=> timer'[d] = "none"
  BY <1>1 DEF Host!HandlerResponds, Host!DeadlinePasses, Host!Untrack,
              Host!Cancelled
<1>4. /\ answer' \in [Calls -> {"none", "won", "untracked", "done"}]
      /\ \A d \in Calls : d # c => answer'[d] = answer[d]
      /\ answer[c] = "done" => answer'[c] = "done"
      /\ answer'[c] # "none"
  BY <1>1 DEF Host!HandlerResponds, Host!DeadlinePasses, Host!Untrack,
              Host!Wins
<1>5. AnswersInv'
  <2>1. Made' = Made /\ SentCalls' = SentCalls
    BY <1>1, StillSent
  <2>2. \A d \in Made : d \in Calls
    BY MadeAreCalls DEF PipeInv, Inv
  <2> QED
    BY <1>1, <1>2, <1>3, <1>4, <2>1, <2>2 DEF AnswersInv
<1>6. DeadlinesInv'
  <2>1. CASE Host!HandlerResponds(c)
    BY <1>1, <2>1 DEF DeadlinesInv, Host!DeadlineArmed, Host!NoTimerLeaked,
                      Host!HandlerResponds, Host!Wins
  <2>2. CASE Host!DeadlinePasses(c)
    BY <1>1, <2>2 DEF DeadlinesInv, Host!DeadlineArmed, Host!NoTimerLeaked,
                      Host!DeadlinePasses, Host!Wins
  <2>3. CASE Host!Untrack(c)
    BY <1>1, <2>3 DEF DeadlinesInv, Host!DeadlineArmed, Host!NoTimerLeaked,
                      Host!Untrack, Host!Cancelled
  <2> QED
    BY <2>1, <2>2, <2>3
<1>7. AndroidInv'
  <2>1. Host!DeadlinesTidy'
    <3>1. CASE Host!HandlerResponds(c)
      BY <1>1, <3>1 DEF AndroidInv, Host!DeadlinesTidy, Host!HandlerResponds,
                        Host!Wins
    <3>2. CASE Host!DeadlinePasses(c)
      BY <1>1, <3>2 DEF AndroidInv, Host!DeadlinesTidy, Host!DeadlinePasses,
                        Host!Wins
    <3>3. CASE Host!Untrack(c)
      BY <1>1, <3>3 DEF AndroidInv, DeadlinesInv, Host!DeadlinesTidy,
                        Host!Untrack
    <3> QED
      BY <3>1, <3>2, <3>3
  <2> QED
    BY <1>1, <2>1 DEF AndroidInv, Host!NoFrameForgotten
<1>8. BooksInv'
  BY <1>1, <1>3, <1>4, <1>5, <1>6, <1>7 DEF PipeInv, BooksInv
<1> QED
  BY <1>1, <1>8, QuietStep DEF Writable

(* stop(), but for the moment it has the lock, and the port.               *)
LEMMA StopKeeps ==
  ASSUME PipeInv, platform = "android", UNCHANGED <<vars, platform>>,
         \/ Host!StopFlag \/ Host!StopCancel \/ Host!StopClear
         \/ Host!PortFails \/ Host!OnWritable
  PROVE  PipeInv'
<1>1. /\ UNCHANGED <<toHost, partial, batch, at, outbound, waiting, wire, answer>>
      /\ AnswersInv /\ DeadlinesInv /\ AndroidInv
      /\ at \in [Calls -> Host!Places]
      /\ timer \in [Calls -> {"none", "running", "fired", "cancelled"}]
      /\ answer \in [Calls -> {"none", "won", "untracked", "done"}]
      /\ tracked' \subseteq tracked /\ tracked \subseteq Calls
  BY DEF Host!StopFlag, Host!StopCancel, Host!StopClear, Host!PortFails,
         Host!OnWritable, Host!writer, PipeInv, BooksInv
<1>2. /\ timer' \in [Calls -> {"none", "running", "fired", "cancelled"}]
      /\ \A d \in Calls : timer[d] = "none" <=> timer'[d] = "none"
      /\ \A d \in Calls : timer'[d] = "running" => timer[d] = "running"
      /\ timer' = timer \/ stopping' \in {"cancelled", "stopped"}
      /\ stopping \in {"cancelled", "stopped"} =>
           stopping' \in {"cancelled", "stopped"}
  BY <1>1 DEF Host!StopFlag, Host!StopCancel, Host!StopClear, Host!PortFails,
              Host!OnWritable, Host!Cancelled
<1>3. /\ waiting' \in BOOLEAN /\ draining' \in BOOLEAN /\ gone' \in BOOLEAN
      /\ stopping' \in {"running", "flagged", "unhooked", "cancelled",
                        "stopped"}
      /\ gone => gone'
      /\ stopping' \in {"running", "flagged"} =>
           stopping \in {"running", "flagged"}
      /\ stopping' \in {"unhooked", "cancelled", "stopped"} =>
           /\ stopping \in {"unhooked", "cancelled", "stopped"}
           /\ draining' => draining
      /\ draining => draining'
  <2>1. /\ waiting \in BOOLEAN /\ draining \in BOOLEAN /\ gone \in BOOLEAN
        /\ stopping \in {"running", "flagged", "unhooked", "cancelled",
                         "stopped"}
    BY <1>1 DEF PipeInv, BooksInv, AndroidInv
  <2>2. CASE Host!StopFlag
    BY <2>1, <2>2 DEF Host!StopFlag, Host!writer
  <2>3. CASE Host!StopCancel
    BY <2>1, <2>3 DEF Host!StopCancel, Host!writer
  <2>4. CASE Host!StopClear
    BY <2>1, <2>4 DEF Host!StopClear, Host!writer
  <2>5. CASE Host!PortFails
    BY <2>1, <2>5 DEF Host!PortFails, Host!writer
  <2>6. CASE Host!OnWritable
    BY <2>1, <2>6 DEF Host!OnWritable, Host!Ignored
  <2> QED
    BY ONLY <2>2, <2>3, <2>4, <2>5, <2>6,
            \/ Host!StopFlag \/ Host!StopCancel \/ Host!StopClear
            \/ Host!PortFails \/ Host!OnWritable
<1>4. AnswersInv'
  BY <1>1, <1>2, StillSent DEF AnswersInv
<1>5. DeadlinesInv'
  BY <1>1, <1>2 DEF DeadlinesInv, Host!DeadlineArmed, Host!NoTimerLeaked
<1>6. AndroidInv'
  <2>1. Host!DeadlinesTidy'
    BY <1>1 DEF AndroidInv, Host!DeadlinesTidy
  <2>2. Host!NoFrameForgotten'
    BY <1>1, <1>3 DEF AndroidInv, Host!NoFrameForgotten
  <2> QED
    BY <1>1, <1>3, <2>1, <2>2 DEF AndroidInv
<1>7. BooksInv'
  BY <1>1, <1>2, <1>3, <1>4, <1>5, <1>6 DEF PipeInv, BooksInv
<1> QED
  BY <1>1, <1>3, <1>7, QuietStep DEF Writable

-----------------------------------------------------------------------------
(* The queues of calls.                                                    *)

(* The next call of the chunk is taken, and its place or a frame of its    *)
(* own is all that is new.                                                 *)
LEMMA QueueNext ==
  ASSUME QueueInv, NEW c, Host!NextInBatch(c), Made \subseteq Calls,
         UNCHANGED <<calls, toHost>>,
         \A d \in Calls : d # c /\ at[d] = "none" => at'[d] = "none",
         SentCalls' \subseteq SentCalls \cup {c}
  PROVE  QueueInv'
<1>1. /\ batch \in Seq(Made) /\ batch # <<>> /\ c = batch[1] /\ batch' = Tail(batch)
      /\ toHost \in Seq(Made) /\ Made' = Made
  BY DEF QueueInv, Host!NextInBatch, Made
<1>2. /\ batch' \in Seq(Made) /\ 1 \in DOMAIN batch
      /\ \A j \in DOMAIN batch' :
           j + 1 \in DOMAIN batch /\ j + 1 # 1 /\ batch'[j] = batch[j + 1]
      /\ \A i, j \in DOMAIN batch' : i + 1 = j + 1 => i = j
      /\ \A j \in DOMAIN batch : batch[j] \in Made
      /\ \A i \in DOMAIN toHost : toHost[i] \in Made
  BY ONLY <1>1
<1>3. /\ \A j \in DOMAIN batch' : batch'[j] # c /\ batch'[j] \in Calls
      /\ \A i \in DOMAIN toHost : toHost[i] # c /\ toHost[i] \in Calls
  BY <1>1, <1>2 DEF QueueInv
<1>4. \A i, j \in DOMAIN batch' : batch'[i] = batch'[j] => i = j
  BY <1>2 DEF QueueInv
<1>5. \A i \in DOMAIN toHost, j \in DOMAIN batch' : toHost[i] # batch'[j]
  BY <1>2 DEF QueueInv
<1>6. \A j \in DOMAIN batch' :
        at'[batch'[j]] = "none" /\ batch'[j] \notin SentCalls'
  BY <1>2, <1>3 DEF QueueInv
<1>7. \A i \in DOMAIN toHost :
        at'[toHost[i]] = "none" /\ toHost[i] \notin SentCalls'
  BY <1>3 DEF QueueInv
<1> QED
  BY <1>1, <1>2, <1>4, <1>5, <1>6, <1>7 DEF QueueInv

(* The coordinator has not begun with the next call of its chunk.          *)
LEMMA NextIsFresh ==
  ASSUME QueueInv, NEW c, Host!NextInBatch(c)
  PROVE  c \in Made /\ at[c] = "none" /\ c \notin SentCalls
<1>1. batch \in Seq(Made) /\ batch # <<>> /\ c = batch[1]
  BY DEF QueueInv, Host!NextInBatch
<1>2. 1 \in DOMAIN batch /\ batch[1] \in Made
  BY ONLY <1>1
<1> QED
  BY <1>1, <1>2 DEF QueueInv

(* What the quotient is, rounded down.                                     *)
LEMMA DivIs ==
  ASSUME NEW d \in Nat \ {0}, NEW x \in Nat
  PROVE  x \div d \in Nat /\ (x \div d) * d <= x
<1> DEFINE e == x \div d
<1>1. e \in Nat /\ x = e * d + (x % d) /\ x % d \in 0 .. d - 1
  OBVIOUS
<1> HIDE DEF e
<1>2. e * d <= x
  BY <1>1
<1> QED
  BY <1>1, <1>2 DEF e

(* The decoder hands on the whole frames of a chunk and keeps the rest.    *)
LEMMA ChunkTaken ==
  ASSUME QueueInv, partial \in 0 .. FrameUnits - 1, NEW n \in Nat,
         Host!TakesChunk(n), UNCHANGED <<calls, at, outbound, wire>>
  PROVE  QueueInv' /\ partial' \in 0 .. FrameUnits - 1
<1> DEFINE whole == (partial + n) \div FrameUnits
           L     == Len(toHost)
<1>1. /\ toHost \in Seq(Made) /\ batch = <<>> /\ Made' = Made
      /\ SentCalls' = SentCalls
      /\ batch' = SubSeq(toHost, 1, whole)
      /\ toHost' = SubSeq(toHost, whole + 1, L)
      /\ partial' = (partial + n) % FrameUnits
      /\ n \in 1 .. L * FrameUnits - partial
  BY DEF QueueInv, Host!TakesChunk, Host!CallbackIdle, Made, SentCalls
<1>2. /\ partial \in Nat /\ n \in Nat /\ FrameUnits \in Nat \ {0} /\ L \in Nat
      /\ partial + n <= L * FrameUnits /\ partial + n \in Nat
  BY <1>1, PipeAssumption
<1>3. partial' \in 0 .. FrameUnits - 1
  BY <1>1, <1>2
<1>4. whole \in Nat /\ whole * FrameUnits <= partial + n
  BY ONLY <1>2, DivIs
<1> HIDE DEF L, whole
<1>5. whole \in 0 .. L
  <2>1. CASE whole > L
    <3>1. whole * FrameUnits = L * FrameUnits + (whole - L) * FrameUnits
      BY <1>2, <1>4
    <3>2. (whole - L) * FrameUnits > 0
      BY <1>2, <1>4, <2>1
    <3> QED
      BY <1>2, <1>4, <3>1, <3>2
  <2> QED
    BY <1>2, <1>4, <2>1
<1>6. /\ batch' \in Seq(Made) /\ DOMAIN batch' = 1 .. whole
      /\ \A i \in 1 .. whole : i \in DOMAIN toHost /\ batch'[i] = toHost[i]
  BY ONLY <1>1, <1>2, <1>5, SubSeqProperties DEF L
<1>7. /\ toHost' \in Seq(Made) /\ DOMAIN toHost' = 1 .. L - whole
      /\ \A i \in 1 .. L - whole :
           whole + i \in DOMAIN toHost /\ toHost'[i] = toHost[whole + i]
  BY ONLY <1>1, <1>2, <1>5, SubSeqProperties DEF L
<1>8. /\ \A i, j \in 1 .. L - whole : whole + i = whole + j => i = j
      /\ \A i \in 1 .. L - whole, j \in 1 .. whole : whole + i # j
  BY ONLY <1>2, <1>5
<1>9. /\ \A i, j \in DOMAIN toHost : toHost[i] = toHost[j] => i = j
      /\ \A i \in DOMAIN toHost :
           at[toHost[i]] = "none" /\ toHost[i] \notin SentCalls
  BY DEF QueueInv
<1>10. /\ \A i, j \in DOMAIN toHost' : toHost'[i] = toHost'[j] => i = j
       /\ \A i, j \in DOMAIN batch' : batch'[i] = batch'[j] => i = j
       /\ \A i \in DOMAIN toHost', j \in DOMAIN batch' : toHost'[i] # batch'[j]
  BY ONLY <1>6, <1>7, <1>8, <1>9
<1>11. /\ \A i \in DOMAIN toHost' :
            at'[toHost'[i]] = "none" /\ toHost'[i] \notin SentCalls'
       /\ \A i \in DOMAIN batch' :
            at'[batch'[i]] = "none" /\ batch'[i] \notin SentCalls'
  <2>1. at' = at /\ SentCalls' = SentCalls
    BY <1>1
  <2> QED
    BY ONLY <1>6, <1>7, <1>9, <2>1
<1> QED
  BY <1>1, <1>3, <1>6, <1>7, <1>10, <1>11 DEF QueueInv

(* A frame is queued, or ignored.                                          *)
LEMMA FrameSent ==
  ASSUME FramesInv, NEW c \in Calls, c \notin SentCalls,
         \/ outbound' = outbound
         \/ outbound' = Append(outbound, [call |-> c, left |-> FrameUnits]),
         UNCHANGED wire, Writable' => Writable
  PROVE  FramesInv' /\ SentCalls' \subseteq SentCalls \cup {c}
<1>1. CASE outbound' = outbound
  <2>1. SentCalls' = SentCalls
    BY <1>1 DEF SentCalls
  <2> QED
    BY <1>1, <2>1, FramesStay
<1>2. CASE outbound' = Append(outbound, [call |-> c, left |-> FrameUnits])
  BY <1>2, FrameAdded
<1> QED
  BY <1>1, <1>2

-----------------------------------------------------------------------------
(* The steps of either coordinator that move the queues.                   *)

(* A chunk is read, however it cuts the frames.                            *)
LEMMA ReadChunkKeeps ==
  ASSUME PipeInv, UNCHANGED <<vars, platform>>, NEW n \in Nat,
         Host!ReadChunk(n) \/ Host!ReceiveChunk(n)
  PROVE  PipeInv'
<1>1. /\ Host!TakesChunk(n)
      /\ UNCHANGED <<at, timer, tracked, answer, outbound, waiting, draining,
                     wire, stopping, gone>>
  BY DEF Host!ReadChunk, Host!ReceiveChunk, Host!writer
<1>2. Inv' /\ calls' = calls
  BY BridgeStays DEF PipeInv
<1>3. QueueInv' /\ partial' \in 0 .. FrameUnits - 1
  BY <1>1, <1>2, ChunkTaken DEF PipeInv
<1>4. FramesInv'
  BY <1>1, FramesStay DEF PipeInv, Writable
<1>5. Made' = Made /\ SentCalls' = SentCalls
  BY <1>1, StillSent
<1>6. BooksInv'
  BY <1>1, <1>5
     DEF PipeInv, BooksInv, AnswersInv, DeadlinesInv, AndroidInv,
         Host!DeadlineArmed, Host!NoTimerLeaked, Host!DeadlinesTidy,
         Host!NoFrameForgotten, Host!TimersHeld
<1>7. platform' \in {"android", "ios"}
  BY DEF PipeInv
<1> QED
  BY <1>2, <1>3, <1>4, <1>6, <1>7 DEF PipeInv

(* An invoke is begun: its deadline runs before anything else happens.     *)
LEMMA ScheduleKeeps ==
  ASSUME PipeInv, UNCHANGED <<vars, platform>>, NEW c \in Calls,
         Host!Schedule(c) \/ Host!StartTimer(c)
  PROVE  PipeInv'
<1>1. /\ Host!NextInBatch(c) /\ c \notin Queries
      /\ at' = [at EXCEPT ![c] = "scheduled"]
      /\ timer' = [timer EXCEPT ![c] = "running"]
      /\ UNCHANGED <<toHost, partial, tracked, answer, outbound, waiting,
                     draining, wire, stopping, gone>>
  BY DEF Host!Schedule, Host!StartTimer, Host!writer
<1>2. Inv' /\ calls' = calls /\ Made \subseteq Calls
  BY BridgeStays DEF PipeInv
<1>3. Made' = Made /\ SentCalls' = SentCalls
  BY <1>1, StillSent
<1>4. /\ at \in [Calls -> Host!Places]
      /\ timer \in [Calls -> {"none", "running", "fired", "cancelled"}]
      /\ answer \in [Calls -> {"none", "won", "untracked", "done"}]
      /\ QueueInv /\ AnswersInv /\ DeadlinesInv
  BY DEF PipeInv, BooksInv
<1>5. c \in Made /\ at[c] = "none" /\ answer[c] = "none"
  BY <1>1, <1>4, NextIsFresh DEF AnswersInv
<1>6. QueueInv'
  <2>1. \A d \in Calls : d # c /\ at[d] = "none" => at'[d] = "none"
    BY <1>1, <1>4
  <2>2. SentCalls' \subseteq SentCalls \cup {c} /\ UNCHANGED <<calls, toHost>>
    BY <1>1, <1>2, <1>3
  <2> QED
    BY <1>1, <1>2, <1>4, <2>1, <2>2, QueueNext
<1>7. FramesInv'
  BY <1>1, FramesStay DEF PipeInv, Writable
<1>8. AnswersInv'
  BY <1>1, <1>3, <1>4, <1>5 DEF AnswersInv
<1>9. DeadlinesInv'
  BY <1>1, <1>4, <1>5 DEF DeadlinesInv, Host!DeadlineArmed, Host!NoTimerLeaked
<1>10. /\ at' \in [Calls -> Host!Places]
       /\ timer' \in [Calls -> {"none", "running", "fired", "cancelled"}]
  BY <1>1, <1>4 DEF Host!Places
<1>11. /\ platform' = "android" => AndroidInv'
       /\ platform' = "ios" => Host!TimersHeld'
  BY <1>1, <1>4, <1>5
     DEF PipeInv, BooksInv, AndroidInv, DeadlinesInv, Host!DeadlinesTidy,
         Host!NoFrameForgotten, Host!TimersHeld
<1>12. BooksInv'
  BY <1>1, <1>8, <1>9, <1>10, <1>11 DEF PipeInv, BooksInv
<1>13. platform' \in {"android", "ios"} /\ partial' \in 0 .. FrameUnits - 1
  BY <1>1 DEF PipeInv
<1> QED
  BY <1>2, <1>6, <1>7, <1>12, <1>13 DEF PipeInv

(* A frame is owed for c, or the coordinator no longer takes any.          *)
Owes(c) ==
  /\ UNCHANGED <<waiting, wire, stopping, gone>>
  /\ \/ UNCHANGED <<outbound, draining>>
     \/ /\ outbound' = Append(outbound, [call |-> c, left |-> FrameUnits])
        /\ \/ draining' = draining /\ platform = "ios"
           \/ stopping = "running" /\ draining' = ~waiting

(* A frame that is owed is written or waits, unless stop() had the lock.   *)
LEMMA OwesKeeps ==
  ASSUME PipeInv, NEW c \in Calls, Owes(c), c \notin SentCalls
  PROVE  /\ FramesInv' /\ SentCalls' \subseteq SentCalls \cup {c}
         /\ draining' \in BOOLEAN /\ waiting' \in BOOLEAN
         /\ platform = "android" =>
              /\ Host!NoFrameForgotten'
              /\ stopping' \in {"unhooked", "cancelled", "stopped"} =>
                   outbound' = <<>> /\ ~draining'
<1>1. FramesInv /\ UNCHANGED wire /\ Writable' = Writable
  BY DEF PipeInv, Owes, Writable
<1>2. \/ outbound' = outbound
      \/ outbound' = Append(outbound, [call |-> c, left |-> FrameUnits])
  BY DEF Owes
<1>3. FramesInv' /\ SentCalls' \subseteq SentCalls \cup {c}
  BY <1>1, <1>2, FrameSent
<1>4. Append(outbound, [call |-> c, left |-> FrameUnits]) # <<>>
  BY <1>1 DEF FramesInv
<1>5. draining' \in BOOLEAN /\ waiting' \in BOOLEAN
  BY DEF PipeInv, BooksInv, Owes
<1>6. ASSUME platform = "android"
      PROVE  /\ Host!NoFrameForgotten'
             /\ stopping' \in {"unhooked", "cancelled", "stopped"} =>
                  outbound' = <<>> /\ ~draining'
  <2>1. AndroidInv
    BY <1>6 DEF PipeInv, BooksInv
  <2>2. CASE UNCHANGED <<outbound, draining>>
    BY <2>1, <2>2 DEF Owes, AndroidInv, Host!NoFrameForgotten
  <2>3. CASE /\ outbound' = Append(outbound, [call |-> c, left |-> FrameUnits])
             /\ stopping = "running" /\ draining' = ~waiting
    BY <1>4, <2>3 DEF Owes, Host!NoFrameForgotten
  <2> QED
    BY <1>6, <2>2, <2>3 DEF Owes
<1> QED
  BY <1>3, <1>5, <1>6

(* A query is answered at once.                                            *)
LEMMA QueryKeeps ==
  ASSUME PipeInv, UNCHANGED <<vars, platform>>, NEW c \in Calls,
         \/ platform = "android" /\ Host!AnswerQuery(c)
         \/ platform = "ios" /\ Host!HandleQuery(c)
  PROVE  PipeInv'
<1>1. /\ Host!NextInBatch(c) /\ c \in Queries /\ Owes(c)
      /\ UNCHANGED <<toHost, partial, at, timer, tracked, answer, stopping, gone>>
  BY DEF Host!AnswerQuery, Host!HandleQuery, Host!Send, Host!Yield,
         Host!Ignored, Owes
<1>2. Inv' /\ calls' = calls /\ Made \subseteq Calls /\ Made' = Made
  BY BridgeStays DEF PipeInv
<1>3. QueueInv /\ AnswersInv /\ DeadlinesInv
  BY DEF PipeInv, BooksInv
<1>4. c \in Made /\ c \notin SentCalls
  BY <1>1, <1>3, NextIsFresh
<1>5. /\ FramesInv' /\ SentCalls' \subseteq SentCalls \cup {c}
      /\ draining' \in BOOLEAN /\ waiting' \in BOOLEAN
      /\ platform = "android" =>
           /\ Host!NoFrameForgotten'
           /\ stopping' \in {"unhooked", "cancelled", "stopped"} =>
                outbound' = <<>> /\ ~draining'
  BY <1>1, <1>4, OwesKeeps
<1>6. QueueInv'
  BY <1>1, <1>2, <1>3, <1>5, QueueNext
<1>7. AnswersInv'
  BY <1>1, <1>2, <1>3, <1>4, <1>5 DEF AnswersInv
<1>8. DeadlinesInv'
  BY <1>1, <1>3 DEF DeadlinesInv, Host!DeadlineArmed, Host!NoTimerLeaked
<1>9. /\ platform' = "android" => AndroidInv'
      /\ platform' = "ios" =>
           Host!TimersHeld' /\ stopping' \in {"running", "finished"}
  BY <1>1, <1>5 DEF PipeInv, BooksInv, AndroidInv, Host!DeadlinesTidy,
                    Host!TimersHeld
<1>10. BooksInv'
  BY <1>1, <1>5, <1>7, <1>8, <1>9 DEF PipeInv, BooksInv
<1>11. platform' \in {"android", "ios"} /\ partial' \in 0 .. FrameUnits - 1
  BY <1>1 DEF PipeInv
<1> QED
  BY <1>2, <1>5, <1>6, <1>10, <1>11 DEF PipeInv

(* The answer that won is delivered.                                       *)
LEMMA DeliverKeeps ==
  ASSUME PipeInv, UNCHANGED <<vars, platform>>, NEW c \in Calls,
         \/ platform = "android" /\ Host!Deliver(c)
         \/ platform = "ios" /\ Host!SendOutcome(c)
  PROVE  PipeInv'
<1>1. /\ answer[c] = "untracked" /\ answer' = [answer EXCEPT ![c] = "done"]
      /\ Owes(c)
      /\ UNCHANGED <<toHost, partial, batch, at, timer, tracked, stopping, gone>>
  BY DEF Host!Deliver, Host!SendOutcome, Host!Send, Host!Yield,
         Host!Ignored, Owes
<1>2. Inv' /\ calls' = calls /\ Made \subseteq Calls /\ Made' = Made
  BY BridgeStays DEF PipeInv
<1>3. /\ QueueInv /\ AnswersInv /\ DeadlinesInv
      /\ answer \in [Calls -> {"none", "won", "untracked", "done"}]
  BY DEF PipeInv, BooksInv
<1>4. c \in Made /\ c \notin SentCalls /\ c \notin Queries /\ at[c] # "none"
  BY <1>1, <1>3 DEF AnswersInv
<1>5. /\ FramesInv' /\ SentCalls' \subseteq SentCalls \cup {c}
      /\ draining' \in BOOLEAN /\ waiting' \in BOOLEAN
      /\ platform = "android" =>
           /\ Host!NoFrameForgotten'
           /\ stopping' \in {"unhooked", "cancelled", "stopped"} =>
                outbound' = <<>> /\ ~draining'
  BY <1>1, <1>4, OwesKeeps
<1>6. QueueInv'
  BY <1>1, <1>2, <1>3, <1>4, <1>5 DEF QueueInv
<1>7. AnswersInv'
  BY <1>1, <1>2, <1>3, <1>4, <1>5 DEF AnswersInv
<1>8. DeadlinesInv'
  BY <1>1, <1>3 DEF DeadlinesInv, Host!DeadlineArmed, Host!NoTimerLeaked
<1>9. answer' \in [Calls -> {"none", "won", "untracked", "done"}]
  BY <1>1, <1>3
<1>10. /\ platform' = "android" => AndroidInv'
       /\ platform' = "ios" =>
            Host!TimersHeld' /\ stopping' \in {"running", "finished"}
  BY <1>1, <1>3, <1>5 DEF PipeInv, BooksInv, AndroidInv, Host!DeadlinesTidy,
                          Host!TimersHeld
<1>11. BooksInv'
  BY <1>1, <1>5, <1>7, <1>8, <1>9, <1>10 DEF PipeInv, BooksInv
<1>12. platform' \in {"android", "ios"} /\ partial' \in 0 .. FrameUnits - 1
  BY <1>1 DEF PipeInv
<1> QED
  BY <1>2, <1>5, <1>6, <1>11, <1>12 DEF PipeInv

(* Frames leave the queue, written or dropped.                             *)
LEMMA FramesLeave ==
  ASSUME PipeInv, FramesInv', SentCalls' \subseteq SentCalls,
         UNCHANGED <<vars, platform, toHost, partial, batch, at, timer, tracked,
                     answer>>,
         waiting' \in BOOLEAN, draining' \in BOOLEAN, gone' = gone,
         \/ stopping' = stopping
         \/ platform = "android" /\ stopping = "flagged" /\ stopping' = "unhooked",
         platform = "android" =>
           /\ Host!NoFrameForgotten'
           /\ stopping' \in {"unhooked", "cancelled", "stopped"} =>
                outbound' = <<>> /\ ~draining'
  PROVE  PipeInv'
<1>1. Inv' /\ calls' = calls /\ Made' = Made
  BY BridgeStays DEF PipeInv
<1>2. QueueInv'
  BY <1>1 DEF PipeInv, QueueInv
<1>3. AnswersInv'
  BY <1>1 DEF PipeInv, BooksInv, AnswersInv
<1>4. DeadlinesInv'
  BY DEF PipeInv, BooksInv, DeadlinesInv, Host!DeadlineArmed,
         Host!NoTimerLeaked
<1>5. /\ platform' = "android" => AndroidInv'
      /\ platform' = "ios" =>
           Host!TimersHeld' /\ stopping' \in {"running", "finished"}
  BY DEF PipeInv, BooksInv, AndroidInv, Host!DeadlinesTidy, Host!TimersHeld
<1>6. BooksInv'
  BY <1>3, <1>4, <1>5 DEF PipeInv, BooksInv
<1>7. platform' \in {"android", "ios"} /\ partial' \in 0 .. FrameUnits - 1
  BY DEF PipeInv
<1> QED
  BY <1>1, <1>2, <1>6, <1>7 DEF PipeInv

(* The port takes a part of the first frame.                               *)
LEMMA WriteKeeps ==
  ASSUME PipeInv, UNCHANGED <<vars, platform>>, NEW n \in Nat,
         \/ platform = "android" /\ Host!WriteHead(n)
         \/ platform = "ios" /\ Host!WritePart(n)
  PROVE  PipeInv'
<1>1. /\ outbound # <<>> /\ ~gone /\ FramesInv
      /\ outbound \in Seq(Frames) /\ Head(outbound) = outbound[1]
  <2>1. /\ outbound # <<>> /\ ~gone /\ FramesInv
        /\ outbound \in Seq(Frames)
    BY DEF Host!WriteHead, Host!WritePart, PipeInv, FramesInv
  <2> QED
    BY ONLY <2>1
<1>2. /\ n \in 0 .. outbound[1].left
      /\ wire' = wire \o [i \in 1 .. n |-> outbound[1].call]
      /\ UNCHANGED <<toHost, partial, batch, at, timer, tracked, answer,
                     stopping, gone>>
  <2>1. CASE Host!WriteHead(n)
    BY <1>1, <2>1 DEF Host!WriteHead
  <2>2. CASE Host!WritePart(n)
    <3>1. /\ n \in 1 .. outbound[1].left
          /\ wire' = wire \o [i \in 1 .. n |-> outbound[1].call]
          /\ UNCHANGED <<toHost, partial, batch, at, timer, tracked, answer,
                         stopping, gone>>
      BY <1>1, <2>2 DEF Host!WritePart
    <3>2. n \in 0 .. outbound[1].left
      BY ONLY <3>1, n \in Nat
    <3> QED
      BY <3>1, <3>2
  <2> QED
    BY <2>1, <2>2
<1>3. \/ n = outbound[1].left /\ outbound' = Tail(outbound)
      \/ /\ n < outbound[1].left
         /\ outbound' = <<[outbound[1] EXCEPT !.left = @ - n]>> \o Tail(outbound)
  <2>1. n = outbound[1].left \/ n < outbound[1].left
    <3>1. outbound[1] \in Frames
      BY <1>1
    <3>2. outbound[1].left \in Nat
      BY <3>1, PipeAssumption DEF Frames
    <3> QED
      BY ONLY <1>2, <3>2
  <2>2. IF n = outbound[1].left
          THEN outbound' = Tail(outbound)
          ELSE outbound' = <<[outbound[1] EXCEPT !.left = @ - n]>> \o Tail(outbound)
    <3>1. CASE Host!WriteHead(n)
      BY <1>1, <3>1 DEF Host!WriteHead, Host!UnwrittenTail
    <3>2. CASE Host!WritePart(n)
      BY <1>1, <3>2 DEF Host!WritePart, Host!UnwrittenTail
    <3> QED
      BY <3>1, <3>2
  <2> QED
    BY ONLY <2>1, <2>2
<1>4. Writable
  <2>1. BooksInv
    BY DEF PipeInv
  <2>2. platform = "android" => draining
    BY DEF Host!WriteHead
  <2> QED
    BY <1>1, <2>1, <2>2 DEF BooksInv, AndroidInv, Writable
<1>5. FramesInv' /\ SentCalls' \subseteq SentCalls
  BY <1>1, <1>2, <1>3, <1>4, FrameWritten
<1>6. waiting' \in BOOLEAN /\ draining' \in BOOLEAN
  BY DEF PipeInv, BooksInv, Host!WriteHead, Host!WritePart
<1>7. ASSUME platform = "android"
      PROVE  /\ Host!NoFrameForgotten'
             /\ stopping' \in {"unhooked", "cancelled", "stopped"} =>
                  outbound' = <<>> /\ ~draining'
  <2>1. AndroidInv /\ Host!WriteHead(n) /\ draining
    BY <1>7 DEF PipeInv, BooksInv, Host!WriteHead
  <2>2. \/ draining'
        \/ /\ outbound' = <<[outbound[1] EXCEPT !.left = @ - n]>> \o Tail(outbound)
           /\ waiting'
    BY <1>1, <1>3, <2>1 DEF Host!WriteHead
  <2>3. <<[outbound[1] EXCEPT !.left = @ - n]>> \o Tail(outbound) # <<>>
    <3> DEFINE cut == [outbound[1] EXCEPT !.left = @ - n]
    <3>1. Tail(outbound) \in Seq(Frames)
      BY <1>1
    <3> HIDE DEF cut
    <3>2. <<cut>> \o Tail(outbound) # <<>>
      <4>1. Len(<<cut>> \o Tail(outbound)) = 1 + Len(Tail(outbound))
            /\ Len(Tail(outbound)) \in Nat /\ Len(<<>>) = 0
        BY ONLY <3>1
      <4> QED
        BY ONLY <4>1
    <3> QED
      BY <3>2 DEF cut
  <2>4. ~(stopping' \in {"unhooked", "cancelled", "stopped"})
    BY <1>2, <2>1 DEF AndroidInv
  <2> QED
    BY <2>2, <2>3, <2>4 DEF Host!NoFrameForgotten
<1> QED
  BY <1>2, <1>5, <1>6, <1>7, FramesLeave

(* The drain loop ends, or stop() takes the lock.                          *)
LEMMA DropKeeps ==
  ASSUME PipeInv, UNCHANGED <<vars, platform>>,
         \/ platform = "android" /\ (Host!DrainEnds \/ Host!StopUnhook)
         \/ platform = "ios" /\ Host!WriteThrows
  PROVE  PipeInv'
<1>1. /\ UNCHANGED <<toHost, partial, batch, at, timer, tracked, answer, wire, gone>>
      /\ waiting' \in BOOLEAN /\ draining' \in BOOLEAN
  BY DEF Host!DrainEnds, Host!StopUnhook, Host!WriteThrows, PipeInv, BooksInv
<1>2. \/ stopping' = stopping
      \/ platform = "android" /\ stopping = "flagged" /\ stopping' = "unhooked"
  BY DEF Host!DrainEnds, Host!StopUnhook, Host!WriteThrows
<1>3. FramesInv' /\ SentCalls' \subseteq SentCalls
  <2>1. \/ UNCHANGED <<outbound, gone, stopping>>
        \/ ~Writable' /\ (outbound' = <<>> \/
                            (outbound # <<>> /\ outbound' = Tail(outbound)))
    BY DEF Host!DrainEnds, Host!StopUnhook, Host!WriteThrows, Writable
  <2>2. FramesInv
    BY DEF PipeInv
  <2>3. CASE UNCHANGED <<outbound, gone, stopping>>
    BY <1>1, <2>2, <2>3, FramesStay DEF Writable, SentCalls
  <2>4. CASE ~Writable' /\ (outbound' = <<>> \/
                              (outbound # <<>> /\ outbound' = Tail(outbound)))
    BY <1>1, <2>2, <2>4, FramesDropped
  <2> QED
    BY <2>1, <2>3, <2>4
<1>4. platform = "android" =>
        /\ Host!NoFrameForgotten'
        /\ stopping' \in {"unhooked", "cancelled", "stopped"} =>
             outbound' = <<>> /\ ~draining'
  BY DEF Host!DrainEnds, Host!StopUnhook, Host!NoFrameForgotten
<1> QED
  BY <1>1, <1>2, <1>3, <1>4, FramesLeave

-----------------------------------------------------------------------------
(* The iOS coordinator's other steps.                                      *)

(* The responder is given its timer, and the handler is called.            *)
LEMMA IosInvokesKeep ==
  ASSUME PipeInv, platform = "ios", UNCHANGED <<vars, platform>>,
         NEW c \in Calls, Host!SetTimer(c) \/ Host!Dispatch(c)
  PROVE  PipeInv'
<1>1. /\ UNCHANGED <<toHost, partial, batch, answer, outbound, waiting, draining,
                     wire, stopping, gone>>
      /\ AnswersInv /\ DeadlinesInv /\ Host!TimersHeld
      /\ at \in [Calls -> Host!Places]
      /\ timer \in [Calls -> {"none", "running", "fired", "cancelled"}]
      /\ answer \in [Calls -> {"none", "won", "untracked", "done"}]
      /\ stopping \in {"running", "finished"}
  BY DEF Host!SetTimer, Host!Dispatch, Host!writer, PipeInv, BooksInv
<1>2. /\ \A d \in Calls : at[d] = "none" <=> at'[d] = "none"
      /\ at' \in [Calls -> Host!Places]
  BY <1>1 DEF Host!SetTimer, Host!Dispatch, Host!Advance, Host!Places
<1>3. /\ timer' \in [Calls -> {"none", "running", "fired", "cancelled"}]
      /\ tracked' \subseteq Calls
      /\ \A d \in Calls : timer[d] = "none" <=> timer'[d] = "none"
  BY <1>1 DEF Host!SetTimer, Host!Dispatch, Host!Cancelled, PipeInv, BooksInv
<1>4. AnswersInv'
  BY <1>1, <1>2, <1>3, StillSent DEF AnswersInv
<1>5. DeadlinesInv'
  <2>1. CASE Host!SetTimer(c)
    BY <1>1, <2>1 DEF DeadlinesInv, Host!DeadlineArmed, Host!NoTimerLeaked,
                      Host!SetTimer, Host!Advance, Host!Cancelled
  <2>2. CASE Host!Dispatch(c)
    BY <1>1, <2>2 DEF DeadlinesInv, Host!DeadlineArmed, Host!NoTimerLeaked,
                      Host!Dispatch, Host!Advance
  <2> QED
    BY <2>1, <2>2
<1>6. Host!TimersHeld'
  BY <1>1 DEF Host!TimersHeld, Host!SetTimer, Host!Dispatch
<1>7. BooksInv'
  BY <1>1, <1>2, <1>3, <1>4, <1>5, <1>6 DEF PipeInv, BooksInv
<1> QED
  BY <1>1, <1>2, <1>7, QuietStep DEF Writable

(* The handler, the timer and the answers they start.                      *)
LEMMA IosAnswersKeep ==
  ASSUME PipeInv, platform = "ios", UNCHANGED <<vars, platform>>,
         NEW c \in Calls,
         Host!HandlerCalls(c) \/ Host!TimerCalls(c) \/ Host!CancelTimer(c)
  PROVE  PipeInv'
<1>1. /\ UNCHANGED <<toHost, partial, batch, at, outbound, waiting, draining,
                     wire, stopping, gone>>
      /\ AnswersInv /\ DeadlinesInv /\ Host!TimersHeld
      /\ at \in [Calls -> Host!Places]
      /\ timer \in [Calls -> {"none", "running", "fired", "cancelled"}]
      /\ answer \in [Calls -> {"none", "won", "untracked", "done"}]
      /\ stopping \in {"running", "finished"}
  BY DEF Host!HandlerCalls, Host!TimerCalls, Host!CancelTimer, Host!writer,
         PipeInv, BooksInv
<1>2. at[c] # "none"
  BY <1>1 DEF Host!HandlerCalls, Host!TimerCalls, Host!CancelTimer, AnswersInv
<1>3. /\ timer' \in [Calls -> {"none", "running", "fired", "cancelled"}]
      /\ tracked' \subseteq tracked
      /\ \A d \in Calls : timer[d] = "none" <=> timer'[d] = "none"
  BY <1>1 DEF Host!HandlerCalls, Host!TimerCalls, Host!CancelTimer,
              Host!TakesResponder, Host!Cancelled
<1>4. /\ answer' \in [Calls -> {"none", "won", "untracked", "done"}]
      /\ \A d \in Calls : d # c => answer'[d] = answer[d]
      /\ answer[c] = "done" => answer'[c] = "done"
      /\ answer'[c] # "none"
  BY <1>1 DEF Host!HandlerCalls, Host!TimerCalls, Host!CancelTimer,
              Host!TakesResponder, Host!Wins
<1>5. AnswersInv'
  <2>1. Made' = Made /\ SentCalls' = SentCalls
    BY <1>1, StillSent
  <2>2. \A d \in Made : d \in Calls
    BY MadeAreCalls DEF PipeInv, Inv
  <2> QED
    BY <1>1, <1>2, <1>3, <1>4, <2>1, <2>2 DEF AnswersInv
<1>6. DeadlinesInv'
  <2>1. CASE Host!HandlerCalls(c)
    BY <1>1, <2>1 DEF DeadlinesInv, Host!DeadlineArmed, Host!NoTimerLeaked,
                      Host!HandlerCalls, Host!TakesResponder, Host!Wins
  <2>2. CASE Host!TimerCalls(c)
    BY <1>1, <2>2 DEF DeadlinesInv, Host!DeadlineArmed, Host!NoTimerLeaked,
                      Host!TimerCalls, Host!TakesResponder, Host!Wins
  <2>3. CASE Host!CancelTimer(c)
    BY <1>1, <2>3 DEF DeadlinesInv, Host!DeadlineArmed, Host!NoTimerLeaked,
                      Host!CancelTimer, Host!Cancelled
  <2> QED
    BY <2>1, <2>2, <2>3
<1>7. Host!TimersHeld'
  <2>1. \A d \in tracked' : d # c
    <3>1. c \notin tracked'
      BY <1>1 DEF Host!HandlerCalls, Host!TimerCalls, Host!CancelTimer,
                  Host!TakesResponder, Host!TimersHeld
    <3> QED
      BY <3>1
  <2>2. \A d \in tracked' : d \in tracked /\ d \in Calls
    BY <1>3 DEF PipeInv, BooksInv
  <2> QED
    BY <1>1, <1>4, <2>1, <2>2 DEF Host!TimersHeld
<1>8. BooksInv'
  BY <1>1, <1>3, <1>4, <1>5, <1>6, <1>7 DEF PipeInv, BooksInv
<1> QED
  BY <1>1, <1>8, QuietStep DEF Writable

(* The owner drops the coordinator, or the channel fails.                  *)
LEMMA IosEndKeeps ==
  ASSUME PipeInv, platform = "ios", UNCHANGED <<vars, platform>>,
         Host!PortFails \/ Host!Finish
  PROVE  PipeInv'
<1>1. /\ UNCHANGED <<toHost, partial, batch, at, timer, tracked, answer, outbound,
                     waiting, draining, wire>>
      /\ gone' \in BOOLEAN /\ stopping' \in {"running", "finished"}
      /\ Writable' => Writable
  BY DEF Host!PortFails, Host!Finish, Host!writer, PipeInv, BooksInv, Writable
<1>2. Made' = Made /\ SentCalls' = SentCalls
  BY <1>1, StillSent
<1>3. BooksInv'
  BY <1>1, <1>2
     DEF PipeInv, BooksInv, AnswersInv, DeadlinesInv, Host!DeadlineArmed,
         Host!NoTimerLeaked, Host!TimersHeld
<1> QED
  BY <1>1, <1>3, QuietStep

-----------------------------------------------------------------------------
(* The pipe.                                                               *)

(* Every step of the host keeps the invariant.                             *)
LEMMA HostKeeps == ASSUME PipeInv, HostStep PROVE PipeInv'
<1>1. UNCHANGED <<vars, platform>>
  BY DEF HostStep
<1>2. CASE platform = "android" /\ Host!HostNext
  <2>1. ASSUME NEW c \in Calls,
               \/ Host!AnswerQuery(c) \/ Host!InvokeStep(c)
               \/ Host!HandlerResponds(c) \/ Host!DeadlinePasses(c)
               \/ Host!AnswerStep(c)
        PROVE  PipeInv'
    BY <1>1, <1>2, <2>1, QueryKeeps, ScheduleKeeps, InvokesKeep, AnswersKeep,
       DeliverKeeps DEF Host!InvokeStep, Host!AnswerStep
  <2>2. ASSUME NEW n \in 1 .. Len(toHost) * FrameUnits, Host!ReadChunk(n)
        PROVE  PipeInv'
    <3>1. n \in Nat
      BY PipeAssumption DEF PipeInv, QueueInv
    <3> QED
      BY <1>1, <2>2, <3>1, ReadChunkKeeps
  <2>3. ASSUME NEW n \in 0 .. FrameUnits, Host!WriteHead(n)
        PROVE  PipeInv'
    BY <1>1, <1>2, <2>3, WriteKeeps, PipeAssumption
  <2>4. ASSUME \/ Host!DrainEnds \/ Host!OnWritable \/ Host!PortFails
               \/ Host!StopFlag \/ Host!StopUnhook \/ Host!StopCancel
               \/ Host!StopClear
        PROVE  PipeInv'
    BY <1>1, <1>2, <2>4, StopKeeps, DropKeeps
  <2> QED
    BY <1>2, <2>1, <2>2, <2>3, <2>4 DEF Host!HostNext
<1>3. CASE platform = "ios" /\ Host!IosNext
  <2>1. ASSUME NEW c \in Calls,
               \/ Host!HandleQuery(c) \/ Host!StartTimer(c) \/ Host!SetTimer(c)
               \/ Host!Dispatch(c) \/ Host!HandlerCalls(c) \/ Host!TimerCalls(c)
               \/ Host!CancelTimer(c) \/ Host!SendOutcome(c)
        PROVE  PipeInv'
    BY <1>1, <1>3, <2>1, QueryKeeps, ScheduleKeeps, IosInvokesKeep,
       IosAnswersKeep, DeliverKeeps
  <2>2. ASSUME NEW n \in 1 .. Len(toHost) * FrameUnits, Host!ReceiveChunk(n)
        PROVE  PipeInv'
    <3>1. n \in Nat
      BY PipeAssumption DEF PipeInv, QueueInv
    <3> QED
      BY <1>1, <2>2, <3>1, ReadChunkKeeps
  <2>3. ASSUME NEW n \in 1 .. FrameUnits, Host!WritePart(n)
        PROVE  PipeInv'
    BY <1>1, <1>3, <2>3, WriteKeeps, PipeAssumption
  <2>4. ASSUME Host!WriteThrows \/ Host!PortFails \/ Host!Finish
        PROVE  PipeInv'
    BY <1>1, <1>3, <2>4, DropKeeps, IosEndKeeps
  <2> QED
    BY <1>3, <2>1, <2>2, <2>3, <2>4 DEF Host!IosNext
<1> QED
  BY <1>2, <1>3 DEF HostStep

(* The host does not move; calls may be made meanwhile.                    *)
LEMMA HostStays ==
  ASSUME PipeInv, Made \subseteq Made',
         UNCHANGED <<platform, partial, batch, at, timer, tracked, answer,
                     outbound, waiting, draining, stopping, gone, wire>>
  PROVE  FramesInv' /\ BooksInv' /\ SentCalls' = SentCalls
<1>1. SentCalls' = SentCalls
  BY DEF SentCalls
<1>2. FramesInv'
  BY FramesStay DEF PipeInv, Writable
<1>3. BooksInv'
  BY <1>1 DEF PipeInv, BooksInv, AnswersInv, DeadlinesInv, AndroidInv,
              Host!DeadlineArmed, Host!NoTimerLeaked, Host!DeadlinesTidy,
              Host!NoFrameForgotten, Host!TimersHeld
<1> QED
  BY <1>1, <1>2, <1>3

(* A call is made, and is on the pipe unless it was refused.               *)
LEMMA CallKeeps ==
  ASSUME PipeInv, NEW throws \in BOOLEAN, CallHost(throws)
  PROVE  PipeInv'
<1> DEFINE new == calls + 1
<1>1. /\ Call(throws) /\ calls' = new
      /\ toHost' = toHost \/ toHost' = Append(toHost, new)
      /\ UNCHANGED <<platform, partial, batch, at, timer, tracked, answer,
                     outbound, waiting, draining, stopping, gone, wire, consumed>>
  BY DEF CallHost, Call
<1>2. Inv'
  BY <1>1, CallInv DEF PipeInv
<1>3. /\ new \in Calls /\ new \notin Made /\ Made' = Made \cup {new}
      /\ Made \subseteq Calls
  BY <1>1, BridgeAssumption DEF PipeInv, Inv, TypeOK, Call, Calls, Made
<1>4. FramesInv' /\ BooksInv' /\ SentCalls' = SentCalls
  BY <1>1, <1>3, HostStays
<1>5. at[new] = "none" /\ new \notin SentCalls
  <2>1. AnswersInv
    BY DEF PipeInv, BooksInv
  <2> QED
    BY <1>3, <2>1 DEF AnswersInv
<1> HIDE DEF new
<1>6. QueueInv'
  <2>1. QueueInv /\ toHost \in Seq(Made) /\ batch \in Seq(Made)
    BY DEF PipeInv, QueueInv
  <2>2. batch \in Seq(Made') /\ toHost \in Seq(Made')
    BY <1>3, <2>1
  <2>3. /\ \A i \in DOMAIN toHost : toHost[i] # new
        /\ \A j \in DOMAIN batch : batch[j] # new
    BY <1>3, <2>1
  <2>4. CASE toHost' = toHost
    BY <1>1, <1>4, <2>1, <2>2, <2>4 DEF QueueInv
  <2>5. CASE toHost' = Append(toHost, new)
    <3> DEFINE L == Len(toHost)
    <3>1. /\ toHost' \in Seq(Made') /\ DOMAIN toHost = 1 .. L
          /\ DOMAIN toHost' = 1 .. L + 1 /\ L \in Nat
          /\ \A i \in 1 .. L : toHost'[i] = toHost[i]
          /\ toHost'[L + 1] = new
      BY <1>3, <2>2, <2>5
    <3>2. \A i \in DOMAIN toHost' : i \in DOMAIN toHost \/ i = L + 1
      BY <3>1
    <3> HIDE DEF L
    <3>3. \A i, j \in DOMAIN toHost' : toHost'[i] = toHost'[j] => i = j
      BY <2>1, <2>3, <3>1, <3>2 DEF QueueInv
    <3>4. \A i \in DOMAIN toHost', j \in DOMAIN batch : toHost'[i] # batch[j]
      BY <2>1, <2>3, <3>1, <3>2 DEF QueueInv
    <3>5. \A i \in DOMAIN toHost' :
            at[toHost'[i]] = "none" /\ toHost'[i] \notin SentCalls
      BY <1>5, <2>1, <3>1, <3>2 DEF QueueInv
    <3> QED
      BY <1>1, <1>4, <2>1, <2>2, <3>1, <3>3, <3>4, <3>5 DEF QueueInv
  <2> QED
    BY <1>1, <2>4, <2>5
<1>7. platform' \in {"android", "ios"} /\ partial' \in 0 .. FrameUnits - 1
  BY <1>1 DEF PipeInv
<1> QED
  BY <1>2, <1>4, <1>6, <1>7 DEF PipeInv

(* A frame reaches the worklet, a call times out or the bridge is closed.  *)
LEMMA WorkletKeeps ==
  ASSUME PipeInv, FrameArrives \/ BridgeStep
  PROVE  PipeInv'
<1>1. /\ UNCHANGED hostVars /\ calls' = calls
      /\ [Next]_vars
  <2>1. CASE FrameArrives
    <3>1. PICK c \in adopted : ConsumeDownstream(c, TRUE)
      BY <2>1 DEF FrameArrives, ConsumeDownstream
    <3>2. c \in Calls
      BY <3>1 DEF PipeInv, Inv, TypeOK
    <3> QED
      BY <2>1, <3>1, <3>2 DEF FrameArrives, Next, ConsumeDownstream
  <2>2. CASE BridgeStep
    BY <2>2 DEF BridgeStep, Next, Timeout, Close
  <2> QED
    BY <2>1, <2>2
<1>2. Inv'
  BY <1>1, NextInv DEF PipeInv
<1>3. UNCHANGED <<platform, toHost, partial, batch, at, timer, tracked, answer,
                  outbound, waiting, draining, stopping, gone, wire>>
  BY <1>1 DEF hostVars
<1>4. Made' = Made
  BY <1>1 DEF Made
<1>5. FramesInv' /\ BooksInv' /\ SentCalls' = SentCalls
  BY <1>3, <1>4, HostStays
<1>6. QueueInv'
  BY <1>3, <1>4, <1>5 DEF PipeInv, QueueInv
<1>7. platform' \in {"android", "ios"} /\ partial' \in 0 .. FrameUnits - 1
  BY <1>3 DEF PipeInv
<1> QED
  BY <1>2, <1>5, <1>6, <1>7 DEF PipeInv

(* Nothing is on the pipe at first.                                        *)
LEMMA PipeInitInv == PipeInit => PipeInv
<1> SUFFICES ASSUME PipeInit PROVE PipeInv
  OBVIOUS
<1>1. Inv /\ platform \in {"android", "ios"}
  BY InitInv, PipeAssumption DEF PipeInit
<1>2. /\ toHost = <<>> /\ partial = 0 /\ batch = <<>>
      /\ at = [c \in Calls |-> "none"] /\ timer = [c \in Calls |-> "none"]
      /\ tracked = {} /\ answer = [c \in Calls |-> "none"]
      /\ outbound = <<>> /\ waiting = FALSE /\ draining = FALSE
      /\ stopping = "running" /\ gone = FALSE /\ wire = <<>>
  BY DEF PipeInit, Host!HostInit
<1>3. SentCalls = {}
  BY <1>2 DEF SentCalls
<1>4. QueueInv
  BY <1>2 DEF QueueInv
<1>5. FramesInv
  <2>1. Taken(0)
    BY <1>2, PipeAssumption DEF Taken
  <2> QED
    BY <1>2, <2>1 DEF FramesInv, Grouped
<1>6. BooksInv
  BY <1>2, <1>3
     DEF BooksInv, AnswersInv, DeadlinesInv, AndroidInv, Host!Places,
         Host!DeadlineArmed, Host!NoTimerLeaked, Host!DeadlinesTidy,
         Host!NoFrameForgotten, Host!TimersHeld
<1>7. partial \in 0 .. FrameUnits - 1
  BY <1>2, PipeAssumption
<1> QED
  BY <1>1, <1>4, <1>5, <1>6, <1>7 DEF PipeInv

(* Every step of the two ends keeps the invariant.                         *)
LEMMA PipeNextInv == PipeInv /\ [PipeNext]_pipeVars => PipeInv'
<1> SUFFICES ASSUME PipeInv, [PipeNext]_pipeVars PROVE PipeInv'
  OBVIOUS
<1>1. CASE PipeNext
  BY <1>1, CallKeeps, WorkletKeeps, HostKeeps DEF PipeNext
<1>2. CASE UNCHANGED pipeVars
  <2>1. /\ UNCHANGED <<vars, platform, toHost, partial, batch, outbound, wire>>
        /\ UNCHANGED <<at, timer, tracked, answer, waiting, draining, stopping,
                       gone>>
    BY <1>2 DEF pipeVars, hostVars
  <2>2. Made' = Made /\ SentCalls' = SentCalls
    BY <2>1, StillSent
  <2>3. BooksInv'
    BY <2>1, <2>2, HostStays
  <2> QED
    BY <2>1, <2>3, QuietStep DEF Writable
<1> QED
  BY <1>1, <1>2

(* The queues between HostBridge and either coordinator stay in step with  *)
(* the books the coordinator keeps of its invokes.                         *)
THEOREM PipeAccounted == PipeSpec => []PipeInv
BY PipeInitInv, PipeNextInv, PTL DEF PipeSpec

(* Whatever threads answer, time out and stop, and however the port cuts   *)
(* the writes short: a deadline that is tracked belongs to an open invoke, *)
(* an invoke nobody answered has its deadline, an answered one leaks none, *)
(* no frame that is owed is forgotten, and the worklet gets whole frames,  *)
(* one for each call, one after the other.                                 *)
THEOREM HostKeepsPromises == PipeSpec => []HostInv
<1>1. PipeInv => HostInv
  <2> SUFFICES ASSUME PipeInv PROVE HostInv
    OBVIOUS
  <2>1. Host!HostTypeOK
    BY PipeIsTyped
  <2>2. Host!FramesWhole
    BY FramesAreGrouped DEF PipeInv, FramesInv
  <2>3. Host!DeadlineArmed /\ Host!NoTimerLeaked
    BY DEF PipeInv, BooksInv, DeadlinesInv
  <2>4. CASE platform = "android"
    BY <2>1, <2>2, <2>3, <2>4
       DEF PipeInv, BooksInv, AndroidInv, HostInv, Host!HostInv
  <2>5. CASE platform # "android"
    BY <2>1, <2>2, <2>3, <2>5 DEF PipeInv, BooksInv, HostInv, Host!IosInv
  <2> QED
    BY <2>4, <2>5
<1> QED
  BY <1>1, PipeAccounted, PTL

(* "Stops reading, drops queued frames": once stop() has had the lock the  *)
(* port is not written to.                                                 *)
THEOREM StopSilences == PipeSpec => SilentAfterStop
<1>1. PipeInv /\ [PipeNext]_pipeVars =>
        [wire' # wire =>
           stopping \notin {"unhooked", "cancelled", "stopped"}]_Host!hostVars
  <2> SUFFICES ASSUME PipeInv, [PipeNext]_pipeVars, wire' # wire
               PROVE  stopping \notin {"unhooked", "cancelled", "stopped"}
    OBVIOUS
  <2>1. HostStep
    BY DEF PipeNext, pipeVars, hostVars, CallHost, FrameArrives, BridgeStep
  <2>2. CASE platform = "android" /\ Host!HostNext
    <3>1. PICK n \in 0 .. FrameUnits : Host!WriteHead(n)
      <4>1. ASSUME NEW c \in Calls,
                   \/ Host!AnswerQuery(c) \/ Host!InvokeStep(c)
                   \/ Host!HandlerResponds(c) \/ Host!DeadlinePasses(c)
                   \/ Host!AnswerStep(c)
            PROVE  FALSE
        BY <4>1
           DEF Host!AnswerQuery, Host!InvokeStep, Host!HandlerResponds,
               Host!DeadlinePasses, Host!AnswerStep, Host!Send, Host!Schedule,
               Host!StoreDeadline, Host!TrackDeadline, Host!Recheck,
               Host!Dispatch, Host!Untrack, Host!Deliver, Host!writer
      <4>2. ASSUME NEW n \in 1 .. Len(toHost) * FrameUnits, Host!ReadChunk(n)
            PROVE  FALSE
        BY <4>2 DEF Host!ReadChunk, Host!writer
      <4>3. ASSUME \/ Host!DrainEnds \/ Host!OnWritable \/ Host!PortFails
                   \/ Host!StopFlag \/ Host!StopUnhook \/ Host!StopCancel
                   \/ Host!StopClear
            PROVE  FALSE
        BY <4>3
           DEF Host!DrainEnds, Host!OnWritable, Host!PortFails, Host!StopFlag,
               Host!StopUnhook, Host!StopCancel, Host!StopClear, Host!writer
      <4> QED
        BY <2>2, <4>1, <4>2, <4>3 DEF Host!HostNext
    <3> QED
      BY <2>2, <3>1 DEF Host!WriteHead, PipeInv, BooksInv, AndroidInv
  <2>3. CASE platform = "ios" /\ Host!IosNext
    BY <2>3 DEF PipeInv, BooksInv
  <2> QED
    BY <2>1, <2>2, <2>3 DEF HostStep
<1> QED
  BY <1>1, PipeAccounted, PTL DEF PipeSpec, SilentAfterStop, Host!SilentAfterStop

(* HostBridge under the answers a host really gives keeps its invariant,   *)
(* and answers every call at most once, close() included.                  *)
THEOREM PipeKeepsBridge == PipeSpec => []Inv /\ ImplementsLedger
<1>1. PipeInit => Init
  BY DEF PipeInit
<1>2. PipeInv /\ [PipeNext]_pipeVars => [Next]_vars
  <2> SUFFICES ASSUME PipeInv, [PipeNext]_pipeVars PROVE [Next]_vars
    OBVIOUS
  <2>1. ASSUME NEW throws \in BOOLEAN, CallHost(throws)
        PROVE  [Next]_vars
    BY <2>1 DEF CallHost, Next
  <2>2. CASE FrameArrives
    <3>1. PICK c \in adopted : ConsumeDownstream(c, TRUE)
      BY <2>2 DEF FrameArrives, ConsumeDownstream
    <3>2. c \in Calls
      BY <3>1 DEF PipeInv, Inv, TypeOK
    <3> QED
      BY <3>1, <3>2 DEF Next
  <2>3. CASE BridgeStep
    BY <2>3 DEF BridgeStep, Next
  <2>4. CASE HostStep \/ UNCHANGED pipeVars
    BY <2>4 DEF HostStep, pipeVars
  <2> QED
    BY <2>1, <2>2, <2>3, <2>4 DEF PipeNext
<1>3. PipeSpec => Spec
  BY <1>1, <1>2, PipeAccounted, PTL DEF PipeSpec, Spec
<1> QED
  BY <1>3, BridgeInvariant, BridgeImplementsLedger, PTL

=============================================================================
