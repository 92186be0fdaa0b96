------------------------------- MODULE LogRing -------------------------------
(***************************************************************************)
(* createLogRingBuffer of core/logs/store.ts: the bounded log store as a   *)
(* circular array.  What it promises is the abstract LogTail.              *)
(***************************************************************************)
EXTENDS Naturals, Sequences

CONSTANTS
  Capacity,  \* capacity of the ring
  Messages,  \* what an entry says
  Hole       \* undefined, in an array

ASSUME CapacityAssumption == Capacity \in Nat \ {0}

VARIABLE store  \* ring, start (slot of the oldest entry), size and seq

Slots   == 0 .. Capacity - 1
Entries == [seq : Nat, message : Messages]

Stores == [ring : [Slots -> Entries \cup {Hole}], start : Slots,
           size : 0 .. Capacity, seq : Nat]

EmptyStore == [ring |-> [k \in Slots |-> Hole], start |-> 0, size |-> 0,
               seq |-> 0]

RingInit == store = EmptyStore

(* The slot i places after the oldest.                                     *)
SlotAt(s, i) == (s.start + i) % Capacity

(* Plausible bug, as a mutant of NextStart: a full ring overwrites its     *)
(* oldest entry but still reads from there.                                *)
SameStart(s) == s.start

NextStart(s) == (s.start + 1) % Capacity

(* append()                                                                *)
Put(s, m) ==
  LET entry == [seq |-> s.seq, message |-> m] IN
  IF s.size < Capacity
    THEN [ring  |-> [s.ring EXCEPT ![SlotAt(s, s.size)] = entry],
          start |-> s.start, size |-> s.size + 1, seq |-> s.seq + 1]
    ELSE [ring  |-> [s.ring EXCEPT ![s.start] = entry],
          start |-> NextStart(s), size |-> s.size, seq |-> s.seq + 1]

(* clear(); the numbering goes on.                                         *)
Cleared(s) == [ring |-> EmptyStore.ring, start |-> 0, size |-> 0, seq |-> s.seq]

(* ordered(): oldest first.                                                *)
Ordered(s) == [i \in 1 .. s.size |-> s.ring[SlotAt(s, i - 1)]]

AppendEntry == \E m \in Messages : store' = Put(store, m)

ClearEntries == store' = Cleared(store)

RingSpec == RingInit /\ [][AppendEntry \/ ClearEntries]_store

-----------------------------------------------------------------------------
(* The ring holds exactly the latest entries, oldest first and without a   *)
(* gap, and nothing of what it overwrote or cleared.                       *)
HoldsLatest ==
  /\ store.size <= store.seq
  /\ \A i \in 0 .. store.size - 1 :
       /\ store.ring[SlotAt(store, i)] \in Entries
       /\ store.ring[SlotAt(store, i)].seq = store.seq - store.size + i

RingInv == store \in Stores /\ HoldsLatest

(* Wrapping around, overwriting and clearing never show: the store is a    *)
(* list of the latest entries.                                             *)
Latest == INSTANCE LogTail WITH tail <- Ordered(store), next <- store.seq

ImplementsTail == Latest!Spec
=============================================================================
