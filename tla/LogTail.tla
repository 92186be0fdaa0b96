------------------------------- MODULE LogTail -------------------------------
(***************************************************************************)
(* What a LogStore of core/logs promises: the latest entries, numbered in  *)
(* the order they were added.                                              *)
(***************************************************************************)
EXTENDS Integers, Sequences

CONSTANT Capacity

VARIABLES tail, next

(* Entries are added at the end, and carry the next numbers.  The oldest   *)
(* are dropped, and only as many as it takes.                              *)
Add ==
  LET added   == next' - next
      size    == IF Len(tail) + added <= Capacity THEN Len(tail) + added
                                                  ELSE Capacity
      dropped == Len(tail) + added - size
  IN
  /\ added >= 0
  /\ Len(tail') = size
  /\ \A i \in 1 .. size :
       IF i + dropped <= Len(tail)
         THEN tail'[i] = tail[i + dropped]
         ELSE tail'[i].seq = next' - size + i - 1

Clear == tail' = <<>> /\ UNCHANGED next

Spec == tail = <<>> /\ next = 0 /\ [][Add \/ Clear]_<<tail, next>>
=============================================================================
