---------------------------- MODULE SlotHistory ----------------------------
(***************************************************************************)
(* The protocol socket slot with a memory of who came first.               *)
(***************************************************************************)
EXTENDS ProtocolSocket

VARIABLE newer  \* history: <<v, u>> when u arrived while v was present

Present == {u \in Upgrades : phase[u] # "away"}

Remembers ==
  newer' = {pair \in newer \cup (Present \X (Present' \ Present)) :
              pair[1] \in Present' /\ pair[2] \in Present'}

HistorySpec ==
  Init /\ newer = {} /\ [][Next /\ Remembers]_<<vars, newer>>

(* What the comments on waiting and on REPLACED_CLOSE_CODE say: a socket   *)
(* is evicted by a newer one.  Two overlapping handshakes set aside.       *)
NewerEvicts ==
  [][ /\ active # None /\ active' \notin {None, active}
      /\ phase[active'] # "shaking"
     => <<active, active'>> \in newer' ]_<<vars, newer>>
=============================================================================
