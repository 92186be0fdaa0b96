--------------------------- MODULE ProtocolSocket ---------------------------
(***************************************************************************)
(* createProtocolSocketSlot of core/server/protocol-socket.ts: the one-    *)
(* client slot of the loopback server.  An admitted upgrade takes the slot *)
(* at once when it is free or the replacement interval has passed, and is  *)
(* held for the rest of the interval otherwise; at most one is held.       *)
(*                                                                         *)
(* An upgrade names a TCP connection; its name is reused once it is gone.  *)
(* Time is counted in ticks of the replacement interval.  A timer may fire *)
(* late, never early.                                                      *)
(***************************************************************************)
EXTENDS Naturals

CONSTANTS
  Upgrades,      \* names of the connections present at one time
  MinInterval,   \* replaceMinIntervalMs, in ticks
  None           \* no upgrade

ASSUME SlotAssumption ==
  /\ MinInterval \in Nat
  /\ None \notin Upgrades

VARIABLES
  phase,     \* phase[u]: where connection u stands, see Phases
  active,    \* the upgrade whose socket holds the slot, or None
  age,       \* Date.now() - activeSince, counted up to MinInterval
  waiting,   \* the held upgrade, or None
  holdLeft,  \* ticks until the timer of the held upgrade is due
  stopped    \* close() was called

vars == <<phase, active, age, waiting, holdLeft, stopped>>

(* absent, held for the interval, in the handshake, owner of the slot,     *)
(* evicted but its TCP connection not closed yet, refused likewise.        *)
Phases == {"away", "held", "shaking", "open", "evicted", "refused"}

TypeOK ==
  /\ phase \in [Upgrades -> Phases]
  /\ active \in Upgrades \cup {None}
  /\ age \in 0 .. MinInterval
  /\ waiting \in Upgrades \cup {None}
  /\ holdLeft \in 0 .. MinInterval
  /\ stopped \in BOOLEAN

Init ==
  /\ phase = [u \in Upgrades |-> "away"]
  /\ active = None
  /\ age = 0
  /\ waiting = None
  /\ holdLeft = 0
  /\ stopped = FALSE

-----------------------------------------------------------------------------
(* Plausible bugs, as mutants of the definitions below: a late close that  *)
(* empties the slot of another socket, and a timer that takes the slot     *)
(* without asking again, or drops its upgrade when it has to wait again.   *)
SlotEmptied(u) == None

HoldEndsTakesSlot ==
  /\ waiting # None
  /\ holdLeft = 0
  /\ phase' = [v \in Upgrades |-> CASE v = waiting -> "open"
                                    [] v = active  -> "evicted"
                                    [] OTHER       -> phase[v]]
  /\ active' = waiting
  /\ age' = 0
  /\ waiting' = None
  /\ UNCHANGED <<holdLeft, stopped>>

HoldEndsForgets ==
  /\ waiting # None
  /\ holdLeft = 0
  /\ waiting' = None
  /\ UNCHANGED <<phase, active, age, holdLeft, stopped>>

-----------------------------------------------------------------------------
(* accept()                                                                *)

(* How long an upgrade has to wait before it may replace the active one.   *)
Wait == IF active = None THEN 0 ELSE MinInterval - age

(* The handshake succeeded: the socket takes the slot and the previous     *)
(* owner is evicted.                                                       *)
TakeSlot(u) ==
  /\ phase' = [v \in Upgrades |-> CASE v = u      -> "open"
                                    [] v = active -> "evicted"
                                    [] OTHER      -> phase[v]]
  /\ active' = u
  /\ age' = 0

(* Held for the rest of the interval; a newer upgrade supersedes the one   *)
(* held before it, which is answered 429.                                  *)
Hold(u) ==
  /\ phase' = [v \in Upgrades |-> CASE v = u       -> "held"
                                    [] v = waiting -> "refused"
                                    [] OTHER       -> phase[v]]
  /\ waiting' = u
  /\ holdLeft' = Wait
  /\ UNCHANGED <<active, age>>

(* The WebSocket handshake calls back at once or later.                    *)
BeginHandshake(u) ==
  \/ TakeSlot(u)
  \/ phase' = [phase EXCEPT ![u] = "shaking"] /\ UNCHANGED <<active, age>>

Arrives(u) ==
  /\ ~stopped
  /\ phase[u] = "away"
  /\ IF Wait > 0
       THEN Hold(u)
       ELSE BeginHandshake(u) /\ UNCHANGED <<waiting, holdLeft>>
  /\ UNCHANGED stopped

(* The timer of the held upgrade: it goes through accept() again, since    *)
(* the slot may have changed hands meanwhile.                              *)
HoldEnds ==
  /\ waiting # None
  /\ holdLeft = 0
  /\ LET u == waiting IN
       IF Wait > 0
         THEN holdLeft' = Wait /\ UNCHANGED <<phase, active, age, waiting>>
         ELSE BeginHandshake(u) /\ waiting' = None /\ UNCHANGED holdLeft
  /\ UNCHANGED stopped

HandshakeDone(u) ==
  /\ phase[u] = "shaking"
  /\ TakeSlot(u)
  /\ UNCHANGED <<waiting, holdLeft, stopped>>

HandshakeFails(u) ==
  /\ phase[u] = "shaking"
  /\ phase' = [phase EXCEPT ![u] = "refused"]
  /\ UNCHANGED <<active, age, waiting, holdLeft, stopped>>

(* What is left of the slot, and of the held place, when u closes.         *)
SlotWithout(u) == IF active = u THEN None ELSE active

HeldWithout(u) == IF waiting = u THEN None ELSE waiting

(* The connection is gone: the peer hung up, the socket timed out, or the  *)
(* server destroyed it.  Each listener checks that the slot, or the held   *)
(* place, is still its own.                                                *)
Closes(u) ==
  /\ phase[u] \in {"held", "open", "evicted", "refused"}
  /\ phase' = [phase EXCEPT ![u] = "away"]
  /\ active' = SlotWithout(u)
  /\ waiting' = HeldWithout(u)
  /\ UNCHANGED <<age, holdLeft, stopped>>

(* close(): the held upgrade is destroyed and forgotten; the active socket *)
(* is destroyed and leaves the slot when its close event arrives.          *)
Close ==
  /\ ~stopped
  /\ stopped' = TRUE
  /\ phase' = [u \in Upgrades |-> IF u = waiting THEN "refused" ELSE phase[u]]
  /\ waiting' = None
  /\ UNCHANGED <<active, age, holdLeft>>

Tick ==
  /\ age < MinInterval \/ holdLeft > 0
  /\ age' = IF age < MinInterval THEN age + 1 ELSE age
  /\ holdLeft' = IF holdLeft > 0 THEN holdLeft - 1 ELSE 0
  /\ UNCHANGED <<phase, active, waiting, stopped>>

-----------------------------------------------------------------------------

Next ==
  \/ \E u \in Upgrades :
       Arrives(u) \/ HandshakeDone(u) \/ HandshakeFails(u) \/ Closes(u)
  \/ HoldEnds \/ Close \/ Tick

Spec == Init /\ [][Next]_vars

(* Timers fire.  Nothing is owed by the peers.                             *)
FairSpec == Spec /\ WF_vars(Tick) /\ WF_vars(HoldEnds)

-----------------------------------------------------------------------------
(* Properties.                                                             *)

(* At most one live protocol socket: the owner of the slot is the only     *)
(* established socket that was not evicted, whatever order handshakes,     *)
(* evictions and late close events come in.                                *)
OneLiveSocket == \A u \in Upgrades : phase[u] = "open" <=> active = u

(* No held upgrade is forgotten without an answer, and the late close of   *)
(* a superseded one does not drop its successor.                           *)
OneHeldUpgrade == \A u \in Upgrades : phase[u] = "held" <=> waiting = u

(* The inductive invariant: the two above, typed.                          *)
Inv == TypeOK /\ OneLiveSocket /\ OneHeldUpgrade

(* The interval bounds eviction churn: a socket is never evicted before it *)
(* has held the slot for MinInterval, not even by an upgrade whose own     *)
(* wait was measured against an earlier owner.  Only an upgrade that was   *)
(* in its handshake already when the owner took the slot may be faster.    *)
ChurnBounded ==
  [][ active # None /\ active' \notin {None, active}
        => age = MinInterval \/ phase[active'] = "shaking" ]_vars

(* A held upgrade gets the slot, is answered or hangs up: only a slot that *)
(* keeps changing hands can hold it forever.                               *)
HeldIsServed ==
  \A u \in Upgrades :
    <>[](phase[u] = "held") => []<><<active' # active>>_vars
=============================================================================
