------------------------ MODULE ProtocolSocketProofs ------------------------
(***************************************************************************)
(* ProtocolSocket, for any set of connections and any replacement          *)
(* interval: one live socket, one held upgrade, bounded eviction churn;    *)
(* and SessionTakeover, for any set of documents and any backoff: a        *)
(* session is taken back only after the wait.                              *)
(***************************************************************************)
EXTENDS SessionTakeover, Integers, TLAPS

(* The slot is empty at the start.                                         *)
LEMMA InitInv == Init => Inv
<1>. SUFFICES ASSUME Init PROVE Inv
  OBVIOUS
<1>1. TypeOK
  <2>1. phase \in [Upgrades -> Phases] /\ 0 \in 0 .. MinInterval
    BY SlotAssumption DEF Init, Phases
  <2>. QED  BY <2>1 DEF Init, TypeOK
<1>2. OneLiveSocket
  BY SlotAssumption DEF Init, OneLiveSocket
<1>3. OneHeldUpgrade
  BY SlotAssumption DEF Init, OneHeldUpgrade
<1>. QED  BY <1>1, <1>2, <1>3 DEF Inv

(* A finished handshake hands the slot over and leaves the held place      *)
(* alone.                                                                  *)
LEMMA TakeSlotInv ==
  ASSUME Inv, NEW u \in Upgrades, TakeSlot(u), phase[u] \notin {"held", "open"},
         UNCHANGED <<waiting, holdLeft, stopped>>
  PROVE  Inv'
<1>1. TypeOK'
  BY SlotAssumption DEF Inv, TypeOK, TakeSlot, Phases
<1>2. OneLiveSocket'
  BY SlotAssumption DEF Inv, TypeOK, OneLiveSocket, TakeSlot
<1>3. OneHeldUpgrade'
  BY SlotAssumption
     DEF Inv, TypeOK, OneLiveSocket, OneHeldUpgrade, TakeSlot
<1>. QED  BY <1>1, <1>2, <1>3 DEF Inv

(* An upgrade that arrives is held, starts its handshake or takes the slot *)
(* at once.                                                                *)
LEMMA ArrivesInv ==
  ASSUME Inv, NEW u \in Upgrades, Arrives(u)
  PROVE  Inv'
<1>1. phase[u] = "away" /\ stopped' = stopped
  BY DEF Arrives
<1>2. Wait \in Int /\ (Wait > 0 => Wait \in 0 .. MinInterval)
  BY SlotAssumption DEF Inv, TypeOK, Wait
<1>3. CASE Wait > 0
  <2>1. Hold(u)
    BY <1>3 DEF Arrives
  <2>2. u # waiting /\ u # active
    BY <1>1 DEF Inv, OneLiveSocket, OneHeldUpgrade
  <2>3. TypeOK'
    BY <1>1, <1>2, <1>3, <2>1 DEF Inv, TypeOK, Hold, Phases
  <2>4. OneLiveSocket'
    BY <1>1, <2>1, <2>2
       DEF Inv, TypeOK, OneLiveSocket, OneHeldUpgrade, Hold
  <2>5. OneHeldUpgrade'
    BY <1>1, <2>1, <2>2 DEF Inv, TypeOK, OneHeldUpgrade, Hold
  <2>. QED  BY <2>3, <2>4, <2>5 DEF Inv
<1>4. CASE ~(Wait > 0)
  <2>1. BeginHandshake(u) /\ UNCHANGED <<waiting, holdLeft>>
    BY <1>4 DEF Arrives
  <2>2. CASE TakeSlot(u)
    BY <1>1, <2>1, <2>2, TakeSlotInv
  <2>3. CASE phase' = [phase EXCEPT ![u] = "shaking"] /\ UNCHANGED <<active, age>>
    BY <1>1, <2>1, <2>3, SlotAssumption
       DEF Inv, TypeOK, OneLiveSocket, OneHeldUpgrade, Phases
  <2>. QED  BY <2>1, <2>2, <2>3 DEF BeginHandshake
<1>. QED  BY <1>3, <1>4

(* The timer of the held upgrade fires.                                    *)
LEMMA HoldEndsInv ==
  ASSUME Inv, HoldEnds
  PROVE  Inv'
<1>. DEFINE u == waiting
<1>1. u \in Upgrades /\ phase[u] = "held" /\ UNCHANGED stopped
  BY DEF HoldEnds, Inv, TypeOK, OneHeldUpgrade
<1>2. Wait \in Int /\ (Wait > 0 => Wait \in 0 .. MinInterval)
  BY SlotAssumption DEF Inv, TypeOK, Wait
<1>3. CASE Wait > 0
  <2>1. holdLeft' = Wait /\ UNCHANGED <<phase, active, age, waiting>>
    BY <1>3 DEF HoldEnds
  <2>. QED
    BY <1>1, <1>2, <1>3, <2>1
       DEF Inv, TypeOK, OneLiveSocket, OneHeldUpgrade
<1>4. CASE ~(Wait > 0)
  <2>1. BeginHandshake(u) /\ waiting' = None /\ holdLeft' = holdLeft
    BY <1>4 DEF HoldEnds
  <2>2. u # active /\ None \notin Upgrades
    BY <1>1, SlotAssumption DEF Inv, OneLiveSocket
  <2>3. CASE TakeSlot(u)
    <3>1. TypeOK'
      BY <1>1, <2>1, <2>3, SlotAssumption DEF Inv, TypeOK, TakeSlot, Phases
    <3>2. OneLiveSocket'
      BY <1>1, <2>3 DEF Inv, TypeOK, OneLiveSocket, TakeSlot
    <3>3. OneHeldUpgrade'
      BY <1>1, <2>1, <2>2, <2>3
         DEF Inv, TypeOK, OneHeldUpgrade, OneLiveSocket, TakeSlot
    <3>. QED  BY <3>1, <3>2, <3>3 DEF Inv
  <2>4. CASE phase' = [phase EXCEPT ![u] = "shaking"] /\ UNCHANGED <<active, age>>
    BY <1>1, <2>1, <2>2, <2>4
       DEF Inv, TypeOK, OneLiveSocket, OneHeldUpgrade, Phases
  <2>. QED  BY <2>1, <2>3, <2>4 DEF BeginHandshake
<1>. QED  BY <1>3, <1>4

(* A connection is gone, and only its own place in the slot or in the hold *)
(* is emptied.                                                             *)
LEMMA ClosesInv ==
  ASSUME Inv, NEW u \in Upgrades, Closes(u)
  PROVE  Inv'
<1>1. TypeOK'
  BY DEF Inv, TypeOK, Closes, SlotWithout, HeldWithout, Phases
<1>2. OneLiveSocket'
  BY SlotAssumption DEF Inv, TypeOK, OneLiveSocket, Closes, SlotWithout
<1>3. OneHeldUpgrade'
  BY SlotAssumption DEF Inv, TypeOK, OneHeldUpgrade, Closes, HeldWithout
<1>. QED  BY <1>1, <1>2, <1>3 DEF Inv

(* Every step keeps the invariant.                                         *)
LEMMA NextInv == Inv /\ [Next]_vars => Inv'
<1>. SUFFICES ASSUME Inv, [Next]_vars PROVE Inv'
  OBVIOUS
<1>1. ASSUME NEW u \in Upgrades, Arrives(u) PROVE Inv'
  BY <1>1, ArrivesInv
<1>2. ASSUME NEW u \in Upgrades, HandshakeDone(u) PROVE Inv'
  BY <1>2, TakeSlotInv DEF HandshakeDone, Inv, TypeOK
<1>3. ASSUME NEW u \in Upgrades, HandshakeFails(u) PROVE Inv'
  BY <1>3
     DEF HandshakeFails, Inv, TypeOK, OneLiveSocket, OneHeldUpgrade, Phases
<1>4. ASSUME NEW u \in Upgrades, Closes(u) PROVE Inv'
  BY <1>4, ClosesInv
<1>5. CASE HoldEnds
  BY <1>5, HoldEndsInv
<1>6. CASE Close
  BY <1>6, SlotAssumption
     DEF Close, Inv, TypeOK, OneLiveSocket, OneHeldUpgrade, Phases
<1>7. CASE Tick
  BY <1>7, SlotAssumption
     DEF Tick, Inv, TypeOK, OneLiveSocket, OneHeldUpgrade
<1>8. CASE UNCHANGED vars
  BY <1>8 DEF vars, Inv, TypeOK, OneLiveSocket, OneHeldUpgrade
<1>. QED  BY <1>1, <1>2, <1>3, <1>4, <1>5, <1>6, <1>7, <1>8 DEF Next

(* At most one live protocol socket and at most one held upgrade, whatever *)
(* order upgrades, handshakes, timers and close events come in.            *)
THEOREM SlotInvariant == Spec => []Inv
  BY InitInv, NextInv, PTL DEF Spec

(* No socket is evicted before it held the slot for the interval, except   *)
(* by a handshake that was under way already.                              *)
THEOREM EvictionsAreSpaced == Spec => ChurnBounded
<1>1. Inv /\ [Next]_vars =>
        [ active # None /\ active' \notin {None, active}
            => age = MinInterval \/ phase[active'] = "shaking" ]_vars
  <2>. SUFFICES ASSUME Inv, Next, active # None,
                       active' \notin {None, active}
                PROVE  age = MinInterval \/ phase[active'] = "shaking"
    BY DEF vars
  <2>1. Wait = MinInterval - age /\ age \in 0 .. MinInterval
         /\ MinInterval \in Nat
    BY SlotAssumption DEF Wait, Inv, TypeOK
  <2>2. ASSUME NEW u \in Upgrades, Arrives(u) PROVE age = MinInterval
    BY <2>1, <2>2 DEF Arrives, Hold
  <2>3. ASSUME NEW u \in Upgrades, HandshakeDone(u)
        PROVE  phase[active'] = "shaking"
    BY <2>3 DEF HandshakeDone, TakeSlot
  <2>4. ASSUME NEW u \in Upgrades, HandshakeFails(u) PROVE FALSE
    BY <2>4 DEF HandshakeFails
  <2>5. ASSUME NEW u \in Upgrades, Closes(u) PROVE FALSE
    BY <2>5 DEF Closes, SlotWithout
  <2>6. ASSUME HoldEnds PROVE age = MinInterval
    BY <2>1, <2>6 DEF HoldEnds
  <2>7. ASSUME Close \/ Tick PROVE FALSE
    BY <2>7 DEF Close, Tick
  <2>. QED  BY <2>2, <2>3, <2>4, <2>5, <2>6, <2>7 DEF Next
<1>. QED  BY <1>1, SlotInvariant, PTL DEF Spec, ChurnBounded

-----------------------------------------------------------------------------
(* Takeover of the session.                                                *)

TakeoverTypeOK ==
  /\ conn \in [Pages -> Machine]
  /\ sock \in [Pages -> Upgrades \cup {None}]
  /\ opener \in [Upgrades -> Pages \cup {None}]
  /\ backoff \in [Pages -> 0 .. ReplacedBackoff]
  /\ debt \in [Pages -> 0 .. ReplacedBackoff]

(* A page has a socket while its machine needs one, on a connection of its *)
(* own, and every connection at the server is some page's.                 *)
OwnSockets ==
  /\ \A p \in Pages :
       /\ sock[p] # None <=> KeepsSocket(conn[p])
       /\ sock[p] # None => opener[sock[p]] = p
  /\ \A u \in Upgrades : phase[u] # "away" => opener[u] # None

(* A page that owes the wait has not heard of its eviction yet, or waits.  *)
DebtIsWaited ==
  \A p \in Pages : debt[p] > 0 =>
    \/ sock[p] # None /\ phase[sock[p]] \in {"evicted", "away"}
    \/ conn[p].state = "backoff" /\ debt[p] <= backoff[p]

TakeoverInv == Inv /\ TakeoverTypeOK /\ OwnSockets /\ DebtIsWaited

(* The step takes no session back too early.                               *)
NotTooEarly ==
  TakesOver => LET p == opener'[active'] IN
                 sock'[p] = active' => debt'[p] = 0

(* At the start nobody owes anything.                                      *)
LEMMA TakeoverInitInv == TakeoverInit => TakeoverInv
<1>. SUFFICES ASSUME TakeoverInit PROVE TakeoverInv
  OBVIOUS
<1>1. Inv
  BY InitInv DEF TakeoverInit
<1>2. WasConnected \in Machine /\ ~KeepsSocket(WasConnected)
  <2>1. Bump(0) \in 0 .. MaxRetries + 1 /\ 0 \in 0 .. MaxRetries + 1
    BY MaxRetriesAssumption DEF Bump
  <2>2. InitialMachine \in Machine
    BY <2>1 DEF InitialMachine, Machine, States
  <2>. QED  BY <2>1, <2>2 DEF WasConnected, Machine, States, KeepsSocket
<1>3. TakeoverTypeOK
  BY <1>2, TakeoverAssumption DEF TakeoverInit, TakeoverTypeOK
<1>4. OwnSockets /\ DebtIsWaited
  BY <1>2 DEF TakeoverInit, Init, OwnSockets, DebtIsWaited
<1>. QED  BY <1>1, <1>3, <1>4 DEF TakeoverInv

(* What the machine makes of the events of a socket in use.                *)
LEMMA MachineSteps ==
  ASSUME NEW m \in Machine
  PROVE  /\ m.state = "opening" =>
              /\ SocketOpen(m) \in Machine /\ KeepsSocket(SocketOpen(m))
              /\ ~IsReplaced(SocketOpen(m))
              /\ OpenTimeout(m) \in Machine /\ ~KeepsSocket(OpenTimeout(m))
              /\ ~IsReplaced(OpenTimeout(m))
         /\ KeepsSocket(m) =>
              /\ SocketClose(m) \in Machine /\ ~KeepsSocket(SocketClose(m))
              /\ ~IsReplaced(SocketClose(m))
         /\ m.state = "connected" =>
              /\ SocketReplaced(m) \in Machine
              /\ IsReplaced(SocketReplaced(m))
         /\ m.state = "backoff" =>
              RetryTimer(m) \in Machine /\ RetryTimer(m).state = "opening"
         /\ m.state \in {"connected", "backoff"} =>
              /\ Wake(SocketClose(m)) \in Machine
              /\ Wake(SocketClose(m)).state = "opening"
<1>1. /\ m.state \in States /\ m.retries \in 0 .. MaxRetries + 1
      /\ MaxRetries \in Nat /\ Bump(m.retries) \in 0 .. MaxRetries + 1
  BY MaxRetriesAssumption DEF Machine, Bump
<1>2. RetryLater(m) \in Machine /\ RetryLater(m).state = "backoff"
       /\ ~RetryLater(m).replaced
  BY <1>1 DEF RetryLater, Machine, States
<1>3. OpenFailed(m) \in Machine /\ OpenFailed(m).state \in {"backoff", "gaveUp"}
       /\ ~IsReplaced(OpenFailed(m))
  BY <1>1, <1>2 DEF OpenFailed, Machine, States, IsReplaced
<1>4. ASSUME m.state = "opening"
      PROVE  /\ SocketOpen(m) \in Machine /\ KeepsSocket(SocketOpen(m))
             /\ ~IsReplaced(SocketOpen(m))
  BY <1>1, <1>4 DEF SocketOpen, Machine, States, KeepsSocket, IsReplaced
<1>5. ASSUME KeepsSocket(m)
      PROVE  /\ SocketClose(m) \in Machine /\ ~KeepsSocket(SocketClose(m))
             /\ ~IsReplaced(SocketClose(m))
  BY <1>2, <1>3, <1>5 DEF SocketClose, KeepsSocket, IsReplaced
<1>6. ASSUME m.state = "connected"
      PROVE  SocketReplaced(m) \in Machine /\ IsReplaced(SocketReplaced(m))
  <2>1. SocketReplaced(m) =
          [m EXCEPT !.state = "backoff", !.retries = 0, !.replaced = TRUE]
    BY <1>6 DEF SocketReplaced
  <2>2. 0 \in 0 .. MaxRetries + 1
    BY <1>1
  <2>3. SocketReplaced(m) \in Machine
    BY <2>1, <2>2 DEF Machine, States
  <2>4. IsReplaced(SocketReplaced(m))
    BY <2>1, Zenon DEF IsReplaced, Machine
  <2>. QED  BY <2>3, <2>4
<1>7. ASSUME m.state = "backoff"
      PROVE  RetryTimer(m) \in Machine /\ RetryTimer(m).state = "opening"
  BY <1>1, <1>7 DEF RetryTimer, Machine, States
<1>8. ASSUME m.state \in {"connected", "backoff"}
      PROVE  /\ Wake(SocketClose(m)) \in Machine
             /\ Wake(SocketClose(m)).state = "opening"
  <2>1. SocketClose(m) \in Machine /\ SocketClose(m).state = "backoff"
    BY <1>2, <1>8 DEF SocketClose
  <2>. QED  BY <2>1 DEF Wake, Machine, States
<1>. QED
  BY <1>3, <1>4, <1>5, <1>6, <1>7, <1>8 DEF OpenTimeout, KeepsSocket

(* How a step of the slot, in which upgrade came arrives if it is not      *)
(* None, moves the other connections: one that is over stays so, an owner  *)
(* that loses the slot to another is evicted, and that other one waited or *)
(* just came.                                                              *)
SlotMoves(came) ==
  /\ \A u \in Upgrades \ {came} :
       /\ phase[u] = "away" => phase'[u] = "away"
       /\ phase[u] = "evicted" => phase'[u] \in {"evicted", "away"}
  /\ active # None /\ active' \notin {None, active} =>
       /\ active \in Upgrades /\ active' \in Upgrades
       /\ phase[active] = "open" /\ phase'[active] = "evicted"
       /\ phase[active'] \in {"held", "shaking"} \/ active' = came

(* An upgrade's handshake begins, or its socket takes the slot.            *)
LEMMA HandshakeMoves ==
  ASSUME Inv, NEW u \in Upgrades, BeginHandshake(u) \/ TakeSlot(u),
         phase[u] \in {"away", "held", "shaking"}
  PROVE  SlotMoves(IF phase[u] = "away" THEN u ELSE None)
<1>. USE DEF Inv, TypeOK, OneLiveSocket, OneHeldUpgrade
<1>1. CASE TakeSlot(u)
  <2>1. active' = u /\ u # active
    BY <1>1 DEF TakeSlot
  <2>2. \A v \in Upgrades : v # u =>
          phase'[v] = IF v = active THEN "evicted" ELSE phase[v]
    BY <1>1 DEF TakeSlot
  <2>. QED  BY <2>1, <2>2, SlotAssumption DEF SlotMoves
<1>2. CASE phase' = [phase EXCEPT ![u] = "shaking"] /\ active' = active
  BY <1>2 DEF SlotMoves
<1>. QED  BY <1>1, <1>2 DEF BeginHandshake

(* An upgrade that arrives.                                                *)
LEMMA ArrivalMoves ==
  ASSUME Inv, NEW u \in Upgrades, Arrives(u)
  PROVE  SlotMoves(u)
<1>1. CASE Hold(u)
  <2>1. \A v \in Upgrades : v # u =>
          phase'[v] = IF v = waiting THEN "refused" ELSE phase[v]
    BY <1>1 DEF Hold, Inv, TypeOK
  <2>. QED
    BY <1>1, <2>1 DEF SlotMoves, Hold, Inv, TypeOK, OneHeldUpgrade
<1>2. CASE BeginHandshake(u)
  BY <1>2, HandshakeMoves DEF Arrives
<1>. QED  BY <1>1, <1>2 DEF Arrives

(* Every other step of the slot but a tick.                                *)
LEMMA SlotSteps ==
  ASSUME Inv,
         \/ HoldEnds \/ Close
         \/ \E u \in Upgrades :
              HandshakeDone(u) \/ HandshakeFails(u) \/ Closes(u)
  PROVE  SlotMoves(None)
<1>1. ASSUME NEW u \in Upgrades, HandshakeDone(u) PROVE SlotMoves(None)
  <2>1. /\ BeginHandshake(u) \/ TakeSlot(u)
        /\ phase[u] \in {"held", "shaking"}
    BY <1>1 DEF HandshakeDone
  <2>. QED  BY <2>1, HandshakeMoves
<1>2. ASSUME NEW u \in Upgrades, HandshakeFails(u) PROVE SlotMoves(None)
  BY <1>2 DEF HandshakeFails, SlotMoves, Inv, TypeOK
<1>3. ASSUME NEW u \in Upgrades, Closes(u) PROVE SlotMoves(None)
  BY <1>3 DEF Closes, SlotWithout, SlotMoves, Inv, TypeOK
<1>4. CASE HoldEnds
  <2>1. waiting \in Upgrades /\ phase[waiting] = "held"
    BY <1>4 DEF HoldEnds, Inv, TypeOK, OneHeldUpgrade
  <2>2. CASE Wait > 0
    BY <1>4, <2>2 DEF HoldEnds, SlotMoves
  <2>3. CASE ~(Wait > 0)
    <3>1. PICK u \in Upgrades : u = waiting
      BY <2>1
    <3>2. /\ BeginHandshake(u) \/ TakeSlot(u)
          /\ phase[u] \in {"held", "shaking"}
      BY <1>4, <2>1, <2>3, <3>1 DEF HoldEnds
    <3>. QED  BY <3>2, HandshakeMoves
  <2>. QED  BY <2>2, <2>3
<1>5. CASE Close
  BY <1>5 DEF Close, SlotMoves, Inv, TypeOK, OneHeldUpgrade
<1>. QED  BY <1>1, <1>2, <1>3, <1>4, <1>5

(* A page whose machine moves on without a new socket.  Its debt survives  *)
(* only with its socket, or into the wait of a replaced page.              *)
LEMMA BecomesInv ==
  ASSUME TakeoverInv, NEW p \in Pages, NEW m \in Machine, Becomes(p, m),
         NEW hurried \in SUBSET {p}, Owes(hurried),
         KeepsSocket(conn[p]),
         \/ KeepsSocket(m)
         \/ p \in hurried
         \/ IsReplaced(m)
  PROVE  TakeoverInv' /\ NotTooEarly
<1>. USE DEF TakeoverInv
<1>1. /\ UNCHANGED vars /\ active' = active /\ phase' = phase
      /\ ~TakesOver
  BY DEF Becomes, vars, TakesOver
<1>2. Inv'
  BY <1>1, NextInv
<1>3. \A q \in Pages : debt'[q] = IF q \in hurried THEN 0 ELSE debt[q]
  BY <1>1 DEF Owes
<1>4. TakeoverTypeOK'
  <2>1. conn' \in [Pages -> Machine] /\ sock' \in [Pages -> Upgrades \cup {None}]
    BY DEF Becomes, TakeoverTypeOK
  <2>2. backoff' \in [Pages -> 0 .. ReplacedBackoff]
    BY TakeoverAssumption DEF Becomes, TakeoverTypeOK, Delay
  <2>3. opener' \in [Upgrades -> Pages \cup {None}]
    BY DEF Becomes, Opened, TakeoverTypeOK
  <2>4. debt' \in [Pages -> 0 .. ReplacedBackoff]
    BY <1>3, TakeoverAssumption DEF Owes, TakeoverTypeOK
  <2>. QED  BY <2>1, <2>2, <2>3, <2>4 DEF TakeoverTypeOK
<1>5. OwnSockets'
  BY <1>1 DEF Becomes, Opened, OwnSockets, TakeoverTypeOK
<1>6. DebtIsWaited'
  <2>. SUFFICES ASSUME NEW q \in Pages, debt'[q] > 0
                PROVE  \/ /\ sock'[q] # None
                          /\ phase'[sock'[q]] \in {"evicted", "away"}
                       \/ conn'[q].state = "backoff" /\ debt'[q] <= backoff'[q]
    BY DEF DebtIsWaited
  <2>1. q \notin hurried /\ debt'[q] = debt[q] /\ debt[q] <= ReplacedBackoff
    BY <1>3, TakeoverAssumption DEF TakeoverTypeOK
  <2>2. CASE q # p
    BY <1>1, <2>1, <2>2 DEF Becomes, DebtIsWaited, TakeoverTypeOK
  <2>3. CASE q = p /\ KeepsSocket(m)
    <3>1. sock[p] # None /\ phase[sock[p]] \in {"evicted", "away"}
      BY <2>1, <2>3 DEF DebtIsWaited, KeepsSocket
    <3>. QED  BY <1>1, <2>3, <3>1 DEF Becomes, TakeoverTypeOK
  <2>4. CASE q = p /\ IsReplaced(m)
    BY <2>1, <2>4 DEF Becomes, TakeoverTypeOK, Delay, IsReplaced
  <2>. QED  BY <2>1, <2>2, <2>3, <2>4
<1>7. NotTooEarly
  BY <1>1 DEF NotTooEarly
<1>. QED  BY <1>2, <1>4, <1>5, <1>6, <1>7

(* A page that opens another socket, with nothing owed or in a hurry.      *)
LEMMA OpensInv ==
  ASSUME TakeoverInv, NEW p \in Pages, NEW m \in Machine, Opens(p, m),
         m.state = "opening",
         NEW hurried \in SUBSET {p}, Owes(hurried),
         p \in hurried \/ debt[p] = 0
  PROVE  TakeoverInv' /\ NotTooEarly
<1>. USE DEF TakeoverInv
<1>1. PICK u \in Upgrades :
        /\ opener[u] = None
        /\ sock' = [sock EXCEPT ![p] = u]
        /\ Arrives(u) \/ UNCHANGED vars
        /\ Opened([opener EXCEPT ![u] = p])
  BY DEF Opens
<1>2. conn' = [conn EXCEPT ![p] = m] /\ backoff' = [backoff EXCEPT ![p] = 0]
  BY DEF Opens
<1>3. Inv' /\ SlotMoves(u)
  <2>1. CASE Arrives(u)
    BY <2>1, NextInv, ArrivalMoves DEF Next
  <2>2. CASE UNCHANGED vars
    BY <2>2, NextInv DEF vars, SlotMoves
  <2>. QED  BY <1>1, <2>1, <2>2
<1>4. sock'[p] = u /\ opener'[u] = p /\ u # None /\ p # None
  BY <1>1, SlotAssumption, TakeoverAssumption DEF Opened, TakeoverTypeOK
<1>5. TakesOver => active' = u
  <2>1. CASE Arrives(u)
    BY <2>1 DEF Arrives, Hold, BeginHandshake, TakeSlot, TakesOver
  <2>2. CASE UNCHANGED vars
    BY <2>2 DEF vars, TakesOver
  <2>. QED  BY <1>1, <2>1, <2>2
<1>6. TakesOver => opener[active] # p
  BY <1>4, <1>5 DEF TakesOver
<1>7. debt'[p] = 0
  BY <1>6 DEF Owes
<1>8. TakeoverTypeOK'
  <2>1. conn' \in [Pages -> Machine] /\ sock' \in [Pages -> Upgrades \cup {None}]
    BY <1>1, <1>2 DEF TakeoverTypeOK
  <2>2. backoff' \in [Pages -> 0 .. ReplacedBackoff]
    BY <1>2, TakeoverAssumption DEF TakeoverTypeOK
  <2>3. opener' \in [Upgrades -> Pages \cup {None}]
    BY <1>1 DEF Opened, TakeoverTypeOK
  <2>4. debt' \in [Pages -> 0 .. ReplacedBackoff]
    BY TakeoverAssumption DEF Owes, TakeoverTypeOK
  <2>. QED  BY <2>1, <2>2, <2>3, <2>4 DEF TakeoverTypeOK
<1>9. ASSUME NEW q \in Pages
      PROVE  /\ sock'[q] # None <=> KeepsSocket(conn'[q])
             /\ sock'[q] # None => opener'[sock'[q]] = q
  <2>1. CASE q = p
    BY <1>2, <1>4, <2>1 DEF KeepsSocket, TakeoverTypeOK
  <2>2. CASE q # p
    <3>1. sock'[q] = sock[q] /\ conn'[q] = conn[q]
      BY <1>1, <1>2, <2>2 DEF TakeoverTypeOK
    <3>2. ASSUME sock[q] # None PROVE opener'[sock[q]] = q
      <4>1. sock[q] \in Upgrades /\ opener[sock[q]] = q /\ sock[q] # u
        BY <1>1, <3>2, TakeoverAssumption DEF OwnSockets, TakeoverTypeOK
      <4>. QED  BY <1>1, <3>1, <4>1 DEF Opened, TakeoverTypeOK
    <3>. QED  BY <3>1, <3>2 DEF OwnSockets
  <2>. QED  BY <2>1, <2>2
<1>10. ASSUME NEW v \in Upgrades, phase'[v] # "away" PROVE opener'[v] # None
  <2>1. CASE v = u
    BY <1>4, <2>1
  <2>2. CASE v # u
    BY <1>1, <1>3, <1>10, <2>2 DEF SlotMoves, Opened, OwnSockets
  <2>. QED  BY <2>1, <2>2
<1>11. OwnSockets'
  BY <1>9, <1>10 DEF OwnSockets, KeepsSocket
<1>12. DebtIsWaited'
  <2>. SUFFICES ASSUME NEW q \in Pages, debt'[q] > 0
                PROVE  \/ /\ sock'[q] # None
                          /\ phase'[sock'[q]] \in {"evicted", "away"}
                       \/ conn'[q].state = "backoff" /\ debt'[q] <= backoff'[q]
    BY DEF DebtIsWaited
  <2>1. q # p
    BY <1>7
  <2>2. sock'[q] = sock[q] /\ conn'[q] = conn[q] /\ backoff'[q] = backoff[q]
    BY <1>1, <1>2, <2>1 DEF TakeoverTypeOK
  <2>3. CASE TakesOver /\ q = opener[active]
    <3>1. sock[q] = active /\ active # None /\ phase'[active] = "evicted"
      BY <1>3, <2>3 DEF TakesOver, SlotMoves
    <3>. QED  BY <2>2, <3>1
  <2>4. CASE ~(TakesOver /\ q = opener[active])
    <3>1. debt'[q] = debt[q]
      BY <2>1, <2>4 DEF Owes
    <3>2. CASE sock[q] # None /\ phase[sock[q]] \in {"evicted", "away"}
      <4>1. sock[q] \in Upgrades /\ sock[q] # u
        BY <1>1, <3>2, TakeoverAssumption DEF OwnSockets, TakeoverTypeOK
      <4>. QED  BY <1>3, <2>2, <3>2, <4>1 DEF SlotMoves
    <3>3. CASE conn[q].state = "backoff" /\ debt[q] <= backoff[q]
      BY <2>2, <3>1, <3>3
    <3>. QED  BY <3>1, <3>2, <3>3 DEF DebtIsWaited
  <2>. QED  BY <2>3, <2>4
<1>13. NotTooEarly
  BY <1>4, <1>5, <1>7 DEF NotTooEarly
<1>. QED  BY <1>3, <1>8, <1>11, <1>12, <1>13

(* A step of the slot that no page takes part in.  Only an upgrade that    *)
(* was held or in its handshake can take the slot, and a page that owes    *)
(* the wait has none.                                                      *)
LEMMA ServerInv ==
  ASSUME TakeoverInv, HoldTimer \/ ServerStep
  PROVE  TakeoverInv' /\ NotTooEarly
<1>. USE DEF TakeoverInv
<1>1. UNCHANGED <<conn, sock, backoff>> /\ Opened(opener) /\ Owes({})
  BY DEF HoldTimer, ServerStep, AtServer
<1>2. Inv' /\ SlotMoves(None)
  BY NextInv, SlotSteps DEF HoldTimer, ServerStep, Next
<1>3. TakeoverTypeOK'
  <2>1. opener' \in [Upgrades -> Pages \cup {None}]
    BY <1>1 DEF Opened, TakeoverTypeOK
  <2>2. debt' \in [Pages -> 0 .. ReplacedBackoff]
    BY <1>1, TakeoverAssumption DEF Owes, TakeoverTypeOK
  <2>. QED  BY <1>1, <2>1, <2>2 DEF TakeoverTypeOK
<1>4. OwnSockets'
  <2>1. \A q \in Pages :
          /\ sock'[q] # None <=> KeepsSocket(conn'[q])
          /\ sock'[q] # None => opener'[sock'[q]] = q
    BY <1>1 DEF OwnSockets, Opened, TakeoverTypeOK
  <2>2. ASSUME NEW u \in Upgrades, phase'[u] # "away" PROVE opener'[u] # None
    <3>1. u # None /\ phase[u] # "away"
      BY <1>2, <2>2, SlotAssumption DEF SlotMoves
    <3>. QED  BY <1>1, <2>2, <3>1 DEF Opened, OwnSockets
  <2>. QED  BY <2>1, <2>2 DEF OwnSockets, KeepsSocket
<1>5. DebtIsWaited'
  <2>. SUFFICES ASSUME NEW q \in Pages, debt'[q] > 0
                PROVE  \/ /\ sock[q] # None
                          /\ phase'[sock[q]] \in {"evicted", "away"}
                       \/ conn[q].state = "backoff" /\ debt'[q] <= backoff[q]
    BY <1>1 DEF DebtIsWaited
  <2>1. CASE TakesOver /\ q = opener[active]
    BY <1>2, <2>1 DEF TakesOver, SlotMoves
  <2>2. CASE ~(TakesOver /\ q = opener[active])
    <3>1. debt'[q] = debt[q]
      BY <1>1, <2>2 DEF Owes
    <3>2. sock[q] \in Upgrades \cup {None}
      BY DEF TakeoverTypeOK
    <3>. QED  BY <1>2, <3>1, <3>2 DEF DebtIsWaited, SlotMoves
  <2>. QED  BY <2>1, <2>2
<1>6. NotTooEarly
  <2>. SUFFICES ASSUME TakesOver, NEW p, p = opener'[active'], sock'[p] = active'
                PROVE  debt'[p] = 0
    BY DEF NotTooEarly
  <2>1. /\ active' \in Upgrades /\ active' # None
        /\ phase[active'] \in {"held", "shaking"}
    BY <1>2 DEF TakesOver, SlotMoves
  <2>2. p \in Pages /\ sock[p] = active' /\ p # opener[active]
    <3>1. p \in Pages \cup {None}
      BY <1>3, <2>1 DEF TakeoverTypeOK
    <3>2. p # None
      BY <1>1, <1>2, <2>1 DEF Opened, OwnSockets, Inv, OneLiveSocket
    <3>. QED  BY <1>1, <3>1, <3>2 DEF TakesOver
  <2>3. debt'[p] = debt[p] /\ debt[p] \in 0 .. ReplacedBackoff
    BY <1>1, <2>2 DEF Owes, TakeoverTypeOK
  <2>4. KeepsSocket(conn[p])
    BY <2>1, <2>2 DEF OwnSockets
  <2>. QED
    BY <2>1, <2>2, <2>3, <2>4, TakeoverAssumption
       DEF DebtIsWaited, KeepsSocket
<1>. QED  BY <1>2, <1>3, <1>4, <1>5, <1>6

(* A tick shortens what is owed and the waits alike.                       *)
LEMMA TimeInv ==
  ASSUME TakeoverInv, TimePasses
  PROVE  TakeoverInv' /\ NotTooEarly
<1>. USE DEF TakeoverInv
<1>1. [Next]_vars /\ UNCHANGED <<conn, sock, opener, phase, active>>
  BY DEF TimePasses, Tick, Next, vars
<1>2. \A p \in Pages : debt'[p] = Less(debt[p]) /\ backoff'[p] = Less(backoff[p])
  BY DEF TimePasses
<1>3. Inv'
  BY <1>1, NextInv
<1>4. TakeoverTypeOK'
  BY <1>1, TakeoverAssumption DEF TimePasses, Less, TakeoverTypeOK
<1>5. OwnSockets'
  BY <1>1 DEF OwnSockets, KeepsSocket
<1>6. DebtIsWaited'
  BY <1>1, <1>2, TakeoverAssumption DEF DebtIsWaited, TakeoverTypeOK, Less
<1>7. NotTooEarly
  BY <1>1 DEF NotTooEarly, TakesOver
<1>. QED  BY <1>3, <1>4, <1>5, <1>6, <1>7

(* Every step keeps the invariant and takes no session back too early.     *)
LEMMA TakeoverNextInv ==
  TakeoverInv /\ [TakeoverNext]_allVars => TakeoverInv' /\ NotTooEarly
<1>. SUFFICES ASSUME TakeoverInv, [TakeoverNext]_allVars
              PROVE  TakeoverInv' /\ NotTooEarly
  OBVIOUS
<1>. USE DEF TakeoverInv
<1>1. ASSUME NEW p \in Pages PROVE conn[p] \in Machine /\ debt[p] \in 0 .. ReplacedBackoff
  BY DEF TakeoverTypeOK
<1>2. ASSUME NEW p \in Pages, SocketOpens(p) PROVE TakeoverInv' /\ NotTooEarly
  BY <1>1, <1>2, MachineSteps, BecomesInv DEF SocketOpens, KeepsSocket
<1>3. ASSUME NEW p \in Pages, LearnsReplaced(p) PROVE TakeoverInv' /\ NotTooEarly
  BY <1>1, <1>3, MachineSteps, BecomesInv DEF LearnsReplaced, KeepsSocket
<1>4. ASSUME NEW p \in Pages, Loses(p) PROVE TakeoverInv' /\ NotTooEarly
  BY <1>1, <1>4, MachineSteps, BecomesInv DEF Loses
<1>5. ASSUME NEW p \in Pages, RetryFires(p) PROVE TakeoverInv' /\ NotTooEarly
  <2>1. debt[p] = 0
    BY <1>1, <1>5, TakeoverAssumption
       DEF RetryFires, DebtIsWaited, OwnSockets, KeepsSocket
  <2>. QED  BY <1>1, <1>5, <2>1, MachineSteps, OpensInv DEF RetryFires
<1>6. ASSUME NEW p \in Pages, Foreground(p) PROVE TakeoverInv' /\ NotTooEarly
  BY <1>1, <1>6, MachineSteps, OpensInv DEF Foreground
<1>7. CASE HoldTimer \/ ServerStep
  BY <1>7, ServerInv
<1>8. CASE TimePasses
  BY <1>8, TimeInv
<1>9. CASE UNCHANGED allVars
  <2>1. /\ UNCHANGED <<conn, sock, opener, backoff, debt, phase, active>>
        /\ UNCHANGED vars
    BY <1>9 DEF allVars, vars
  <2>2. Inv'
    BY <2>1, NextInv
  <2>3. TakeoverTypeOK' /\ OwnSockets' /\ DebtIsWaited' /\ NotTooEarly
    BY <2>1
       DEF TakeoverTypeOK, OwnSockets, DebtIsWaited, NotTooEarly, TakesOver,
           KeepsSocket
  <2>. QED  BY <2>2, <2>3
<1>. QED
  BY <1>2, <1>3, <1>4, <1>5, <1>6, <1>7, <1>8, <1>9
     DEF TakeoverNext, PageStep

(* Whatever documents compete, one that was replaced takes the session     *)
(* back only after its wait, unless it had a reason not to wait.           *)
THEOREM TakeoverIsSpaced == TakeoverSpec => TakenBackAfterWaiting
<1>1. TakeoverInv /\ [TakeoverNext]_allVars =>
        [ TakesOver => LET p == opener'[active'] IN
                         sock'[p] = active' => debt'[p] = 0 ]_allVars
  BY TakeoverNextInv DEF NotTooEarly
<1>. QED
  BY <1>1, TakeoverInitInv, TakeoverNextInv, PTL
     DEF TakeoverSpec, TakenBackAfterWaiting

(* Pages reach the slot only through upgrades that arrive and connections  *)
(* that close: each of their steps is one the slot allows, or leaves it    *)
(* alone.                                                                  *)
LEMMA TakeoverStepsTheSlot == [TakeoverNext]_allVars => [Next]_vars
<1>. SUFFICES ASSUME [TakeoverNext]_allVars PROVE [Next]_vars
  OBVIOUS
<1>1. ASSUME NEW p \in Pages, NEW m, Becomes(p, m) PROVE UNCHANGED vars
  BY <1>1 DEF Becomes
<1>2. ASSUME NEW p \in Pages, NEW m, Opens(p, m) PROVE [Next]_vars
  BY <1>2 DEF Opens, Next
<1>3. ASSUME NEW p \in Pages, PageStep(p) PROVE [Next]_vars
  BY <1>1, <1>2, <1>3
     DEF PageStep, SocketOpens, LearnsReplaced, Loses, RetryFires, Foreground
<1>4. CASE HoldTimer \/ ServerStep
  BY <1>4 DEF HoldTimer, ServerStep, Next
<1>5. CASE TimePasses
  BY <1>5 DEF TimePasses, Next
<1>6. CASE UNCHANGED allVars
  BY <1>6 DEF allVars, vars
<1>. QED  BY <1>3, <1>4, <1>5, <1>6 DEF TakeoverNext

(* Documents that compete for the session leave the slot as it promises to *)
(* be: it implements its own specification, so at most one socket is live, *)
(* at most one upgrade is held, and evictions stay spaced.                 *)
THEOREM TakeoverKeepsSlot == TakeoverSpec => Spec /\ []Inv /\ ChurnBounded
<1>1. TakeoverInit => Init
  BY DEF TakeoverInit
<1>2. TakeoverSpec => Spec
  BY <1>1, TakeoverStepsTheSlot, PTL DEF TakeoverSpec, Spec
<1>. QED  BY <1>2, SlotInvariant, EvictionsAreSpaced, PTL
=============================================================================
