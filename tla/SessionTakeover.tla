-------------------------- MODULE SessionTakeover --------------------------
(***************************************************************************)
(* Documents that compete for the one protocol socket of a server: a       *)
(* connection machine (web/connection-machine.ts) on each, driven by the   *)
(* events of its socket as in web/websocket-client.ts, and the slot they   *)
(* want (core/server/protocol-socket.ts).                                  *)
(*                                                                         *)
(* A page learns that its socket is open, or closed with the code 4001,    *)
(* some time after the server made it so; a connection that breaks first   *)
(* takes the news with it.  Every document has been connected before, so   *)
(* none gives up and its retries do not matter.                            *)
(***************************************************************************)
EXTENDS ProtocolSocket, ConnectionMachine

CONSTANTS
  Pages,           \* the documents
  ReplacedBackoff  \* replacedBackoffMs, in ticks

ASSUME TakeoverAssumption == ReplacedBackoff \in Nat /\ None \notin Pages

VARIABLES
  conn,     \* conn[p]: the connection machine of page p
  sock,     \* sock[p]: its current socket, or None
  opener,   \* opener[u]: the page that opened connection u, while it is used
  backoff,  \* backoff[p]: ticks left of the wait of a replaced page
  debt      \* history: ticks a page owes to the one that took its session

allVars == <<vars, conn, sock, opener, backoff, debt>>

(* A connection was lost, the only thing a page remembers of its past.     *)
WasConnected ==
  [InitialMachine EXCEPT !.state = "backoff", !.retries = Bump(0),
                         !.everConnected = TRUE]

TakeoverInit ==
  /\ Init
  /\ conn = [p \in Pages |-> WasConnected]
  /\ sock = [p \in Pages |-> None]
  /\ opener = [u \in Upgrades |-> None]
  /\ backoff = [p \in Pages |-> 0]
  /\ debt = [p \in Pages |-> 0]

-----------------------------------------------------------------------------
(* Names, and what is owed, after any step.                                *)

(* The name of a connection that neither end knows any more is free.       *)
Opened(openers) ==
  opener' = [u \in Upgrades |->
               IF phase'[u] = "away" /\ \A p \in Pages : sock'[p] # u
                 THEN None ELSE openers[u]]

(* In this step a page's current socket is evicted by another page's.      *)
TakesOver ==
  /\ active # None /\ active' \notin {None, active}
  /\ opener[active] # opener'[active']
  /\ sock[opener[active]] = active

(* A page whose session is taken over owes the wait; one with a reason to  *)
(* hurry owes nothing.                                                     *)
Owes(hurried) ==
  debt' = [p \in Pages |->
             IF TakesOver /\ p = opener[active] THEN ReplacedBackoff
             ELSE IF p \in hurried THEN 0 ELSE debt[p]]

-----------------------------------------------------------------------------
(* The pages.                                                              *)

(* How long a backoff lasts; that of an ordinary loss may be very short.   *)
Delay(m) == IF IsReplaced(m) THEN ReplacedBackoff ELSE 0

KeepsSocket(m) == m.state \in {"opening", "connected"}

(* onChange, outside opening: the socket is dropped unless still in use.   *)
Becomes(p, m) ==
  /\ conn' = [conn EXCEPT ![p] = m]
  /\ backoff' = [backoff EXCEPT ![p] = Delay(m)]
  /\ sock' = [sock EXCEPT ![p] = IF KeepsSocket(m) THEN @ ELSE None]
  /\ UNCHANGED vars
  /\ Opened(opener)

(* onChange, entering opening: another socket, whose upgrade reaches the   *)
(* server or is lost.                                                      *)
Opens(p, m) ==
  /\ conn' = [conn EXCEPT ![p] = m]
  /\ backoff' = [backoff EXCEPT ![p] = 0]
  /\ \E u \in Upgrades :
       /\ opener[u] = None
       /\ sock' = [sock EXCEPT ![p] = u]
       /\ Arrives(u) \/ UNCHANGED vars
       /\ Opened([opener EXCEPT ![u] = p])

SocketOpens(p) ==
  /\ conn[p].state = "opening"
  /\ phase[sock[p]] \in {"open", "evicted"}
  /\ Becomes(p, SocketOpen(conn[p]))
  /\ Owes({})

(* The close event with the code 4001.                                     *)
LearnsReplaced(p) ==
  /\ conn[p].state = "connected"
  /\ phase[sock[p]] = "evicted"
  /\ Becomes(p, SocketReplaced(conn[p]))
  /\ Owes({})

(* The close event with any other code, or the open timeout: the page has  *)
(* no reason to wait.                                                      *)
Loses(p) ==
  /\ KeepsSocket(conn[p])
  /\ \/ Becomes(p, SocketClose(conn[p]))
     \/ conn[p].state = "opening" /\ Becomes(p, OpenTimeout(conn[p]))
  /\ Owes({p})

RetryFires(p) ==
  /\ conn[p].state = "backoff"
  /\ backoff[p] = 0
  /\ Opens(p, RetryTimer(conn[p]))
  /\ Owes({})

(* onForeground: a socket the browser closed silently is lost; then WAKE.  *)
Foreground(p) ==
  /\ conn[p].state \in {"connected", "backoff"}
  /\ Opens(p, Wake(SocketClose(conn[p])))
  /\ Owes({p})

PageStep(p) ==
  \/ SocketOpens(p) \/ LearnsReplaced(p) \/ Loses(p)
  \/ RetryFires(p) \/ Foreground(p)

-----------------------------------------------------------------------------
(* The server, and time.                                                   *)

AtServer == Opened(opener) /\ Owes({}) /\ UNCHANGED <<conn, sock, backoff>>

HoldTimer == HoldEnds /\ UNCHANGED sock /\ AtServer

ServerStep ==
  /\ \/ Close
     \/ \E u \in Upgrades : HandshakeDone(u) \/ HandshakeFails(u) \/ Closes(u)
  /\ UNCHANGED sock
  /\ AtServer

Less(n) == IF n > 0 THEN n - 1 ELSE 0

(* A tick of every clock that still runs.                                  *)
TimePasses ==
  /\ \/ Tick
     \/ /\ \E p \in Pages : backoff[p] > 0 \/ debt[p] > 0
        /\ age = MinInterval /\ holdLeft = 0  \* no Tick
        /\ UNCHANGED vars
  /\ backoff' = [p \in Pages |-> Less(backoff[p])]
  /\ debt' = [p \in Pages |-> Less(debt[p])]
  /\ UNCHANGED <<conn, sock, opener>>

-----------------------------------------------------------------------------

TakeoverNext ==
  \/ \E p \in Pages : PageStep(p)
  \/ HoldTimer \/ ServerStep \/ TimePasses

(* The timers of the slot fire.  Nothing is owed by the pages.             *)
TakeoverSpec ==
  /\ TakeoverInit /\ [][TakeoverNext]_allVars
  /\ WF_allVars(TimePasses) /\ WF_allVars(HoldTimer)

-----------------------------------------------------------------------------
(* Properties: the slot's own, and                                         *)

(* "two documents must not evict each other forever": one whose session    *)
(* another took over takes it back only after the whole replacedBackoffMs, *)
(* unless it came to the foreground, or lost its connection before it      *)
(* heard.  Of a socket that its page gave up nothing is said: its upgrade  *)
(* may still be held, or in its handshake.                                 *)
TakenBackAfterWaiting ==
  [][ TakesOver => LET p == opener'[active'] IN
                     sock'[p] = active' => debt'[p] = 0 ]_allVars
=============================================================================
