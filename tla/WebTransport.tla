---------------------------- MODULE WebTransport ----------------------------
(***************************************************************************)
(* createWebSocketTransport of web/websocket-client.ts: the page's side of *)
(* the wire.  It drives ConnectionMachine, owns the current WebSocket, a   *)
(* queue of requests waiting for a connection and the invokes sent on the  *)
(* current socket, and it runs the /login exchange.                        *)
(*                                                                         *)
(* JavaScript is single threaded: an action is one task of the event loop, *)
(* with every synchronous callback it triggers (machine.onChange in        *)
(* particular).  The browser's sockets, the server behind them, /login and *)
(* the log-tail fetch are the environment.                                 *)
(***************************************************************************)
EXTENDS ConnectionMachine, FiniteSets, Sequences, SequencesExt

CONSTANTS
  NumRequests,  \* callers issue invokes 1, 2, ..., in this order
  Sockets,      \* identities of WebSocket objects, reused once finished
  NoSocket,     \* the null of `socket`
  MaxTails,     \* bound: log-tail fetches under way at once
  MaxBodies,    \* bound: log-tail responses being read at once
  MaxQueued,    \* options.maxQueued
  MaxInflight,  \* MAX_TRACKED_INFLIGHT
  ShouldLogin,  \* a bootstrap nonce is present
  Diagnostics   \* options.diagnostics

ASSUME TransportAssumption ==
  /\ NumRequests \in Nat
  /\ NoSocket \notin Sockets
  /\ MaxTails \in Nat /\ MaxBodies \in Nat
  /\ MaxQueued \in Nat \ {0}
  /\ MaxInflight \in Nat \ {0}
  /\ ShouldLogin \in BOOLEAN
  /\ Diagnostics \in BOOLEAN

VARIABLES
  conn,        \* the connection machine
  socket,      \* the current WebSocket
  ready,       \* ready[s]: readyState of each socket, see ReadyStates
  queued,      \* requests held for a connection
  inflight,    \* invokes sent on the current socket, oldest first
  login,       \* progress of bootstrap()
  loggedIn,    \* the session cookie is set
  loginFailed, \* loginFailureDetail # null
  tails,       \* failWithServerDetail runs whose fetch() has not answered
  bodies,      \* those that read the body of the answer
  issued,      \* how many invokes callers have issued
  answers,     \* answers[r]: INVOKE_RESPONSEs delivered for r
  atServer     \* atServer[s]: invokes the server got on s, unanswered

vars == <<conn, socket, ready, queued, inflight, login, loggedIn,
          loginFailed, tails, bodies, issued, answers, atServer>>

Requests == 1 .. NumRequests

(* "closing" is every socket that is no longer OPEN and whose close event  *)
(* has not fired: closed by the page, by the peer, or by a suspended       *)
(* browser.  "none" is a socket that does not exist.                       *)
ReadyStates == {"none", "connecting", "open", "closing"}

LoginStates == {"off", "first", "spent", "second"}

TypeOK ==
  /\ conn \in Machine
  /\ socket \in Sockets \cup {NoSocket}
  /\ ready \in [Sockets -> ReadyStates]
  /\ queued \in Seq(Requests) /\ Len(queued) <= MaxQueued
  /\ inflight \in Seq(Requests) /\ Len(inflight) <= MaxInflight
  /\ login \in LoginStates
  /\ loggedIn \in BOOLEAN
  /\ loginFailed \in BOOLEAN
  /\ tails \in 0 .. MaxTails /\ bodies \in 0 .. MaxBodies
  /\ issued \in 0 .. NumRequests
  /\ answers \in [Requests -> Nat]
  /\ atServer \in [Sockets -> SUBSET Requests]

closed == conn.state = "closed"

-----------------------------------------------------------------------------
(* Plausible bugs, as mutants of the definitions below: the tracked        *)
(* invokes are one fewer, callbacks of an old socket act on the new one,   *)
(* every backoff fails the queue, a give-up with diagnostics leaves it     *)
(* alone, the socket survives into the backoff, and opening does not flush *)
(* the queue.                                                              *)
TrackOneLess(tracked, q) ==
  LET all == tracked \o q IN
    IF Len(all) < MaxInflight
      THEN all
      ELSE SubSeq(all, Len(all) - MaxInflight + 2, Len(all))

AnySocketIsCurrent(s) == s \in Sockets

FailsQueueInBackoff(m) == m.state \in {"gaveUp", "closed", "backoff"}

FetchesNoTail(m) == FALSE

KeepsSocketInBackoff(m) == m.state \in {"opening", "connected", "backoff"}

OnOpenUnflushed(s) ==
  /\ ready[s] = "connecting"
  /\ ready' = [ready EXCEPT ![s] = "open"]
  /\ conn' = IF s = socket THEN SocketOpen(conn) ELSE conn
  /\ UNCHANGED <<socket, queued, inflight, login, loggedIn, loginFailed,
                 tails, bodies, issued, answers, atServer>>

-----------------------------------------------------------------------------
(* Helpers shared by the handlers.                                         *)

(* emitTransportError, or a response, to the subscribers for all of S.     *)
Answer(S) == [r \in Requests |-> answers[r] + (IF r \in S THEN 1 ELSE 0)]

(* sendNow for each request of q in turn: past the bound the oldest        *)
(* tracked invoke is forgotten.                                            *)
Track(tracked, q) ==
  LET all == tracked \o q IN
    IF Len(all) <= MaxInflight
      THEN all
      ELSE SubSeq(all, Len(all) - MaxInflight + 1, Len(all))

(* The response to r arrived: it is no longer tracked.                     *)
Untrack(r) ==
  IF r \in ToSet(inflight)
    THEN RemoveAt(inflight, CHOOSE i \in DOMAIN inflight : inflight[i] = r)
    ELSE inflight

(* Each socket's callbacks first ask whether it is still the current one.  *)
IsCurrent(s) == s = socket

(* The states in which the change listener fails the queue at once; with   *)
(* diagnostics a give-up fails it only after a log-tail fetch.             *)
FailsQueue(m) ==
  \/ m.state = "gaveUp" /\ (~Diagnostics \/ loginFailed')
  \/ m.state = "closed"
  \/ IsReplaced(m)
  \/ m.state = "backoff" /\ IsDegraded(m)

FetchesTail(m) == m.state = "gaveUp" /\ ~FailsQueue(m)

KeepsSocket(m) == m.state \in {"opening", "connected"}

(***************************************************************************)
(* The machine moves to final, through the states in via, and its change   *)
(* listener runs after each: outside opening/connected it drops the socket *)
(* and fails what was sent on it, entering opening it creates a new one,   *)
(* and in the states of FailsQueue it answers the queue.  rd is the ready  *)
(* state of the sockets when the event arrived.                            *)
(***************************************************************************)
Transition(final, via, rd) ==
  LET visited == via \cup {final}
      drop    == \E m \in visited : ~KeepsSocket(m)
      fail    == \E m \in visited : m # conn /\ FailsQueue(m)
      enter   == final.state = "opening" /\ (drop \/ conn.state # "opening")
      lost    == IF drop THEN ToSet(inflight) ELSE {}
      held    == IF fail THEN ToSet(queued) ELSE {}
      left    == IF drop /\ socket # NoSocket /\ rd[socket] # "none"
                   THEN [rd EXCEPT ![socket] = "closing"]
                   ELSE rd
  IN /\ conn' = final
     /\ inflight' = IF drop THEN <<>> ELSE inflight
     /\ queued' = IF fail THEN <<>> ELSE queued
     /\ answers' = Answer(lost \cup held)
     /\ tails' = tails + Cardinality({m \in visited \ {conn} : FetchesTail(m)})
     /\ tails' <= MaxTails
     /\ bodies' = bodies
     /\ \/ /\ enter
           /\ \E s \in Sockets :
                /\ left[s] = "none"
                /\ socket' = s
                /\ ready' = [left EXCEPT ![s] = "connecting"]
        \/ /\ ~enter
           /\ socket' = IF drop THEN NoSocket ELSE socket
           /\ ready' = left

-----------------------------------------------------------------------------
(* Startup: bootstrap() posts the nonce, or opens a socket at once.        *)

Init ==
  /\ queued = <<>>
  /\ inflight = <<>>
  /\ loggedIn = FALSE
  /\ loginFailed = FALSE
  /\ tails = 0 /\ bodies = 0
  /\ issued = 0
  /\ answers = [r \in Requests |-> 0]
  /\ atServer = [s \in Sockets |-> {}]
  /\ IF ShouldLogin
       THEN /\ conn = InitialMachine
            /\ login = "first"
            /\ socket = NoSocket
            /\ ready = [s \in Sockets |-> "none"]
       ELSE /\ conn = LoginOk(InitialMachine)
            /\ login = "off"
            /\ socket \in Sockets
            /\ ready = [s \in Sockets |->
                          IF s = socket THEN "connecting" ELSE "none"]

(* /login answers 200: the cookie is set, the machine may open a socket.   *)
LoginSucceeds ==
  /\ login \in {"first", "second"}
  /\ login' = "off"
  /\ loggedIn' = TRUE
  /\ UNCHANGED <<loginFailed, issued, atServer>>
  /\ Transition(LoginOk(conn), {}, ready)

(* The first attempt found the nonce spent (409): wait, then retry once.   *)
LoginSpent ==
  /\ login = "first"
  /\ login' = "spent"
  /\ UNCHANGED <<conn, socket, ready, queued, inflight, loggedIn,
                 loginFailed, tails, bodies, issued, answers, atServer>>

RetryLogin ==
  /\ login = "spent"
  /\ login' = "second"
  /\ UNCHANGED <<conn, socket, ready, queued, inflight, loggedIn,
                 loginFailed, tails, bodies, issued, answers, atServer>>

(* Rejected, timed out, network error, or spent again on the retry.        *)
LoginFails ==
  /\ login \in {"first", "second"}
  /\ login' = "off"
  /\ loginFailed' = TRUE
  /\ UNCHANGED <<loggedIn, issued, atServer>>
  /\ Transition(LoginFail(conn), {}, ready)

-----------------------------------------------------------------------------
(* The socket's events.                                                    *)

(* onopen: connected, and the queue goes out on this socket in order.      *)
OnOpen(s) ==
  /\ ready[s] = "connecting"
  /\ ready' = [ready EXCEPT ![s] = "open"]
  /\ IF IsCurrent(s)
       THEN /\ conn' = SocketOpen(conn)
            /\ queued' = <<>>
            /\ inflight' = Track(inflight, queued)
            /\ atServer' = [atServer EXCEPT ![s] = @ \cup ToSet(queued)]
       ELSE UNCHANGED <<conn, queued, inflight, atServer>>
  /\ UNCHANGED <<socket, login, loggedIn, loginFailed, tails, bodies, issued,
                 answers>>

(* onmessage with the response to r.  A socket that is not OPEN delivers   *)
(* nothing.                                                                *)
OnMessage(s, r) ==
  /\ ready[s] = "open"
  /\ r \in atServer[s]
  /\ atServer' = [atServer EXCEPT ![s] = @ \ {r}]
  /\ IF IsCurrent(s)
       THEN /\ inflight' = Untrack(r)
            /\ answers' = Answer({r})
       ELSE UNCHANGED <<inflight, answers>>
  /\ UNCHANGED <<conn, socket, ready, queued, login, loggedIn, loginFailed,
                 tails, bodies, issued>>

(* The connection is gone but the page has not heard of it yet.            *)
ConnectionLost(s) ==
  /\ ready[s] \in {"connecting", "open"}
  /\ ready' = [ready EXCEPT ![s] = "closing"]
  /\ UNCHANGED <<conn, socket, queued, inflight, login, loggedIn,
                 loginFailed, tails, bodies, issued, answers, atServer>>

(* onclose, with code 4001 when replaced.  A late event of a socket that   *)
(* is no longer the current one changes nothing.                           *)
OnClose(s, replaced) ==
  /\ ready[s] # "none"
  /\ atServer' = [atServer EXCEPT ![s] = {}]
  /\ UNCHANGED <<login, loggedIn, loginFailed, issued>>
  /\ LET rd == [ready EXCEPT ![s] = "none"] IN
       IF IsCurrent(s)
         THEN Transition(IF replaced THEN SocketReplaced(conn)
                                     ELSE SocketClose(conn), {}, rd)
         ELSE /\ ready' = rd
              /\ UNCHANGED <<conn, socket, queued, inflight, tails, bodies,
                             answers>>

-----------------------------------------------------------------------------
(* The machine's timers, the page's visibility, and the log-tail fetch.    *)

OpenTimesOut ==
  /\ conn.state = "opening"
  /\ UNCHANGED <<login, loggedIn, loginFailed, issued, atServer>>
  /\ Transition(OpenTimeout(conn), {}, ready)

RetryFires ==
  /\ conn.state = "backoff"
  /\ UNCHANGED <<login, loggedIn, loginFailed, issued, atServer>>
  /\ Transition(RetryTimer(conn), {}, ready)

StableFires ==
  /\ conn.state = "connected"
  /\ conn.retries # 0
  /\ UNCHANGED <<login, loggedIn, loginFailed, issued, atServer>>
  /\ Transition(StableTimer(conn), {}, ready)

BootWindowEnds ==
  /\ ~conn.bootOver
  /\ conn' = BootWindowPasses(conn)
  /\ UNCHANGED <<socket, ready, queued, inflight, login, loggedIn,
                 loginFailed, tails, bodies, issued, answers, atServer>>

(* onForeground: a connected socket the browser closed silently is lost;   *)
(* then WAKE, which skips a backoff or starts over after a give-up.        *)
OnForeground ==
  LET stale == /\ conn.state = "connected"
               /\ socket # NoSocket
               /\ ready[socket] # "open"
      again == conn.state = "gaveUp"
      late  == ShouldLogin /\ ~loggedIn
  IN /\ ~closed
     /\ login' = IF again /\ late THEN "first" ELSE login
     /\ loginFailed' = (loginFailed /\ ~(again /\ late))
     /\ UNCHANGED <<loggedIn, issued, atServer>>
     /\ CASE stale          -> Transition(Wake(SocketClose(conn)),
                                          {SocketClose(conn)}, ready)
          [] again /\ ~late -> Transition(LoginOk(Wake(conn)),
                                          {Wake(conn)}, ready)
          [] OTHER          -> Transition(Wake(conn), {}, ready)

(* serverRejectionTail() has its answer, or its failure: the queue as it   *)
(* is then is failed.                                                      *)
FailWithDetail ==
  /\ answers' = Answer(ToSet(queued))
  /\ queued' = <<>>
  /\ UNCHANGED <<conn, socket, ready, inflight, login, loggedIn,
                 loginFailed, issued, atServer>>

(* fetch() fails, its timer is first, or the response is not ok.           *)
TailFails ==
  /\ tails > 0
  /\ tails' = tails - 1
  /\ UNCHANGED bodies
  /\ FailWithDetail

(* fetch() resolves with the headers of a good response: the race with the *)
(* timer is over, and text() waits for the body with no timer of its own.  *)
TailAnswers ==
  /\ tails > 0 /\ bodies < MaxBodies
  /\ tails' = tails - 1
  /\ bodies' = bodies + 1
  /\ UNCHANGED <<conn, socket, ready, queued, inflight, login, loggedIn,
                 loginFailed, issued, answers, atServer>>

(* The body is there, or reading it failed.                                *)
BodyArrives ==
  /\ bodies > 0
  /\ bodies' = bodies - 1
  /\ UNCHANGED tails
  /\ FailWithDetail

-----------------------------------------------------------------------------
(* The page's calls.                                                       *)

CanSend == /\ conn.state = "connected"
           /\ socket # NoSocket
           /\ ready[socket] = "open"

(* The cases in which send() fails fast instead of holding the request.    *)
Refused ==
  \/ closed
  \/ conn.state = "gaveUp"
  \/ IsReplaced(conn)
  \/ conn.state = "backoff" /\ IsDegraded(conn)
  \/ Len(queued) >= MaxQueued

Send ==
  /\ issued < NumRequests
  /\ issued' = issued + 1
  /\ LET r == issued + 1 IN
       CASE CanSend ->
              /\ inflight' = Track(inflight, <<r>>)
              /\ atServer' = [atServer EXCEPT ![socket] = @ \cup {r}]
              /\ UNCHANGED <<queued, answers>>
         [] ~CanSend /\ Refused ->
              /\ answers' = Answer({r})
              /\ UNCHANGED <<queued, inflight, atServer>>
         [] ~CanSend /\ ~Refused ->
              /\ queued' = Append(queued, r)
              /\ UNCHANGED <<inflight, atServer, answers>>
  /\ UNCHANGED <<conn, socket, ready, login, loggedIn, loginFailed, tails,
                 bodies>>

(* close(): the machine stops, and everything held is answered.            *)
Close ==
  /\ ~closed
  /\ UNCHANGED <<login, loggedIn, loginFailed, issued, atServer>>
  /\ Transition(Stop(conn), {}, ready)

-----------------------------------------------------------------------------

SocketEvent(s) ==
  \/ OnOpen(s)
  \/ \E r \in Requests : OnMessage(s, r)
  \/ ConnectionLost(s)
  \/ \E replaced \in BOOLEAN : OnClose(s, replaced)

Next ==
  \/ LoginSucceeds \/ LoginSpent \/ RetryLogin \/ LoginFails
  \/ \E s \in Sockets : SocketEvent(s)
  \/ OpenTimesOut \/ RetryFires \/ StableFires \/ BootWindowEnds
  \/ OnForeground
  \/ TailFails \/ TailAnswers \/ BodyArrives
  \/ Send \/ Close

Spec == Init /\ [][Next]_vars

(***************************************************************************)
(* Fairness.  /login answers or its timer fires; armed timers fire; the    *)
(* fetch() of a log tail is raced with a timer; a socket that is closing   *)
(* either fires its close event or, if a suspended browser swallowed it,   *)
(* the page comes back to the foreground.  Nothing makes a socket open or  *)
(* a server answer, and nothing makes the body of a log tail arrive.       *)
(***************************************************************************)
Closing(s) ==
  /\ ready[s] = "closing"
  /\ \/ \E replaced \in BOOLEAN : OnClose(s, replaced)
     \/ s = socket /\ OnForeground

Fairness ==
  /\ WF_vars(LoginSucceeds \/ LoginFails \/ LoginSpent)
  /\ WF_vars(RetryLogin)
  /\ WF_vars(OpenTimesOut)
  /\ WF_vars(RetryFires)
  /\ WF_vars(BootWindowEnds)
  /\ WF_vars(TailFails \/ TailAnswers)
  /\ \A s \in Sockets : WF_vars(Closing(s))

FairSpec == Spec /\ Fairness

-----------------------------------------------------------------------------
(* Properties.                                                             *)

(* dropSocket, onChange and openSocket together keep the machine and the   *)
(* socket in step: there is a current socket exactly while the machine is  *)
(* opening or connected, it has opened exactly if the machine is           *)
(* connected, and every earlier socket has been told to close.             *)
SocketMatchesMachine ==
  /\ socket # NoSocket <=> KeepsSocket(conn)
  /\ conn.state = "opening" => ready[socket] \in {"connecting", "closing"}
  /\ conn.state = "connected" => ready[socket] \in {"open", "closing"}
  /\ \A s \in Sockets \ {socket} : ready[s] \in {"none", "closing"}

(* Both of them: well typed, with machine and socket in step.              *)
Inv == TypeOK /\ SocketMatchesMachine

(* Requests reach the server in the order callers issued them: nothing     *)
(* sent is younger than anything still queued, across queueing, flushing,  *)
(* direct sends and reconnects.                                            *)
NoOvertaking ==
  /\ \A i, j \in 1 .. Len(queued) : i < j => queued[i] < queued[j]
  /\ \A i, j \in 1 .. Len(inflight) : i < j => inflight[i] < inflight[j]
  /\ \A q \in ToSet(queued), s \in Sockets :
       \A r \in atServer[s] \cup ToSet(inflight) : r < q

(* "Once a socket has opened, a lost connection retries forever": a client *)
(* that has ever connected is never idle or given up again.                *)
NeverGivesUpOnceConnected ==
  conn.everConnected => conn.state \notin {"idle", "gaveUp"}

(* A log tail has arrived, or will not: one failWithServerDetail is over.  *)
DetailEnds == tails' + bodies' < tails + bodies

(* A request the transport agreed to hold is failed only when holding it   *)
(* has become pointless: the transport gave up or was closed, another page *)
(* took the session, or the outage outlived the quick retries.  The one    *)
(* exception is the answer to the log-tail fetch of an earlier give-up.    *)
HeldUntilHopeless ==
  [][ (\E r \in ToSet(queued) : answers'[r] > answers[r])
        => \/ conn'.state \in {"gaveUp", "closed"}
           \/ IsReplaced(conn')
           \/ IsDegraded(conn')
           \/ DetailEnds ]_vars

(* What a comment says of that fetch: the requests it delays the failure   *)
(* of "are already terminally lost".                                       *)
TailFailsTheLost ==
  [][ DetailEnds /\ queued # <<>> => conn.state = "gaveUp" ]_vars

(* An invoke in flight is failed only when the socket it went out on is    *)
(* lost or the transport is closed: a late event of an earlier socket      *)
(* never costs the requests of its successor.                              *)
FailsWithItsSocket ==
  [][ \A r \in ToSet(inflight) :
        answers'[r] > answers[r]
          => \/ r \in atServer[socket] /\ r \notin atServer'[socket]
             \/ ready[socket] # "open"
             \/ closed' ]_vars

(* A held request is eventually sent or failed, whatever the sockets and   *)
(* /login do.  Only one thing can hold it for ever: a give-up whose log    *)
(* tail answered with headers and then sends no body, which no timer ends. *)
QueueDrains ==
  \A r \in Requests :
    <>[](r \in ToSet(queued)) => []<>(conn.state = "gaveUp" /\ bodies > 0)

(* What the comment on LOG_TAIL_TIMEOUT_MS promises: the transport gives   *)
(* up on enriching the error after a while, so that a give-up fails what   *)
(* it holds.                                                               *)
GiveUpFailsTheHeld ==
  \A r \in Requests :
    (conn.state = "gaveUp" /\ r \in ToSet(queued)) ~> (r \notin ToSet(queued))

(* The transport implements RequestLedger: every invoke is answered at     *)
(* most once, one that was sent is forgotten only when MaxInflight younger *)
(* ones are on the wire, one that is queued never, and closing answers     *)
(* everything.                                                             *)
Held == ToSet(queued) \cup ToSet(inflight)

LedgerStatus ==
  [r \in Requests |->
     IF r > issued THEN "new"
     ELSE CASE r \in Held /\ answers[r] = 0     -> "open"
            [] r \notin Held /\ answers[r] = 1  -> "answered"
            [] r \notin Held /\ answers[r] = 0  -> "forgotten"
            [] OTHER                            -> "overanswered"]

Ledger == INSTANCE RequestLedger
            WITH Capacity <- MaxInflight,
                 status <- LedgerStatus, shut <- closed

ImplementsLedger == Ledger!Spec
=============================================================================
