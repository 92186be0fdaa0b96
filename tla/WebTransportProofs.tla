------------------------- MODULE WebTransportProofs -------------------------
(***************************************************************************)
(* The transport of WebTransport, for any number of requests, sockets,     *)
(* retries and bounds: machine and socket stay in step, a client that has  *)
(* connected never gives up, requests never overtake each other, and each  *)
(* is answered at most once, so that the transport implements the request  *)
(* ledger.                                                                 *)
(***************************************************************************)
EXTENDS WebTransport, FiniteSetTheorems, TLAPS

-----------------------------------------------------------------------------
(* Sequences of requests.                                                  *)

Sorted(s) == \A i, j \in 1 .. Len(s) : i < j => s[i] < s[j]

LEMMA ToSetFacts ==
  ASSUME NEW S, NEW s \in Seq(S), NEW t \in Seq(S), NEW x \in S
  PROVE  /\ ToSet(s) \subseteq S
         /\ ToSet(s) = {} <=> s = <<>>
         /\ ToSet(Append(s, x)) = ToSet(s) \cup {x}
         /\ ToSet(s \o t) = ToSet(s) \cup ToSet(t)
<1>. USE DEF ToSet
<1>0. /\ DOMAIN s = 1 .. Len(s) /\ DOMAIN t = 1 .. Len(t)
      /\ Len(s) \in Nat /\ Len(t) \in Nat
  OBVIOUS
<1>1. ToSet(s) \subseteq S /\ (ToSet(s) = {} <=> s = <<>>)
  <2>1. ToSet(s) \subseteq S
    OBVIOUS
  <2>2. s # <<>> => 1 \in DOMAIN s
    OBVIOUS
  <2>3. s = <<>> => DOMAIN s = {}
    OBVIOUS
  <2>. QED  BY <2>1, <2>2, <2>3
<1>2. ToSet(Append(s, x)) = ToSet(s) \cup {x}
  <2>1. DOMAIN Append(s, x) = DOMAIN s \cup {Len(s) + 1}
    OBVIOUS
  <2>2. \A i \in DOMAIN s : Append(s, x)[i] = s[i]
    OBVIOUS
  <2>. QED  BY <2>1, <2>2
<1>3. ToSet(s \o t) = ToSet(s) \cup ToSet(t)
  <2>. DEFINE u == s \o t
  <2>1. /\ DOMAIN u = 1 .. Len(s) + Len(t)
        /\ \A i \in 1 .. Len(s) : u[i] = s[i]
        /\ \A i \in 1 .. Len(t) : u[Len(s) + i] = t[i]
    OBVIOUS
  <2>2. ToSet(u) \subseteq ToSet(s) \cup ToSet(t)
    <3>. SUFFICES ASSUME NEW i \in DOMAIN u  PROVE u[i] \in ToSet(s) \cup ToSet(t)
      OBVIOUS
    <3>1. CASE i <= Len(s)
      BY <2>1, <3>1
    <3>2. CASE i > Len(s)
      <4>1. i - Len(s) \in 1 .. Len(t) /\ i = Len(s) + (i - Len(s))
        BY <2>1, <3>2
      <4>2. u[i] = t[i - Len(s)]
        BY <2>1, <4>1
      <4>. QED  BY <4>1, <4>2
    <3>. QED  BY <2>1, <3>1, <3>2
  <2>3. ToSet(s) \cup ToSet(t) \subseteq ToSet(u)
    <3>1. \A i \in 1 .. Len(s) : i \in DOMAIN u /\ u[i] = s[i]
      BY <2>1
    <3>2. \A i \in 1 .. Len(t) : Len(s) + i \in DOMAIN u /\ u[Len(s) + i] = t[i]
      BY <2>1
    <3>3. ToSet(s) \subseteq ToSet(u)
      BY <1>0, <3>1
    <3>4. ToSet(t) \subseteq ToSet(u)
      BY <1>0, <3>2
    <3>. QED  BY <3>3, <3>4
  <2>. QED  BY <2>2, <2>3
<1>. QED  BY <1>1, <1>2, <1>3

LEMMA ToSetConcat ==
  ASSUME NEW s \in Seq(Requests), NEW t \in Seq(Requests)
  PROVE  ToSet(s \o t) = ToSet(s) \cup ToSet(t)
<1>1. CASE Requests = {}
  BY <1>1 DEF ToSet
<1>2. ASSUME NEW x \in Requests  PROVE ToSet(s \o t) = ToSet(s) \cup ToSet(t)
  BY ToSetFacts
<1>. QED  BY <1>1, <1>2

LEMMA ToSetInRequests ==
  ASSUME NEW s \in Seq(Requests), NEW x \in ToSet(s)
  PROVE  x \in Requests /\ \E i \in 1 .. Len(s) : s[i] = x
BY DEF ToSet

(* Appending younger requests, and dropping the oldest, keeps the order.   *)
LEMMA ConcatSorted ==
  ASSUME NEW s \in Seq(Requests), NEW t \in Seq(Requests),
         Sorted(s), Sorted(t),
         \A x \in ToSet(s), y \in ToSet(t) : x < y
  PROVE  Sorted(s \o t)
<1>. DEFINE u == s \o t
<1>1. /\ Len(u) = Len(s) + Len(t)
      /\ \A i \in 1 .. Len(s) : u[i] = s[i]
      /\ \A i \in 1 .. Len(u) : i > Len(s) => u[i] = t[i - Len(s)]
  OBVIOUS
<1>. SUFFICES ASSUME NEW i \in 1 .. Len(u), NEW j \in 1 .. Len(u), i < j
              PROVE  u[i] < u[j]
  BY DEF Sorted
<1>2. CASE j <= Len(s)
  BY <1>1, <1>2 DEF Sorted
<1>3. CASE i <= Len(s) /\ j > Len(s)
  <2>1. s[i] \in ToSet(s) /\ t[j - Len(s)] \in ToSet(t)
    BY <1>1, <1>3 DEF ToSet
  <2>. QED  BY <1>1, <1>3, <2>1
<1>4. CASE i > Len(s)
  <2>1. /\ i - Len(s) \in 1 .. Len(t) /\ j - Len(s) \in 1 .. Len(t)
        /\ i - Len(s) < j - Len(s)
    BY <1>1, <1>4
  <2>2. t[i - Len(s)] < t[j - Len(s)]
    BY <2>1 DEF Sorted
  <2>. QED  BY <1>1, <1>4, <2>2
<1>. QED  BY <1>2, <1>3, <1>4

LEMMA SuffixFacts ==
  ASSUME NEW s \in Seq(Requests), NEW n \in 0 .. Len(s)
  PROVE  /\ SubSeq(s, n + 1, Len(s)) \in Seq(Requests)
         /\ Len(SubSeq(s, n + 1, Len(s))) = Len(s) - n
         /\ ToSet(SubSeq(s, n + 1, Len(s))) \subseteq ToSet(s)
         /\ Sorted(s) => Sorted(SubSeq(s, n + 1, Len(s)))
<1>. DEFINE u == SubSeq(s, n + 1, Len(s))
<1>1. /\ u \in Seq(Requests) /\ Len(u) = Len(s) - n
      /\ \A i \in 1 .. Len(u) : u[i] = s[n + i]
  OBVIOUS
<1>2. ToSet(u) \subseteq ToSet(s)
  <2>1. \A i \in DOMAIN u : n + i \in DOMAIN s /\ u[i] = s[n + i]
    BY <1>1
  <2>. QED  BY <2>1 DEF ToSet
<1>3. Sorted(s) => Sorted(u)
  BY <1>1 DEF Sorted
<1>. QED  BY <1>1, <1>2, <1>3

LEMMA TrackFacts ==
  ASSUME NEW s \in Seq(Requests), NEW q \in Seq(Requests)
  PROVE  /\ Track(s, q) \in Seq(Requests)
         /\ Len(Track(s, q)) <= MaxInflight
         /\ ToSet(Track(s, q)) \subseteq ToSet(s) \cup ToSet(q)
         /\ Sorted(s \o q) => Sorted(Track(s, q))
         /\ Len(s) + Len(q) <= MaxInflight => Track(s, q) = s \o q
<1>. DEFINE all == s \o q
            n   == Len(all) - MaxInflight
<1>1. all \in Seq(Requests) /\ MaxInflight \in Nat
       /\ Len(all) = Len(s) + Len(q)
  BY TransportAssumption
<1>2. ToSet(all) = ToSet(s) \cup ToSet(q)
  BY ToSetConcat
<1>3. CASE Len(all) <= MaxInflight
  <2>1. Track(s, q) = all
    BY <1>3 DEF Track
  <2>. QED  BY <1>1, <1>2, <1>3, <2>1
<1>4. CASE ~(Len(all) <= MaxInflight)
  <2>1. n \in 0 .. Len(all) /\ Len(all) - n = MaxInflight
    BY <1>1, <1>4
  <2>2. Track(s, q) = SubSeq(all, n + 1, Len(all))
    BY <1>4 DEF Track
  <2>. HIDE DEF n
  <2>3. /\ Track(s, q) \in Seq(Requests)
        /\ Len(Track(s, q)) = Len(all) - n
        /\ ToSet(Track(s, q)) \subseteq ToSet(all)
        /\ Sorted(all) => Sorted(Track(s, q))
    BY <1>1, <2>1, <2>2, SuffixFacts
  <2>. QED  BY <1>1, <1>2, <1>4, <2>1, <2>3
<1>. QED  BY <1>3, <1>4

(* Removing one element of a sequence without repetitions.                 *)
LEMMA UntrackFacts ==
  ASSUME inflight \in Seq(Requests), Sorted(inflight), NEW r \in Requests
  PROVE  /\ Untrack(r) \in Seq(Requests)
         /\ Len(Untrack(r)) <= Len(inflight)
         /\ ToSet(Untrack(r)) = ToSet(inflight) \ {r}
         /\ Sorted(Untrack(r))
<1>1. CASE r \notin ToSet(inflight)
  BY <1>1 DEF Untrack
<1>2. CASE r \in ToSet(inflight)
  <2>. DEFINE k == CHOOSE i \in DOMAIN inflight : inflight[i] = r
              u == Untrack(r)
  <2>1. k \in 1 .. Len(inflight) /\ inflight[k] = r
    BY <1>2 DEF ToSet
  <2>2. u = SubSeq(inflight, 1, k - 1) \o SubSeq(inflight, k + 1, Len(inflight))
    BY <1>2 DEF Untrack, RemoveAt
  <2>. HIDE DEF k, u
  <2>3. /\ u \in Seq(Requests) /\ Len(u) = Len(inflight) - 1
        /\ \A i \in 1 .. Len(u) :
             u[i] = IF i < k THEN inflight[i] ELSE inflight[i + 1]
    <3>. DEFINE a == SubSeq(inflight, 1, k - 1)
                b == SubSeq(inflight, k + 1, Len(inflight))
    <3>1. /\ a \in Seq(Requests) /\ Len(a) = k - 1
          /\ \A i \in 1 .. k - 1 : a[i] = inflight[i]
      BY <2>1
    <3>2. /\ b \in Seq(Requests) /\ Len(b) = Len(inflight) - k
          /\ \A i \in 1 .. Len(inflight) - k : b[i] = inflight[k + i]
      BY <2>1
    <3>. HIDE DEF a, b
    <3>3. u = a \o b
      BY <2>2 DEF a, b
    <3>4. /\ u \in Seq(Requests) /\ Len(u) = Len(a) + Len(b)
          /\ \A i \in 1 .. Len(a) : u[i] = a[i]
          /\ \A i \in 1 .. Len(u) : i > Len(a) => u[i] = b[i - Len(a)]
      <4>1. a \in Seq(Requests) /\ b \in Seq(Requests)
        BY <3>1, <3>2
      <4>. QED  BY <3>3, <4>1
    <3>5. ASSUME NEW i \in 1 .. Len(u)
          PROVE  u[i] = IF i < k THEN inflight[i] ELSE inflight[i + 1]
      <4>1. CASE i < k
        BY <2>1, <3>1, <3>4, <4>1
      <4>2. CASE ~(i < k)
        <5>1. /\ i > Len(a) /\ i - Len(a) \in 1 .. Len(inflight) - k
              /\ k + (i - Len(a)) = i + 1
          <6>1. /\ Len(inflight) \in Nat /\ k \in 1 .. Len(inflight)
                /\ Len(a) = k - 1 /\ Len(b) = Len(inflight) - k
                /\ Len(u) = Len(a) + Len(b)
            BY <2>1, <3>1, <3>2, <3>4
          <6>. QED  BY <4>2, <6>1
        <5>2. u[i] = b[i - Len(a)]
          BY <3>4, <5>1
        <5>. QED  BY <3>2, <4>2, <5>1, <5>2
      <4>. QED  BY <4>1, <4>2
    <3>. QED  BY <2>1, <3>1, <3>2, <3>4, <3>5
  <2>4. Sorted(u)
    BY <2>1, <2>3 DEF Sorted
  <2>5. ToSet(u) \subseteq ToSet(inflight) \ {r}
    <3>. SUFFICES ASSUME NEW i \in 1 .. Len(u)
                  PROVE  u[i] \in ToSet(inflight) \ {r}
      BY <2>3 DEF ToSet
    <3>1. CASE i < k
      <4>1. i \in 1 .. Len(inflight) /\ u[i] = inflight[i] /\ i < k
        BY <2>1, <2>3, <3>1
      <4>2. inflight[i] < inflight[k]
        BY <2>1, <4>1 DEF Sorted
      <4>3. inflight[i] \in ToSet(inflight)
        BY <4>1 DEF ToSet
      <4>. QED  BY <2>1, <4>1, <4>2, <4>3 DEF Requests
    <3>2. CASE i >= k
      <4>1. i + 1 \in 1 .. Len(inflight) /\ k < i + 1
             /\ u[i] = inflight[i + 1]
        BY <2>1, <2>3, <3>2
      <4>2. inflight[k] < inflight[i + 1]
        BY <2>1, <4>1 DEF Sorted
      <4>3. inflight[i + 1] \in ToSet(inflight)
        BY <4>1 DEF ToSet
      <4>. QED  BY <2>1, <4>1, <4>2, <4>3 DEF Requests
    <3>. QED  BY <2>1, <2>3, <3>1, <3>2
  <2>6. ToSet(inflight) \ {r} \subseteq ToSet(u)
    <3>. SUFFICES ASSUME NEW i \in 1 .. Len(inflight), inflight[i] # r
                  PROVE  inflight[i] \in ToSet(u)
      BY DEF ToSet
    <3>1. CASE i < k
      <4>1. i \in 1 .. Len(u) /\ u[i] = inflight[i]
        BY <2>1, <2>3, <3>1
      <4>. QED  BY <2>3, <4>1 DEF ToSet
    <3>2. CASE i > k
      <4>1. i - 1 \in 1 .. Len(u) /\ u[i - 1] = inflight[i]
        BY <2>1, <2>3, <3>2
      <4>. QED  BY <2>3, <4>1 DEF ToSet
    <3>. QED  BY <2>1, <3>1, <3>2
  <2>7. Len(u) <= Len(inflight)
    BY <2>3
  <2>. QED  BY <2>3, <2>4, <2>5, <2>6, <2>7 DEF u
<1>. QED  BY <1>1, <1>2

-----------------------------------------------------------------------------
(* The inductive invariant.                                                *)

(* Nothing is known of requests nobody issued yet.                         *)
OnlyIssued ==
  /\ \A r \in Held : r <= issued
  /\ \A s \in Sockets : \A r \in atServer[s] : r <= issued
  /\ \A r \in Requests : r > issued => answers[r] = 0

(* A connection that is open has nothing queued, so what is sent on it is  *)
(* younger than all that went before.                                      *)
OpenIsFlushed ==
  conn.state = "connected" /\ ready[socket] = "open" => queued = <<>>

(* What is in flight went out on the current socket, and a socket that has *)
(* not opened has carried nothing.                                         *)
InflightIsCurrent ==
  /\ inflight # <<>> => conn.state = "connected"
  /\ ToSet(inflight) \subseteq IF socket = NoSocket THEN {} ELSE atServer[socket]
  /\ \A s \in Sockets :
       ready[s] \in {"none", "connecting"} => atServer[s] = {}

ClosedHoldsNothing == closed => queued = <<>> /\ inflight = <<>>

(* A request is answered at most once, and not while it is held or may     *)
(* still be answered by the current socket.                                *)
AnsweredLast ==
  /\ \A r \in Requests : answers[r] \in {0, 1}
  /\ \A r \in Held : answers[r] = 0
  /\ socket # NoSocket => \A r \in atServer[socket] : answers[r] = 0

TransportInv ==
  /\ TypeOK
  /\ SocketMatchesMachine
  /\ NeverGivesUpOnceConnected
  /\ NoOvertaking
  /\ OnlyIssued
  /\ OpenIsFlushed
  /\ InflightIsCurrent
  /\ ClosedHoldsNothing
  /\ AnsweredLast

-----------------------------------------------------------------------------
(* A transition of the machine.  The socket is dropped and the queue       *)
(* failed in any of the states the machine passes.                         *)

Drops(final, via) == \E m \in via \cup {final} : ~KeepsSocket(m)

Fails(final, via) == \E m \in via \cup {final} : m # conn /\ FailsQueue(m)

Enters(final, via) ==
  final.state = "opening" /\ (Drops(final, via) \/ conn.state # "opening")

Left(final, via, rd) ==
  IF Drops(final, via) /\ socket # NoSocket /\ rd[socket] # "none"
    THEN [rd EXCEPT ![socket] = "closing"] ELSE rd

LEMMA TransitionShape ==
  ASSUME NEW final, NEW via, NEW rd, Transition(final, via, rd)
  PROVE  /\ conn' = final
         /\ inflight' = IF Drops(final, via) THEN <<>> ELSE inflight
         /\ queued' = IF Fails(final, via) THEN <<>> ELSE queued
         /\ answers' = Answer((IF Drops(final, via) THEN ToSet(inflight) ELSE {})
                                \cup (IF Fails(final, via) THEN ToSet(queued) ELSE {}))
         /\ tails' = tails + Cardinality({m \in (via \cup {final}) \ {conn} :
                                            FetchesTail(m)})
         /\ tails' <= MaxTails /\ bodies' = bodies
         /\ \/ /\ Enters(final, via)
               /\ \E s \in Sockets :
                    /\ Left(final, via, rd)[s] = "none"
                    /\ socket' = s
                    /\ ready' = [Left(final, via, rd) EXCEPT ![s] = "connecting"]
            \/ /\ ~Enters(final, via)
               /\ socket' = IF Drops(final, via) THEN NoSocket ELSE socket
               /\ ready' = Left(final, via, rd)
BY DEF Transition, Drops, Fails, Enters, Left

(* The sockets as a transition finds them: as they were, or the current    *)
(* one has just closed for good.                                           *)
FindsSockets(rd, final) ==
  \/ rd = ready /\ atServer' = atServer
  \/ /\ socket # NoSocket /\ ~KeepsSocket(final)
     /\ rd = [ready EXCEPT ![socket] = "none"]
     /\ atServer' = [atServer EXCEPT ![socket] = {}]

(* What the machine's own rules say of every transition the transport      *)
(* makes: it connects only by opening, and leaves a connection or an       *)
(* attempt only through a state that drops its socket.                     *)
GoodTransition(final, via, rd) ==
  /\ final \in Machine
  /\ via = {} \/ \E m : via = {m}
  /\ FindsSockets(rd, final)
  /\ final.everConnected => final.state \notin {"idle", "gaveUp"}
  /\ final.state = "connected" => conn.state = "connected" /\ via = {}
  /\ final.state = "opening" /\ conn.state = "connected" => Drops(final, via)
  /\ final.state = "opening" /\ conn.state = "opening" => via = {}

Moved(final, via, rd) ==
  /\ GoodTransition(final, via, rd)
  /\ Transition(final, via, rd)
  /\ issued' = issued /\ login' \in LoginStates
  /\ loggedIn' \in BOOLEAN /\ loginFailed' \in BOOLEAN

LEMMA SocketsFound ==
  ASSUME TypeOK, NEW final, NEW rd, FindsSockets(rd, final)
  PROVE  /\ rd \in [Sockets -> ReadyStates]
         /\ atServer' \in [Sockets -> SUBSET Requests]
         /\ \A s \in Sockets :
              /\ rd[s] \in {ready[s], "none"}
              /\ atServer'[s] \in {atServer[s], {}}
              /\ rd[s] = "none" => ready[s] = "none" \/ atServer'[s] = {}
BY DEF FindsSockets, TypeOK, ReadyStates

LEMMA MovedTypeOK ==
  ASSUME TypeOK, NEW final, NEW via, NEW rd, Moved(final, via, rd)
  PROVE  TypeOK'
<1>0. GoodTransition(final, via, rd) /\ Transition(final, via, rd)
  BY DEF Moved
<1>1. rd \in [Sockets -> ReadyStates]
       /\ atServer' \in [Sockets -> SUBSET Requests]
  BY <1>0, SocketsFound DEF GoodTransition
<1>2. Left(final, via, rd) \in [Sockets -> ReadyStates]
  BY <1>1 DEF Left, ReadyStates
<1>3. ready' \in [Sockets -> ReadyStates] /\ socket' \in Sockets \cup {NoSocket}
  <2>1. CASE Enters(final, via)
    <3>1. PICK s \in Sockets :
            socket' = s /\ ready' = [Left(final, via, rd) EXCEPT ![s] = "connecting"]
      BY <1>0, <2>1, TransitionShape
    <3>. QED  BY <1>2, <3>1 DEF ReadyStates
  <2>2. CASE ~Enters(final, via)
    BY <1>0, <1>2, <2>2, TransitionShape DEF TypeOK
  <2>. QED  BY <2>1, <2>2
<1>4. conn' \in Machine
  BY <1>0, TransitionShape DEF GoodTransition
<1>5. /\ queued' \in Seq(Requests) /\ Len(queued') <= MaxQueued
      /\ inflight' \in Seq(Requests) /\ Len(inflight') <= MaxInflight
  <2>1. queued' \in {queued, <<>>} /\ inflight' \in {inflight, <<>>}
    BY <1>0, TransitionShape
  <2>2. <<>> \in Seq(Requests) /\ Len(<<>>) = 0
    OBVIOUS
  <2>3. MaxQueued \in Nat /\ MaxInflight \in Nat
    BY TransportAssumption
  <2>4. /\ queued \in Seq(Requests) /\ Len(queued) <= MaxQueued
        /\ inflight \in Seq(Requests) /\ Len(inflight) <= MaxInflight
    BY DEF TypeOK
  <2>5. 0 <= MaxQueued /\ 0 <= MaxInflight
    BY <2>3
  <2>6. queued' \in Seq(Requests) /\ Len(queued') <= MaxQueued
    <3>1. CASE queued' = queued
      BY <2>4, <3>1
    <3>2. CASE queued' = <<>>
      BY <2>2, <2>5, <3>2
    <3>. QED  BY <2>1, <3>1, <3>2
  <2>7. inflight' \in Seq(Requests) /\ Len(inflight') <= MaxInflight
    <3>1. CASE inflight' = inflight
      BY <2>4, <3>1
    <3>2. CASE inflight' = <<>>
      BY <2>2, <2>5, <3>2
    <3>. QED  BY <2>1, <3>1, <3>2
  <2>. QED  BY <2>6, <2>7
<1>6. answers' \in [Requests -> Nat]
  <2>1. PICK S : answers' = Answer(S)
    BY <1>0, TransitionShape
  <2>2. answers \in [Requests -> Nat]
    BY DEF TypeOK
  <2>3. answers' = [q \in Requests |-> answers[q] + (IF q \in S THEN 1 ELSE 0)]
    BY <2>1 DEF Answer
  <2>4. ASSUME NEW q \in Requests
        PROVE  answers[q] + (IF q \in S THEN 1 ELSE 0) \in Nat
    <3>1. CASE q \in S
      BY <2>2, <3>1
    <3>2. CASE q \notin S
      BY <2>2, <3>2
    <3>. QED  BY <3>1, <3>2
  <2>. QED  BY <2>3, <2>4
<1>7. tails' \in 0 .. MaxTails
  <2>. DEFINE F == {m \in (via \cup {final}) \ {conn} : FetchesTail(m)}
  <2>1. IsFiniteSet(via \cup {final})
    <3>1. IsFiniteSet(via)
      BY <1>0, FS_EmptySet, FS_Singleton DEF GoodTransition
    <3>. QED  BY <3>1, FS_AddElement
  <2>2. Cardinality(F) \in Nat
    BY <2>1, FS_Subset, FS_CardinalityType
  <2>3. tails' = tails + Cardinality(F) /\ tails' <= MaxTails
    BY <1>0, TransitionShape
  <2>. QED  BY <2>2, <2>3, TransportAssumption DEF TypeOK
<1>8. issued' \in 0 .. NumRequests /\ bodies' \in 0 .. MaxBodies
  BY <1>0, TransitionShape DEF Moved, TypeOK
<1>. QED
  BY <1>1, <1>3, <1>4, <1>5, <1>6, <1>7, <1>8 DEF Moved, TypeOK

(* Whatever the transition, the sockets that are not current are gone or   *)
(* going, and the current one is the machine's.                            *)
LEMMA MovedSockets ==
  ASSUME TransportInv, NEW final, NEW via, NEW rd, Moved(final, via, rd)
  PROVE  SocketMatchesMachine'
<1>. USE DEF TransportInv, TypeOK, Moved
<1>0. /\ NoSocket \notin Sockets
      /\ conn' = final /\ final \in Machine
      /\ Drops(final, via) \/ (KeepsSocket(final) /\ \A m \in via : KeepsSocket(m))
  BY TransportAssumption, TransitionShape DEF Drops, GoodTransition
<1>1. /\ rd \in [Sockets -> ReadyStates]
      /\ \A s \in Sockets : rd[s] \in {ready[s], "none"}
  BY SocketsFound DEF GoodTransition
<1>2. \A s \in Sockets :
        Left(final, via, rd)[s] \in IF s = socket /\ ~Drops(final, via)
                                      THEN {rd[s]} ELSE {"none", "closing"}
  <2>. TAKE s \in Sockets
  <2>1. s # socket => rd[s] \in {"none", "closing"}
    BY <1>1 DEF SocketMatchesMachine
  <2>2. CASE s # socket
    BY <1>1, <2>1, <2>2 DEF Left
  <2>3. CASE s = socket
    BY <1>0, <1>1, <2>3 DEF Left, ReadyStates
  <2>. QED  BY <2>2, <2>3
<1>3. Left(final, via, rd) \in [Sockets -> ReadyStates]
  BY <1>1 DEF Left, ReadyStates
<1>4. CASE Enters(final, via)
  <2>1. PICK s \in Sockets : /\ Left(final, via, rd)[s] = "none"
                             /\ socket' = s
                             /\ ready' = [Left(final, via, rd) EXCEPT ![s] = "connecting"]
    BY <1>4, TransitionShape
  <2>2. final.state = "opening" /\ ready'[s] = "connecting" /\ s # NoSocket
    BY <1>0, <1>3, <1>4, <2>1 DEF Enters
  <2>3. \A t \in Sockets \ {s} : ready'[t] \in {"none", "closing"}
    <3>. SUFFICES ASSUME NEW t \in Sockets \ {s}
                  PROVE  Left(final, via, rd)[t] \in {"none", "closing"}
      BY <1>3, <2>1
    <3>1. CASE Drops(final, via)
      BY <1>2, <3>1
    <3>2. CASE ~Drops(final, via)
      <4>1. conn.state \notin {"opening", "connected"}
        BY <1>4, <2>2, <3>2 DEF Enters, GoodTransition
      <4>2. socket = NoSocket
        BY <4>1 DEF SocketMatchesMachine, KeepsSocket
      <4>. QED  BY <1>0, <1>2, <4>2
    <3>. QED  BY <3>1, <3>2
  <2>. QED
    BY <1>0, <2>1, <2>2, <2>3 DEF SocketMatchesMachine, KeepsSocket
<1>5. CASE ~Enters(final, via) /\ Drops(final, via)
  <2>1. socket' = NoSocket /\ ready' = Left(final, via, rd)
    BY <1>5, TransitionShape
  <2>2. ~KeepsSocket(final)
    <3>1. final.state # "opening"
      BY <1>5 DEF Enters
    <3>2. final.state = "connected" => via = {} /\ KeepsSocket(final)
      BY DEF GoodTransition, KeepsSocket
    <3>. QED  BY <1>5, <3>1, <3>2 DEF Drops, KeepsSocket
  <2>3. \A t \in Sockets : ready'[t] \in {"none", "closing"}
    BY <1>2, <1>5, <2>1
  <2>. QED  BY <1>0, <2>1, <2>2, <2>3 DEF SocketMatchesMachine, KeepsSocket
<1>6. CASE ~Enters(final, via) /\ ~Drops(final, via)
  <2>1. socket' = socket /\ ready' = rd
    BY <1>6, TransitionShape DEF Left
  <2>2. KeepsSocket(final) /\ final.state = conn.state
    BY <1>0, <1>6 DEF Enters, KeepsSocket, GoodTransition
  <2>3. rd = ready
    BY <2>2 DEF GoodTransition, FindsSockets
  <2>. QED
    BY <1>0, <2>1, <2>2, <2>3 DEF SocketMatchesMachine, KeepsSocket
<1>. QED  BY <1>4, <1>5, <1>6

(* The machine's give-up rule is NeverGivesUpOnceConnected itself.         *)
LEMMA MovedNeverGivesUp ==
  ASSUME NEW final, NEW via, NEW rd, Moved(final, via, rd)
  PROVE  NeverGivesUpOnceConnected'
BY TransitionShape DEF Moved, GoodTransition, NeverGivesUpOnceConnected

(* What is held is kept or answered, never reordered, and what a socket    *)
(* carried is forgotten only when it closes for good.                      *)
LEMMA MovedHolds ==
  ASSUME TransportInv, NEW final, NEW via, NEW rd, Moved(final, via, rd)
  PROVE  /\ conn' = final
         /\ queued' \in {queued, <<>>} /\ inflight' \in {inflight, <<>>}
         /\ ToSet(queued') \subseteq ToSet(queued)
         /\ ToSet(inflight') \subseteq ToSet(inflight)
         /\ \A s \in Sockets : atServer'[s] \in {atServer[s], {}}
<1>1. GoodTransition(final, via, rd) /\ Transition(final, via, rd) /\ TypeOK
  BY DEF Moved, TransportInv
<1>2. /\ conn' = final
      /\ queued' \in {queued, <<>>} /\ inflight' \in {inflight, <<>>}
  BY <1>1, TransitionShape
<1>3. ToSet(<<>>) = {}
  BY DEF ToSet
<1>4. ToSet(queued') \subseteq ToSet(queued)
  BY <1>2, <1>3 DEF ToSet
<1>5. ToSet(inflight') \subseteq ToSet(inflight)
  BY <1>2, <1>3 DEF ToSet
<1>6. \A s \in Sockets : atServer'[s] \in {atServer[s], {}}
  BY <1>1, SocketsFound DEF GoodTransition
<1>. QED  BY <1>2, <1>4, <1>5, <1>6

LEMMA MovedOrder ==
  ASSUME TransportInv, NEW final, NEW via, NEW rd, Moved(final, via, rd)
  PROVE  NoOvertaking'
<1>1. \A i, j \in 1 .. Len(queued') : i < j => queued'[i] < queued'[j]
  BY MovedHolds DEF TransportInv, NoOvertaking
<1>2. \A i, j \in 1 .. Len(inflight') : i < j => inflight'[i] < inflight'[j]
  BY MovedHolds DEF TransportInv, NoOvertaking
<1>3. \A q \in ToSet(queued'), s \in Sockets :
        \A r \in atServer'[s] \cup ToSet(inflight') : r < q
  BY MovedHolds DEF TransportInv, NoOvertaking
<1>. QED  BY <1>1, <1>2, <1>3 DEF NoOvertaking

LEMMA MovedOpenIsFlushed ==
  ASSUME TransportInv, NEW final, NEW via, NEW rd, Moved(final, via, rd)
  PROVE  OpenIsFlushed'
<1>1. SUFFICES ASSUME final.state = "connected", ready'[socket'] = "open"
               PROVE  queued' = <<>>
  BY TransitionShape DEF OpenIsFlushed, Moved
<1>2. conn.state = "connected" /\ via = {} /\ rd = ready
  BY <1>1 DEF Moved, GoodTransition, FindsSockets, KeepsSocket
<1>3. ~Drops(final, via) /\ ~Enters(final, via)
  BY <1>1, <1>2 DEF Drops, Enters, KeepsSocket
<1>4. socket' = socket /\ ready' = ready
  BY <1>2, <1>3, TransitionShape DEF Moved, Left
<1>. QED  BY <1>1, <1>2, <1>4, MovedHolds DEF TransportInv, OpenIsFlushed

(* A connection that stays keeps what it carries; one that goes leaves     *)
(* nothing in flight; a new socket has carried nothing.                    *)
LEMMA MovedInflight ==
  ASSUME TransportInv, NEW final, NEW via, NEW rd, Moved(final, via, rd)
  PROVE  InflightIsCurrent'
<1>0. /\ GoodTransition(final, via, rd) /\ Transition(final, via, rd)
      /\ TypeOK
  BY DEF Moved, TransportInv
<1>1. ASSUME inflight' # <<>>
      PROVE  /\ final.state = "connected" /\ inflight' = inflight
             /\ socket' = socket /\ socket # NoSocket
             /\ atServer' = atServer
  <2>1. ~Drops(final, via) /\ inflight' = inflight
    BY <1>0, <1>1, TransitionShape
  <2>2. conn.state = "connected"
    BY <1>1, <2>1 DEF TransportInv, InflightIsCurrent
  <2>3. final.state = "connected"
    BY <1>0, <2>1, <2>2 DEF Drops, KeepsSocket, GoodTransition
  <2>4. ~Enters(final, via)
    BY <2>3 DEF Enters
  <2>5. socket' = socket /\ socket # NoSocket
    BY <1>0, <2>1, <2>2, <2>4, TransitionShape
       DEF TransportInv, SocketMatchesMachine, KeepsSocket
  <2>6. atServer' = atServer
    BY <1>0, <2>3 DEF GoodTransition, FindsSockets, KeepsSocket
  <2>. QED  BY <2>1, <2>3, <2>5, <2>6
<1>2. ToSet(inflight') \subseteq IF socket' = NoSocket THEN {}
                                                      ELSE atServer'[socket']
  <2>1. CASE inflight' = <<>>
    BY <2>1 DEF ToSet
  <2>2. CASE inflight' # <<>>
    BY <1>1, <2>2 DEF TransportInv, InflightIsCurrent
  <2>. QED  BY <2>1, <2>2
<1>3. ASSUME NEW s \in Sockets, ready'[s] \in {"none", "connecting"}
      PROVE  atServer'[s] = {}
  <2>1. /\ rd \in [Sockets -> ReadyStates]
        /\ atServer'[s] \in {atServer[s], {}}
        /\ rd[s] \in {ready[s], "none"}
        /\ rd[s] = "none" => ready[s] = "none" \/ atServer'[s] = {}
    BY <1>0, SocketsFound DEF GoodTransition
  <2>2. rd[s] \in {"none", "connecting"} => atServer'[s] = {}
    BY <2>1 DEF TransportInv, InflightIsCurrent
  <2>3. Left(final, via, rd)[s] \in {"none", "connecting"} => atServer'[s] = {}
    <3>1. Left(final, via, rd)[s] \in {rd[s], "closing"}
      BY <2>1 DEF Left
    <3>. QED  BY <2>2, <3>1
  <2>4. Left(final, via, rd) \in [Sockets -> ReadyStates]
    BY <2>1 DEF Left, ReadyStates
  <2>5. CASE ~Enters(final, via)
    BY <1>0, <1>3, <2>3, <2>5, TransitionShape
  <2>6. CASE Enters(final, via)
    <3>1. PICK x \in Sockets :
            /\ Left(final, via, rd)[x] = "none"
            /\ ready' = [Left(final, via, rd) EXCEPT ![x] = "connecting"]
      BY <1>0, <2>6, TransitionShape
    <3>2. s = x \/ ready'[s] = Left(final, via, rd)[s]
      BY <2>4, <3>1
    <3>. QED  BY <1>3, <2>3, <3>1, <3>2
  <2>. QED  BY <2>5, <2>6
<1>4. inflight' # <<>> => conn'.state = "connected"
  BY <1>0, <1>1, TransitionShape
<1>. QED  BY <1>2, <1>3, <1>4 DEF InflightIsCurrent

(* A transition issues nothing, and answers only what it held.             *)
LEMMA MovedAnswers ==
  ASSUME TransportInv, NEW final, NEW via, NEW rd, Moved(final, via, rd)
  PROVE  \A q \in Requests :
           \/ /\ answers'[q] = answers[q]
              /\ q \in Held' <=> q \in Held
           \/ /\ answers'[q] = answers[q] + 1
              /\ q \in Held
              /\ q \in ToSet(inflight) => Drops(final, via)
              /\ q \in ToSet(queued) => Fails(final, via)
              /\ q \notin Held'
<1>. DEFINE lost == IF Drops(final, via) THEN ToSet(inflight) ELSE {}
            held == IF Fails(final, via) THEN ToSet(queued) ELSE {}
<1>1. GoodTransition(final, via, rd) /\ Transition(final, via, rd) /\ TypeOK
  BY DEF Moved, TransportInv
<1>2. answers' = Answer(lost \cup held)
  BY <1>1, TransitionShape
<1>3. ToSet(<<>>) = {}
  BY DEF ToSet
<1>4. ToSet(queued') = IF Fails(final, via) THEN {} ELSE ToSet(queued)
  BY <1>1, <1>3, TransitionShape DEF ToSet
<1>5. ToSet(inflight') = IF Drops(final, via) THEN {} ELSE ToSet(inflight)
  BY <1>1, <1>3, TransitionShape DEF ToSet
<1>6. Held' = ToSet(queued') \cup ToSet(inflight')
  BY DEF Held
<1>7. ToSet(queued) \cap ToSet(inflight) = {}
  <2>. SUFFICES ASSUME NEW q \in ToSet(queued), q \in ToSet(inflight)
                PROVE  FALSE
    OBVIOUS
  <2>1. PICK s \in Sockets : TRUE
    BY <1>1 DEF TransportInv, InflightIsCurrent, TypeOK
  <2>2. q < q /\ q \in Requests
    BY <1>1, <2>1, ToSetInRequests DEF TransportInv, NoOvertaking, TypeOK
  <2>. QED  BY <2>2 DEF Requests
<1>. TAKE q \in Requests
<1>8. answers[q] \in Nat
  BY <1>1 DEF TypeOK
<1>9. answers'[q] = answers[q] + (IF q \in lost \cup held THEN 1 ELSE 0)
  BY <1>2 DEF Answer
<1>. HIDE DEF lost, held
<1>10. CASE q \in lost \cup held
  <2>1. answers'[q] = answers[q] + 1
    BY <1>9, <1>10
  <2>2. q \in Held /\ (q \in ToSet(inflight) => Drops(final, via))
         /\ (q \in ToSet(queued) => Fails(final, via)) /\ q \notin Held'
    BY <1>4, <1>5, <1>6, <1>7, <1>10 DEF Held, lost, held
  <2>. QED  BY <2>1, <2>2
<1>11. CASE q \notin lost \cup held
  <2>1. answers'[q] = answers[q]
    BY <1>8, <1>9, <1>11
  <2>2. q \in Held' <=> q \in Held
    BY <1>4, <1>5, <1>6, <1>11 DEF Held, lost, held
  <2>. QED  BY <2>1, <2>2
<1>. QED  BY <1>10, <1>11

LEMMA MovedOnlyIssued ==
  ASSUME TransportInv, NEW final, NEW via, NEW rd, Moved(final, via, rd)
  PROVE  OnlyIssued'
<1>1. issued' = issued
  BY DEF Moved
<1>2. \A r \in Held' : r <= issued'
  BY <1>1, MovedHolds DEF Held, TransportInv, OnlyIssued
<1>3. \A s \in Sockets : \A r \in atServer'[s] : r <= issued'
  BY <1>1, MovedHolds DEF TransportInv, OnlyIssued
<1>4. ASSUME NEW r \in Requests, r > issued'
      PROVE  answers'[r] = 0
  <2>1. answers[r] = 0 /\ r \notin Held
    BY <1>1, <1>4 DEF TransportInv, OnlyIssued, TypeOK, Requests
  <2>. QED  BY <2>1, MovedAnswers
<1>. QED  BY <1>2, <1>3, <1>4 DEF OnlyIssued

LEMMA MovedClosed ==
  ASSUME TransportInv, NEW final, NEW via, NEW rd, Moved(final, via, rd)
  PROVE  ClosedHoldsNothing'
<1>. SUFFICES ASSUME final.state = "closed"
              PROVE  queued' = <<>> /\ inflight' = <<>>
  BY MovedHolds DEF ClosedHoldsNothing, closed
<1>1. CASE final = conn
  BY <1>1, MovedHolds DEF TransportInv, ClosedHoldsNothing, closed
<1>2. CASE final # conn
  <2>1. Fails(final, via) /\ Drops(final, via)
    BY <1>2 DEF Fails, Drops, FailsQueue, KeepsSocket
  <2>. QED  BY <2>1, TransitionShape DEF Moved
<1>. QED  BY <1>1, <1>2

LEMMA MovedAnsweredLast ==
  ASSUME TransportInv, NEW final, NEW via, NEW rd, Moved(final, via, rd)
  PROVE  AnsweredLast'
<1>1. GoodTransition(final, via, rd) /\ Transition(final, via, rd) /\ TypeOK
  BY DEF Moved, TransportInv
<1>2. \A r \in Requests : answers'[r] \in {0, 1}
  <2>1. \A r \in Requests : answers[r] \in {0, 1} /\ (r \in Held => answers[r] = 0)
    BY DEF TransportInv, AnsweredLast
  <2>. QED  BY <2>1, MovedAnswers
<1>3. \A r \in Held' : answers'[r] = 0
  <2>1. \A r \in Held' : r \in Requests
    <3>1. /\ ToSet(queued') \subseteq ToSet(queued)
          /\ ToSet(inflight') \subseteq ToSet(inflight)
      BY MovedHolds
    <3>2. queued \in Seq(Requests) /\ inflight \in Seq(Requests)
      BY <1>1 DEF TypeOK
    <3>. QED  BY <3>1, <3>2, ToSetInRequests DEF Held
  <2>. QED  BY <2>1, MovedAnswers DEF TransportInv, AnsweredLast
<1>4. ASSUME socket' # NoSocket, NEW r \in atServer'[socket']
      PROVE  answers'[r] = 0
  <2>1. CASE Enters(final, via)
    <3>1. PICK x \in Sockets : /\ socket' = x
                               /\ ready' = [Left(final, via, rd) EXCEPT ![x] = "connecting"]
      BY <1>1, <2>1, TransitionShape
    <3>2. Left(final, via, rd) \in [Sockets -> ReadyStates]
      BY <1>1, SocketsFound DEF Left, ReadyStates, GoodTransition
    <3>3. ready'[x] = "connecting"
      BY <3>1, <3>2
    <3>. QED  BY <1>4, <3>1, <3>3, MovedInflight DEF InflightIsCurrent
  <2>2. CASE ~Enters(final, via)
    <3>1. socket' = socket /\ ~Drops(final, via) /\ socket \in Sockets
      BY <1>1, <1>4, <2>2, TransitionShape DEF TypeOK
    <3>2. r \in atServer[socket] /\ r \in Requests
      BY <1>1, <1>4, <3>1, MovedHolds DEF TypeOK
    <3>3. r \notin ToSet(queued)
      BY <3>1, <3>2 DEF TransportInv, NoOvertaking, Requests
    <3>4. answers[r] = 0
      BY <1>4, <3>1, <3>2 DEF TransportInv, AnsweredLast
    <3>. QED  BY <3>1, <3>2, <3>3, <3>4, MovedAnswers DEF Held
  <2>. QED  BY <2>1, <2>2
<1>. QED  BY <1>2, <1>3, <1>4 DEF AnsweredLast

(* Why a transition may cost requests: a state it passes fails the queue   *)
(* only in an outage that goes on, and a connection is dropped because its *)
(* socket is gone, stale, or closed with the transport.                    *)
Excused(final, via) ==
  /\ closed => final.state = "closed"
  /\ \A m \in via : FailsQueue(m) => IsDegraded(final)
  /\ conn.state = "connected" /\ Drops(final, via)
       => \/ /\ socket # NoSocket
             /\ atServer' = [atServer EXCEPT ![socket] = {}]
          \/ ready[socket] # "open"
          \/ final.state = "closed"

Moves == \E final, via, rd : Moved(final, via, rd) /\ Excused(final, via)

(* Every transition of the machine keeps the invariant.                    *)
LEMMA MovesKeep ==
  ASSUME TransportInv, Moves
  PROVE  TransportInv'
<1>1. PICK final, via, rd : Moved(final, via, rd)
  BY DEF Moves
<1>2. TypeOK' /\ SocketMatchesMachine' /\ NeverGivesUpOnceConnected'
  BY <1>1, MovedTypeOK, MovedSockets, MovedNeverGivesUp DEF TransportInv
<1>3. NoOvertaking' /\ OnlyIssued' /\ OpenIsFlushed'
  BY <1>1, MovedOrder, MovedOnlyIssued, MovedOpenIsFlushed
<1>4. InflightIsCurrent' /\ ClosedHoldsNothing' /\ AnsweredLast'
  BY <1>1, MovedInflight, MovedClosed, MovedAnsweredLast
<1>. QED  BY <1>2, <1>3, <1>4 DEF TransportInv

-----------------------------------------------------------------------------
(* The machine's operators.                                                *)

(* Whatever the event, the machine stays a machine and never gives up once *)
(* it has connected, and the two events of a socket end its attempt.       *)
Honest(m) == m.everConnected => m.state \notin {"idle", "gaveUp"}

LEMMA MachineFacts ==
  ASSUME NEW m \in Machine, Honest(m)
  PROVE  /\ \A n \in {LoginOk(m), LoginFail(m), SocketOpen(m), SocketClose(m),
                      SocketReplaced(m), OpenTimeout(m), RetryTimer(m),
                      StableTimer(m), Wake(m), Stop(m), BootWindowPasses(m)} :
              n \in Machine /\ Honest(n)
         /\ m.state \in {"opening", "connected"} =>
              /\ SocketClose(m).state \in {"backoff", "gaveUp"}
              /\ SocketReplaced(m).state \in {"backoff", "gaveUp"}
<1>. USE MaxRetriesAssumption DEF Machine, States, Honest
<1>0. m.retries \in 0 .. MaxRetries + 1 /\ Bump(m.retries) \in 0 .. MaxRetries + 1
  BY DEF Bump
<1>1. RetryLater(m) \in Machine /\ RetryLater(m).state = "backoff"
  BY <1>0 DEF RetryLater
<1>2. /\ OpenFailed(m) \in Machine /\ Honest(OpenFailed(m))
      /\ OpenFailed(m).state \in {"backoff", "gaveUp"}
  BY <1>1 DEF OpenFailed, OutOfAttempts
<1>3. LoginOk(m) \in Machine /\ Honest(LoginOk(m))
  BY DEF LoginOk
<1>4. LoginFail(m) \in Machine /\ Honest(LoginFail(m))
  BY DEF LoginFail
<1>5. SocketOpen(m) \in Machine /\ Honest(SocketOpen(m))
  BY DEF SocketOpen
<1>6. SocketClose(m) \in Machine /\ Honest(SocketClose(m))
  BY <1>1, <1>2 DEF SocketClose
<1>7. SocketReplaced(m) \in Machine /\ Honest(SocketReplaced(m))
  <2>1. 0 \in 0 .. MaxRetries + 1
    OBVIOUS
  <2>2. CASE m.state = "opening"
    BY <1>2, <2>2 DEF SocketReplaced
  <2>3. CASE m.state = "connected"
    BY <2>1, <2>3 DEF SocketReplaced
  <2>4. CASE m.state \notin {"opening", "connected"}
    BY <2>4 DEF SocketReplaced
  <2>. QED  BY <2>2, <2>3, <2>4
<1>8. OpenTimeout(m) \in Machine /\ Honest(OpenTimeout(m))
  BY <1>2 DEF OpenTimeout
<1>9. RetryTimer(m) \in Machine /\ Honest(RetryTimer(m))
  BY DEF RetryTimer
<1>10. StableTimer(m) \in Machine /\ Honest(StableTimer(m))
  BY DEF StableTimer
<1>11. Wake(m) \in Machine /\ Honest(Wake(m))
  <2>1. 0 \in 0 .. MaxRetries + 1
    OBVIOUS
  <2>2. CASE m.state = "backoff"
    BY <2>2 DEF Wake
  <2>3. CASE m.state = "gaveUp"
    BY <2>1, <2>3 DEF Wake
  <2>4. CASE m.state \notin {"backoff", "gaveUp"}
    BY <2>4 DEF Wake
  <2>. QED  BY <2>2, <2>3, <2>4
<1>12. Stop(m) \in Machine /\ Honest(Stop(m))
  BY DEF Stop
<1>13. BootWindowPasses(m) \in Machine /\ Honest(BootWindowPasses(m))
  BY DEF BootWindowPasses
<1>14. m.state \in {"opening", "connected"} =>
          /\ SocketClose(m).state \in {"backoff", "gaveUp"}
          /\ SocketReplaced(m).state \in {"backoff", "gaveUp"}
  BY <1>1, <1>2 DEF SocketClose, SocketReplaced
<1>. QED
  BY <1>3, <1>4, <1>5, <1>6, <1>7, <1>8, <1>9, <1>10, <1>11, <1>12, <1>13, <1>14

(* Nothing but an opened socket connects, a connection is left only        *)
(* through a state that keeps no socket, and closed is final.              *)
Leaves(m, n) == /\ n.state = "connected" => m.state = "connected"
                /\ n.state = "opening" => m.state # "connected"
                /\ m.state = "closed" => n.state = "closed"

LEMMA MachineLeaves ==
  ASSUME NEW m \in Machine
  PROVE  /\ \A n \in {LoginOk(m), LoginFail(m), SocketClose(m), SocketReplaced(m),
                      OpenTimeout(m), RetryTimer(m), StableTimer(m), Wake(m),
                      Stop(m)} : Leaves(m, n)
         /\ m.state = "connected" =>
              \A n \in {LoginOk(m), LoginFail(m), OpenTimeout(m), RetryTimer(m),
                        StableTimer(m), Wake(m)} : n.state = "connected"
<1>. USE DEF Machine, Leaves
<1>1. OpenFailed(m).state \in {"backoff", "gaveUp"}
  BY DEF OpenFailed, RetryLater
<1>2. RetryLater(m).state = "backoff"
  BY DEF RetryLater
<1>3. Leaves(m, LoginOk(m)) /\ Leaves(m, LoginFail(m))
  BY DEF LoginOk, LoginFail
<1>4. Leaves(m, SocketClose(m))
  BY <1>1, <1>2 DEF SocketClose
<1>5. Leaves(m, SocketReplaced(m))
  BY <1>1 DEF SocketReplaced
<1>6. Leaves(m, OpenTimeout(m))
  BY <1>1 DEF OpenTimeout
<1>7. Leaves(m, RetryTimer(m))
  BY DEF RetryTimer
<1>8. Leaves(m, StableTimer(m))
  BY DEF StableTimer
<1>9. Leaves(m, Wake(m))
  BY DEF Wake
<1>10. Leaves(m, Stop(m))
  BY DEF Stop
<1>11. ASSUME m.state = "connected"
       PROVE  /\ LoginOk(m).state = "connected"
              /\ LoginFail(m).state = "connected"
              /\ OpenTimeout(m).state = "connected"
              /\ RetryTimer(m).state = "connected"
              /\ StableTimer(m).state = "connected"
              /\ Wake(m).state = "connected"
  BY <1>11 DEF LoginOk, LoginFail, OpenTimeout, RetryTimer, StableTimer, Wake
<1>. HIDE DEF Leaves
<1>. QED
  BY <1>3, <1>4, <1>5, <1>6, <1>7, <1>8, <1>9, <1>10, <1>11

(* What an event makes of the machine, when its handler is a transition    *)
(* with no state passed on the way.                                        *)
LEMMA PlainMove ==
  ASSUME TransportInv, NEW rd, NEW n,
         n \in {LoginOk(conn), LoginFail(conn), SocketClose(conn),
                SocketReplaced(conn), OpenTimeout(conn), RetryTimer(conn),
                StableTimer(conn), Wake(conn), Stop(conn)},
         FindsSockets(rd, n)
  PROVE  GoodTransition(n, {}, rd)
<1>1. conn \in Machine /\ Honest(conn)
  BY DEF TransportInv, TypeOK, NeverGivesUpOnceConnected, Honest
<1>2. n \in Machine /\ Honest(n)
  BY <1>1, MachineFacts
<1>3. Leaves(conn, n)
  BY <1>1, MachineLeaves
<1>. QED  BY <1>2, <1>3 DEF GoodTransition, Honest, Leaves

(* No event but the socket's own and close() ends a connection.            *)
LEMMA MoveExcused ==
  ASSUME TransportInv, NEW n,
         n \in {LoginOk(conn), LoginFail(conn), OpenTimeout(conn),
                RetryTimer(conn), StableTimer(conn), Wake(conn), Stop(conn)}
  PROVE  Excused(n, {})
<1>1. conn \in Machine
  BY DEF TransportInv, TypeOK
<1>2. closed => n.state = "closed"
  BY <1>1, MachineLeaves DEF closed, Leaves
<1>3. Stop(conn).state = "closed"
  BY <1>1 DEF Stop, Machine
<1>4. conn.state = "connected" /\ Drops(n, {}) => n = Stop(conn)
  BY <1>1, MachineLeaves DEF Drops, KeepsSocket
<1>. QED  BY <1>2, <1>3, <1>4 DEF Excused

-----------------------------------------------------------------------------
(* The actions that move the machine.                                      *)

LEMMA LoginSucceedsMoves ==
  ASSUME TransportInv, LoginSucceeds  PROVE Moves
<1>1. GoodTransition(LoginOk(conn), {}, ready)
  BY PlainMove DEF LoginSucceeds, FindsSockets
<1>2. Moved(LoginOk(conn), {}, ready)
  BY <1>1 DEF Moved, LoginSucceeds, TransportInv, TypeOK, LoginStates
<1>3. Excused(LoginOk(conn), {})
  BY MoveExcused DEF LoginSucceeds
<1>. QED  BY <1>2, <1>3 DEF Moves

LEMMA LoginFailsMoves ==
  ASSUME TransportInv, LoginFails  PROVE Moves
<1>1. GoodTransition(LoginFail(conn), {}, ready)
  BY PlainMove DEF LoginFails, FindsSockets
<1>2. Moved(LoginFail(conn), {}, ready)
  BY <1>1 DEF Moved, LoginFails, TransportInv, TypeOK, LoginStates
<1>3. Excused(LoginFail(conn), {})
  BY MoveExcused DEF LoginFails
<1>. QED  BY <1>2, <1>3 DEF Moves

LEMMA TimersMove ==
  ASSUME TransportInv, OpenTimesOut \/ RetryFires \/ StableFires
  PROVE  Moves
<1>1. /\ atServer' = atServer /\ issued' = issued /\ login' \in LoginStates
      /\ loggedIn' \in BOOLEAN /\ loginFailed' \in BOOLEAN
  BY DEF OpenTimesOut, RetryFires, StableFires, TransportInv, TypeOK
<1>2. PICK n \in {OpenTimeout(conn), RetryTimer(conn), StableTimer(conn)} :
        Transition(n, {}, ready)
  BY DEF OpenTimesOut, RetryFires, StableFires
<1>3. GoodTransition(n, {}, ready)
  BY <1>1, PlainMove DEF FindsSockets
<1>4. Moved(n, {}, ready)
  BY <1>1, <1>2, <1>3 DEF Moved
<1>5. Excused(n, {})
  BY MoveExcused
<1>. QED  BY <1>4, <1>5 DEF Moves

LEMMA CloseMoves ==
  ASSUME TransportInv, Close  PROVE Moves
<1>1. GoodTransition(Stop(conn), {}, ready)
  BY PlainMove DEF Close, FindsSockets
<1>2. Moved(Stop(conn), {}, ready)
  BY <1>1 DEF Moved, Close, TransportInv, TypeOK
<1>3. Excused(Stop(conn), {})
  BY MoveExcused
<1>. QED  BY <1>2, <1>3 DEF Moves

(* The event of the current socket is a transition, and finds it gone.     *)
LEMMA OnCloseMoves ==
  ASSUME TransportInv, NEW replaced \in BOOLEAN, socket \in Sockets,
         OnClose(socket, replaced)
  PROVE  Moves
<1>. DEFINE n  == IF replaced THEN SocketReplaced(conn) ELSE SocketClose(conn)
            rd == [ready EXCEPT ![socket] = "none"]
<1>1. /\ Transition(n, {}, rd)
      /\ atServer' = [atServer EXCEPT ![socket] = {}] /\ issued' = issued
      /\ login' \in LoginStates
      /\ loggedIn' \in BOOLEAN /\ loginFailed' \in BOOLEAN
  BY DEF OnClose, IsCurrent, TransportInv, TypeOK
<1>2. n \in {SocketClose(conn), SocketReplaced(conn)}
  OBVIOUS
<1>3. socket # NoSocket
  BY TransportAssumption
<1>4. ~KeepsSocket(n)
  <2>1. conn.state \in {"opening", "connected"}
    BY <1>3 DEF TransportInv, SocketMatchesMachine, KeepsSocket
  <2>2. conn \in Machine /\ Honest(conn)
    BY DEF TransportInv, TypeOK, NeverGivesUpOnceConnected, Honest
  <2>3. n.state \in {"backoff", "gaveUp"}
    BY <2>1, <2>2, MachineFacts
  <2>. QED  BY <2>3 DEF KeepsSocket
<1>5. FindsSockets(rd, n)
  BY <1>1, <1>3, <1>4 DEF FindsSockets
<1>6. GoodTransition(n, {}, rd)
  BY <1>2, <1>5, PlainMove
<1>7. Excused(n, {})
  <2>1. closed => n.state = "closed"
    BY <1>3 DEF closed, TransportInv, SocketMatchesMachine, KeepsSocket
  <2>. QED  BY <1>1, <1>3, <2>1 DEF Excused
<1>8. Moved(n, {}, rd)
  BY <1>1, <1>6 DEF Moved
<1>. QED  BY <1>7, <1>8 DEF Moves

(* The event of any other socket changes nothing but that socket.          *)
LEMMA OnLateCloseKeeps ==
  ASSUME TransportInv, NEW s \in Sockets, s # socket,
         NEW replaced \in BOOLEAN, OnClose(s, replaced)
  PROVE  TransportInv'
<1>1. /\ atServer' = [atServer EXCEPT ![s] = {}]
      /\ ready' = [ready EXCEPT ![s] = "none"]
      /\ UNCHANGED <<conn, socket, queued, inflight, tails, bodies, answers, login,
                     loggedIn, loginFailed, issued>>
  BY DEF OnClose, IsCurrent
<1>2. TypeOK'
  BY <1>1 DEF TransportInv, TypeOK, ReadyStates
<1>3. \A t \in Sockets : /\ atServer'[t] = IF t = s THEN {} ELSE atServer[t]
                         /\ ready'[t] = IF t = s THEN "none" ELSE ready[t]
  BY <1>1 DEF TransportInv, TypeOK
<1>4. SocketMatchesMachine'
  <2>1. socket \in Sockets => ready'[socket] = ready[socket]
    BY <1>3
  <2>2. conn.state \in {"opening", "connected"} => socket \in Sockets
    BY DEF TransportInv, SocketMatchesMachine, KeepsSocket, TypeOK
  <2>. QED
    BY <1>1, <1>3, <2>1, <2>2
       DEF TransportInv, SocketMatchesMachine, KeepsSocket
<1>5. NeverGivesUpOnceConnected' /\ OnlyIssued' /\ ClosedHoldsNothing'
  BY <1>1, <1>3
     DEF TransportInv, NeverGivesUpOnceConnected, OnlyIssued, Held,
         ClosedHoldsNothing, closed
<1>6. NoOvertaking'
  BY <1>1, <1>3 DEF TransportInv, NoOvertaking
<1>7. OpenIsFlushed'
  BY <1>1, <1>2, <1>3
     DEF TransportInv, OpenIsFlushed, TypeOK, SocketMatchesMachine, KeepsSocket
<1>8. InflightIsCurrent' /\ AnsweredLast'
  BY <1>1, <1>3
     DEF TransportInv, TypeOK, InflightIsCurrent, AnsweredLast, Held
<1>. QED
  BY <1>2, <1>4, <1>5, <1>6, <1>7, <1>8 DEF TransportInv

(* Back in the foreground: a stale connection goes through a backoff that  *)
(* drops it, and a restart through idle, before the next attempt.          *)
LEMMA OnForegroundMoves ==
  ASSUME TransportInv, OnForeground  PROVE Moves
<1>. DEFINE stale == /\ conn.state = "connected"
                     /\ socket # NoSocket
                     /\ ready[socket] # "open"
            again == conn.state = "gaveUp"
            late  == ShouldLogin /\ ~loggedIn
<1>0. conn \in Machine /\ Honest(conn)
  BY DEF TransportInv, TypeOK, NeverGivesUpOnceConnected, Honest
<1>1. /\ atServer' = atServer /\ issued' = issued /\ login' \in LoginStates
      /\ loggedIn' \in BOOLEAN /\ loginFailed' \in BOOLEAN
  BY DEF OnForeground, TransportInv, TypeOK, LoginStates
<1>2. FindsSockets(ready, conn')
  BY <1>1 DEF FindsSockets
<1>3. CASE stale
  <2>. DEFINE m == SocketClose(conn)
  <2>1. Transition(Wake(m), {m}, ready)
    BY <1>3 DEF OnForeground
  <2>2. m \in Machine /\ Honest(m) /\ m.state = "backoff"
    BY <1>0, <1>3, MachineFacts DEF SocketClose, RetryLater, Machine
  <2>3. Wake(m) \in Machine /\ Honest(Wake(m)) /\ Wake(m).state = "opening"
    BY <2>2, MachineFacts DEF Wake, Machine
  <2>4. Drops(Wake(m), {m})
    BY <2>2 DEF Drops, KeepsSocket
  <2>5. GoodTransition(Wake(m), {m}, ready)
    BY <1>1, <1>3, <2>2, <2>3, <2>4 DEF GoodTransition, FindsSockets, Honest
  <2>6. Moved(Wake(m), {m}, ready)
    BY <1>1, <2>1, <2>5 DEF Moved
  <2>7. FailsQueue(m) => IsDegraded(Wake(m))
    <3>1. ~IsReplaced(m)
      BY <1>0, <1>3 DEF IsReplaced, SocketClose, RetryLater, Machine
    <3>2. FailsQueue(m) => IsDegraded(m)
      BY <2>2, <3>1 DEF FailsQueue
    <3>. QED  BY <2>2, <3>2 DEF IsDegraded, Wake, Machine
  <2>8. Excused(Wake(m), {m})
    BY <1>3, <2>7 DEF Excused, closed
  <2>. QED  BY <2>6, <2>8 DEF Moves
<1>4. CASE ~stale /\ again /\ ~late
  <2>. DEFINE m == Wake(conn)
  <2>1. Transition(LoginOk(m), {m}, ready)
    BY <1>4 DEF OnForeground
  <2>2. m \in Machine /\ Honest(m) /\ m.state = "idle"
    BY <1>0, <1>4, MachineFacts DEF Wake, Machine
  <2>3. LoginOk(m) \in Machine /\ Honest(LoginOk(m)) /\ LoginOk(m).state = "opening"
    BY <2>2, MachineFacts DEF LoginOk, Machine
  <2>4. Drops(LoginOk(m), {m})
    BY <2>2 DEF Drops, KeepsSocket
  <2>5. GoodTransition(LoginOk(m), {m}, ready)
    BY <1>1, <1>4, <2>2, <2>3, <2>4 DEF GoodTransition, FindsSockets, Honest
  <2>6. Moved(LoginOk(m), {m}, ready)
    BY <1>1, <2>1, <2>5 DEF Moved
  <2>7. ~FailsQueue(m)
    BY <2>2 DEF FailsQueue, IsReplaced
  <2>8. Excused(LoginOk(m), {m})
    BY <1>4, <2>7 DEF Excused, closed
  <2>. QED  BY <2>6, <2>8 DEF Moves
<1>5. CASE ~stale /\ ~(again /\ ~late)
  <2>1. Transition(Wake(conn), {}, ready)
    BY <1>5 DEF OnForeground
  <2>2. GoodTransition(Wake(conn), {}, ready)
    BY <1>1, PlainMove DEF FindsSockets
  <2>3. Moved(Wake(conn), {}, ready)
    BY <1>1, <2>1, <2>2 DEF Moved
  <2>4. Excused(Wake(conn), {})
    BY MoveExcused
  <2>. QED  BY <2>3, <2>4 DEF Moves
<1>. QED  BY <1>3, <1>4, <1>5

-----------------------------------------------------------------------------
(* The other actions.                                                      *)

LEMMA StutterKeeps ==
  ASSUME TransportInv,
         UNCHANGED <<conn, socket, ready, queued, inflight, issued, answers,
                     atServer>>,
         tails' \in 0 .. MaxTails, bodies' \in 0 .. MaxBodies,
         login' \in LoginStates, loggedIn' \in BOOLEAN, loginFailed' \in BOOLEAN
  PROVE  TransportInv'
<1>1. TypeOK' /\ SocketMatchesMachine' /\ NeverGivesUpOnceConnected'
  BY DEF TransportInv, TypeOK, SocketMatchesMachine, NeverGivesUpOnceConnected
<1>2. NoOvertaking' /\ OnlyIssued' /\ OpenIsFlushed'
  BY DEF TransportInv, NoOvertaking, OnlyIssued, OpenIsFlushed, Held
<1>3. InflightIsCurrent' /\ ClosedHoldsNothing' /\ AnsweredLast'
  BY DEF TransportInv, InflightIsCurrent, ClosedHoldsNothing, AnsweredLast,
         Held, closed
<1>. QED  BY <1>1, <1>2, <1>3 DEF TransportInv

LEMMA BootWindowEndsKeeps ==
  ASSUME TransportInv, BootWindowEnds  PROVE TransportInv'
<1>1. conn \in Machine /\ Honest(conn)
  BY DEF TransportInv, TypeOK, NeverGivesUpOnceConnected, Honest
<1>2. /\ conn' \in Machine /\ Honest(conn') /\ conn'.state = conn.state
  BY <1>1, MachineFacts DEF BootWindowEnds, BootWindowPasses, Machine
<1>3. UNCHANGED <<socket, ready, queued, inflight, issued, answers, atServer,
                  tails, bodies, login, loggedIn, loginFailed>>
  BY DEF BootWindowEnds
<1>4. TypeOK' /\ SocketMatchesMachine' /\ NeverGivesUpOnceConnected'
  BY <1>2, <1>3
     DEF TransportInv, TypeOK, SocketMatchesMachine, KeepsSocket,
         NeverGivesUpOnceConnected, Honest
<1>5. NoOvertaking' /\ OnlyIssued' /\ OpenIsFlushed'
  BY <1>2, <1>3 DEF TransportInv, NoOvertaking, OnlyIssued, OpenIsFlushed, Held
<1>6. InflightIsCurrent' /\ ClosedHoldsNothing' /\ AnsweredLast'
  BY <1>2, <1>3
     DEF TransportInv, InflightIsCurrent, ClosedHoldsNothing, AnsweredLast,
         Held, closed
<1>. QED  BY <1>4, <1>5, <1>6 DEF TransportInv

LEMMA ConnectionLostKeeps ==
  ASSUME TransportInv, NEW s \in Sockets, ConnectionLost(s)
  PROVE  TransportInv'
<1>1. /\ ready' = [ready EXCEPT ![s] = "closing"]
      /\ UNCHANGED <<conn, socket, queued, inflight, login, loggedIn,
                     loginFailed, tails, bodies, issued, answers, atServer>>
  BY DEF ConnectionLost
<1>2. \A t \in Sockets : ready'[t] = IF t = s THEN "closing" ELSE ready[t]
  BY <1>1 DEF TransportInv, TypeOK
<1>3. TypeOK'
  BY <1>1 DEF TransportInv, TypeOK, ReadyStates
<1>4. conn.state \in {"opening", "connected"} => socket \in Sockets
  BY DEF TransportInv, SocketMatchesMachine, KeepsSocket, TypeOK
<1>5. SocketMatchesMachine'
  BY <1>1, <1>2, <1>4 DEF TransportInv, SocketMatchesMachine, KeepsSocket
<1>6. NeverGivesUpOnceConnected' /\ NoOvertaking' /\ OnlyIssued'
  BY <1>1 DEF TransportInv, NeverGivesUpOnceConnected, NoOvertaking, OnlyIssued, Held
<1>7. OpenIsFlushed'
  BY <1>1, <1>2, <1>4 DEF TransportInv, OpenIsFlushed
<1>8. InflightIsCurrent'
  BY <1>1, <1>2 DEF TransportInv, InflightIsCurrent
<1>9. ClosedHoldsNothing' /\ AnsweredLast'
  BY <1>1 DEF TransportInv, ClosedHoldsNothing, AnsweredLast, Held, closed
<1>. QED  BY <1>3, <1>5, <1>6, <1>7, <1>8, <1>9 DEF TransportInv

(* The tail's answer fails the whole queue, none of which was answered.    *)
LEMMA DetailKeeps ==
  ASSUME TransportInv, FailWithDetail,
         tails' \in 0 .. MaxTails, bodies' \in 0 .. MaxBodies
  PROVE  TransportInv'
<1>1. /\ answers' = Answer(ToSet(queued)) /\ queued' = <<>>
      /\ UNCHANGED <<conn, socket, ready, inflight, login, loggedIn,
                     loginFailed, issued, atServer>>
  BY DEF FailWithDetail
<1>2. /\ ToSet(queued') = {} /\ TypeOK
      /\ Len(queued') = 0 /\ queued' \in Seq(Requests)
  BY <1>1 DEF ToSet, TransportInv
<1>3. \A r \in Requests :
        /\ answers[r] \in {0, 1}
        /\ r \in ToSet(queued) => answers[r] = 0
        /\ answers'[r] = answers[r] + (IF r \in ToSet(queued) THEN 1 ELSE 0)
  BY <1>1 DEF TransportInv, AnsweredLast, Held, Answer
<1>4. \A r \in Requests :
        /\ answers'[r] \in {0, 1}
        /\ r \notin ToSet(queued) => answers'[r] = answers[r]
  BY <1>3
<1>5. TypeOK'
  <2>1. answers' \in [Requests -> Nat]
    BY <1>1, <1>4 DEF Answer
  <2>2. Len(queued') <= MaxQueued
    BY <1>2, TransportAssumption
  <2>. QED  BY <1>1, <1>2, <2>1, <2>2 DEF TypeOK
<1>6. SocketMatchesMachine' /\ NeverGivesUpOnceConnected'
  BY <1>1 DEF TransportInv, SocketMatchesMachine, NeverGivesUpOnceConnected
<1>7. NoOvertaking'
  BY <1>1, <1>2 DEF TransportInv, NoOvertaking
<1>8. Held' \subseteq Held /\ \A r \in Held' : r \in ToSet(inflight)
  BY <1>1, <1>2 DEF Held
<1>9. ToSet(queued) \cap (ToSet(inflight) \cup
                          (IF socket = NoSocket THEN {} ELSE atServer[socket])) = {}
  <2>. SUFFICES ASSUME NEW r \in ToSet(queued),
                       r \in ToSet(inflight) \/ (socket # NoSocket /\ r \in atServer[socket])
                PROVE  FALSE
    OBVIOUS
  <2>1. socket \in Sockets /\ r \in Requests
    BY <1>2, ToSetInRequests DEF TransportInv, InflightIsCurrent, TypeOK
  <2>. QED  BY <2>1 DEF TransportInv, NoOvertaking, Requests
<1>10. OnlyIssued'
  <2>1. \A r \in Requests : r > issued => r \notin ToSet(queued) /\ answers[r] = 0
    BY <1>2 DEF TransportInv, OnlyIssued, Held, TypeOK, Requests
  <2>2. \A r \in Requests : r > issued => answers'[r] = 0
    BY <1>4, <2>1
  <2>. QED  BY <1>1, <1>8, <2>2 DEF TransportInv, OnlyIssued
<1>11. OpenIsFlushed' /\ InflightIsCurrent' /\ ClosedHoldsNothing'
  BY <1>1 DEF TransportInv, OpenIsFlushed, InflightIsCurrent, ClosedHoldsNothing, closed
<1>12. AnsweredLast'
  <2>1. inflight \in Seq(Requests) /\ ToSet(inflight) \subseteq Requests
    BY <1>2, ToSetInRequests DEF TypeOK
  <2>2. \A r \in Held' : answers'[r] = 0
    BY <1>4, <1>8, <1>9, <2>1 DEF TransportInv, AnsweredLast, Held
  <2>3. socket # NoSocket => \A r \in atServer[socket] : r \in Requests /\ answers'[r] = 0
    BY <1>2, <1>4, <1>9 DEF TransportInv, AnsweredLast, TypeOK
  <2>. QED  BY <1>1, <1>4, <2>2, <2>3 DEF AnsweredLast
<1>. QED
  BY <1>5, <1>6, <1>7, <1>10, <1>11, <1>12 DEF TransportInv

LEMMA TailKeeps ==
  ASSUME TransportInv, TailFails \/ TailAnswers \/ BodyArrives
  PROVE  TransportInv'
<1>1. /\ tails \in 0 .. MaxTails /\ bodies \in 0 .. MaxBodies
      /\ MaxTails \in Nat /\ MaxBodies \in Nat
  BY TransportAssumption DEF TransportInv, TypeOK
<1>2. tails' \in 0 .. MaxTails /\ bodies' \in 0 .. MaxBodies
  BY <1>1 DEF TailFails, TailAnswers, BodyArrives
<1>3. CASE TailFails \/ BodyArrives
  BY <1>2, <1>3, DetailKeeps DEF TailFails, BodyArrives
<1>4. CASE TailAnswers
  BY <1>2, <1>4, StutterKeeps DEF TailAnswers, TransportInv, TypeOK
<1>. QED  BY <1>3, <1>4

(* The socket opens: it was the machine's attempt, nothing is in flight,   *)
(* and the whole queue goes out on it in order.                            *)
LEMMA OnOpenKeeps ==
  ASSUME TransportInv, NEW s \in Sockets, OnOpen(s)
  PROVE  TransportInv'
<1>1. /\ ready[s] = "connecting" /\ ready' = [ready EXCEPT ![s] = "open"]
      /\ UNCHANGED <<socket, login, loggedIn, loginFailed, tails, bodies, issued, answers>>
      /\ TypeOK
  BY DEF OnOpen, TransportInv
<1>2. s = socket /\ conn.state = "opening"
  BY <1>1, TransportAssumption DEF TransportInv, SocketMatchesMachine, KeepsSocket
<1>3. /\ conn' = SocketOpen(conn) /\ queued' = <<>>
      /\ inflight' = Track(inflight, queued)
      /\ atServer' = [atServer EXCEPT ![s] = @ \cup ToSet(queued)]
  BY <1>2 DEF OnOpen, IsCurrent
<1>4. inflight = <<>> /\ atServer[s] = {}
  BY <1>1, <1>2 DEF TransportInv, InflightIsCurrent
<1>5. conn' \in Machine /\ Honest(conn') /\ conn'.state = "connected"
  <2>1. conn \in Machine /\ Honest(conn)
    BY DEF TransportInv, TypeOK, NeverGivesUpOnceConnected, Honest
  <2>. QED  BY <1>2, <1>3, <2>1, MachineFacts DEF SocketOpen, Machine
<1>6. /\ inflight' \in Seq(Requests) /\ Len(inflight') <= MaxInflight
      /\ ToSet(inflight') \subseteq ToSet(queued)
      /\ Sorted(inflight')
  <2>1. queued \in Seq(Requests) /\ <<>> \in Seq(Requests) /\ <<>> \o queued = queued
    BY <1>1 DEF TypeOK
  <2>2. ToSet(<<>>) = {}
    BY DEF ToSet
  <2>3. Sorted(queued)
    BY DEF TransportInv, NoOvertaking, Sorted
  <2>4. /\ Track(<<>>, queued) \in Seq(Requests)
        /\ Len(Track(<<>>, queued)) <= MaxInflight
        /\ ToSet(Track(<<>>, queued)) \subseteq ToSet(<<>>) \cup ToSet(queued)
        /\ Sorted(<<>> \o queued) => Sorted(Track(<<>>, queued))
    BY <2>1, TrackFacts
  <2>5. inflight' = Track(<<>>, queued)
    BY <1>3, <1>4
  <2>6. Sorted(Track(<<>>, queued))
    BY <2>1, <2>3, <2>4
  <2>. QED  BY <2>2, <2>4, <2>5, <2>6
<1>7. /\ queued' \in Seq(Requests) /\ Len(queued') = 0 /\ ToSet(queued') = {}
      /\ ToSet(queued) \subseteq Requests
  BY <1>1, <1>3, ToSetInRequests DEF ToSet, TypeOK
<1>8. \A t \in Sockets :
        /\ ready'[t] = IF t = s THEN "open" ELSE ready[t]
        /\ atServer'[t] = IF t = s THEN ToSet(queued) ELSE atServer[t]
  BY <1>1, <1>3, <1>4 DEF TypeOK
<1>9. TypeOK'
  <2>1. ready' \in [Sockets -> ReadyStates]
    BY <1>1 DEF TypeOK, ReadyStates
  <2>2. atServer' \in [Sockets -> SUBSET Requests]
    BY <1>1, <1>3, <1>7 DEF TypeOK
  <2>3. Len(queued') <= MaxQueued
    BY <1>7, TransportAssumption
  <2>. QED  BY <1>1, <1>5, <1>6, <1>7, <2>1, <2>2, <2>3 DEF TypeOK
<1>10. SocketMatchesMachine' /\ NeverGivesUpOnceConnected'
  BY <1>1, <1>2, <1>5, <1>8, TransportAssumption
     DEF TransportInv, SocketMatchesMachine, KeepsSocket,
         NeverGivesUpOnceConnected, Honest
<1>11. Held' \subseteq Held
  BY <1>6, <1>7 DEF Held
<1>12. NoOvertaking'
  BY <1>3, <1>6, <1>7 DEF NoOvertaking, Sorted
<1>13. OnlyIssued'
  BY <1>1, <1>8, <1>11 DEF TransportInv, OnlyIssued, Held
<1>14. OpenIsFlushed' /\ ClosedHoldsNothing'
  BY <1>3, <1>5 DEF OpenIsFlushed, ClosedHoldsNothing, closed
<1>15. InflightIsCurrent'
  <2>1. socket \in Sockets /\ socket # NoSocket
    BY <1>2, TransportAssumption
  <2>. QED  BY <1>1, <1>2, <1>5, <1>6, <1>8, <2>1 DEF TransportInv, InflightIsCurrent
<1>16. AnsweredLast'
  BY <1>1, <1>2, <1>8, <1>11 DEF TransportInv, AnsweredLast, Held
<1>. QED
  BY <1>9, <1>10, <1>12, <1>13, <1>14, <1>15, <1>16 DEF TransportInv

(* The response settles a request the current socket carried, once.        *)
LEMMA OnMessageKeeps ==
  ASSUME TransportInv, NEW s \in Sockets, NEW r \in Requests, OnMessage(s, r)
  PROVE  TransportInv'
<1>1. /\ ready[s] = "open" /\ r \in atServer[s]
      /\ atServer' = [atServer EXCEPT ![s] = @ \ {r}]
      /\ UNCHANGED <<conn, socket, ready, queued, login, loggedIn, loginFailed,
                     tails, bodies, issued>>
      /\ TypeOK
  BY DEF OnMessage, TransportInv
<1>2. s = socket /\ inflight' = Untrack(r) /\ answers' = Answer({r})
  BY <1>1 DEF OnMessage, IsCurrent, TransportInv, SocketMatchesMachine
<1>3. /\ inflight' \in Seq(Requests) /\ Len(inflight') <= Len(inflight)
      /\ ToSet(inflight') = ToSet(inflight) \ {r} /\ Sorted(inflight')
  <2>1. inflight \in Seq(Requests) /\ Sorted(inflight)
    BY <1>1 DEF TypeOK, TransportInv, NoOvertaking, Sorted
  <2>. QED  BY <1>2, <2>1, UntrackFacts
<1>4. \A t \in Sockets : atServer'[t] = IF t = s THEN atServer[t] \ {r} ELSE atServer[t]
  BY <1>1 DEF TypeOK
<1>5. r \notin ToSet(queued)
  BY <1>1 DEF TransportInv, NoOvertaking, Requests
<1>6. answers[r] = 0 /\ r <= issued
  BY <1>1, <1>2, TransportAssumption DEF TransportInv, AnsweredLast, OnlyIssued
<1>7. \A q \in Requests : answers'[q] = IF q = r THEN 1 ELSE answers[q]
  BY <1>1, <1>2, <1>6 DEF Answer, TypeOK
<1>8. TypeOK'
  <2>1. answers' \in [Requests -> Nat]
    BY <1>1, <1>2, <1>7 DEF Answer, TypeOK
  <2>2. atServer' \in [Sockets -> SUBSET Requests]
    BY <1>1 DEF TypeOK
  <2>3. Len(inflight') <= MaxInflight
    <3>1. /\ Len(inflight) \in Nat /\ Len(inflight') \in Nat
          /\ Len(inflight) <= MaxInflight /\ MaxInflight \in Nat
      BY <1>1, <1>3, TransportAssumption DEF TypeOK
    <3>. QED  BY <1>3, <3>1
  <2>. QED  BY <1>1, <1>3, <2>1, <2>2, <2>3 DEF TypeOK
<1>9. SocketMatchesMachine' /\ NeverGivesUpOnceConnected' /\ OpenIsFlushed'
  BY <1>1 DEF TransportInv, SocketMatchesMachine, NeverGivesUpOnceConnected, OpenIsFlushed
<1>10. NoOvertaking'
  <2>1. \A i, j \in 1 .. Len(inflight') : i < j => inflight'[i] < inflight'[j]
    BY <1>3 DEF Sorted
  <2>. QED  BY <1>1, <1>3, <1>4, <2>1 DEF TransportInv, NoOvertaking
<1>11. Held' = Held \ {r}
  BY <1>1, <1>3, <1>5 DEF Held
<1>12. OnlyIssued'
  <2>1. \A q \in Requests : q > issued' => answers'[q] = 0
    BY <1>1, <1>6, <1>7 DEF TransportInv, OnlyIssued, Requests, TypeOK
  <2>. QED  BY <1>1, <1>4, <1>11, <2>1 DEF TransportInv, OnlyIssued
<1>13. InflightIsCurrent'
  <2>1. inflight' # <<>> => inflight # <<>>
    <3>1. inflight = <<>> => Len(inflight') = 0
      BY <1>1, <1>3 DEF TypeOK
    <3>2. Len(inflight') = 0 => inflight' = <<>>
      BY <1>3
    <3>. QED  BY <3>1, <3>2
  <2>2. ToSet(inflight') \subseteq IF socket' = NoSocket THEN {} ELSE atServer'[socket']
    BY <1>1, <1>2, <1>3, <1>4 DEF TransportInv, InflightIsCurrent
  <2>3. \A t \in Sockets : ready'[t] \in {"none", "connecting"} => atServer'[t] = {}
    BY <1>1, <1>4 DEF TransportInv, InflightIsCurrent
  <2>. QED  BY <1>1, <2>1, <2>2, <2>3 DEF TransportInv, InflightIsCurrent
<1>14. ClosedHoldsNothing'
  <2>1. conn.state # "closed"
    BY <1>1, <1>2, TransportAssumption
       DEF TransportInv, SocketMatchesMachine, KeepsSocket
  <2>. QED  BY <1>1, <2>1 DEF ClosedHoldsNothing, closed
<1>15. AnsweredLast'
  <2>1. \A q \in Requests : answers'[q] \in {0, 1}
    BY <1>7 DEF TransportInv, AnsweredLast
  <2>2. \A q \in Held : q \in Requests
    BY <1>1, ToSetInRequests DEF Held, TypeOK
  <2>3. \A q \in Held' : answers'[q] = 0
    BY <1>7, <1>11, <2>2 DEF TransportInv, AnsweredLast
  <2>4. \A q \in atServer'[socket'] : q \in Requests /\ answers'[q] = 0
    BY <1>1, <1>2, <1>4, <1>7, TransportAssumption
       DEF TransportInv, AnsweredLast, TypeOK
  <2>. QED  BY <2>1, <2>3, <2>4 DEF AnsweredLast
<1>. QED
  BY <1>8, <1>9, <1>10, <1>12, <1>13, <1>14, <1>15 DEF TransportInv

(* A call of send(): the new request is the youngest of all.               *)
LEMMA SendKeeps ==
  ASSUME TransportInv, Send  PROVE TransportInv'
<1>. DEFINE r == issued + 1
<1>1. /\ r \in Requests /\ issued' = r
      /\ UNCHANGED <<conn, socket, ready, login, loggedIn, loginFailed, tails,
                     bodies>>
      /\ TypeOK
  BY TransportAssumption DEF Send, TransportInv, TypeOK, Requests
<1>2. /\ queued \in Seq(Requests) /\ inflight \in Seq(Requests)
      /\ answers[r] = 0 /\ r \notin Held
      /\ \A s \in Sockets : r \notin atServer[s]
      /\ \A q \in Held : q < r /\ q <= r
      /\ \A s \in Sockets : \A q \in atServer[s] : q < r /\ q <= r
      /\ r <= r
      /\ \A q \in Requests : q > r => answers[q] = 0
  <2>1. Held \subseteq Requests /\ \A s \in Sockets : atServer[s] \subseteq Requests
    BY <1>1, ToSetInRequests DEF Held, TypeOK
  <2>2. issued \in Nat /\ r > issued
    BY <1>1, TransportAssumption DEF TypeOK
  <2>3. \A q \in Requests : q > r => q > issued
    BY <2>2 DEF Requests
  <2>4. \A q \in Requests : q <= issued => q < r /\ q <= r
    BY <2>2 DEF Requests
  <2>5. answers[r] = 0 /\ \A q \in Requests : q > r => answers[q] = 0
    BY <1>1, <2>2, <2>3 DEF TransportInv, OnlyIssued
  <2>6. /\ \A q \in Held : q < r /\ q <= r
        /\ \A s \in Sockets : \A q \in atServer[s] : q < r /\ q <= r
    BY <2>1, <2>4 DEF TransportInv, OnlyIssued
  <2>7. ~(r < r) /\ r <= r
    BY <2>2
  <2>. QED  BY <1>1, <2>5, <2>6, <2>7 DEF TypeOK
<1>. HIDE DEF r
<1>3. SocketMatchesMachine' /\ NeverGivesUpOnceConnected'
  BY <1>1 DEF TransportInv, SocketMatchesMachine, NeverGivesUpOnceConnected
<1>4. CASE CanSend
  <2>1. /\ inflight' = Track(inflight, <<r>>)
        /\ atServer' = [atServer EXCEPT ![socket] = @ \cup {r}]
        /\ UNCHANGED <<queued, answers>>
    BY <1>4 DEF Send, r
  <2>2. /\ queued = <<>> /\ socket \in Sockets /\ ready[socket] = "open"
        /\ conn.state = "connected"
    BY <1>1, <1>4 DEF CanSend, TransportInv, OpenIsFlushed, TypeOK
  <2>3. /\ <<r>> \in Seq(Requests) /\ ToSet(<<r>>) = {r} /\ Sorted(<<r>>)
        /\ ToSet(queued) = {} /\ ToSet(queued') = {} /\ Len(queued') = 0
    BY <1>1, <2>1, <2>2 DEF ToSet, Sorted, Requests
  <2>4. Sorted(inflight \o <<r>>)
    <3>1. Sorted(inflight)
      BY DEF TransportInv, NoOvertaking, Sorted
    <3>2. \A x \in ToSet(inflight), y \in ToSet(<<r>>) : x < y
      BY <1>2, <2>3 DEF Held
    <3>. QED  BY <1>2, <2>3, <3>1, <3>2, ConcatSorted
  <2>5. /\ inflight' \in Seq(Requests) /\ Len(inflight') <= MaxInflight
        /\ ToSet(inflight') \subseteq ToSet(inflight) \cup {r}
        /\ Sorted(inflight')
    <3>1. /\ Track(inflight, <<r>>) \in Seq(Requests)
          /\ Len(Track(inflight, <<r>>)) <= MaxInflight
          /\ ToSet(Track(inflight, <<r>>)) \subseteq ToSet(inflight) \cup ToSet(<<r>>)
          /\ Sorted(inflight \o <<r>>) => Sorted(Track(inflight, <<r>>))
      BY <1>2, <2>3, TrackFacts
    <3>. QED  BY <2>1, <2>3, <2>4, <3>1
  <2>6. \A s \in Sockets :
          atServer'[s] = IF s = socket THEN atServer[s] \cup {r} ELSE atServer[s]
    BY <1>1, <2>1 DEF TypeOK
  <2>7. TypeOK'
    <3>1. atServer' \in [Sockets -> SUBSET Requests]
      BY <1>1, <2>1 DEF TypeOK
    <3>2. issued' \in 0 .. NumRequests
      BY <1>1 DEF Requests
    <3>. QED  BY <1>1, <2>1, <2>5, <3>1, <3>2 DEF TypeOK
  <2>8. NoOvertaking'
    BY <2>1, <2>3, <2>5 DEF TransportInv, NoOvertaking, Sorted
  <2>9. Held' \subseteq Held \cup {r}
    BY <2>3, <2>5 DEF Held
  <2>10. OnlyIssued'
    <3>1. \A q \in Held' : q <= issued'
      BY <1>1, <1>2, <2>9
    <3>2. \A s \in Sockets : \A q \in atServer'[s] : q <= issued'
      BY <1>1, <1>2, <2>6
    <3>. QED  BY <1>1, <1>2, <2>1, <3>1, <3>2 DEF OnlyIssued
  <2>11. OpenIsFlushed' /\ ClosedHoldsNothing'
    BY <1>1, <2>1, <2>2 DEF OpenIsFlushed, ClosedHoldsNothing, closed
  <2>12. InflightIsCurrent'
    <3>1. socket # NoSocket
      BY <2>2, TransportAssumption
    <3>2. ToSet(inflight) \subseteq atServer[socket]
      BY <3>1 DEF TransportInv, InflightIsCurrent
    <3>. QED  BY <1>1, <2>2, <2>5, <2>6, <3>1, <3>2 DEF TransportInv, InflightIsCurrent
  <2>13. AnsweredLast'
    BY <1>1, <1>2, <2>1, <2>2, <2>6, <2>9 DEF TransportInv, AnsweredLast
  <2>. QED
    BY <1>3, <2>7, <2>8, <2>10, <2>11, <2>12, <2>13 DEF TransportInv
<1>5. CASE ~CanSend /\ Refused
  <2>1. answers' = Answer({r}) /\ UNCHANGED <<queued, inflight, atServer>>
    BY <1>5 DEF Send, r
  <2>2. \A q \in Requests : answers'[q] = IF q = r THEN 1 ELSE answers[q]
    BY <1>1, <1>2, <2>1 DEF Answer, TypeOK
  <2>3. TypeOK'
    <3>1. answers' \in [Requests -> Nat]
      BY <1>1, <2>1, <2>2 DEF Answer, TypeOK
    <3>2. issued' \in 0 .. NumRequests
      BY <1>1 DEF Requests
    <3>. QED  BY <1>1, <2>1, <3>1, <3>2 DEF TypeOK
  <2>4. NoOvertaking' /\ OpenIsFlushed' /\ InflightIsCurrent' /\ ClosedHoldsNothing'
    BY <1>1, <2>1
       DEF TransportInv, NoOvertaking, OpenIsFlushed, InflightIsCurrent,
           ClosedHoldsNothing, closed
  <2>5. Held' = Held /\ Held \subseteq Requests
    BY <1>1, <2>1, ToSetInRequests DEF Held, TypeOK
  <2>6. OnlyIssued'
    <3>1. \A q \in Held' : q <= issued'
      BY <1>1, <1>2, <2>5
    <3>2. \A s \in Sockets : \A q \in atServer'[s] : q <= issued'
      BY <1>1, <1>2, <2>1
    <3>3. \A q \in Requests : q > issued' => answers'[q] = 0
      BY <1>1, <1>2, <2>2 DEF Requests
    <3>. QED  BY <3>1, <3>2, <3>3 DEF OnlyIssued
  <2>7. AnsweredLast'
    <3>1. \A q \in Requests : answers'[q] \in {0, 1}
      BY <2>2 DEF TransportInv, AnsweredLast
    <3>2. \A q \in Held' : answers'[q] = 0
      BY <1>2, <2>2, <2>5 DEF TransportInv, AnsweredLast
    <3>3. socket' # NoSocket => \A q \in atServer'[socket'] : answers'[q] = 0
      <4>1. socket # NoSocket => \A q \in atServer[socket] : q \in Requests /\ q # r
        BY <1>1, <1>2 DEF TypeOK
      <4>. QED  BY <1>1, <2>1, <2>2, <4>1 DEF TransportInv, AnsweredLast
    <3>. QED  BY <3>1, <3>2, <3>3 DEF AnsweredLast
  <2>. QED
    BY <1>3, <2>3, <2>4, <2>6, <2>7 DEF TransportInv
<1>6. CASE ~CanSend /\ ~Refused
  <2>1. queued' = Append(queued, r) /\ UNCHANGED <<inflight, atServer, answers>>
    BY <1>6 DEF Send, r
  <2>2. /\ ~closed /\ Len(queued) < MaxQueued
        /\ ~(conn.state = "connected" /\ socket # NoSocket /\ ready[socket] = "open")
    BY <1>1, <1>2, <1>6, TransportAssumption DEF Refused, CanSend
  <2>3. /\ queued' \in Seq(Requests) /\ Len(queued') = Len(queued) + 1
        /\ ToSet(queued') = ToSet(queued) \cup {r}
    BY <1>1, <1>2, <2>1, ToSetFacts
  <2>4. \A i, j \in 1 .. Len(queued') : i < j => queued'[i] < queued'[j]
    <3>1. \A i \in 1 .. Len(queued') :
            queued'[i] = IF i <= Len(queued) THEN queued[i] ELSE r
      BY <1>1, <1>2, <2>1
    <3>2. \A i \in 1 .. Len(queued) : queued[i] < r
      BY <1>2 DEF Held, ToSet
    <3>. SUFFICES ASSUME NEW i \in 1 .. Len(queued'), NEW j \in 1 .. Len(queued'),
                         i < j
                  PROVE  queued'[i] < queued'[j]
      OBVIOUS
    <3>3. CASE j <= Len(queued)
      BY <1>2, <2>3, <3>1, <3>3 DEF TransportInv, NoOvertaking
    <3>4. CASE j > Len(queued)
      BY <1>2, <2>3, <3>1, <3>2, <3>4
    <3>. QED  BY <1>2, <2>3, <3>3, <3>4
  <2>5. TypeOK'
    <3>1. issued' \in 0 .. NumRequests
      BY <1>1 DEF Requests
    <3>2. Len(queued') <= MaxQueued
      BY <1>2, <2>2, <2>3, TransportAssumption
    <3>. QED  BY <1>1, <2>1, <2>3, <3>1, <3>2 DEF TypeOK
  <2>6. NoOvertaking'
    <3>1. \A q \in ToSet(queued'), s \in Sockets :
            \A x \in atServer'[s] \cup ToSet(inflight') : x < q
      BY <1>2, <2>1, <2>3 DEF TransportInv, NoOvertaking, Held
    <3>. QED  BY <2>1, <2>4, <3>1 DEF TransportInv, NoOvertaking
  <2>7. Held' = Held \cup {r} /\ Held \subseteq Requests
    BY <1>1, <2>1, <2>3, ToSetInRequests DEF Held, TypeOK
  <2>8. OnlyIssued'
    <3>1. \A q \in Held' : q <= issued'
      BY <1>1, <1>2, <2>7
    <3>2. \A s \in Sockets : \A q \in atServer'[s] : q <= issued'
      BY <1>1, <1>2, <2>1
    <3>. QED  BY <1>1, <1>2, <2>1, <3>1, <3>2 DEF OnlyIssued
  <2>9. OpenIsFlushed' /\ ClosedHoldsNothing'
    <3>1. conn.state = "connected" => socket # NoSocket
      BY DEF TransportInv, SocketMatchesMachine, KeepsSocket
    <3>. QED  BY <1>1, <2>2, <3>1 DEF OpenIsFlushed, ClosedHoldsNothing, closed
  <2>10. InflightIsCurrent' /\ AnsweredLast'
    BY <1>1, <1>2, <2>1, <2>7 DEF TransportInv, InflightIsCurrent, AnsweredLast
  <2>. QED
    BY <1>3, <2>5, <2>6, <2>8, <2>9, <2>10 DEF TransportInv
<1>. QED  BY <1>4, <1>5, <1>6

-----------------------------------------------------------------------------
(* The invariant, and what it says.                                        *)

LEMMA TransportInit == Init => TransportInv
<1>. SUFFICES ASSUME Init  PROVE TransportInv
  OBVIOUS
<1>1. InitialMachine \in Machine /\ Honest(InitialMachine)
  BY MaxRetriesAssumption DEF InitialMachine, Machine, States, Honest
<1>2. /\ LoginOk(InitialMachine) \in Machine /\ Honest(LoginOk(InitialMachine))
      /\ LoginOk(InitialMachine).state = "opening"
  BY <1>1, MachineFacts DEF LoginOk, InitialMachine, Machine
<1>3. /\ queued = <<>> /\ inflight = <<>> /\ <<>> \in Seq(Requests)
      /\ Len(<<>>) = 0 /\ ToSet(queued) = {} /\ ToSet(inflight) = {} /\ Held = {}
  BY DEF Init, ToSet, Held
<1>4. conn \in Machine /\ Honest(conn) /\ conn.state \in {"idle", "opening"}
  <2>1. conn = InitialMachine \/ conn = LoginOk(InitialMachine)
    BY DEF Init
  <2>2. InitialMachine.state = "idle"
    BY DEF InitialMachine
  <2>. QED  BY <1>1, <1>2, <2>1, <2>2
<1>5. TypeOK
  <2>1. 0 <= MaxQueued /\ 0 <= MaxInflight /\ 0 \in 0 .. MaxTails
         /\ 0 \in 0 .. MaxBodies /\ 0 \in 0 .. NumRequests
    BY TransportAssumption
  <2>2. ready \in [Sockets -> ReadyStates] /\ socket \in Sockets \cup {NoSocket}
    BY DEF Init, ReadyStates
  <2>. QED  BY <1>3, <1>4, <2>1, <2>2 DEF Init, TypeOK, LoginStates
<1>6. SocketMatchesMachine
  BY <1>2, TransportAssumption
     DEF Init, SocketMatchesMachine, KeepsSocket, InitialMachine
<1>7. NeverGivesUpOnceConnected /\ ClosedHoldsNothing
  BY <1>3, <1>4 DEF NeverGivesUpOnceConnected, ClosedHoldsNothing, Honest
<1>8. NoOvertaking /\ OnlyIssued /\ OpenIsFlushed
  BY <1>3 DEF Init, NoOvertaking, OnlyIssued, OpenIsFlushed
<1>9. InflightIsCurrent /\ AnsweredLast
  BY <1>3 DEF Init, InflightIsCurrent, AnsweredLast
<1>. QED  BY <1>5, <1>6, <1>7, <1>8, <1>9 DEF TransportInv

LEMMA TransportStep == TransportInv /\ [Next]_vars => TransportInv'
<1>. SUFFICES ASSUME TransportInv, [Next]_vars  PROVE TransportInv'
  OBVIOUS
<1>1. CASE LoginSucceeds \/ LoginFails \/ OpenTimesOut \/ RetryFires
            \/ StableFires \/ Close \/ OnForeground
  BY <1>1, LoginSucceedsMoves, LoginFailsMoves, TimersMove, CloseMoves,
     OnForegroundMoves, MovesKeep
<1>2. CASE \E s \in Sockets : SocketEvent(s)
  BY <1>2, OnOpenKeeps, OnMessageKeeps, ConnectionLostKeeps, OnCloseMoves,
     MovesKeep, OnLateCloseKeeps DEF SocketEvent
<1>3. CASE BootWindowEnds \/ TailFails \/ TailAnswers \/ BodyArrives \/ Send
  BY <1>3, BootWindowEndsKeeps, TailKeeps, SendKeeps
<1>4. CASE LoginSpent \/ RetryLogin \/ UNCHANGED vars
  <2>1. /\ UNCHANGED <<conn, socket, ready, queued, inflight, issued, answers,
                       atServer>>
        /\ tails' \in 0 .. MaxTails /\ bodies' \in 0 .. MaxBodies
        /\ login' \in LoginStates /\ loggedIn' \in BOOLEAN /\ loginFailed' \in BOOLEAN
    BY <1>4 DEF LoginSpent, RetryLogin, vars, TransportInv, TypeOK, LoginStates
  <2>. QED  BY <2>1, StutterKeeps
<1>. QED  BY <1>1, <1>2, <1>3, <1>4 DEF Next

LEMMA TransportAlways == Spec => []TransportInv
BY TransportInit, TransportStep, PTL DEF Spec

(* Machine and socket are in step in every reachable state, whatever the   *)
(* sockets, /login and the callers do: dropSocket, onChange and openSocket *)
(* never leave two live sockets, nor a machine without its socket.         *)
THEOREM TransportInStep == Spec => []Inv
<1>1. TransportInv => Inv
  BY DEF TransportInv, Inv
<1>. QED  BY <1>1, TransportAlways, PTL

(* Once a socket has opened, a lost connection retries for ever.           *)
THEOREM ConnectedNeverGivesUp == Spec => []NeverGivesUpOnceConnected
<1>1. TransportInv => NeverGivesUpOnceConnected
  BY DEF TransportInv
<1>. QED  BY <1>1, TransportAlways, PTL

(* Requests reach the server in the order callers issued them.             *)
THEOREM RequestsKeepOrder == Spec => []NoOvertaking
<1>1. TransportInv => NoOvertaking
  BY DEF TransportInv
<1>. QED  BY <1>1, TransportAlways, PTL

-----------------------------------------------------------------------------
(* What a step may do to the requests.                                     *)

(* The books of one step: what is held afterwards was held or is new, a    *)
(* new request is held or answered, an answer is the first, and what is    *)
(* no longer held was answered, or crowded out by MaxInflight younger ones *)
(* that are held.                                                          *)
Crowded(q) == Cardinality({r \in Held' : r > q}) >= MaxInflight

Accounted ==
  /\ issued <= issued' /\ (closed => closed')
  /\ \A q \in Requests :
       /\ q \in Held' => q \in Held \/ (q > issued /\ q <= issued')
       /\ answers'[q] = answers[q] \/ (answers[q] = 0 /\ answers'[q] = 1)
       /\ q > issued /\ q <= issued' => q \in Held' \/ answers'[q] = 1
       /\ q \in Held /\ q \notin Held' => answers'[q] = 1 \/ Crowded(q)

(* The two action properties, as formulas about one step.                  *)
FailsHopeless ==
  (\E r \in ToSet(queued) : answers'[r] > answers[r])
    => \/ conn'.state \in {"gaveUp", "closed"}
       \/ IsReplaced(conn')
       \/ IsDegraded(conn')
       \/ DetailEnds

FailsLost ==
  \A r \in ToSet(inflight) :
    answers'[r] > answers[r]
      => \/ r \in atServer[socket] /\ r \notin atServer'[socket]
         \/ ready[socket] # "open"
         \/ closed'

StepSays == Accounted /\ FailsHopeless /\ FailsLost

LEMMA HeldFacts ==
  ASSUME TransportInv
  PROVE  /\ Held \subseteq Requests /\ ToSet(queued) \subseteq Held
         /\ ToSet(inflight) \subseteq Held
         /\ ToSet(queued) \cap ToSet(inflight) = {}
         /\ \A q \in Requests : answers[q] \in {0, 1} /\ (q \in Held => answers[q] = 0)
         /\ issued \in Nat /\ \A q \in Held : q <= issued
<1>1. TypeOK
  BY DEF TransportInv
<1>2. Held \subseteq Requests
  BY <1>1, ToSetInRequests DEF Held, TypeOK
<1>3. ToSet(queued) \cap ToSet(inflight) = {}
  <2>. SUFFICES ASSUME NEW q \in ToSet(queued), q \in ToSet(inflight)
                PROVE  FALSE
    OBVIOUS
  <2>1. socket \in Sockets /\ q \in Requests
    BY <1>1, <1>2 DEF TransportInv, InflightIsCurrent, TypeOK, Held
  <2>. QED  BY <2>1 DEF TransportInv, NoOvertaking, Requests
<1>. QED
  BY <1>1, <1>2, <1>3, TransportAssumption
     DEF TransportInv, AnsweredLast, OnlyIssued, TypeOK, Held

LEMMA MovesSay ==
  ASSUME TransportInv, Moves  PROVE StepSays
<1>1. PICK final, via, rd : Moved(final, via, rd) /\ Excused(final, via)
  BY DEF Moves
<1>2. conn' = final /\ issued' = issued
  BY <1>1, MovedHolds DEF Moved
<1>3. Accounted
  <2>1. issued <= issued' /\ (closed => closed')
    BY <1>1, <1>2, HeldFacts DEF Excused, closed
  <2>. SUFFICES ASSUME NEW q \in Requests
                PROVE  /\ q \in Held' => q \in Held
                       /\ answers'[q] = answers[q]
                            \/ (answers[q] = 0 /\ answers'[q] = 1)
                       /\ ~(q > issued /\ q <= issued')
                       /\ q \in Held /\ q \notin Held' => answers'[q] = 1
    BY <2>1 DEF Accounted
  <2>2. ~(q > issued /\ q <= issued')
    BY <1>2, HeldFacts DEF Requests
  <2>3. q \in Held => answers[q] = 0
    BY HeldFacts
  <2>. QED  BY <1>1, <2>2, <2>3, MovedAnswers
<1>4. FailsHopeless
  <2>. SUFFICES ASSUME NEW r \in ToSet(queued), answers'[r] > answers[r]
                PROVE  \/ final.state \in {"gaveUp", "closed"}
                       \/ IsReplaced(final) \/ IsDegraded(final)
    BY <1>2 DEF FailsHopeless
  <2>1. r \in Requests /\ ~(answers[r] > answers[r])
    BY HeldFacts
  <2>2. Fails(final, via)
    BY <1>1, <2>1, MovedAnswers
  <2>3. PICK m \in via \cup {final} : FailsQueue(m)
    BY <2>2 DEF Fails
  <2>4. CASE m \in via
    BY <1>1, <2>3, <2>4 DEF Excused
  <2>5. CASE m = final
    BY <2>3, <2>5 DEF FailsQueue
  <2>. QED  BY <2>4, <2>5
<1>5. FailsLost
  <2>. SUFFICES ASSUME NEW r \in ToSet(inflight), answers'[r] > answers[r]
                PROVE  \/ r \in atServer[socket] /\ r \notin atServer'[socket]
                       \/ ready[socket] # "open"
                       \/ closed'
    BY DEF FailsLost
  <2>1. r \in Requests /\ ~(answers[r] > answers[r])
    BY HeldFacts
  <2>2. Drops(final, via)
    BY <1>1, <2>1, MovedAnswers
  <2>3. /\ conn.state = "connected" /\ r \in atServer[socket]
        /\ socket \in Sockets
    <3>1. ToSet(inflight) # {} => inflight # <<>>
      BY DEF ToSet
    <3>. QED  BY <3>1 DEF TransportInv, InflightIsCurrent, TypeOK
  <2>4. CASE atServer' = [atServer EXCEPT ![socket] = {}]
    BY <2>3, <2>4 DEF TransportInv, TypeOK
  <2>5. CASE ready[socket] # "open" \/ final.state = "closed"
    BY <1>2, <2>5 DEF closed
  <2>. QED  BY <1>1, <2>2, <2>3, <2>4, <2>5 DEF Excused
<1>. QED  BY <1>3, <1>4, <1>5 DEF StepSays

(* Steps that leave every request alone.                                   *)
LEMMA QuietSays ==
  ASSUME TransportInv, UNCHANGED <<queued, inflight, issued, answers>>,
         closed => closed'
  PROVE  StepSays
<1>1. Held' = Held
  BY DEF Held
<1>2. \A q \in Requests : ~(q > issued /\ q <= issued)
  BY HeldFacts DEF Requests
<1>3. issued <= issued /\ \A q \in Held : ~(answers[q] > answers[q])
  BY HeldFacts
<1>4. Accounted
  BY <1>1, <1>2, <1>3 DEF Accounted
<1>. QED  BY <1>3, <1>4, HeldFacts DEF StepSays, FailsHopeless, FailsLost

(* A sequence in issue order has no repetitions.                           *)
LEMMA SortedCardinality ==
  ASSUME NEW s \in Seq(Requests), Sorted(s)
  PROVE  IsFiniteSet(ToSet(s)) /\ Cardinality(ToSet(s)) = Len(s)
<1>1. Len(s) \in Nat /\ DOMAIN s = 1 .. Len(s)
  OBVIOUS
<1>2. /\ \A i \in 1 .. Len(s) : s[i] \in Nat
      /\ s = [i \in 1 .. Len(s) |-> s[i]]
  <2>1. \A i \in 1 .. Len(s) : s[i] \in Requests
    OBVIOUS
  <2>2. s = [i \in 1 .. Len(s) |-> s[i]]
    OBVIOUS
  <2>. QED  BY <2>1, <2>2 DEF Requests
<1>3. IsFiniteSet(1 .. Len(s)) /\ Cardinality(1 .. Len(s)) = Len(s)
  <2>1. \A n \in Nat : IsFiniteSet(1 .. n) /\ Cardinality(1 .. n) = n
    <3>. TAKE n \in Nat
    <3>1. IsFiniteSet(1 .. n) /\ Cardinality(1 .. n) = IF 1 > n THEN 0 ELSE n - 1 + 1
      BY FS_Interval
    <3>. QED  BY <3>1
  <2>. QED  BY <1>1, <2>1
<1>4. s \in Surjection(1 .. Len(s), ToSet(s))
  BY <1>1, <1>2 DEF Surjection, ToSet
<1>5. s \in Injection(1 .. Len(s), ToSet(s))
  <2>1. ASSUME NEW i \in 1 .. Len(s), NEW j \in 1 .. Len(s), s[i] = s[j]
        PROVE  i = j
    <3>1. ~(i < j) /\ ~(j < i)
      BY <1>1, <1>2, <2>1 DEF Sorted
    <3>. QED  BY <1>1, <3>1
  <2>. QED  BY <1>4, <2>1 DEF Injection, Surjection, IsInjective
<1>. DEFINE S == 1 .. Len(s)
            T == ToSet(s)
<1>. HIDE DEF S, T
<1>6. s \in Surjection(S, T) /\ s \in Injection(S, T) /\ IsFiniteSet(S)
  BY <1>3, <1>4, <1>5 DEF S, T
<1>7. IsFiniteSet(T) /\ Cardinality(T) = Cardinality(S)
  BY <1>6, FS_Surjection
<1>. QED  BY <1>3, <1>7 DEF S, T

(* Whatever is appended to the tracked invokes, the youngest stays, and    *)
(* one that does not is crowded out by MaxInflight younger ones.           *)
LEMMA TrackKeeps ==
  ASSUME NEW s \in Seq(Requests), NEW q \in Seq(Requests), Sorted(s \o q)
  PROVE  /\ q # <<>> => q[Len(q)] \in ToSet(Track(s, q))
         /\ \A r \in ToSet(s \o q) \ ToSet(Track(s, q)) :
              /\ \A x \in ToSet(Track(s, q)) : x > r
              /\ Cardinality(ToSet(Track(s, q))) = MaxInflight
<1>. DEFINE all == s \o q
            n   == Len(all) - MaxInflight
<1>1. /\ Len(s) \in Nat /\ Len(q) \in Nat
      /\ all \in Seq(Requests) /\ Len(all) = Len(s) + Len(q)
      /\ MaxInflight \in Nat \ {0}
  BY TransportAssumption
<1>2. q # <<>> => /\ Len(q) \in 1 .. Len(q) /\ Len(all) \in 1 .. Len(all)
                  /\ all[Len(all)] = q[Len(q)]
  BY <1>1
<1>3. CASE Len(all) <= MaxInflight
  BY <1>2, <1>3 DEF Track, ToSet
<1>4. CASE ~(Len(all) <= MaxInflight)
  <2>1. n \in 0 .. Len(all) /\ n + MaxInflight = Len(all)
    BY <1>1, <1>4
  <2>2. Track(s, q) = SubSeq(all, n + 1, Len(all))
    BY <1>4 DEF Track
  <2>. DEFINE t == Track(s, q)
  <2>. HIDE DEF n, all, t
  <2>3. /\ Len(t) = MaxInflight /\ t \in Seq(Requests)
        /\ \A i \in 1 .. MaxInflight : t[i] = all[n + i]
    BY <1>1, <2>1, <2>2 DEF t
  <2>4. q # <<>> => q[Len(q)] \in ToSet(t)
    <3>1. MaxInflight \in DOMAIN t /\ t[MaxInflight] = all[Len(all)]
      BY <1>1, <2>1, <2>3
    <3>. QED  BY <1>2, <3>1 DEF ToSet
  <2>5. Sorted(all)
    BY DEF all
  <2>6. Cardinality(ToSet(t)) = MaxInflight
    <3>1. Sorted(t)
      BY <1>1, <2>1, <2>2, <2>5, SuffixFacts DEF t
    <3>. QED  BY <2>3, <3>1, SortedCardinality
  <2>7. ASSUME NEW r \in ToSet(all), r \notin ToSet(t), NEW x \in ToSet(t)
        PROVE  x > r
    <3>1. PICK j \in 1 .. Len(all) : all[j] = r
      BY <1>1 DEF ToSet
    <3>2. PICK i \in 1 .. MaxInflight : t[i] = x
      BY <2>3 DEF ToSet
    <3>3. j <= n
      <4>1. ASSUME j > n  PROVE FALSE
        <5>1. j - n \in 1 .. MaxInflight /\ n + (j - n) = j
          BY <1>1, <2>1, <4>1
        <5>2. t[j - n] = r
          BY <2>3, <3>1, <5>1
        <5>. QED  BY <2>3, <2>7, <5>1, <5>2 DEF ToSet
      <4>. QED  BY <2>1, <4>1
    <3>4. n + i \in 1 .. Len(all) /\ j < n + i
      BY <1>1, <2>1, <3>3
    <3>5. all[j] < all[n + i]
      BY <2>5, <3>4 DEF Sorted
    <3>6. all[j] \in Nat /\ all[n + i] \in Nat
      <4>1. \A k \in 1 .. Len(all) : all[k] \in Requests
        BY <1>1
      <4>. QED  BY <3>4, <4>1 DEF Requests
    <3>. QED  BY <2>3, <3>1, <3>2, <3>5, <3>6
  <2>. QED  BY <2>4, <2>6, <2>7 DEF all, t
<1>. QED  BY <1>3, <1>4

LEMMA OnOpenSays ==
  ASSUME TransportInv, NEW s \in Sockets, OnOpen(s)
  PROVE  StepSays
<1>1. /\ ready[s] = "connecting" /\ TypeOK
      /\ UNCHANGED <<issued, answers>>
  BY DEF OnOpen, TransportInv
<1>2. s = socket /\ conn.state = "opening"
  BY <1>1, TransportAssumption DEF TransportInv, SocketMatchesMachine, KeepsSocket
<1>3. queued' = <<>> /\ inflight' = Track(inflight, queued)
  BY <1>2 DEF OnOpen, IsCurrent
<1>4. inflight = <<>> /\ ToSet(inflight) = {} /\ ToSet(queued') = {}
  BY <1>2, <1>3 DEF TransportInv, InflightIsCurrent, ToSet
<1>5. /\ queued \in Seq(Requests) /\ <<>> \in Seq(Requests)
      /\ <<>> \o queued = queued /\ Sorted(queued)
  BY <1>1 DEF TypeOK, TransportInv, NoOvertaking, Sorted
<1>6. /\ Held' = ToSet(Track(<<>>, queued)) /\ Held = ToSet(queued)
      /\ Held' \subseteq Held
  <2>1. inflight' = Track(<<>>, queued)
    BY <1>3, <1>4
  <2>2. ToSet(Track(<<>>, queued)) \subseteq ToSet(<<>>) \cup ToSet(queued)
    BY <1>5, TrackFacts
  <2>. QED  BY <1>4, <2>1, <2>2 DEF Held, ToSet
<1>7. \A q \in Held \ Held' : Crowded(q)
  <2>1. \A q \in ToSet(<<>> \o queued) \ ToSet(Track(<<>>, queued)) :
          /\ \A x \in ToSet(Track(<<>>, queued)) : x > q
          /\ Cardinality(ToSet(Track(<<>>, queued))) = MaxInflight
    BY <1>5, TrackKeeps
  <2>2. \A q \in Held \ Held' : /\ {r \in Held' : r > q} = Held'
                               /\ Cardinality(Held') = MaxInflight
    BY <1>5, <1>6, <2>1
  <2>. QED  BY <2>2, TransportAssumption DEF Crowded
<1>8. ~closed /\ issued <= issued
  BY <1>2, HeldFacts DEF closed
<1>9. \A q \in Requests : ~(q > issued /\ q <= issued) /\ ~(answers[q] > answers[q])
  BY HeldFacts DEF Requests
<1>10. Accounted
  BY <1>1, <1>6, <1>7, <1>8, <1>9 DEF Accounted
<1>. QED
  BY <1>1, <1>9, <1>10, HeldFacts DEF StepSays, FailsHopeless, FailsLost

LEMMA OnMessageSays ==
  ASSUME TransportInv, NEW s \in Sockets, NEW r \in Requests, OnMessage(s, r)
  PROVE  StepSays
<1>1. /\ ready[s] = "open" /\ r \in atServer[s] /\ TypeOK
      /\ atServer' = [atServer EXCEPT ![s] = @ \ {r}]
      /\ UNCHANGED <<conn, queued, issued>>
  BY DEF OnMessage, TransportInv
<1>2. s = socket /\ inflight' = Untrack(r) /\ answers' = Answer({r})
  BY <1>1 DEF OnMessage, IsCurrent, TransportInv, SocketMatchesMachine
<1>3. ToSet(inflight') = ToSet(inflight) \ {r}
  <2>1. inflight \in Seq(Requests) /\ Sorted(inflight)
    BY <1>1 DEF TypeOK, TransportInv, NoOvertaking, Sorted
  <2>. QED  BY <1>2, <2>1, UntrackFacts
<1>4. r \notin ToSet(queued) /\ answers[r] = 0
  BY <1>1, <1>2, TransportAssumption
     DEF TransportInv, NoOvertaking, Requests, AnsweredLast
<1>5. Held' = Held \ {r}
  BY <1>1, <1>3, <1>4 DEF Held
<1>6. \A q \in Requests : answers'[q] = IF q = r THEN 1 ELSE answers[q]
  BY <1>1, <1>2, <1>4 DEF Answer, TypeOK
<1>7. /\ issued <= issued
      /\ \A q \in Requests : ~(q > issued /\ q <= issued) /\ ~(answers[q] > answers[q])
  BY HeldFacts DEF Requests
<1>8. Accounted
  BY <1>1, <1>4, <1>5, <1>6, <1>7 DEF Accounted, closed
<1>9. r \notin atServer'[socket]
  BY <1>1, <1>2 DEF TypeOK
<1>10. FailsHopeless
  BY <1>4, <1>6, <1>7, HeldFacts DEF FailsHopeless
<1>11. FailsLost
  BY <1>1, <1>2, <1>6, <1>7, <1>9, HeldFacts DEF FailsLost
<1>. QED  BY <1>8, <1>10, <1>11 DEF StepSays

LEMMA DetailSays ==
  ASSUME TransportInv, FailWithDetail, DetailEnds  PROVE StepSays
<1>1. /\ answers' = Answer(ToSet(queued)) /\ queued' = <<>>
      /\ UNCHANGED <<conn, inflight, issued>>
      /\ TypeOK
  BY DEF FailWithDetail, TransportInv
<1>2. ToSet(queued') = {}
  BY <1>1 DEF ToSet
<1>3. \A q \in Requests :
        answers'[q] = IF q \in ToSet(queued) THEN 1 ELSE answers[q]
  BY <1>1, HeldFacts DEF Answer
<1>4. Held' = Held \ ToSet(queued)
  BY <1>1, <1>2, HeldFacts DEF Held
<1>5. /\ issued <= issued
      /\ \A q \in Requests : ~(q > issued /\ q <= issued) /\ ~(answers[q] > answers[q])
  BY HeldFacts DEF Requests
<1>6. Accounted
  BY <1>1, <1>3, <1>4, <1>5, HeldFacts DEF Accounted, closed
<1>7. FailsHopeless
  BY DEF FailsHopeless
<1>8. FailsLost
  BY <1>3, <1>5, HeldFacts DEF FailsLost
<1>. QED  BY <1>6, <1>7, <1>8 DEF StepSays

LEMMA TailSays ==
  ASSUME TransportInv, TailFails \/ TailAnswers \/ BodyArrives
  PROVE  StepSays
<1>1. CASE TailAnswers
  BY <1>1, QuietSays DEF TailAnswers, closed
<1>2. CASE TailFails \/ BodyArrives
  <2>1. tails \in Nat /\ bodies \in Nat
    BY TransportAssumption DEF TransportInv, TypeOK
  <2>2. FailWithDetail /\ DetailEnds
    BY <1>2, <2>1 DEF TailFails, BodyArrives, DetailEnds
  <2>. QED  BY <2>2, DetailSays
<1>. QED  BY <1>1, <1>2

LEMMA SendSays ==
  ASSUME TransportInv, Send  PROVE StepSays
<1>. DEFINE r == issued + 1
<1>1. /\ r \in Requests /\ issued' = r /\ issued \in Nat
      /\ UNCHANGED conn /\ TypeOK
  BY TransportAssumption DEF Send, TransportInv, TypeOK, Requests
<1>2. /\ queued \in Seq(Requests) /\ inflight \in Seq(Requests)
      /\ answers[r] = 0 /\ r \notin Held /\ issued <= r
      /\ \A q \in Held : q < r
      /\ \A q \in Requests : (q > issued /\ q <= r) <=> q = r
  <2>1. \A q \in Requests : q <= issued => q < r
    BY <1>1 DEF Requests
  <2>2. r > issued /\ ~(r < r) /\ issued <= r
    BY <1>1
  <2>3. \A q \in Requests : (q > issued /\ q <= r) <=> q = r
    BY <1>1 DEF Requests
  <2>4. answers[r] = 0
    BY <1>1, <2>2 DEF TransportInv, OnlyIssued
  <2>. QED  BY <1>1, <2>1, <2>2, <2>3, <2>4, HeldFacts DEF TypeOK
<1>. HIDE DEF r
<1>3. \A q \in Requests : ~(answers[q] > answers[q])
  BY HeldFacts
<1>4. CASE CanSend
  <2>1. inflight' = Track(inflight, <<r>>) /\ UNCHANGED <<queued, answers>>
    BY <1>4 DEF Send, r
  <2>2. /\ <<r>> \in Seq(Requests) /\ ToSet(<<r>>) = {r} /\ Sorted(<<r>>)
        /\ <<r>> # <<>> /\ <<r>>[Len(<<r>>)] = r
    BY <1>1 DEF ToSet, Sorted
  <2>3. Sorted(inflight \o <<r>>)
    <3>1. Sorted(inflight)
      BY DEF TransportInv, NoOvertaking, Sorted
    <3>2. \A x \in ToSet(inflight), y \in ToSet(<<r>>) : x < y
      BY <1>2, <2>2 DEF Held
    <3>. QED  BY <1>2, <2>2, <3>1, <3>2, ConcatSorted
  <2>4. /\ ToSet(inflight') \subseteq ToSet(inflight) \cup {r}
        /\ r \in ToSet(inflight')
        /\ \A q \in ToSet(inflight) \ ToSet(inflight') :
             /\ \A x \in ToSet(inflight') : x > q
             /\ Cardinality(ToSet(inflight')) = MaxInflight
    <3>1. ToSet(Track(inflight, <<r>>)) \subseteq ToSet(inflight) \cup ToSet(<<r>>)
      BY <1>2, <2>2, TrackFacts
    <3>2. /\ <<r>>[Len(<<r>>)] \in ToSet(Track(inflight, <<r>>))
          /\ \A q \in ToSet(inflight \o <<r>>) \ ToSet(Track(inflight, <<r>>)) :
               /\ \A x \in ToSet(Track(inflight, <<r>>)) : x > q
               /\ Cardinality(ToSet(Track(inflight, <<r>>))) = MaxInflight
      BY <1>2, <2>2, <2>3, TrackKeeps
    <3>3. ToSet(inflight \o <<r>>) = ToSet(inflight) \cup ToSet(<<r>>)
      BY <1>2, <2>2, ToSetConcat
    <3>. QED  BY <2>1, <2>2, <3>1, <3>2, <3>3
  <2>5. /\ Held' \subseteq Held \cup {r} /\ r \in Held'
        /\ \A q \in Held \ Held' : Crowded(q)
    <3>1. queued = <<>>
      BY <1>1, <1>4 DEF CanSend, TransportInv, OpenIsFlushed, TypeOK
    <3>2. Held = ToSet(inflight) /\ Held' = ToSet(inflight')
      BY <2>1, <3>1 DEF Held, ToSet
    <3>3. ASSUME NEW q \in Held \ Held'  PROVE Crowded(q)
      <4>1. {x \in Held' : x > q} = Held' /\ Cardinality(Held') = MaxInflight
        BY <2>4, <3>2
      <4>. QED  BY <4>1, TransportAssumption DEF Crowded
    <3>. QED  BY <2>4, <3>2, <3>3
  <2>6. Accounted
    BY <1>1, <1>2, <2>1, <2>5 DEF Accounted, closed
  <2>. QED
    BY <1>3, <2>1, <2>6, HeldFacts DEF StepSays, FailsHopeless, FailsLost
<1>5. CASE ~CanSend /\ Refused
  <2>1. answers' = Answer({r}) /\ UNCHANGED <<queued, inflight>>
    BY <1>5 DEF Send, r
  <2>2. \A q \in Requests : answers'[q] = IF q = r THEN 1 ELSE answers[q]
    BY <1>1, <1>2, <2>1 DEF Answer, TypeOK
  <2>3. Held' = Held
    BY <2>1 DEF Held
  <2>4. Accounted
    BY <1>1, <1>2, <2>2, <2>3 DEF Accounted, closed
  <2>5. \A q \in Held : ~(answers'[q] > answers[q])
    BY <1>2, <1>3, <2>2, HeldFacts
  <2>. QED
    BY <2>4, <2>5, HeldFacts DEF StepSays, FailsHopeless, FailsLost
<1>6. CASE ~CanSend /\ ~Refused
  <2>1. queued' = Append(queued, r) /\ UNCHANGED <<inflight, answers>>
    BY <1>6 DEF Send, r
  <2>2. ToSet(queued') = ToSet(queued) \cup {r}
    BY <1>1, <1>2, <2>1, ToSetFacts
  <2>3. Held' = Held \cup {r}
    BY <2>1, <2>2 DEF Held
  <2>4. Accounted
    BY <1>1, <1>2, <2>1, <2>3 DEF Accounted, closed
  <2>. QED
    BY <1>3, <2>1, <2>4, HeldFacts DEF StepSays, FailsHopeless, FailsLost
<1>. QED  BY <1>4, <1>5, <1>6

LEMMA EveryStepSays == TransportInv /\ [Next]_vars => StepSays
<1>. SUFFICES ASSUME TransportInv, [Next]_vars  PROVE StepSays
  OBVIOUS
<1>1. CASE LoginSucceeds \/ LoginFails \/ OpenTimesOut \/ RetryFires
            \/ StableFires \/ Close \/ OnForeground
  BY <1>1, LoginSucceedsMoves, LoginFailsMoves, TimersMove, CloseMoves,
     OnForegroundMoves, MovesSay
<1>2. ASSUME NEW s \in Sockets, SocketEvent(s)
      PROVE  StepSays
  <2>1. CASE OnOpen(s)
    BY <2>1, OnOpenSays
  <2>2. CASE \E r \in Requests : OnMessage(s, r)
    BY <2>2, OnMessageSays
  <2>3. CASE ConnectionLost(s)
    BY <2>3, QuietSays DEF ConnectionLost, closed
  <2>4. ASSUME NEW replaced \in BOOLEAN, OnClose(s, replaced)
        PROVE  StepSays
    <3>1. CASE s = socket
      BY <2>4, <3>1, OnCloseMoves, MovesSay
    <3>2. CASE s # socket
      BY <2>4, <3>2, QuietSays DEF OnClose, IsCurrent, closed
    <3>. QED  BY <3>1, <3>2
  <2>. QED  BY <1>2, <2>1, <2>2, <2>3, <2>4 DEF SocketEvent
<1>3. CASE TailFails \/ TailAnswers \/ BodyArrives \/ Send
  BY <1>3, TailSays, SendSays
<1>4. CASE BootWindowEnds
  <2>1. closed => closed'
    BY <1>4 DEF BootWindowEnds, BootWindowPasses, closed, TransportInv, TypeOK, Machine
  <2>. QED  BY <1>4, <2>1, QuietSays DEF BootWindowEnds
<1>5. CASE LoginSpent \/ RetryLogin \/ UNCHANGED vars
  BY <1>5, QuietSays DEF LoginSpent, RetryLogin, vars, closed
<1>. QED  BY <1>1, <1>2, <1>3, <1>4, <1>5 DEF Next

(* A held request is failed only when holding it has become pointless.     *)
THEOREM HoldsUntilHopeless == Spec => HeldUntilHopeless
<1>1. TransportInv /\ [Next]_vars => FailsHopeless
  BY EveryStepSays DEF StepSays
<1>2. TransportInv /\ [Next]_vars => [FailsHopeless]_vars
  BY <1>1
<1>. QED
  BY <1>2, TransportAlways, PTL DEF Spec, HeldUntilHopeless, FailsHopeless

(* An invoke in flight is failed only with the socket it went out on: no   *)
(* late event of an earlier socket costs the requests of its successor.    *)
THEOREM InflightFailsWithItsSocket == Spec => FailsWithItsSocket
<1>1. TransportInv /\ [Next]_vars => [FailsLost]_vars
  BY EveryStepSays DEF StepSays
<1>. QED
  BY <1>1, TransportAlways, PTL DEF Spec, FailsWithItsSocket, FailsLost

-----------------------------------------------------------------------------
(* The transport implements the request ledger.                            *)

StatusShape ==
  \A q \in Requests :
    LedgerStatus[q] = IF q > issued THEN "new"
                      ELSE IF q \in Held THEN "open"
                      ELSE IF answers[q] = 1 THEN "answered"
                      ELSE "forgotten"

LEMMA LedgerStatusIs == TransportInv => StatusShape /\ Held \subseteq Requests
BY HeldFacts DEF LedgerStatus, StatusShape

LEMMA LedgerInit == Init => Ledger!Init
<1>. SUFFICES ASSUME Init  PROVE Ledger!Init
  OBVIOUS
<1>1. issued = 0 /\ ~closed
  <2>1. InitialMachine.state = "idle" /\ LoginOk(InitialMachine).state = "opening"
    <3>1. InitialMachine \in Machine /\ InitialMachine.state = "idle"
      BY MaxRetriesAssumption DEF InitialMachine, Machine, States
    <3>. QED  BY <3>1 DEF LoginOk, Machine
  <2>2. conn = InitialMachine \/ conn = LoginOk(InitialMachine)
    BY DEF Init
  <2>. QED  BY <2>1, <2>2 DEF Init, closed
<1>2. \A q \in Requests : LedgerStatus[q] = "new"
  BY <1>1 DEF LedgerStatus, Requests
<1>. QED  BY <1>1, <1>2 DEF Ledger!Init, LedgerStatus, closed

LEMMA LedgerStep ==
  TransportInv /\ TransportInv' /\ [Next]_vars
    => [Ledger!Next]_(Ledger!vars)
<1>. SUFFICES ASSUME TransportInv, TransportInv', [Next]_vars
              PROVE  Ledger!Next
  OBVIOUS
<1>1. Accounted
  BY EveryStepSays DEF StepSays
<1>2. StatusShape /\ StatusShape' /\ (Held \subseteq Requests)'
  BY LedgerStatusIs, PTL
<1>3. \A q \in Requests : /\ answers[q] \in {0, 1} /\ answers'[q] \in {0, 1}
                          /\ q \in Held => q <= issued
                          /\ q \in Held' => q <= issued'
                          /\ q <= issued \/ q > issued
                          /\ q <= issued' \/ q > issued'
                          /\ ~(q > issued /\ q <= issued)
                          /\ ~(q > issued' /\ q <= issued')
                          /\ q <= issued => q <= issued'
  <2>1. issued \in Nat /\ issued' \in Nat /\ issued <= issued'
    BY <1>1, TransportAssumption DEF TransportInv, TypeOK, Accounted
  <2>2. \A q \in Requests : answers'[q] \in {0, 1}
    BY DEF TransportInv, AnsweredLast
  <2>3. \A q \in Held' : q <= issued'
    BY DEF TransportInv, OnlyIssued
  <2>. QED  BY <2>1, <2>2, <2>3, HeldFacts DEF Requests
<1>4. ASSUME NEW q \in Requests
      PROVE  /\ \/ LedgerStatus'[q] = LedgerStatus[q]
                \/ <<LedgerStatus[q], LedgerStatus'[q]>> \in Ledger!Moves
                \/ Ledger!Forgets(q)
             /\ LedgerStatus'[q] \in Ledger!Status
  <2>. DEFINE was == LedgerStatus[q]
              is  == LedgerStatus'[q]
  <2>1. /\ was = IF q > issued THEN "new" ELSE IF q \in Held THEN "open"
                 ELSE IF answers[q] = 1 THEN "answered" ELSE "forgotten"
        /\ is = IF q > issued' THEN "new" ELSE IF q \in Held' THEN "open"
                ELSE IF answers'[q] = 1 THEN "answered" ELSE "forgotten"
    BY <1>2 DEF StatusShape
  <2>. HIDE DEF was, is
  <2>2. is \in Ledger!Status
    BY <2>1 DEF Ledger!Status
  <2>3. /\ q \in Held' => q \in Held \/ (q > issued /\ q <= issued')
        /\ answers'[q] = answers[q] \/ (answers[q] = 0 /\ answers'[q] = 1)
        /\ q > issued /\ q <= issued' => q \in Held' \/ answers'[q] = 1
        /\ q \in Held /\ q \notin Held' => answers'[q] = 1 \/ Crowded(q)
    BY <1>1 DEF Accounted
  <2>4. CASE was = "new"
    <3>1. is \in {"new", "open", "answered"}
      BY <1>3, <2>1, <2>3, <2>4
    <3>. QED  BY <2>2, <2>4, <3>1 DEF Ledger!Moves, was, is
  <2>5. CASE was = "open"
    <3>1. is \in {"open", "answered"} \/ (Crowded(q) /\ is = "forgotten")
      BY <1>3, <2>1, <2>3, <2>5
    <3>2. Crowded(q) => Ledger!CrowdedOut(q)
      <4>1. \A r \in Requests : LedgerStatus'[r] = "open" <=> r \in Held'
        BY <1>2, <1>3 DEF StatusShape
      <4>2. {r \in Requests : r > q /\ LedgerStatus'[r] = "open"}
              = {r \in Held' : r > q}
        BY <1>2, <4>1
      <4>3. \A S : Ledger!Cardinality(S) = Cardinality(S)
        BY DEF Cardinality, Ledger!Cardinality
      <4>. QED  BY <4>2, <4>3 DEF Crowded, Ledger!CrowdedOut
    <3>. QED
      BY <2>2, <2>5, <3>1, <3>2 DEF Ledger!Moves, Ledger!Forgets, was, is
  <2>6. CASE was = "answered"
    <3>1. is = "answered"
      BY <1>3, <2>1, <2>3, <2>6
    <3>. QED  BY <2>2, <2>6, <3>1 DEF was, is
  <2>7. CASE was = "forgotten"
    <3>1. is \in {"answered", "forgotten"}
      BY <1>3, <2>1, <2>3, <2>7
    <3>. QED  BY <2>2, <2>7, <3>1 DEF Ledger!Moves, was, is
  <2>. QED  BY <2>1, <2>4, <2>5, <2>6, <2>7
<1>5. LedgerStatus' \in [Requests -> Ledger!Status]
  <2>1. LedgerStatus' = [q \in Requests |-> LedgerStatus'[q]]
    BY DEF LedgerStatus
  <2>. QED  BY <1>4, <2>1
<1>6. closed' \in BOOLEAN /\ (closed => closed')
  BY <1>1 DEF Accounted, closed
<1>7. closed' => \A q \in Requests : LedgerStatus'[q] # "open"
  <2>. SUFFICES ASSUME closed', NEW q \in Requests
                PROVE  LedgerStatus'[q] # "open"
    OBVIOUS
  <2>1. queued' = <<>> /\ inflight' = <<>>
    BY DEF TransportInv, ClosedHoldsNothing
  <2>2. q \notin Held'
    BY <2>1 DEF Held, ToSet
  <2>. QED  BY <1>2, <2>2 DEF StatusShape
<1>. QED
  BY <1>4, <1>5, <1>6, <1>7 DEF Ledger!Next

(* The transport answers every invoke at most once, forgets one only when  *)
(* MAX_TRACKED_INFLIGHT younger ones are on the wire, never one that waits *)
(* in the queue, and answers all it holds when it is closed: it implements *)
(* the request ledger.                                                     *)
THEOREM TransportImplementsLedger == Spec => ImplementsLedger
<1>1. Spec => Ledger!Init
  BY LedgerInit DEF Spec
<1>2. Spec => [][Ledger!Next]_(Ledger!vars)
  BY LedgerStep, TransportAlways, PTL DEF Spec
<1>. QED  BY <1>1, <1>2 DEF ImplementsLedger, Ledger!Spec
=============================================================================
