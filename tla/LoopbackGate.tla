---------------------------- MODULE LoopbackGate ----------------------------
(***************************************************************************)
(* The session bootstrap of core/server/loopback-gate.ts as the HTTP       *)
(* server drives it: a nonce the host hands to the page, redeemable once   *)
(* by POST /login for the session cookie, with a lifetime that starts at   *)
(* the page load and counts only time the worklet was not suspended.       *)
(*                                                                         *)
(* Requests come from the bound origin (the origin rule is not modelled)   *)
(* and auth is on.  A login is two steps: it is admitted, then its body is *)
(* collected, and anything may happen in between.                          *)
(***************************************************************************)
EXTENDS Naturals, FiniteSets

CONSTANTS
  Docs,         \* the documents that may log in
  Ttl,          \* bootstrapTtlMs
  UnloadedTtl,  \* unloadedTtlMs
  Never,        \* null, for a time
  MaxNow        \* bound: last value of the wall clock

ASSUME GateAssumption ==
  /\ IsFiniteSet(Docs)
  /\ Ttl \in Nat \ {0}
  /\ UnloadedTtl \in Nat /\ UnloadedTtl >= Ttl
  /\ Never \notin Nat
  /\ MaxNow \in Nat

VARIABLES
  now,            \* Date.now()
  pausedAt,
  pausedTotal,
  boundAt,        \* running time at bind
  firstPublicAt,  \* running time at the first public request
  nonce,          \* live, spent (bootstrapNonce = null and remembered), expired
  given,          \* the documents the host gave the live nonce to
  posting,        \* documents whose login is admitted, its body on the way
  session,        \* documents that hold the session cookie
  reply,          \* reply[d]: the last answer to a login of d
  redeemers,      \* history: the documents that logged in with the nonce
  ran,            \* history: time not suspended
  boundRan,       \* history: ran at bind
  loadedRan       \* history: ran at the first public request, or Never

clock   == <<now, pausedAt, pausedTotal, ran>>
history == <<redeemers, boundRan, loadedRan>>
vars    == <<clock, boundAt, firstPublicAt, nonce, given, posting, session,
             reply, history>>

Replies == {"none", "ok", "401", "409"}

TypeOK ==
  /\ now \in 0 .. MaxNow /\ ran \in 0 .. MaxNow
  /\ pausedAt \in (0 .. MaxNow) \cup {Never}
  /\ pausedTotal \in 0 .. MaxNow
  /\ {boundAt, firstPublicAt, boundRan, loadedRan}
       \subseteq (0 .. MaxNow) \cup {Never}
  /\ nonce \in {"live", "spent", "expired"}
  /\ {given, posting, session, redeemers} \subseteq SUBSET Docs
  /\ reply \in [Docs -> Replies]

Init ==
  /\ now = 0 /\ ran = 0
  /\ pausedAt = Never /\ pausedTotal = 0
  /\ boundAt = Never /\ firstPublicAt = Never
  /\ nonce = "live"
  /\ given = {} /\ posting = {} /\ session = {}
  /\ reply = [d \in Docs |-> "none"]
  /\ redeemers = {} /\ boundRan = Never /\ loadedRan = Never

-----------------------------------------------------------------------------

RunningNow == (IF pausedAt = Never THEN now ELSE pausedAt) - pausedTotal

(* liveNonce(): what the nonce is once an overdue one has been dropped.    *)
Overdue ==
  /\ boundAt # Never
  /\ IF firstPublicAt # Never THEN RunningNow - firstPublicAt >= Ttl
                              ELSE RunningNow - boundAt >= UnloadedTtl

CheckedNonce == IF nonce = "live" /\ Overdue THEN "expired" ELSE nonce

(* Plausible bugs, as mutants of the definitions below: the first public   *)
(* request does not expire the nonce first, a redeemed nonce stays live, a *)
(* spent one is answered like an unknown one, and a second suspend         *)
(* restarts the pause.                                                     *)
UncheckedAtLoad == nonce

NonceKept(byBootstrap) == CheckedNonce

AnswersSpentAs401(d, byBootstrap, bySession) ==
  IF byBootstrap \/ bySession THEN "ok" ELSE "401"

PausedAgain == now

Bind ==
  /\ boundAt = Never
  /\ boundAt' = RunningNow
  /\ boundRan' = ran
  /\ UNCHANGED <<clock, firstPublicAt, nonce, given, posting, session, reply,
                 redeemers, loadedRan>>

(* credentials(): the host asks for the nonce to inject into a document    *)
(* before that document runs; a reload runs it with the same nonce.        *)
GiveNonce(d) ==
  /\ boundAt # Never
  /\ d \notin posting /\ reply[d] = "none"
  /\ nonce' = CheckedNonce
  /\ given' = IF nonce' = "live" THEN given \cup {d} ELSE given
  /\ UNCHANGED <<clock, boundAt, firstPublicAt, posting, session, reply,
                 history>>

NonceAtLoad == IF firstPublicAt = Never THEN CheckedNonce ELSE nonce

(* admitRequest(headers, 'public'): the first one starts the lifetime, if  *)
(* the nonce has not expired unloaded.                                     *)
AdmitPublic ==
  /\ boundAt # Never
  /\ nonce' = NonceAtLoad
  /\ firstPublicAt' = IF firstPublicAt = Never /\ nonce' = "live"
                        THEN RunningNow ELSE firstPublicAt
  /\ loadedRan' = IF loadedRan = Never THEN ran ELSE loadedRan

LoadPage ==
  /\ AdmitPublic
  /\ UNCHANGED <<clock, boundAt, given, posting, session, reply, redeemers,
                 boundRan>>

PostLogin(d) ==
  /\ d \notin posting
  /\ AdmitPublic
  /\ posting' = posting \cup {d}
  /\ UNCHANGED <<clock, boundAt, given, session, reply, redeemers, boundRan>>

NonceAfter(byBootstrap) == IF byBootstrap THEN "spent" ELSE CheckedNonce

Verdict(d, byBootstrap, bySession) ==
  IF byBootstrap \/ bySession                    THEN "ok"
  ELSE IF d \in given /\ CheckedNonce = "spent" THEN "409"
  ELSE "401"

(* login(), once the body is here.  A document presents the nonce it was   *)
(* given, and its cookie if it has one.                                    *)
Login(d) ==
  LET byBootstrap == d \in given /\ CheckedNonce = "live"
      bySession   == d \in session
  IN
  /\ d \in posting
  /\ posting' = posting \ {d}
  /\ nonce' = NonceAfter(byBootstrap)
  /\ redeemers' = IF byBootstrap THEN redeemers \cup {d} ELSE redeemers
  /\ session' = IF byBootstrap \/ bySession THEN session \cup {d} ELSE session
  /\ reply' = [reply EXCEPT ![d] = Verdict(d, byBootstrap, bySession)]
  /\ UNCHANGED <<clock, boundAt, firstPublicAt, given, boundRan, loadedRan>>

(* The body is refused or its connection lost: the gate is not asked.      *)
LoginAborted(d) ==
  /\ d \in posting
  /\ posting' = posting \ {d}
  /\ UNCHANGED <<clock, boundAt, firstPublicAt, nonce, given, session, reply,
                 history>>

PausedSince == IF pausedAt = Never THEN now ELSE pausedAt

PausedTotalAtResume == pausedTotal + (now - pausedAt)

(* pauseBootstrapClock and resumeBootstrapClock, both idempotent.          *)
Pause ==
  /\ pausedAt' = PausedSince
  /\ UNCHANGED <<now, pausedTotal, ran, boundAt, firstPublicAt, nonce, given,
                 posting, session, reply, history>>

Resume ==
  /\ pausedAt # Never
  /\ pausedTotal' = PausedTotalAtResume
  /\ pausedAt' = Never
  /\ UNCHANGED <<now, ran, boundAt, firstPublicAt, nonce, given, posting,
                 session, reply, history>>

Tick ==
  /\ now < MaxNow
  /\ now' = now + 1
  /\ ran' = IF pausedAt = Never THEN ran + 1 ELSE ran
  /\ UNCHANGED <<pausedAt, pausedTotal, boundAt, firstPublicAt, nonce, given,
                 posting, session, reply, history>>

Next ==
  \/ Bind \/ LoadPage \/ Pause \/ Resume \/ Tick
  \/ \E d \in Docs :
       GiveNonce(d) \/ PostLogin(d) \/ Login(d) \/ LoginAborted(d)

Spec == Init /\ [][Next]_vars

-----------------------------------------------------------------------------
(* Properties.                                                             *)

(* Time spent suspended never counts against the page, however often and   *)
(* in whatever order the host reports suspends and resumes.                *)
SuspendIsFree == RunningNow = ran

(* The nonce opens the session for one document only, also when several    *)
(* logins carrying it are in flight at once.                               *)
RedeemedOnce == Cardinality(redeemers) <= 1

(* The inductive invariant, in parts.  The clock never runs backwards.     *)
ClockInv ==
  /\ SuspendIsFree
  /\ pausedAt # Never => pausedAt <= now
  /\ pausedTotal <= (IF pausedAt = Never THEN now ELSE pausedAt)

(* The lifetime starts once, at the first public request after the bind,   *)
(* and only for a nonce that had not expired by then.                      *)
LifetimeInv ==
  /\ boundRan = boundAt
  /\ boundAt = Never => posting = {} /\ given = {} /\ loadedRan = Never
  /\ posting # {} => loadedRan # Never
  /\ nonce = "live" /\ loadedRan # Never => firstPublicAt # Never
  /\ firstPublicAt # Never =>
       /\ boundAt # Never /\ firstPublicAt = loadedRan
       /\ firstPublicAt - boundAt < UnloadedTtl

(* Redeeming spends the nonce, and 401 with the nonce means it expired.    *)
NonceInv ==
  /\ redeemers # {} => nonce = "spent"
  /\ \A d, e \in redeemers : d = e
  /\ \A d \in given : reply[d] = "401" => nonce = "expired"

Inv == TypeOK /\ ClockInv /\ LifetimeInv /\ NonceInv

(* The nonce is redeemed only within its lifetime: the page was loaded     *)
(* before the unloaded lifetime ran out, and the login completed before    *)
(* the lifetime counted from that load did.  A late login is no page load. *)
RedeemedInTime ==
  [][redeemers' # redeemers =>
       /\ loadedRan - boundRan < UnloadedTtl
       /\ ran - loadedRan < Ttl]_vars

(* A document that lost the race for the nonce is told 409, so that it     *)
(* retries; 401 with the nonce means that nobody redeemed it.              *)
LoserIsToldToRetry ==
  \A d \in given : reply[d] = "401" => redeemers = {}
=============================================================================
