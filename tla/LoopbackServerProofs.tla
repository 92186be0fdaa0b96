------------------------- MODULE LoopbackServerProofs -------------------------
(***************************************************************************)
(* The loopback server, for any documents, lifetimes and capacities: at    *)
(* the gate suspended time is free and the nonce is redeemed once and in   *)
(* time; every page that was served was let in, and no launch after the    *)
(* first hands out a nonce; the log ring is a list of the latest entries.  *)
(***************************************************************************)
EXTENDS LoopbackServer, FiniteSetTheorems, WellFoundedInduction,
        SequenceTheorems, TLAPS

-----------------------------------------------------------------------------
(* The gate.                                                               *)

(* The clock starts at zero with a live nonce nobody was given.            *)
LEMMA InitInv == Init => Inv
<1>. SUFFICES ASSUME Init PROVE Inv
  OBVIOUS
<1>1. 0 \in 0 .. MaxNow
  BY GateAssumption
<1>2. TypeOK
  BY <1>1 DEF Init, TypeOK, Replies
<1>3. ClockInv
  BY GateAssumption DEF Init, ClockInv, SuspendIsFree, RunningNow
<1>4. LifetimeInv
  BY DEF Init, LifetimeInv
<1>5. NonceInv
  BY DEF Init, NonceInv
<1>. QED  BY <1>2, <1>3, <1>4, <1>5 DEF Inv

(* The running time is a time.                                             *)
LEMMA Running ==
  ASSUME Inv
  PROVE  RunningNow = ran /\ ran \in Nat /\ ran <= now /\ now \in Nat
<1>. QED
  BY GateAssumption DEF Inv, TypeOK, ClockInv, SuspendIsFree, RunningNow

(* What admitting a public request does to nonce and lifetime.             *)
LEMMA AdmitInv ==
  ASSUME Inv, AdmitPublic, UNCHANGED <<clock, boundAt, boundRan, given, reply,
                                       redeemers>>
  PROVE  /\ loadedRan' # Never
         /\ loadedRan' \in (0 .. MaxNow) \cup {Never}
         /\ firstPublicAt' \in (0 .. MaxNow) \cup {Never}
         /\ nonce' \in {"live", "spent", "expired"}
         /\ nonce' = "live" => firstPublicAt' # Never
         /\ firstPublicAt' # Never =>
              /\ firstPublicAt' = loadedRan'
              /\ firstPublicAt' - boundAt < UnloadedTtl
         /\ nonce = "spent" => nonce' = "spent"
         /\ nonce = "expired" => nonce' = "expired"
<1>1. RunningNow = ran /\ ran \in Nat /\ ran \in 0 .. MaxNow
  BY Running DEF Inv, TypeOK
<1>2. boundAt # Never /\ boundAt \in Nat
  BY GateAssumption DEF AdmitPublic, Inv, TypeOK
<1>3. /\ nonce \in {"live", "spent", "expired"}
      /\ loadedRan \in (0 .. MaxNow) \cup {Never}
      /\ firstPublicAt \in (0 .. MaxNow) \cup {Never}
  BY DEF Inv, TypeOK
<1>4. CASE firstPublicAt # Never
  BY <1>1, <1>2, <1>3, <1>4, GateAssumption
     DEF AdmitPublic, NonceAtLoad, Inv, LifetimeInv
<1>5. CASE firstPublicAt = Never
  <2>1. nonce' = CheckedNonce
         /\ firstPublicAt' = (IF nonce' = "live" THEN ran ELSE Never)
         /\ loadedRan' = (IF loadedRan = Never THEN ran ELSE loadedRan)
    BY <1>1, <1>5 DEF AdmitPublic, NonceAtLoad
  <2>2. nonce' = "live" => nonce = "live" /\ ran - boundAt < UnloadedTtl
    BY <1>1, <1>2, <1>5, <2>1, GateAssumption DEF CheckedNonce, Overdue
  <2>3. nonce = "live" => loadedRan = Never
    BY <1>5 DEF Inv, LifetimeInv
  <2>4. (nonce = "spent" => nonce' = "spent")
         /\ (nonce = "expired" => nonce' = "expired")
         /\ nonce' \in {"live", "spent", "expired"}
    BY <1>3, <2>1 DEF CheckedNonce
  <2>. QED  BY <1>1, <1>3, <2>1, <2>2, <2>3, <2>4, GateAssumption
<1>. QED  BY <1>4, <1>5

(* A public request keeps the invariant, whoever posts meanwhile.          *)
LEMMA PublicInv ==
  ASSUME Inv, AdmitPublic, posting' \subseteq Docs,
         UNCHANGED <<clock, boundAt, boundRan, given, session, reply,
                     redeemers>>
  PROVE  Inv'
<1>1. /\ loadedRan' # Never
      /\ loadedRan' \in (0 .. MaxNow) \cup {Never}
      /\ firstPublicAt' \in (0 .. MaxNow) \cup {Never}
      /\ nonce' \in {"live", "spent", "expired"}
      /\ nonce' = "live" => firstPublicAt' # Never
      /\ firstPublicAt' # Never =>
           /\ firstPublicAt' = loadedRan'
           /\ firstPublicAt' - boundAt < UnloadedTtl
      /\ nonce = "spent" => nonce' = "spent"
      /\ nonce = "expired" => nonce' = "expired"
  BY AdmitInv
<1>2. boundAt # Never
  BY DEF AdmitPublic
<1>3. TypeOK'
  BY <1>1 DEF Inv, TypeOK, clock
<1>4. ClockInv'
  BY DEF Inv, ClockInv, SuspendIsFree, RunningNow, clock
<1>5. LifetimeInv'
  BY <1>1, <1>2 DEF Inv, LifetimeInv
<1>6. NonceInv'
  BY <1>1 DEF Inv, NonceInv
<1>. QED  BY <1>3, <1>4, <1>5, <1>6 DEF Inv

(* A login: redeemed only while the nonce is live, and then it is spent.   *)
LEMMA LoginInv ==
  ASSUME Inv, NEW d \in Docs, Login(d)
  PROVE  Inv'
<1>. DEFINE byBootstrap == d \in given /\ CheckedNonce = "live"
            bySession   == d \in session
<1>1. /\ UNCHANGED <<clock, boundAt, firstPublicAt, given, boundRan, loadedRan>>
      /\ posting' = posting \ {d} /\ d \in posting
      /\ nonce' = NonceAfter(byBootstrap)
      /\ redeemers' = (IF byBootstrap THEN redeemers \cup {d} ELSE redeemers)
      /\ session' = (IF byBootstrap \/ bySession THEN session \cup {d}
                                                 ELSE session)
      /\ reply' = [reply EXCEPT ![d] = Verdict(d, byBootstrap, bySession)]
  BY DEF Login
<1>2. CheckedNonce \in {"live", "spent", "expired"}
       /\ (CheckedNonce = "live" => nonce = "live")
       /\ (nonce # "live" => CheckedNonce = nonce)
  BY DEF CheckedNonce, Inv, TypeOK
<1>3. Verdict(d, byBootstrap, bySession) \in Replies
       /\ (d \in given /\ Verdict(d, byBootstrap, bySession) = "401"
             => CheckedNonce = "expired")
  BY <1>2 DEF Verdict, Replies
<1>4. nonce' = (IF byBootstrap THEN "spent" ELSE CheckedNonce)
  BY <1>1 DEF NonceAfter
<1>5. TypeOK'
  BY <1>1, <1>2, <1>3, <1>4 DEF Inv, TypeOK, clock
<1>6. ClockInv'
  BY <1>1 DEF Inv, ClockInv, SuspendIsFree, RunningNow, clock
<1>7. LifetimeInv'
  BY <1>1, <1>2, <1>4 DEF Inv, LifetimeInv
<1>8. NonceInv'
  <2>1. byBootstrap => redeemers = {}
    BY <1>2 DEF Inv, NonceInv
  <2>2. redeemers' # {} => nonce' = "spent"
    BY <1>1, <1>2, <1>4 DEF Inv, NonceInv
  <2>3. \A x, y \in redeemers' : x = y
    BY <1>1, <2>1 DEF Inv, NonceInv
  <2>4. ASSUME NEW e \in given', reply'[e] = "401" PROVE nonce' = "expired"
    <3>1. CASE e = d
      BY <1>1, <1>3, <1>4, <2>4, <3>1 DEF Verdict, Inv, TypeOK
    <3>2. CASE e # d
      <4>1. nonce = "expired"
        BY <1>1, <2>4, <3>2 DEF Inv, TypeOK, NonceInv
      <4>. QED  BY <1>2, <1>4, <4>1
    <3>. QED  BY <3>1, <3>2
  <2>. QED  BY <2>2, <2>3, <2>4 DEF NonceInv
<1>. QED  BY <1>5, <1>6, <1>7, <1>8 DEF Inv

(* The steps of the clock.                                                 *)
LEMMA ClockStepInv ==
  ASSUME Inv, Pause \/ Resume \/ Tick
  PROVE  Inv'
<1>. USE GateAssumption
<1>1. UNCHANGED <<boundAt, firstPublicAt, nonce, given, posting, session,
                  reply, history>>
  BY DEF Pause, Resume, Tick
<1>2. ClockInv' /\ now' \in 0 .. MaxNow /\ ran' \in 0 .. MaxNow
       /\ pausedAt' \in (0 .. MaxNow) \cup {Never}
       /\ pausedTotal' \in 0 .. MaxNow
  <2>. DEFINE Goal == /\ ClockInv'
                      /\ now' \in 0 .. MaxNow /\ ran' \in 0 .. MaxNow
                      /\ pausedAt' \in (0 .. MaxNow) \cup {Never}
                      /\ pausedTotal' \in 0 .. MaxNow
  <2>1. CASE Pause
    BY <2>1
       DEF Pause, PausedSince, Inv, TypeOK, ClockInv, SuspendIsFree, RunningNow
  <2>2. CASE Resume
    BY <2>2
       DEF Resume, PausedTotalAtResume, Inv, TypeOK, ClockInv, SuspendIsFree,
           RunningNow
  <2>3. CASE Tick
    BY <2>3 DEF Tick, Inv, TypeOK, ClockInv, SuspendIsFree, RunningNow
  <2>. QED  BY <2>1, <2>2, <2>3
<1>3. TypeOK'
  BY <1>1, <1>2 DEF Inv, TypeOK, history
<1>4. LifetimeInv' /\ NonceInv'
  BY <1>1 DEF Inv, LifetimeInv, NonceInv, history
<1>. QED  BY <1>2, <1>3, <1>4 DEF Inv

(* Every step keeps the invariant.                                         *)
LEMMA NextInv == Inv /\ [Next]_vars => Inv'
<1>. SUFFICES ASSUME Inv, [Next]_vars PROVE Inv'
  OBVIOUS
<1>1. CASE Bind
  <2>1. ran \in 0 .. MaxNow /\ RunningNow = ran
    BY Running DEF Inv, TypeOK
  <2>2. firstPublicAt = Never /\ loadedRan = Never /\ posting = {}
    BY <1>1 DEF Bind, Inv, LifetimeInv
  <2>3. TypeOK'
    BY <1>1, <2>1 DEF Bind, Inv, TypeOK, clock
  <2>4. ClockInv'
    BY <1>1 DEF Bind, Inv, ClockInv, SuspendIsFree, RunningNow, clock
  <2>5. LifetimeInv'
    BY <1>1, <2>1, <2>2, GateAssumption DEF Bind, Inv, LifetimeInv
  <2>6. NonceInv'
    BY <1>1 DEF Bind, Inv, NonceInv
  <2>. QED  BY <2>3, <2>4, <2>5, <2>6 DEF Inv
<1>2. ASSUME NEW d \in Docs, GiveNonce(d) PROVE Inv'
  <2>1. UNCHANGED <<clock, boundAt, firstPublicAt, posting, session, reply,
                    history>>
         /\ boundAt # Never /\ reply[d] = "none"
         /\ nonce' = CheckedNonce
         /\ given' \subseteq given \cup {d}
    BY <1>2 DEF GiveNonce
  <2>2. nonce' \in {"live", "spent", "expired"}
         /\ (nonce' = "live" => nonce = "live")
         /\ (nonce # "live" => nonce' = nonce)
    BY <2>1 DEF CheckedNonce, Inv, TypeOK
  <2>3. TypeOK'
    BY <2>1, <2>2 DEF Inv, TypeOK, clock, history
  <2>4. ClockInv'
    BY <2>1 DEF Inv, ClockInv, SuspendIsFree, RunningNow, clock
  <2>5. LifetimeInv'
    BY <2>1, <2>2 DEF Inv, LifetimeInv, history
  <2>6. NonceInv'
    BY <2>1, <2>2 DEF Inv, NonceInv, history
  <2>. QED  BY <2>3, <2>4, <2>5, <2>6 DEF Inv
<1>3. CASE LoadPage
  BY <1>3, PublicInv DEF LoadPage, Inv, TypeOK
<1>4. ASSUME NEW d \in Docs, PostLogin(d) PROVE Inv'
  BY <1>4, PublicInv DEF PostLogin, Inv, TypeOK
<1>5. ASSUME NEW d \in Docs, Login(d) PROVE Inv'
  BY <1>5, LoginInv
<1>6. ASSUME NEW d \in Docs, LoginAborted(d) PROVE Inv'
  <2>1. posting' \subseteq posting
         /\ UNCHANGED <<clock, boundAt, firstPublicAt, nonce, given, session,
                        reply, history>>
    BY <1>6 DEF LoginAborted
  <2>2. TypeOK'
    BY <2>1 DEF Inv, TypeOK, clock, history
  <2>3. ClockInv'
    BY <2>1 DEF Inv, ClockInv, SuspendIsFree, RunningNow, clock
  <2>4. LifetimeInv' /\ NonceInv'
    BY <2>1 DEF Inv, LifetimeInv, NonceInv, history
  <2>. QED  BY <2>2, <2>3, <2>4 DEF Inv
<1>7. CASE Pause \/ Resume \/ Tick
  BY <1>7, ClockStepInv
<1>8. CASE UNCHANGED vars
  BY <1>8
     DEF vars, clock, history, Inv, TypeOK, ClockInv, LifetimeInv, NonceInv,
         SuspendIsFree, RunningNow
<1>. QED
  BY <1>1, <1>2, <1>3, <1>4, <1>5, <1>6, <1>7, <1>8 DEF Next

(* The running clock of the gate is the time not suspended, the lifetime   *)
(* starts once, and a redeemed nonce is spent.                             *)
THEOREM GateInvariant == Spec => []Inv
  BY InitInv, NextInv, PTL DEF Spec

(* The nonce opens the session for one document only, however many logins  *)
(* carry it at the same time.                                              *)
THEOREM NonceRedeemedOnce == Spec => []RedeemedOnce
<1>1. Inv => RedeemedOnce
  <2>. SUFFICES ASSUME Inv PROVE Cardinality(redeemers) <= 1
    BY DEF RedeemedOnce
  <2>1. CASE redeemers = {}
    BY <2>1, FS_EmptySet
  <2>2. CASE redeemers # {}
    <3>1. PICK d : redeemers = {d}
      BY <2>2 DEF Inv, NonceInv
    <3>. QED  BY <3>1, FS_Singleton
  <2>. QED  BY <2>1, <2>2
<1>. QED  BY <1>1, GateInvariant, PTL

(* A document that lost the race for the nonce is never told 401.          *)
THEOREM LoserRetries == Spec => []LoserIsToldToRetry
<1>1. Inv => LoserIsToldToRetry
  BY DEF Inv, NonceInv, LoserIsToldToRetry
<1>. QED  BY <1>1, GateInvariant, PTL

(* The nonce is redeemed only within its lifetime, counted without the     *)
(* time the worklet was suspended.                                         *)
THEOREM NonceRedeemedInTime == Spec => RedeemedInTime
<1>1. Inv /\ [Next]_vars =>
        [redeemers' # redeemers =>
           /\ loadedRan - boundRan < UnloadedTtl
           /\ ran - loadedRan < Ttl]_vars
  <2>. SUFFICES ASSUME Inv, Next, redeemers' # redeemers
                PROVE  /\ loadedRan - boundRan < UnloadedTtl
                       /\ ran - loadedRan < Ttl
    OBVIOUS
  <2>1. PICK d \in Docs : Login(d)
    BY DEF Next, Bind, LoadPage, Pause, Resume, Tick, GiveNonce, PostLogin,
           LoginAborted, history
  <2>2. CheckedNonce = "live" /\ posting # {}
    BY <2>1 DEF Login
  <2>3. nonce = "live" /\ ~Overdue
    BY <2>2 DEF CheckedNonce, Inv, TypeOK
  <2>4. boundAt # Never /\ firstPublicAt # Never
         /\ firstPublicAt = loadedRan /\ boundRan = boundAt
         /\ firstPublicAt - boundAt < UnloadedTtl
    BY <2>2, <2>3 DEF Inv, LifetimeInv
  <2>5. RunningNow = ran /\ ran \in Nat /\ firstPublicAt \in Nat
    BY <2>4, Running, GateAssumption DEF Inv, TypeOK
  <2>6. ran - firstPublicAt < Ttl
    BY <2>3, <2>4, <2>5, GateAssumption DEF Overdue
  <2>. QED  BY <2>4, <2>6
<1>. QED  BY <1>1, GateInvariant, PTL DEF Spec, RedeemedInTime

-----------------------------------------------------------------------------
(* Files and media: the whole server, with its gate and its logs.          *)

(* To the gate, a public request is a page load, and nothing else that the *)
(* server does touches it: the server's gate is the gate of LoopbackGate.  *)
LEMMA GateUnderServer ==
  [GateStep \/ ServerStep \/ LogStep]_allVars => [Next]_vars
<1>. SUFFICES ASSUME GateStep \/ ServerStep \/ LogStep PROVE [Next]_vars
  BY DEF allVars
<1>1. CASE GateStep
  BY <1>1 DEF GateStep, Next
<1>2. CASE LogStep
  BY <1>2 DEF LogStep
<1>3. CASE ServerStep
  <2>1. ASSUME NEW d \in Pages, NEW h \in Headers, NEW t \in Targets,
               NEW navigates \in BOOLEAN, NEW fresh \in BOOLEAN,
               GetPublic(d, h, t, navigates, fresh)
        PROVE  Next
    BY <2>1 DEF GetPublic, LoadPage, Next
  <2>2. ASSUME UNCHANGED gateVars
        PROVE  UNCHANGED vars
    BY <2>2 DEF gateVars, vars
  <2>3. ASSUME NEW d \in Pages,
               \/ StreamEnds(d) \/ StreamFails(d) \/ ClientGone(d)
               \/ SourceDestroyed(d) \/ RouteWrites(d) \/ RouteReturns(d)
               \/ RouteFails(d)
        PROVE  UNCHANGED gateVars
    BY <2>3 DEF StreamEnds, StreamFails, ClientGone, SourceDestroyed,
                RouteWrites, RouteReturns, RouteFails
  <2>4. ASSUME NEW d \in Pages, NEW h \in Headers,
               \/ \E mount \in {MountOf(t) : t \in Targets} :
                    Refused(d, h, mount)
               \/ GetShared(d, h)
               \/ \E m \in Media, readable \in BOOLEAN :
                    GetMedia(d, h, m, readable)
               \/ RunRoute(d, h)
        PROVE  UNCHANGED gateVars
    BY <2>4 DEF Refused, GetShared, GetMedia, RunRoute
  <2>5. ASSUME \/ MountShared
               \/ \E p \in {"apart", "inside"} : RootMoves(p)
               \/ \E k \in DOMAIN Picks : MediaPicked(k)
        PROVE  UNCHANGED gateVars
    BY <2>5 DEF MountShared, RootMoves, MediaPicked
  <2> QED
    BY <1>3, <2>1, <2>2, <2>3, <2>4, <2>5 DEF ServerStep, ServerNext
<1> QED
  BY <1>1, <1>2, <1>3

(* What holds of the gate on its own holds of the server's.                *)
THEOREM ServerKeepsGate == ServerSpec => Spec
  BY GateUnderServer, PTL DEF ServerSpec, Start, Spec

(* The inductive invariant of files and media, in parts.  A stream has its *)
(* headers sent and its client there; a source that is closed has lost it. *)
StreamsInv ==
  \A d \in Pages :
    /\ sending[d] # NoFile <=> conn[d] \in {"stream", "closing"}
    /\ conn[d] = "stream" => res[d] = "headed"
    /\ conn[d] = "closing" => res[d] = "gone"

RootsInv == shared /\ ~moved => cached \in {"absent", place}

(* The plugin's map holds the last picks, up to the k-th.                  *)
UpTo(k) ==
  /\ Len(mounted) <= k
  /\ \A i \in 1 .. Len(mounted) : mounted[i] = Picks[k - Len(mounted) + i]

MountsInv ==
  /\ fileMounts = Range(mounted)
  /\ Len(mounted) <= MediaCap
  /\ mounted # <<>> => \E k \in DOMAIN Picks : UpTo(k)

FilesInv == ServerTypeOK /\ StreamsInv /\ RootsInv /\ MountsInv

LEMMA FilesNamed ==
  /\ Media \cap ({NoFile, Secret, "nested", "shared"} \cup WebFiles) = {}
  /\ NoFile \notin {Secret} \cup WebFiles
  BY ServerAssumption DEF Media, NoFile, Secret, WebFiles

(* What a page that may stream is answered.                                *)
LEMMA AnsweredInv ==
  ASSUME ServerTypeOK, StreamsInv, NEW d \in Pages,
         NEW f \in {NoFile, Secret} \cup WebFiles \cup Media, Answered(d, f)
  PROVE  /\ StreamsInv'
         /\ conn' \in [Pages -> {"idle", "route", "stream", "closing"}]
         /\ res' \in [Pages -> {"none", "open", "headed", "ended", "cut",
                                "gone"}]
         /\ sending' \in [Pages -> {NoFile, Secret} \cup WebFiles \cup Media]
<1>1. /\ conn' \in [Pages -> {"idle", "route", "stream", "closing"}]
      /\ res' \in [Pages -> {"none", "open", "headed", "ended", "cut", "gone"}]
      /\ sending' \in [Pages -> {NoFile, Secret} \cup WebFiles \cup Media]
  BY DEF Answered, ServerTypeOK
<1>2. StreamsInv'
  BY DEF Answered, ServerTypeOK, StreamsInv
<1> QED
  BY <1>1, <1>2

LEMMA PublicFiles ==
  ASSUME NEW t \in Targets, NEW navigates \in BOOLEAN
  PROVE  PublicFile(t, navigates) \in {NoFile, Secret} \cup WebFiles
<1>1. FoundInWebRoot(t) \in {NoFile, Secret} \cup WebFiles
  BY DEF FoundInWebRoot
<1> QED
  BY <1>1 DEF PublicFile, WebFiles

(* The connections' own steps.                                             *)
ConnectionStep(d) ==
  \/ StreamEnds(d) \/ StreamFails(d) \/ ClientGone(d) \/ SourceDestroyed(d)
  \/ RouteWrites(d) \/ RouteReturns(d) \/ RouteFails(d)
  \/ \E h \in Headers : RunRoute(d, h)

LEMMA ConnectionInv ==
  ASSUME FilesInv, NEW d \in Pages, ConnectionStep(d)
  PROVE  FilesInv'
<1>0. UNCHANGED <<roots, mounts>>
  BY DEF ConnectionStep, StreamEnds, StreamFails, ClientGone, SourceDestroyed,
         RouteWrites, RouteReturns, RouteFails, RunRoute
<1>1. /\ RootsInv' /\ MountsInv'
      /\ {shared, moved}' \subseteq BOOLEAN
      /\ (place \in {"absent", "apart", "inside"})'
      /\ (cached \in {"absent", "apart", "inside"})'
      /\ (fileMounts \subseteq Media)' /\ (mounted \in Seq(Media))'
  BY <1>0 DEF FilesInv, ServerTypeOK, RootsInv, MountsInv, UpTo, roots, mounts
<1>2. /\ StreamsInv'
      /\ conn' \in [Pages -> {"idle", "route", "stream", "closing"}]
      /\ res' \in [Pages -> {"none", "open", "headed", "ended", "cut", "gone"}]
      /\ sending' \in [Pages -> {NoFile, Secret} \cup WebFiles \cup Media]
  <2>0. /\ StreamsInv
        /\ conn \in [Pages -> {"idle", "route", "stream", "closing"}]
        /\ res \in [Pages -> {"none", "open", "headed", "ended", "cut", "gone"}]
        /\ sending \in [Pages -> {NoFile, Secret} \cup WebFiles \cup Media]
    BY DEF FilesInv, ServerTypeOK
  <2>1. CASE StreamEnds(d) \/ StreamFails(d)
    BY <2>0, <2>1 DEF StreamEnds, StreamFails, StreamsInv
  <2>2. CASE ClientGone(d)
    BY <2>0, <2>2 DEF ClientGone, StreamsInv
  <2>3. CASE SourceDestroyed(d)
    BY <2>0, <2>3 DEF SourceDestroyed, StreamsInv
  <2>4. CASE RouteWrites(d) \/ RouteReturns(d)
    BY <2>0, <2>4 DEF RouteWrites, RouteReturns, StreamsInv
  <2>5. CASE RouteFails(d)
    <3>1. res'[d] \in {"ended", "cut", "gone"}
      BY <2>0, <2>5 DEF RouteFails, ResponseEnded
    <3>2. /\ conn' = [conn EXCEPT ![d] = "idle"] /\ sending' = sending
          /\ res' = [res EXCEPT ![d] = res'[d]] /\ conn[d] = "route"
      BY <2>0, <2>5 DEF RouteFails
    <3> QED
      BY <2>0, <3>1, <3>2 DEF StreamsInv
  <2>6. CASE \E h \in Headers : RunRoute(d, h)
    BY <2>0, <2>6 DEF RunRoute, StreamsInv
  <2> QED
    BY <2>1, <2>2, <2>3, <2>4, <2>5, <2>6 DEF ConnectionStep
<1> QED
  BY <1>1, <1>2 DEF FilesInv, ServerTypeOK

(* The plugin mounts the next pick, and unmounts its oldest if need be.    *)
LEMMA PickedInv ==
  ASSUME FilesInv, NEW k \in DOMAIN Picks, MediaPicked(k)
  PROVE  MountsInv' /\ (fileMounts \subseteq Media)' /\ (mounted \in Seq(Media))'
<1> DEFINE L == Len(mounted)
           all == Append(mounted, Picks[k])
<1>0. /\ mounted \in Seq(Media) /\ L \in Nat /\ MediaCap \in Nat \ {0}
      /\ Picks \in Seq(Media) /\ k \in 1 .. Len(Picks) /\ Len(Picks) \in Nat
      /\ Picks[k] \in Media
  BY ServerAssumption DEF FilesInv, ServerTypeOK, Media, Range
<1>1. /\ all \in Seq(Media) /\ Len(all) = L + 1
      /\ \A i \in 1 .. L : all[i] = mounted[i]
      /\ all[L + 1] = Picks[k]
  BY <1>0
<1>2. L <= k - 1 /\ \A i \in 1 .. L : mounted[i] = Picks[k - 1 - L + i]
  <2>1. CASE mounted = <<>>
    BY <1>0, <2>1
  <2>2. CASE mounted # <<>>
    <3>1. PICK j \in DOMAIN Picks : UpTo(j)
      BY <2>2 DEF FilesInv, MountsInv
    <3>2. L \in 1 .. L /\ mounted[L] = Picks[k - 1] /\ k # 1
      BY <1>0, <2>2 DEF MediaPicked, Last
    <3>3. mounted[L] = Picks[j]
      BY <1>0, <3>1, <3>2 DEF UpTo
    <3>4. j = k - 1
      <4>1. k - 1 \in DOMAIN Picks
        BY <1>0, <3>2
      <4>2. \A a, b \in DOMAIN Picks : Picks[a] = Picks[b] => a = b
        BY ServerAssumption DEF IsInjective
      <4> QED
        BY <3>2, <3>3, <4>1, <4>2
    <3> QED
      BY <1>0, <3>1, <3>4 DEF UpTo
  <2> QED
    BY <2>1, <2>2
<1>3. \A i \in 1 .. L + 1 : all[i] = Picks[k - 1 - L + i]
  <2> HIDE DEF all, L
  <2> SUFFICES ASSUME NEW i \in 1 .. L + 1
               PROVE  all[i] = Picks[k - 1 - L + i]
    OBVIOUS
  <2>1. CASE i \in 1 .. L
    BY <1>1, <1>2, <2>1
  <2>2. CASE i = L + 1
    <3>1. k - 1 - L + i = k
      BY <1>0, <2>2
    <3> QED
      BY <1>1, <2>2, <3>1
  <2> QED
    BY <1>0, <2>1, <2>2
<1>4. /\ fileMounts = {mounted[i] : i \in 1 .. L} /\ L <= MediaCap
  BY <1>0 DEF FilesInv, MountsInv, Range
<1>5. CASE Len(all) > MediaCap
  <2>1. /\ mounted' = Tail(all) /\ L = MediaCap
        /\ fileMounts' = (fileMounts \ {Head(all)}) \cup {Picks[k]}
    BY <1>0, <1>1, <1>4, <1>5 DEF MediaPicked, Unmounted
  <2>2. /\ mounted' \in Seq(Media) /\ Len(mounted') = L
        /\ \A i \in 1 .. L : mounted'[i] = all[i + 1]
        /\ Head(all) = mounted[1] /\ 1 \in 1 .. L
    BY <1>0, <1>1, <2>1
  <2>3. \A i \in 1 .. L : mounted'[i] = Picks[k - L + i]
    <3> SUFFICES ASSUME NEW i \in 1 .. L
                 PROVE  mounted'[i] = Picks[k - L + i]
      OBVIOUS
    <3>1. i + 1 \in 1 .. L + 1 /\ k - 1 - L + (i + 1) = k - L + i
      BY <1>0
    <3> QED
      BY <1>3, <2>2, <3>1
  <2>4. fileMounts' = {mounted'[i] : i \in 1 .. L}
    <3>1. \A a, b \in 1 .. L : mounted[a] = mounted[b] => a = b
      <4> SUFFICES ASSUME NEW a \in 1 .. L, NEW b \in 1 .. L,
                          mounted[a] = mounted[b]
                   PROVE  a = b
        OBVIOUS
      <4>1. k - 1 - L + a \in DOMAIN Picks /\ k - 1 - L + b \in DOMAIN Picks
        BY <1>0, <1>2
      <4>2. k - 1 - L + a = k - 1 - L + b
        BY <1>2, <4>1, ServerAssumption DEF IsInjective
      <4> QED
        BY <1>0, <4>2
    <3>2. \A i \in 2 .. L : i \in 1 .. L /\ mounted[i] # mounted[1]
      BY <1>0, <2>2, <3>1
    <3>3. \A i \in 1 .. L : \/ i = L /\ mounted'[i] = Picks[k]
                            \/ i + 1 \in 2 .. L /\ mounted'[i] = mounted[i + 1]
      <4> SUFFICES ASSUME NEW i \in 1 .. L, i # L
                   PROVE  i + 1 \in 2 .. L /\ mounted'[i] = mounted[i + 1]
        BY <1>0, <1>1, <2>2
      <4>1. i + 1 \in 2 .. L /\ i + 1 \in 1 .. L
        BY <1>0
      <4> QED
        BY <1>1, <2>2, <4>1
    <3>4. fileMounts \ {mounted[1]} = {mounted[i] : i \in 2 .. L}
      BY <1>0, <1>4, <3>2
    <3>5. \A i \in 2 .. L : i - 1 \in 1 .. L /\ i - 1 # L /\ (i - 1) + 1 = i
      BY <1>0
    <3>6. \A i \in 2 .. L : mounted'[i - 1] = mounted[i]
      BY <3>3, <3>5
    <3>7. L \in 1 .. L /\ mounted'[L] = Picks[k]
      <4>1. L \in 1 .. L /\ L + 1 \notin 2 .. L
        BY <1>0, <2>2
      <4> QED
        BY <3>3, <4>1
    <3> QED
      BY <2>1, <2>2, <3>3, <3>4, <3>5, <3>6, <3>7
  <2>5. UpTo(k)'
    BY <1>0, <1>2, <2>2, <2>3 DEF UpTo
  <2>6. fileMounts' = Range(mounted')
    BY <2>2, <2>4, <1>0 DEF Range
  <2>7. (fileMounts \subseteq Media)'
    BY <2>2, <2>4, <1>0
  <2> QED
    BY <2>1, <2>2, <2>5, <2>6, <2>7, <1>0 DEF MountsInv
<1>6. CASE ~(Len(all) > MediaCap)
  <2>1. mounted' = all /\ fileMounts' = fileMounts \cup {Picks[k]}
    BY <1>6 DEF MediaPicked
  <2>2. fileMounts' = {mounted'[i] : i \in 1 .. L + 1}
    BY <1>0, <1>1, <1>4, <2>1
  <2>3. fileMounts' = Range(mounted') /\ (fileMounts \subseteq Media)'
    BY <1>0, <1>1, <2>1, <2>2 DEF Range
  <2>4. UpTo(k)'
    <3>1. L + 1 <= k /\ \A i \in 1 .. L + 1 : k - 1 - L + i = k - (L + 1) + i
      BY <1>0, <1>2
    <3> QED
      BY <1>1, <1>3, <2>1, <3>1 DEF UpTo
  <2> QED
    BY <1>0, <1>1, <1>6, <2>1, <2>3, <2>4 DEF MountsInv
<1> QED
  BY <1>5, <1>6

(* A request answered at once with a file, or without one.                 *)
Asks(d) ==
  \E h \in Headers :
    \/ \E mount \in {MountOf(t) : t \in Targets} : Refused(d, h, mount)
    \/ \E t \in Targets, navigates, fresh \in BOOLEAN :
         GetPublic(d, h, t, navigates, fresh)
    \/ GetShared(d, h)
    \/ \E m \in Media, readable \in BOOLEAN : GetMedia(d, h, m, readable)

LEMMA AsksInv ==
  ASSUME FilesInv, NEW d \in Pages, Asks(d)
  PROVE  FilesInv'
<1>. USE DEF FilesInv
<1>1. ASSUME NEW f \in {NoFile, Secret} \cup WebFiles \cup Media,
             Answered(d, f), UNCHANGED <<shared, place, mounts>>,
             RootsInv', moved' \in BOOLEAN,
             cached' \in {"absent", "apart", "inside"}
      PROVE  FilesInv'
  <2>1. MountsInv'
    BY <1>1 DEF MountsInv, UpTo, mounts
  <2> QED
    BY <1>1, <2>1, AnsweredInv DEF ServerTypeOK, mounts
<1>2. ASSUME NEW h \in Headers, NEW mount, Refused(d, h, mount)
      PROVE  FilesInv'
  BY <1>1, <1>2 DEF Refused, RootsInv, roots, ServerTypeOK
<1>3. ASSUME NEW h \in Headers, NEW t \in Targets, NEW navigates \in BOOLEAN,
             NEW fresh \in BOOLEAN, GetPublic(d, h, t, navigates, fresh)
      PROVE  FilesInv'
  <2>1. /\ cached' \in {cached, CachedRoot}
        /\ UNCHANGED <<shared, place, moved, mounts>>
    BY <1>3 DEF GetPublic
  <2>2. RootsInv' /\ moved' \in BOOLEAN /\ cached' \in {"absent", "apart", "inside"}
    BY <2>1 DEF RootsInv, CachedRoot, ServerTypeOK
  <2>3. PICK f \in {NoFile, Secret} \cup WebFiles : Answered(d, f)
    BY <1>3, PublicFiles DEF GetPublic
  <2> QED
    BY <1>1, <2>1, <2>2, <2>3
<1>4. ASSUME NEW h \in Headers, GetShared(d, h)
      PROVE  FilesInv'
  BY <1>1, <1>4 DEF GetShared, RootsInv, ServerTypeOK
<1>5. ASSUME NEW h \in Headers, NEW m \in Media, NEW readable \in BOOLEAN,
             GetMedia(d, h, m, readable)
      PROVE  FilesInv'
  <2>1. PICK f \in {NoFile} \cup Media : Answered(d, f)
    BY <1>5 DEF GetMedia
  <2> QED
    BY <1>1, <1>5, <2>1 DEF GetMedia, RootsInv, roots, ServerTypeOK
<1> QED
  BY <1>2, <1>3, <1>4, <1>5 DEF Asks

LEMMA ServerSteps ==
  ServerNext =>
    \/ MountShared
    \/ \E p \in {"apart", "inside"} : RootMoves(p)
    \/ \E k \in DOMAIN Picks : MediaPicked(k)
    \/ \E d \in Pages : ConnectionStep(d) \/ Asks(d)
  BY DEF ServerNext, ConnectionStep, Asks

LEMMA FilesStep ==
  FilesInv /\ [GateStep \/ ServerStep \/ LogStep]_allVars => FilesInv'
<1> SUFFICES ASSUME FilesInv, [GateStep \/ ServerStep \/ LogStep]_allVars
             PROVE  FilesInv'
  OBVIOUS
<1>1. CASE UNCHANGED serverVars
  BY <1>1 DEF FilesInv, ServerTypeOK, StreamsInv, RootsInv, MountsInv, UpTo,
              serverVars, responses, roots, mounts
<1>2. CASE ServerNext
  <2>1. CASE MountShared
    <3>1. StreamsInv' /\ MountsInv'
      BY <2>1 DEF MountShared, FilesInv, StreamsInv, MountsInv, UpTo,
                  responses, mounts
    <3>2. RootsInv'
      BY <2>1 DEF MountShared, RootsInv
    <3>3. ServerTypeOK'
      BY <2>1 DEF MountShared, FilesInv, ServerTypeOK, responses, mounts
    <3> QED
      BY <3>1, <3>2, <3>3 DEF FilesInv
  <2>2. ASSUME NEW p \in {"apart", "inside"}, RootMoves(p)
        PROVE  FilesInv'
    <3>1. StreamsInv' /\ MountsInv'
      BY <2>2 DEF RootMoves, FilesInv, StreamsInv, MountsInv, UpTo,
                  responses, mounts
    <3>2. RootsInv'
      BY <2>2 DEF RootMoves, FilesInv, RootsInv
    <3>3. ServerTypeOK'
      BY <2>2 DEF RootMoves, FilesInv, ServerTypeOK, responses, mounts
    <3> QED
      BY <3>1, <3>2, <3>3 DEF FilesInv
  <2>3. ASSUME NEW k \in DOMAIN Picks, MediaPicked(k)
        PROVE  FilesInv'
    <3>1. /\ MountsInv' /\ (fileMounts \subseteq Media)'
          /\ (mounted \in Seq(Media))'
      BY <2>3, PickedInv
    <3>2. StreamsInv' /\ RootsInv'
      BY <2>3 DEF MediaPicked, FilesInv, StreamsInv, RootsInv, responses, roots
    <3>3. ServerTypeOK'
      BY <2>3, <3>1 DEF MediaPicked, FilesInv, ServerTypeOK, responses, roots
    <3> QED
      BY <3>1, <3>2, <3>3 DEF FilesInv
  <2> QED
    BY <1>2, <2>1, <2>2, <2>3, ServerSteps, ConnectionInv, AsksInv
<1> QED
  BY <1>1, <1>2 DEF GateStep, LogStep, ServerStep, allVars

LEMMA FilesInit == Start => FilesInv
<1> SUFFICES ASSUME ServerInit PROVE FilesInv
  BY DEF Start
<1>1. ServerTypeOK
  <2>1. mounted \in Seq(Media) /\ fileMounts \subseteq Media
    BY DEF ServerInit
  <2>2. /\ conn \in [Pages -> {"idle", "route", "stream", "closing"}]
        /\ res \in [Pages -> {"none", "open", "headed", "ended", "cut", "gone"}]
        /\ sending \in [Pages -> {NoFile, Secret} \cup WebFiles \cup Media]
    BY DEF ServerInit
  <2>3. {shared, moved} \subseteq BOOLEAN /\ cached = "absent"
          /\ place \in {"absent", "apart", "inside"}
    BY DEF ServerInit
  <2> QED
    BY <2>1, <2>2, <2>3 DEF ServerTypeOK
<1>2. StreamsInv /\ RootsInv
  BY DEF ServerInit, StreamsInv, RootsInv
<1>3. MountsInv
  BY ServerAssumption DEF ServerInit, MountsInv, Range
<1> QED
  BY <1>1, <1>2, <1>3 DEF FilesInv

(* Descriptors are open exactly while a stream needs them, and the latest  *)
(* picks, up to the cap, are what the server serves.                       *)
THEOREM FilesAccounted == ServerSpec => []ServerInv
<1>1. FilesInv => ServerInv
  BY DEF FilesInv, StreamsInv, RootsInv, MountsInv, ServerInv
<1> QED
  BY <1>1, FilesInit, FilesStep, PTL DEF ServerSpec

(* Media, and the files of a gated directory, reach only a document that   *)
(* holds the session, by whatever URL it asks for them.                    *)
THEOREM NothingUngated == ServerSpec => GatedStaysGated
<1>1. ASSUME FilesInv, ServerNext, NEW d \in Pages, sending'[d] # sending[d]
      PROVE  /\ sending'[d] \in Media => d \in session
             /\ sending'[d] = Secret /\ shared /\ ~moved => d \in session
  <2>0. sending \in [Pages -> {NoFile, Secret} \cup WebFiles \cup Media]
    BY <1>1 DEF FilesInv, ServerTypeOK
  <2>1. sending' # sending
    BY <1>1
  <2>2. PICK c \in Pages : ConnectionStep(c) \/ Asks(c)
    BY <1>1, <2>1, ServerSteps
       DEF MountShared, RootMoves, MediaPicked, responses
  <2>3. CASE ConnectionStep(c)
    <3>1. sending'[d] \in {NoFile, sending[d]}
      BY <2>0, <2>3 DEF ConnectionStep, StreamEnds, StreamFails, ClientGone,
         SourceDestroyed, RouteWrites, RouteReturns, RouteFails, RunRoute
    <3> QED
      BY <1>1, <3>1, FilesNamed
  <2>4. CASE Asks(c)
    <3>1. ASSUME NEW f, Answered(c, f)
          PROVE  c = d /\ sending'[d] = f
      BY <1>1, <2>0, <3>1 DEF Answered
    <3>2. ASSUME NEW h \in Headers, NEW mount, Refused(c, h, mount)
          PROVE  sending'[d] = NoFile
      BY <3>1, <3>2 DEF Refused
    <3>3. ASSUME NEW h \in Headers, NEW t \in Targets,
                 NEW navigates \in BOOLEAN, NEW fresh \in BOOLEAN,
                 GetPublic(c, h, t, navigates, fresh)
          PROVE  sending'[d] \notin Media /\ (sending'[d] = Secret => ~shared \/ moved)
      <4>1. sending'[d] \in {NoFile, PublicFile(t, navigates)}
        BY <3>1, <3>3 DEF GetPublic
      <4>2. sending'[d] \notin Media
        BY <4>1, PublicFiles, FilesNamed
      <4>3. ASSUME PublicFile(t, navigates) = Secret, shared, ~moved
            PROVE  FALSE
        <5>1. FoundInWebRoot(t) = Secret /\ ~InsideGatedMount(t)
          BY <4>3 DEF PublicFile, Secret, NoFile
        <5>2. t = "nested" /\ place = "inside"
          BY <5>1 DEF FoundInWebRoot, WebFiles, Secret, NoFile
        <5>3. CachedRoot = "inside"
          BY <1>1, <4>3, <5>2 DEF FilesInv, RootsInv, CachedRoot
        <5> QED
          BY <4>3, <5>1, <5>2, <5>3 DEF InsideGatedMount
      <4> QED
        BY <1>1, <4>1, <4>2, <4>3, FilesNamed DEF FilesInv, ServerTypeOK
    <3>4. ASSUME NEW h \in Headers,
                 \/ GetShared(c, h)
                 \/ \E m \in Media, readable \in BOOLEAN :
                      GetMedia(c, h, m, readable)
          PROVE  d \in session
      <4>1. PICK f : Answered(c, f)
        BY <3>4 DEF GetShared, GetMedia
      <4>2. c = d
        BY <3>1, <4>1
      <4> QED
        BY <3>4, <4>2 DEF GetShared, GetMedia, AdmitsGated
    <3> QED
      BY <2>4, <3>2, <3>3, <3>4, FilesNamed DEF Asks
  <2> QED
    BY <2>2, <2>3, <2>4
<1>2. FilesInv /\ [GateStep \/ ServerStep \/ LogStep]_allVars =>
        [\A d \in Pages : sending'[d] # sending[d] =>
           /\ sending'[d] \in Media => d \in session
           /\ sending'[d] = Secret /\ shared /\ ~moved => d \in session]_serverVars
  BY <1>1 DEF GateStep, LogStep, ServerStep, allVars
<1> QED
  BY <1>2, FilesInit, FilesStep, PTL DEF ServerSpec, GatedStaysGated

(* A complete answer is never taken back by a handler that fails after it. *)
THEOREM CompleteAnswersStand == ServerSpec => AnswersStand
<1>1. ASSUME FilesInv, ServerNext, NEW d \in Pages, res[d] = "ended"
      PROVE  res'[d] # "cut"
  <2>0. res \in [Pages -> {"none", "open", "headed", "ended", "cut", "gone"}]
    BY <1>1 DEF FilesInv, ServerTypeOK
  <2>1. CASE UNCHANGED res
    BY <1>1, <2>1
  <2>2. ASSUME NEW c \in Pages, Asks(c)
        PROVE  res'[d] # "cut"
    <3>1. PICK f : Answered(c, f)
      BY <2>2 DEF Asks, Refused, GetPublic, GetShared, GetMedia
    <3> QED
      BY <1>1, <2>0, <3>1 DEF Answered
  <2>3. ASSUME NEW c \in Pages, ConnectionStep(c)
        PROVE  res'[d] # "cut"
    <3>1. CASE c # d
      BY <1>1, <2>0, <2>3, <3>1 DEF ConnectionStep, StreamEnds, StreamFails,
         ClientGone, SourceDestroyed, RouteWrites, RouteReturns, RouteFails,
         RunRoute
    <3>2. CASE c = d
      <4>1. ~StreamFails(d)
        BY <1>1 DEF FilesInv, StreamsInv, StreamFails
      <4>2. RouteFails(d) => res'[d] = "ended"
        BY <1>1, <2>0 DEF RouteFails, ResponseEnded
      <4> QED
        BY <1>1, <2>0, <2>3, <3>2, <4>1, <4>2 DEF ConnectionStep, StreamEnds,
           ClientGone, SourceDestroyed, RouteWrites, RouteReturns, RunRoute
    <3> QED
      BY <3>1, <3>2
  <2> QED
    BY <1>1, <2>1, <2>2, <2>3, ServerSteps
       DEF MountShared, RootMoves, MediaPicked, responses
<1>2. FilesInv /\ [GateStep \/ ServerStep \/ LogStep]_allVars =>
        [\A d \in Pages : res[d] = "ended" => res'[d] # "cut"]_serverVars
  BY <1>1 DEF GateStep, LogStep, ServerStep, allVars
<1> QED
  BY <1>2, FilesInit, FilesStep, PTL DEF ServerSpec, AnswersStand

-----------------------------------------------------------------------------
(* Ranges.                                                                 *)

(* A partial response holds exactly the bytes that were asked for, whatever *)
(* the size of the file and the two ends of the range.                     *)
THEOREM RangesExact == RangesAreExact
<1> SUFFICES ASSUME NEW size \in 0 .. MaxSize,
                    NEW first \in NoDigits .. MaxSize + 1,
                    NEW last \in NoDigits .. MaxSize + 1
             PROVE  LET range == ParseRange(first, last, size) IN
                      Named(first, last, size) =
                        IF range = <<>> THEN {} ELSE range[1] .. range[2]
  BY DEF RangesAreExact
<1> DEFINE start == IF first # NoDigits THEN first
                    ELSE IF last > size THEN 0 ELSE size - last
           end   == IF NoDigits \in {first, last} \/ last >= size
                      THEN size - 1 ELSE last
           bad   == \/ first = NoDigits /\ last = NoDigits
                    \/ start >= size \/ start > end
<1>0. /\ size \in Nat /\ first \in Int /\ last \in Int /\ NoDigits = -1
      /\ first >= -1 /\ last >= -1
  BY ServerAssumption DEF NoDigits
<1>1. ParseRange(first, last, size) = IF bad THEN <<>> ELSE <<start, end>>
  BY DEF ParseRange
<1>2. start \in Int /\ end \in Int
  BY <1>0
<1>3. CASE bad
  <2>1. \A byte \in 0 .. size - 1 :
          ~(IF first = NoDigits THEN last # NoDigits /\ byte >= size - last
            ELSE byte >= first /\ (last # NoDigits => byte <= last))
    BY <1>0, <1>3
  <2>2. Named(first, last, size) = {}
    BY <2>1 DEF Named
  <2> QED
    BY <1>1, <1>3, <2>2
<1>4. CASE ~bad
  <2>1. \A byte \in Int :
          byte \in 0 .. size - 1
            /\ (IF first = NoDigits
                  THEN last # NoDigits /\ byte >= size - last
                  ELSE byte >= first /\ (last # NoDigits => byte <= last))
          <=> byte \in start .. end
    BY <1>0, <1>4
  <2>2. Named(first, last, size) = start .. end
    BY <1>0, <1>2, <2>1 DEF Named
  <2>3. ParseRange(first, last, size) = <<start, end>>
    BY <1>1, <1>4
  <2>4. <<start, end>> # <<>> /\ <<start, end>>[1] = start
          /\ <<start, end>>[2] = end
    OBVIOUS
  <2> HIDE DEF start, end
  <2> QED
    BY <2>2, <2>3, <2>4
<1> QED
  BY <1>3, <1>4

-----------------------------------------------------------------------------
(* The log ring.                                                           *)

(* A slot index wraps around once at most.                                 *)
LEMMA Wrap ==
  ASSUME NEW c \in Nat \ {0}, NEW x \in 0 .. 2 * c - 1
  PROVE  x % c = IF x < c THEN x ELSE x - c
  OBVIOUS

(* Where the entries are, without the remainder.                           *)
LEMMA Slot ==
  ASSUME NEW s \in Stores, NEW i \in 0 .. Capacity
  PROVE  /\ SlotAt(s, i) = IF s.start + i < Capacity THEN s.start + i
                                                     ELSE s.start + i - Capacity
         /\ SlotAt(s, i) \in Slots
<1>1. s.start \in Slots /\ Capacity \in Nat \ {0}
  BY CapacityAssumption DEF Stores
<1>2. s.start + i \in 0 .. 2 * Capacity - 1
  BY <1>1 DEF Slots
<1>3. \A x \in 0 .. 2 * Capacity - 1 :
        x % Capacity = IF x < Capacity THEN x ELSE x - Capacity
  BY <1>1, Wrap
<1>. QED  BY <1>1, <1>2, <1>3 DEF SlotAt, Slots

LEMMA StartMoves ==
  ASSUME NEW s \in Stores
  PROVE  NextStart(s) = SlotAt(s, 1) /\ NextStart(s) \in Slots
BY Slot, CapacityAssumption DEF NextStart, SlotAt

(* The holes of a ring that is not full are where append() writes.         *)
LEMMA PutKeepsStores ==
  ASSUME NEW s \in Stores, NEW m \in Messages
  PROVE  Put(s, m) \in Stores
<1>. DEFINE entry == [seq |-> s.seq, message |-> m]
<1>1. entry \in Entries
  BY DEF Stores, Entries
<1>2. CASE s.size < Capacity
  <2>1. SlotAt(s, s.size) \in Slots /\ s.size + 1 \in 0 .. Capacity
    BY <1>2, Slot, CapacityAssumption DEF Stores
  <2>. QED  BY <1>1, <1>2, <2>1 DEF Put, Stores
<1>3. CASE ~(s.size < Capacity)
  BY <1>1, <1>3, StartMoves DEF Put, Stores
<1>. QED  BY <1>2, <1>3

LEMMA ClearedIsEmpty ==
  ASSUME NEW s \in Stores
  PROVE  Cleared(s) \in Stores /\ Cleared(s).size = 0 /\ Cleared(s).seq = s.seq
BY CapacityAssumption DEF Cleared, EmptyStore, Stores, Slots

(* What append() does to the list: nothing is lost until the ring is full, *)
(* then the oldest entry is.                                               *)
LEMMA PutAppends ==
  ASSUME NEW s \in Stores, NEW m \in Messages
  PROVE  LET t == Put(s, m)
             d == IF s.size < Capacity THEN 0 ELSE 1
         IN /\ t.size = s.size - d + 1 /\ t.seq = s.seq + 1
            /\ \A i \in 0 .. s.size - d - 1 :
                 t.ring[SlotAt(t, i)] = s.ring[SlotAt(s, i + d)]
            /\ t.ring[SlotAt(t, s.size - d)] = [seq |-> s.seq, message |-> m]
<1>. DEFINE t == Put(s, m)
<1>t. t \in Stores
  BY PutKeepsStores
<1>c. /\ Capacity \in Nat \ {0} /\ s.start \in 0 .. Capacity - 1
      /\ s.size \in 0 .. Capacity /\ s.ring \in [Slots -> Entries \cup {Hole}]
      /\ s.seq \in Nat
  BY CapacityAssumption DEF Stores, Slots
<1>1. CASE s.size < Capacity
  <2>1. /\ t.size = s.size + 1 /\ t.seq = s.seq + 1 /\ t.start = s.start
        /\ t.ring = [s.ring EXCEPT ![SlotAt(s, s.size)] =
                       [seq |-> s.seq, message |-> m]]
    BY <1>1 DEF Put
  <2>2. \A i \in 0 .. s.size : SlotAt(t, i) = SlotAt(s, i)
    BY <2>1 DEF SlotAt
  <2>3. \A i \in 0 .. s.size - 1 :
          SlotAt(s, i) # SlotAt(s, s.size) /\ SlotAt(s, i) \in Slots
    BY <1>c, <1>1, Slot
  <2>4. SlotAt(s, s.size) \in Slots
    BY <1>c, Slot
  <2>. QED  BY <1>1, <1>c, <2>1, <2>2, <2>3, <2>4
<1>2. CASE ~(s.size < Capacity)
  <2>1. /\ t.size = s.size /\ t.seq = s.seq + 1 /\ t.start = NextStart(s)
        /\ t.ring = [s.ring EXCEPT ![s.start] = [seq |-> s.seq, message |-> m]]
    BY <1>2 DEF Put
  <2>2. s.size = Capacity
    BY <1>c, <1>2
  <2>3. ASSUME NEW i \in 0 .. s.size - 2
        PROVE  SlotAt(t, i) = SlotAt(s, i + 1) /\ SlotAt(s, i + 1) # s.start
               /\ SlotAt(s, i + 1) \in Slots
    <3>1. i \in 0 .. Capacity /\ i + 1 \in 0 .. Capacity /\ 1 \in 0 .. Capacity
      BY <1>c, <2>2
    <3>. QED  BY <1>c, <1>t, <2>1, <2>2, <3>1, Slot, StartMoves
  <2>4. SlotAt(t, s.size - 1) = s.start
    <3>1. s.size - 1 \in 0 .. Capacity /\ 1 \in 0 .. Capacity
      BY <1>c, <2>2
    <3>. QED  BY <1>c, <1>t, <2>1, <2>2, <3>1, Slot, StartMoves
  <2>5. s.start \in Slots
    BY <1>c DEF Slots
  <2>. QED  BY <1>2, <1>c, <2>1, <2>2, <2>3, <2>4, <2>5
<1>. QED  BY <1>1, <1>2

(* The ring never shows a hole, a gap or an overwritten entry.             *)
THEOREM RingHoldsLatest == RingSpec => []RingInv
<1>1. RingInit => RingInv
  BY CapacityAssumption
     DEF RingInit, EmptyStore, RingInv, HoldsLatest, Stores, Slots
<1>2. RingInv /\ [AppendEntry \/ ClearEntries]_store => RingInv'
  <2>. SUFFICES ASSUME RingInv, [AppendEntry \/ ClearEntries]_store
                PROVE  RingInv'
    OBVIOUS
  <2>t. store \in Stores
    BY DEF RingInv
  <2>1. ASSUME NEW m \in Messages, store' = Put(store, m)
        PROVE  RingInv'
    <3>. DEFINE d == IF store.size < Capacity THEN 0 ELSE 1
    <3>1. store' \in Stores
      BY <2>t, <2>1, PutKeepsStores
    <3>2. /\ store'.size = store.size - d + 1 /\ store'.seq = store.seq + 1
          /\ \A i \in 0 .. store.size - d - 1 :
               store'.ring[SlotAt(store', i)] = store.ring[SlotAt(store, i + d)]
          /\ store'.ring[SlotAt(store', store.size - d)]
               = [seq |-> store.seq, message |-> m]
      BY <2>t, <2>1, PutAppends
    <3>3. /\ store.size \in 0 .. Capacity /\ store.seq \in Nat
          /\ Capacity \in Nat \ {0} /\ d \in {0, 1} /\ d <= store.size
      BY <2>t, CapacityAssumption DEF Stores
    <3>4. ASSUME NEW i \in 0 .. store'.size - 1
          PROVE  /\ store'.ring[SlotAt(store', i)] \in Entries
                 /\ store'.ring[SlotAt(store', i)].seq
                      = store'.seq - store'.size + i
      <4>1. CASE i = store.size - d
        BY <3>2, <3>3, <4>1 DEF Entries
      <4>2. CASE i # store.size - d
        <5>1. i \in 0 .. store.size - d - 1 /\ i + d \in 0 .. store.size - 1
          BY <3>2, <3>3, <4>2
        <5>. QED  BY <3>2, <3>3, <5>1 DEF RingInv, HoldsLatest
      <4>. QED  BY <4>1, <4>2
    <3>. QED  BY <3>1, <3>2, <3>3, <3>4 DEF RingInv, HoldsLatest
  <2>2. CASE ClearEntries
    BY <2>t, <2>2, ClearedIsEmpty DEF ClearEntries, RingInv, HoldsLatest, Stores
  <2>3. CASE UNCHANGED store
    BY <2>3 DEF RingInv, HoldsLatest, SlotAt
  <2>. QED  BY <2>1, <2>2, <2>3 DEF AppendEntry
<1>. QED  BY <1>1, <1>2, PTL DEF RingSpec

(* The circular array implements the list it stands for.                   *)
THEOREM RingImplementsTail == RingSpec => ImplementsTail
<1>1. RingInit => Ordered(store) = <<>> /\ store.seq = 0
  BY DEF RingInit, EmptyStore, Ordered
<1>2. RingInv /\ [AppendEntry \/ ClearEntries]_store =>
        [Latest!Add \/ Latest!Clear]_(<<Ordered(store), store.seq>>)
  <2>. SUFFICES ASSUME RingInv, [AppendEntry \/ ClearEntries]_store
                PROVE  [Latest!Add \/ Latest!Clear]_(<<Ordered(store), store.seq>>)
    OBVIOUS
  <2>t. store \in Stores
    BY DEF RingInv
  <2>1. ASSUME NEW m \in Messages, store' = Put(store, m)
        PROVE  Latest!Add
    <3>. DEFINE d == IF store.size < Capacity THEN 0 ELSE 1
                old == Ordered(store)
                new == Ordered(store)'
    <3>1. /\ store'.size = store.size - d + 1 /\ store'.seq = store.seq + 1
          /\ \A i \in 0 .. store.size - d - 1 :
               store'.ring[SlotAt(store', i)] = store.ring[SlotAt(store, i + d)]
          /\ store'.ring[SlotAt(store', store.size - d)]
               = [seq |-> store.seq, message |-> m]
      BY <2>t, <2>1, PutAppends
    <3>2. /\ store.size \in 0 .. Capacity /\ Capacity \in Nat \ {0}
          /\ d \in {0, 1} /\ d <= store.size
          /\ d = 1 <=> store.size = Capacity
          /\ store.seq \in Nat
      BY <2>t, CapacityAssumption DEF Stores
    <3>3. Len(old) = store.size /\ Len(new) = store'.size
      BY <3>1, <3>2 DEF Ordered
    <3>4. ASSUME NEW i \in 1 .. store.size - d
          PROVE  new[i] = old[i + d]
      <4>1. /\ i - 1 \in 0 .. store.size - d - 1 /\ i \in 1 .. store'.size
            /\ i + d \in 1 .. store.size
        BY <3>1, <3>2
      <4>2. store'.ring[SlotAt(store', i - 1)]
              = store.ring[SlotAt(store, i - 1 + d)]
        BY <3>1, <4>1
      <4>3. i - 1 + d = i + d - 1
        BY <3>2
      <4>. QED  BY <4>1, <4>2, <4>3 DEF Ordered
    <3>5. new[store'.size].seq = store.seq
      <4>1. store'.size \in 1 .. store'.size /\ store'.size - 1 = store.size - d
        BY <3>1, <3>2
      <4>2. new[store'.size] = store'.ring[SlotAt(store', store'.size - 1)]
        BY <4>1 DEF Ordered
      <4>. QED  BY <3>1, <4>1, <4>2
    <3>6. /\ store'.seq - store.seq = 1
          /\ store'.size = IF Len(old) + 1 <= Capacity THEN Len(old) + 1
                                                       ELSE Capacity
          /\ Len(old) + 1 - store'.size = d
      BY <3>1, <3>2, <3>3
    <3>7. ASSUME NEW i \in 1 .. store'.size
          PROVE  IF i + d <= Len(old)
                   THEN new[i] = old[i + d]
                   ELSE new[i].seq = store'.seq - store'.size + i - 1
      <4>1. CASE i + d <= Len(old)
        BY <3>2, <3>3, <3>4, <4>1
      <4>2. CASE ~(i + d <= Len(old))
        <5>1. i = store'.size
          BY <3>1, <3>2, <3>3, <4>2
        <5>. QED  BY <3>1, <3>2, <3>5, <4>2, <5>1
      <4>. QED  BY <4>1, <4>2
    <3>. HIDE DEF d, old, new
    <3>8. /\ store'.seq - store.seq >= 0
          /\ Len(new) = IF Len(old) + (store'.seq - store.seq) <= Capacity
                          THEN Len(old) + (store'.seq - store.seq) ELSE Capacity
          /\ \A i \in 1 .. store'.size :
               IF i + (Len(old) + (store'.seq - store.seq) - store'.size) <= Len(old)
                 THEN new[i] =
                        old[i + (Len(old) + (store'.seq - store.seq) - store'.size)]
                 ELSE new[i].seq = store'.seq - store'.size + i - 1
      BY <3>3, <3>6, <3>7
    <3>9. store'.size = IF Len(old) + (store'.seq - store.seq) <= Capacity
                          THEN Len(old) + (store'.seq - store.seq) ELSE Capacity
      BY <3>6
    <3>. QED  BY <3>8, <3>9, Zenon DEF Latest!Add, old, new
  <2>2. CASE ClearEntries
    <3>1. store'.size = 0 /\ store'.seq = store.seq
      BY <2>t, <2>2, ClearedIsEmpty DEF ClearEntries
    <3>. QED  BY <3>1 DEF Latest!Clear, Ordered
  <2>3. CASE UNCHANGED store
    BY <2>3 DEF Ordered, SlotAt
  <2>. QED  BY <2>1, <2>2, <2>3 DEF AppendEntry
<1>. QED
  BY <1>1, <1>2, RingHoldsLatest, PTL DEF RingSpec, ImplementsTail, Latest!Spec

-----------------------------------------------------------------------------
(* Walks along a sequence.                                                 *)

(* A non-empty set of naturals has a least element.                        *)
LEMMA LeastElement ==
  ASSUME NEW S \in SUBSET Nat, S # {}
  PROVE  \E x \in S : \A y \in S : x <= y
<1>1. \E x \in S : \A y \in S : ~ (<<y, x>> \in OpToRel(<, Nat))
  BY NatLessThanWellFounded, WFMin
<1>2. PICK x \in S : \A y \in S : ~ (<<y, x>> \in OpToRel(<, Nat))
  BY <1>1
<1>3. ASSUME NEW y \in S PROVE x <= y
  <2>1. ~ (y < x)
    BY <1>2 DEF OpToRel
  <2> QED
    BY <2>1
<1> QED
  BY <1>3

(* What holds at 0, and with a number of the next, holds up to the last.   *)
LEMMA CountUp ==
  ASSUME NEW N \in Nat, NEW S, 0 \in S,
         \A n \in 1 .. N : n - 1 \in S => n \in S
  PROVE  \A n \in 0 .. N : n \in S
<1> DEFINE missing == {n \in 0 .. N : n \notin S}
<1>1. SUFFICES ASSUME missing # {} PROVE FALSE
  OBVIOUS
<1>2. missing \in SUBSET Nat
  OBVIOUS
<1>3. PICK n \in missing : \A m \in missing : n <= m
  <2> HIDE DEF missing
  <2> QED
    BY <1>1, <1>2, LeastElement
<1>4. n \in 1 .. N /\ n - 1 \in 0 .. N /\ ~(n <= n - 1)
  BY <1>3
<1>5. n - 1 \in S
  BY <1>3, <1>4
<1> QED
  BY <1>3, <1>4, <1>5

(* A step from one state to another can be taken along a whole sequence.   *)
IsWalk(after, S, base, lines, step) ==
  /\ after \in [0 .. Len(lines) -> S]
  /\ after[0] = base
  /\ \A n \in 1 .. Len(lines) : after[n] = step[<<after[n - 1], lines[n]>>]

LEMMA Walk ==
  ASSUME NEW S, NEW base \in S, NEW M, NEW lines \in Seq(M),
         NEW step \in [S \X M -> S]
  PROVE  \E after : IsWalk(after, S, base, lines, step)
<1> DEFINE Walked(k, after) ==
             /\ after[0] = base
             /\ \A n \in 1 .. k : after[n] = step[<<after[n - 1], lines[n]>>]
           far == {k \in 0 .. Len(lines) :
                     \E after \in [0 .. k -> S] : Walked(k, after)}
<1>1. 0 \in far
  <2> DEFINE start == [n \in 0 .. 0 |-> base]
  <2>1. start \in [0 .. 0 -> S] /\ start[0] = base
    OBVIOUS
  <2>2. \A n \in 1 .. 0 : FALSE
    OBVIOUS
  <2> HIDE DEF start
  <2>3. Walked(0, start)
    BY <2>1, <2>2
  <2>4. 0 \in 0 .. Len(lines)
    OBVIOUS
  <2> QED
    BY <2>1, <2>3, <2>4
<1>2. ASSUME NEW k \in 1 .. Len(lines), k - 1 \in far
      PROVE  k \in far
  <2>1. PICK before \in [0 .. k - 1 -> S] : Walked(k - 1, before)
    BY <1>2
  <2> DEFINE last  == step[<<before[k - 1], lines[k]>>]
             after == [n \in 0 .. k |-> IF n = k THEN last ELSE before[n]]
  <2>2. last \in S
    <3>1. before[k - 1] \in S /\ lines[k] \in M
      BY <2>1
    <3> QED
      BY <3>1
  <2>3. after \in [0 .. k -> S]
    <3>1. \A n \in 0 .. k : n # k => n \in 0 .. k - 1
      OBVIOUS
    <3> QED
      BY <2>2, <3>1
  <2>4. Walked(k, after)
    <3>1. \A n \in 0 .. k - 1 : after[n] = before[n]
      OBVIOUS
    <3>2. after[k] = last
      OBVIOUS
    <3>3. 0 \in 0 .. k - 1 /\ k - 1 \in 0 .. k - 1
      OBVIOUS
    <3> HIDE DEF after, last
    <3>4. \A n \in 1 .. k : n # k => n \in 0 .. k - 1 /\ n - 1 \in 0 .. k - 1 /\ n \in 1 .. k - 1
      OBVIOUS
    <3> QED
      BY <2>1, <3>1, <3>2, <3>3, <3>4 DEF last
  <2> HIDE DEF after
  <2>5. k \in 0 .. Len(lines)
    OBVIOUS
  <2> QED
    BY <2>3, <2>4, <2>5
<1> HIDE DEF far
<1>3. Len(lines) \in far
  <2>1. Len(lines) \in Nat /\ Len(lines) \in 0 .. Len(lines)
    OBVIOUS
  <2>2. \A k \in 0 .. Len(lines) : k \in far
    BY <1>1, <1>2, <2>1, CountUp
  <2> QED
    BY <2>1, <2>2
<1> QED
  BY <1>3 DEF far, IsWalk

-----------------------------------------------------------------------------
(* Batches.                                                                *)

(* A batch leaves a store that is a store, by way of stores.               *)
LEMMA PutAllWalks ==
  ASSUME NEW s \in Stores, NEW lines \in Seq(Messages)
  PROVE  \E after \in [0 .. Len(lines) -> Stores] :
           /\ after[0] = s
           /\ \A n \in 1 .. Len(lines) : after[n] = Put(after[n - 1], lines[n])
           /\ PutAll(s, lines) = after[Len(lines)]
<1> DEFINE N == Len(lines)
           step == [x \in Stores \X Messages |-> Put(x[1], x[2])]
           Recursive(f) ==
             f = [n \in 0 .. N |-> IF n = 0 THEN s ELSE Put(f[n - 1], lines[n])]
<1>1. step \in [Stores \X Messages -> Stores]
  BY PutKeepsStores
<1>2. PICK g \in [0 .. N -> Stores] :
        /\ g[0] = s
        /\ \A n \in 1 .. N : g[n] = step[<<g[n - 1], lines[n]>>]
  <2> HIDE DEF step
  <2>1. \E g : IsWalk(g, Stores, s, lines, step)
    BY ONLY <1>1, s \in Stores, lines \in Seq(Messages), Walk
  <2> QED
    BY <2>1 DEF IsWalk
<1>3. \A n \in 1 .. N : g[n] = Put(g[n - 1], lines[n])
  <2> SUFFICES ASSUME NEW n \in 1 .. N PROVE g[n] = Put(g[n - 1], lines[n])
    OBVIOUS
  <2>1. g[n - 1] \in Stores /\ lines[n] \in Messages
    OBVIOUS
  <2>2. step[<<g[n - 1], lines[n]>>] = Put(g[n - 1], lines[n])
    BY <2>1
  <2> QED
    BY <1>2, <2>2
<1>4. Recursive(g)
  <2>1. \A n \in 0 .. N : n # 0 => n \in 1 .. N
    OBVIOUS
  <2>2. \A n \in 0 .. N :
          g[n] = IF n = 0 THEN s ELSE Put(g[n - 1], lines[n])
    BY <1>2, <1>3, <2>1
  <2> QED
    BY <2>2
<1> DEFINE f == CHOOSE f : Recursive(f)
<1>5. Recursive(f)
  BY <1>4
<1>6. PutAll(s, lines) = f[N]
  BY DEF PutAll
<1> HIDE DEF f
<1>7. \A n \in 0 .. N :
        f[n] = IF n = 0 THEN s ELSE Put(f[n - 1], lines[n])
  BY <1>5
<1>8. \A n \in 0 .. N : n \in {k \in 0 .. N : f[k] = g[k]}
  <2> DEFINE same == {k \in 0 .. N : f[k] = g[k]}
  <2>1. 0 \in same
    BY <1>2, <1>7
  <2>2. \A n \in 1 .. N : n - 1 \in same => n \in same
    BY <1>3, <1>7
  <2> HIDE DEF same
  <2>3. \A n \in 0 .. N : n \in same
    <3>1. N \in Nat
      OBVIOUS
    <3> HIDE DEF N
    <3> QED
      BY <2>1, <2>2, <3>1, CountUp
  <2> QED
    BY <2>3 DEF same
<1>9. PutAll(s, lines) = g[N]
  BY <1>6, <1>8
<1> QED
  BY <1>2, <1>3, <1>9

(* What appending lines does to the list: they come at its end with the    *)
(* next numbers, and what exceeds the capacity is dropped from its front.  *)
Grown(s, t, lines) ==
  LET dropped == s.size + Len(lines) - t.size IN
  /\ t \in Stores
  /\ t.seq = s.seq + Len(lines)
  /\ t.size = IF s.size + Len(lines) <= Capacity THEN s.size + Len(lines)
                                                 ELSE Capacity
  /\ \A i \in 1 .. t.size :
       Ordered(t)[i] =
         IF i + dropped <= s.size
           THEN Ordered(s)[i + dropped]
           ELSE [seq     |-> s.seq + (i + dropped - s.size) - 1,
                 message |-> lines[i + dropped - s.size]]

LEMMA StoreShape ==
  ASSUME NEW s \in Stores
  PROVE  /\ s.size \in 0 .. Capacity /\ s.size \in Nat /\ s.seq \in Nat
         /\ Capacity \in Nat \ {0}
         /\ Len(Ordered(s)) = s.size /\ DOMAIN Ordered(s) = 1 .. s.size
         /\ \A i \in 1 .. s.size :
              /\ i - 1 \in 0 .. s.size - 1
              /\ Ordered(s)[i] = s.ring[SlotAt(s, i - 1)]
BY CapacityAssumption DEF Stores, Ordered

LEMMA GrowsByNothing ==
  ASSUME NEW s \in Stores
  PROVE  Grown(s, s, <<>>)
<1>1. s.size + Len(<<>>) = s.size /\ s.seq + Len(<<>>) = s.seq
        /\ s.size + Len(<<>>) - s.size = 0 /\ s.size <= Capacity
  BY StoreShape
<1>2. \A i \in 1 .. s.size : i + 0 = i /\ i <= s.size
  BY StoreShape
<1> QED
  BY <1>1, <1>2 DEF Grown

LEMMA GrowsByOne ==
  ASSUME NEW s \in Stores, NEW m \in Messages
  PROVE  Grown(s, Put(s, m), <<m>>)
<1> DEFINE t == Put(s, m)
           d == IF s.size < Capacity THEN 0 ELSE 1
<1>t. t \in Stores
  BY PutKeepsStores
<1>1. /\ t.size = s.size - d + 1 /\ t.seq = s.seq + 1
      /\ \A i \in 0 .. s.size - d - 1 :
           t.ring[SlotAt(t, i)] = s.ring[SlotAt(s, i + d)]
      /\ t.ring[SlotAt(t, s.size - d)] = [seq |-> s.seq, message |-> m]
  BY PutAppends
<1>2. /\ s.size \in 0 .. Capacity /\ s.seq \in Nat /\ Capacity \in Nat \ {0}
      /\ \A i \in 1 .. s.size : Ordered(s)[i] = s.ring[SlotAt(s, i - 1)]
      /\ \A i \in 1 .. t.size : Ordered(t)[i] = t.ring[SlotAt(t, i - 1)]
  BY <1>t, StoreShape
<1> HIDE DEF t
<1>3. Len(<<m>>) = 1 /\ <<m>>[1] = m
  OBVIOUS
<1>4. /\ s.size + 1 - t.size = d
      /\ t.size = IF s.size + 1 <= Capacity THEN s.size + 1 ELSE Capacity
      /\ d \in {0, 1} /\ d <= s.size
  BY <1>1, <1>2
<1>5. ASSUME NEW i \in 1 .. t.size
      PROVE  Ordered(t)[i] =
               IF i + d <= s.size
                 THEN Ordered(s)[i + d]
                 ELSE [seq |-> s.seq + (i + d - s.size) - 1,
                       message |-> <<m>>[i + d - s.size]]
  <2>0. i \in Int /\ d \in Int /\ s.size \in Int /\ s.seq \in Int
    BY <1>2, <1>4
  <2>1. CASE i + d <= s.size
    <3>1. i - 1 \in 0 .. s.size - d - 1 /\ i + d \in 1 .. s.size
          /\ i - 1 + d = i + d - 1
      BY <1>4, <2>0, <2>1
    <3>2. t.ring[SlotAt(t, i - 1)] = s.ring[SlotAt(s, i - 1 + d)]
      BY <1>1, <3>1
    <3>3. Ordered(s)[i + d] = s.ring[SlotAt(s, i + d - 1)]
      BY <1>2, <3>1
    <3> QED
      BY <1>2, <2>1, <3>1, <3>2, <3>3
  <2>2. CASE ~(i + d <= s.size)
    <3>1. i - 1 = s.size - d /\ i + d - s.size = 1 /\ s.seq + 1 - 1 = s.seq
      BY <1>1, <1>4, <2>0, <2>2
    <3>2. Ordered(t)[i] = [seq |-> s.seq, message |-> m]
      BY <1>1, <1>2, <3>1
    <3> QED
      BY <1>3, <2>2, <3>1, <3>2
  <2> QED
    BY <2>1, <2>2
<1> HIDE DEF d
<1>6. t \in Stores
  BY <1>t DEF t
<1>7. Grown(s, t, <<m>>)
  BY <1>1, <1>3, <1>4, <1>5, <1>6 DEF Grown
<1> QED
  BY <1>7 DEF t

(* How many entries two steps in a row drop.                               *)
LEMMA DroppedInTurn ==
  ASSUME NEW cap \in Nat \ {0}, NEW a \in 0 .. cap, NEW b \in 0 .. cap,
         NEW c \in 0 .. cap, NEW n \in Nat,
         b = IF a + n <= cap THEN a + n ELSE cap,
         c = IF b + 1 <= cap THEN b + 1 ELSE cap
  PROVE  LET d == a + n - b
             e == b + 1 - c
         IN /\ c = IF a + (n + 1) <= cap THEN a + (n + 1) ELSE cap
            /\ a + (n + 1) - c = d + e
            /\ d \in Nat /\ e \in Nat
            /\ \A i \in 1 .. c :
                 /\ i + e <= b =>
                      /\ i + e \in 1 .. b /\ i + e + d = i + (d + e)
                      /\ i + e + d <= a \/ i + e + d - a \in 1 .. n
                 /\ ~(i + e <= b) =>
                      /\ i + e - b = 1 /\ i + (d + e) - a = n + 1
                      /\ ~(i + (d + e) <= a)
OBVIOUS

LEMMA GrowsOn ==
  ASSUME NEW s \in Stores, NEW t \in Stores, NEW u \in Stores,
         NEW lines \in Seq(Messages), NEW m \in Messages,
         Grown(s, t, lines), Grown(t, u, <<m>>)
  PROVE  Grown(s, u, Append(lines, m))
<1> DEFINE more == Append(lines, m)
           n == Len(lines)
           d == s.size + n - t.size
           e == t.size + 1 - u.size
<1>0. n \in Nat
  OBVIOUS
<1>1. /\ Len(more) = n + 1 /\ n \in Nat /\ more[n + 1] = m
      /\ \A i \in 1 .. n : more[i] = lines[i]
      /\ Len(<<m>>) = 1 /\ <<m>>[1] = m
  OBVIOUS
<1> HIDE DEF more, n
<1>2. /\ s.size \in 0 .. Capacity /\ t.size \in 0 .. Capacity
      /\ u.size \in 0 .. Capacity /\ Capacity \in Nat \ {0}
      /\ s.seq \in Nat /\ t.seq \in Nat /\ u.seq \in Nat
  BY StoreShape
<1>3. /\ t.seq = s.seq + n
      /\ t.size = IF s.size + n <= Capacity THEN s.size + n ELSE Capacity
  BY DEF Grown, n
<1>4. /\ u.seq = t.seq + 1
      /\ u.size = IF t.size + 1 <= Capacity THEN t.size + 1 ELSE Capacity
  BY <1>1 DEF Grown
<1>5. /\ u.size = IF s.size + (n + 1) <= Capacity THEN s.size + (n + 1)
                                                  ELSE Capacity
      /\ s.size + (n + 1) - u.size = d + e
      /\ d \in Nat /\ e \in Nat
      /\ \A i \in 1 .. u.size :
           /\ i + e <= t.size =>
                /\ i + e \in 1 .. t.size /\ i + e + d = i + (d + e)
                /\ i + e + d <= s.size \/ i + e + d - s.size \in 1 .. n
           /\ ~(i + e <= t.size) =>
                /\ i + e - t.size = 1 /\ i + (d + e) - s.size = n + 1
                /\ ~(i + (d + e) <= s.size)
  <2> HIDE DEF n
  <2> DEFINE a == s.size
             b == t.size
             c == u.size
  <2>1. /\ a \in 0 .. Capacity /\ b \in 0 .. Capacity /\ c \in 0 .. Capacity
        /\ Capacity \in Nat \ {0}
        /\ b = IF a + n <= Capacity THEN a + n ELSE Capacity
        /\ c = IF b + 1 <= Capacity THEN b + 1 ELSE Capacity
    BY <1>2, <1>3, <1>4
  <2> HIDE DEF a, b, c
  <2> QED
    BY ONLY <1>0, <2>1, DroppedInTurn DEF a, b, c
<1>6. \A i \in 1 .. t.size :
        Ordered(t)[i] =
          IF i + d <= s.size
            THEN Ordered(s)[i + d]
            ELSE [seq |-> s.seq + (i + d - s.size) - 1,
                  message |-> lines[i + d - s.size]]
  BY DEF Grown, n
<1>7. \A i \in 1 .. u.size :
        Ordered(u)[i] =
          IF i + e <= t.size
            THEN Ordered(t)[i + e]
            ELSE [seq |-> t.seq + (i + e - t.size) - 1,
                  message |-> <<m>>[i + e - t.size]]
  BY <1>1 DEF Grown
<1> HIDE DEF d, e
<1>8. ASSUME NEW i \in 1 .. u.size
      PROVE  Ordered(u)[i] =
               IF i + (d + e) <= s.size
                 THEN Ordered(s)[i + (d + e)]
                 ELSE [seq |-> s.seq + (i + (d + e) - s.size) - 1,
                       message |-> more[i + (d + e) - s.size]]
  <2>1. CASE i + e <= t.size
    <3>1. PICK j \in Int : j = i + e + d /\ j = i + (d + e)
      BY <1>5, <2>1
    <3>2. i + e \in 1 .. t.size /\ (j <= s.size \/ j - s.size \in 1 .. n)
      <4>1. i + e + d <= s.size \/ i + e + d - s.size \in 1 .. n
        BY <1>5, <2>1
      <4>2. i + e \in 1 .. t.size
        BY <1>5, <2>1
      <4> QED
        BY <1>0, <1>2, <1>5, <3>1, <4>1, <4>2
    <3>3. Ordered(u)[i] = Ordered(t)[i + e]
      BY <1>7, <2>1
    <3> HIDE DEF more
    <3>4. Ordered(t)[i + e] =
             IF j <= s.size
               THEN Ordered(s)[j]
               ELSE [seq |-> s.seq + (j - s.size) - 1,
                     message |-> lines[j - s.size]]
      <4>0. PICK k : k = i + e
        OBVIOUS
      <4>1. k \in 1 .. t.size /\ k + d = j
        BY <3>1, <3>2, <4>0
      <4>2. Ordered(t)[k] =
               IF k + d <= s.size
                 THEN Ordered(s)[k + d]
                 ELSE [seq |-> s.seq + (k + d - s.size) - 1,
                       message |-> lines[k + d - s.size]]
        BY <1>6, <4>1
      <4>3. Ordered(t)[k] =
               IF j <= s.size
                 THEN Ordered(s)[j]
                 ELSE [seq |-> s.seq + (j - s.size) - 1,
                       message |-> lines[j - s.size]]
        <5>1. /\ s.seq + (k + d - s.size) - 1 = s.seq + (j - s.size) - 1
              /\ k + d - s.size = j - s.size
              /\ k + d <= s.size <=> j <= s.size
          <6>1. k \in Int /\ d \in Int /\ s.size \in Int /\ s.seq \in Int
            BY <1>2, <1>5, <4>1
          <6>2. k + d = j
            BY <4>1
          <6> QED
            BY ONLY <6>1, <6>2, j \in Int
        <5>2. CASE j <= s.size
          BY <4>1, <4>2, <5>1, <5>2
        <5>3. CASE ~(j <= s.size)
          <6>1. Ordered(t)[k] = [seq |-> s.seq + (k + d - s.size) - 1,
                                 message |-> lines[k + d - s.size]]
            BY <4>2, <5>1, <5>3
          <6> QED
            BY <5>1, <5>3, <6>1
        <5> QED
          BY <5>2, <5>3
      <4>4. Ordered(t)[i + e] = Ordered(t)[k]
        BY <4>0
      <4> QED
        BY ONLY <4>3, <4>4
    <3>5. ~(j <= s.size) => lines[j - s.size] = more[j - s.size]
      BY <1>1, <3>2
    <3>6. Ordered(u)[i] =
             IF j <= s.size
               THEN Ordered(s)[j]
               ELSE [seq |-> s.seq + (j - s.size) - 1,
                     message |-> more[j - s.size]]
      BY <3>3, <3>4, <3>5
    <3>7. i + (d + e) = j
      BY <3>1
    <3> DEFINE l == i + (d + e)
    <3> HIDE DEF l
    <3>8. l = j
      BY <3>7 DEF l
    <3>9. Ordered(u)[i] =
            IF l <= s.size
              THEN Ordered(s)[l]
              ELSE [seq |-> s.seq + (l - s.size) - 1,
                    message |-> more[l - s.size]]
      BY <3>6, <3>8
    <3> QED
      BY <1>2, <1>5, <3>9 DEF l
  <2>2. CASE ~(i + e <= t.size)
    <3>1. /\ i + e - t.size = 1 /\ i + (d + e) - s.size = n + 1
          /\ ~(i + (d + e) <= s.size)
      BY <1>5, <2>2
    <3>2. t.seq + 1 - 1 = s.seq + (n + 1) - 1
      BY <1>1, <1>2, <1>3
    <3>3. Ordered(u)[i] = [seq |-> t.seq + 1 - 1, message |-> m]
      BY <1>1, <1>7, <2>2, <3>1
    <3> QED
      BY <1>1, <3>1, <3>2, <3>3
  <2> QED
    BY <2>1, <2>2
<1>9. u.seq = s.seq + (n + 1)
  <2>1. ASSUME NEW x \in Nat, NEW y \in Nat
        PROVE  (x + y) + 1 = x + (y + 1)
    OBVIOUS
  <2> QED
    BY <1>0, <1>2, <1>3, <1>4, <2>1
<1>10. Grown(s, u, more)
  BY <1>1, <1>5, <1>8, <1>9 DEF Grown
<1> QED
  BY <1>10 DEF more

LEMMA GrowsByBatch ==
  ASSUME NEW s \in Stores, NEW lines \in Seq(Messages)
  PROVE  Grown(s, PutAll(s, lines), lines)
<1> DEFINE N == Len(lines)
<1>0. N \in Nat
  OBVIOUS
<1>1. PICK after \in [0 .. N -> Stores] :
        /\ after[0] = s
        /\ \A n \in 1 .. N : after[n] = Put(after[n - 1], lines[n])
        /\ PutAll(s, lines) = after[N]
  BY PutAllWalks
<1> DEFINE grown == {n \in 0 .. N : Grown(s, after[n], SubSeq(lines, 1, n))}
<1>2. 0 \in grown
  <2>1. SubSeq(lines, 1, 0) = <<>>
    OBVIOUS
  <2>2. Grown(s, after[0], <<>>)
    BY <1>1, GrowsByNothing
  <2> QED
    BY <1>0, <2>1, <2>2
<1>3. ASSUME NEW n \in 1 .. N, n - 1 \in grown
      PROVE  n \in grown
  <2>1. /\ SubSeq(lines, 1, n - 1) \in Seq(Messages)
        /\ Len(SubSeq(lines, 1, n - 1)) = n - 1
        /\ lines[n] \in Messages
        /\ \A i \in 1 .. n - 1 : SubSeq(lines, 1, n - 1)[i] = lines[i]
    OBVIOUS
  <2>2. SubSeq(lines, 1, n) = Append(SubSeq(lines, 1, n - 1), lines[n])
    <3> DEFINE a == SubSeq(lines, 1, n)
               b == SubSeq(lines, 1, n - 1)
               c == Append(b, lines[n])
    <3>1. a \in Seq(Messages) /\ Len(a) = n /\ \A i \in 1 .. n : a[i] = lines[i]
      OBVIOUS
    <3>2. c \in Seq(Messages) /\ Len(c) = n
      BY <2>1
    <3>3. \A i \in 1 .. n : c[i] = lines[i]
      BY <2>1
    <3> HIDE DEF a, c
    <3>4. a = c
      BY <3>1, <3>2, <3>3, SeqEqual
    <3> QED
      BY <3>4 DEF a, c
  <2>3. after[n - 1] \in Stores /\ after[n] \in Stores
    BY <1>1
  <2>4. Grown(after[n - 1], after[n], <<lines[n]>>)
    BY <1>1, <2>1, <2>3, GrowsByOne
  <2>5. Grown(s, after[n - 1], SubSeq(lines, 1, n - 1))
    BY <1>3
  <2>6. Grown(s, after[n], Append(SubSeq(lines, 1, n - 1), lines[n]))
    BY <2>1, <2>3, <2>4, <2>5, GrowsOn
  <2> QED
    BY <2>2, <2>6
<1> HIDE DEF grown
<1>4. \A n \in 0 .. N : n \in grown
  <2> HIDE DEF N
  <2> QED
    BY <1>0, <1>2, <1>3, CountUp
<1>5. Grown(s, after[N], SubSeq(lines, 1, N))
  BY <1>0, <1>4 DEF grown
<1>6. SubSeq(lines, 1, N) = lines
  BY SubSeqFull
<1> QED
  BY <1>1, <1>5, <1>6

(* HoldsLatest, said of the list.                                          *)
LEMMA HeldInOrder ==
  ASSUME NEW s \in Stores
  PROVE  (\A i \in 0 .. s.size - 1 :
            /\ s.ring[SlotAt(s, i)] \in Entries
            /\ s.ring[SlotAt(s, i)].seq = s.seq - s.size + i)
         <=> \A i \in 1 .. s.size :
               /\ Ordered(s)[i] \in Entries
               /\ Ordered(s)[i].seq = s.seq - s.size + i - 1
<1>0. s.size \in Nat /\ s.seq \in Nat
  BY StoreShape
<1>1. ASSUME \A i \in 0 .. s.size - 1 :
               /\ s.ring[SlotAt(s, i)] \in Entries
               /\ s.ring[SlotAt(s, i)].seq = s.seq - s.size + i,
             NEW i \in 1 .. s.size
      PROVE  /\ Ordered(s)[i] \in Entries
             /\ Ordered(s)[i].seq = s.seq - s.size + i - 1
  <2>1. i - 1 \in 0 .. s.size - 1 /\ s.seq - s.size + (i - 1) = s.seq - s.size + i - 1
    BY <1>0
  <2>2. Ordered(s)[i] = s.ring[SlotAt(s, i - 1)]
    BY StoreShape
  <2> QED
    BY <1>1, <2>1, <2>2
<1>2. ASSUME \A i \in 1 .. s.size :
               /\ Ordered(s)[i] \in Entries
               /\ Ordered(s)[i].seq = s.seq - s.size + i - 1,
             NEW i \in 0 .. s.size - 1
      PROVE  /\ s.ring[SlotAt(s, i)] \in Entries
             /\ s.ring[SlotAt(s, i)].seq = s.seq - s.size + i
  <2>1. /\ i + 1 \in 1 .. s.size /\ (i + 1) - 1 = i
        /\ s.seq - s.size + (i + 1) - 1 = s.seq - s.size + i
    BY <1>0
  <2>2. Ordered(s)[i + 1] = s.ring[SlotAt(s, i)]
    BY <2>1, StoreShape
  <2> QED
    BY <1>2, <2>1, <2>2
<1> QED
  BY <1>1, <1>2

(* Which entries are old, and the numbers of the new ones.                 *)
LEMMA Renumbered ==
  ASSUME NEW cap \in Nat \ {0}, NEW a \in 0 .. cap, NEW n \in Nat,
         NEW q \in Nat, NEW b \in 0 .. cap,
         NEW r \in Nat, r = q + n,
         b = IF a + n <= cap THEN a + n ELSE cap
  PROVE  LET d == a + n - b IN
         /\ d \in Nat
         /\ a <= q => b <= r
         /\ \A i \in 1 .. b :
              /\ i + d <= a =>
                   /\ i + d \in 1 .. a
                   /\ q - a + (i + d) - 1 = r - b + i - 1
              /\ ~(i + d <= a) =>
                   /\ i + d - a \in 1 .. n
                   /\ q + (i + d - a) - 1 = r - b + i - 1
                   /\ q + (i + d - a) - 1 \in Nat
OBVIOUS

(* What a store that has grown keeps.                                      *)
LEMMA GrownHolds ==
  ASSUME NEW s \in Stores, NEW t, NEW lines \in Seq(Messages),
         Grown(s, t, lines), s.size <= s.seq,
         \A i \in 1 .. s.size :
           /\ Ordered(s)[i] \in Entries
           /\ Ordered(s)[i].seq = s.seq - s.size + i - 1
  PROVE  /\ t \in Stores /\ t.size <= t.seq
         /\ \A i \in 1 .. t.size :
              /\ Ordered(t)[i] \in Entries
              /\ Ordered(t)[i].seq = t.seq - t.size + i - 1
<1> DEFINE d == s.size + Len(lines) - t.size
<1>0. t \in Stores
  BY DEF Grown
<1>1. /\ s.size \in 0 .. Capacity /\ t.size \in 0 .. Capacity
      /\ Capacity \in Nat \ {0} /\ s.seq \in Nat /\ t.seq \in Nat
      /\ Len(lines) \in Nat
  BY <1>0, StoreShape
<1>2. /\ t.seq = s.seq + Len(lines)
      /\ t.size = IF s.size + Len(lines) <= Capacity
                    THEN s.size + Len(lines) ELSE Capacity
  BY DEF Grown
<1>3. /\ t.size <= t.seq /\ d \in Nat
      /\ \A i \in 1 .. t.size :
           /\ i + d <= s.size =>
                /\ i + d \in 1 .. s.size
                /\ s.seq - s.size + (i + d) - 1 = t.seq - t.size + i - 1
           /\ ~(i + d <= s.size) =>
                /\ i + d - s.size \in 1 .. Len(lines)
                /\ s.seq + (i + d - s.size) - 1 = t.seq - t.size + i - 1
                /\ s.seq + (i + d - s.size) - 1 \in Nat
  <2> DEFINE a == s.size
             b == t.size
             n == Len(lines)
             q == s.seq
             r == t.seq
  <2>1. /\ a \in 0 .. Capacity /\ Capacity \in Nat \ {0} /\ n \in Nat
        /\ q \in Nat /\ b = IF a + n <= Capacity THEN a + n ELSE Capacity
        /\ r = q + n /\ a <= q /\ b \in 0 .. Capacity /\ r \in Nat
    BY <1>1, <1>2
  <2> HIDE DEF a, b, n, q, r
  <2>2. /\ b <= r /\ a + n - b \in Nat
        /\ \A i \in 1 .. b :
             /\ i + (a + n - b) <= a =>
                  /\ i + (a + n - b) \in 1 .. a
                  /\ q - a + (i + (a + n - b)) - 1 = r - b + i - 1
             /\ ~(i + (a + n - b) <= a) =>
                  /\ i + (a + n - b) - a \in 1 .. n
                  /\ q + (i + (a + n - b) - a) - 1 = r - b + i - 1
                  /\ q + (i + (a + n - b) - a) - 1 \in Nat
    BY ONLY <2>1, Renumbered
  <2> QED
    BY ONLY <2>2 DEF a, b, n, q, r
<1>4. \A i \in 1 .. t.size :
        Ordered(t)[i] =
          IF i + d <= s.size
            THEN Ordered(s)[i + d]
            ELSE [seq |-> s.seq + (i + d - s.size) - 1,
                  message |-> lines[i + d - s.size]]
  BY DEF Grown
<1>5. ASSUME NEW i \in 1 .. t.size
      PROVE  /\ Ordered(t)[i] \in Entries
             /\ Ordered(t)[i].seq = t.seq - t.size + i - 1
  <2>1. CASE i + d <= s.size
    <3>1. i + d \in 1 .. s.size
          /\ s.seq - s.size + (i + d) - 1 = t.seq - t.size + i - 1
      BY <1>3, <2>1
    <3>2. Ordered(t)[i] = Ordered(s)[i + d]
      BY <1>4, <2>1
    <3> HIDE DEF d
    <3> QED
      BY <3>1, <3>2
  <2>2. CASE ~(i + d <= s.size)
    <3>1. /\ i + d - s.size \in 1 .. Len(lines)
          /\ s.seq + (i + d - s.size) - 1 = t.seq - t.size + i - 1
          /\ s.seq + (i + d - s.size) - 1 \in Nat
      BY <1>3, <2>2
    <3>2. Ordered(t)[i] = [seq |-> s.seq + (i + d - s.size) - 1,
                           message |-> lines[i + d - s.size]]
      BY <1>4, <2>2
    <3>3. lines[i + d - s.size] \in Messages
      BY <3>1
    <3> HIDE DEF d
    <3> QED
      BY <3>1, <3>2, <3>3 DEF Entries
  <2> QED
    BY <2>1, <2>2
<1> QED
  BY <1>0, <1>3, <1>5

-----------------------------------------------------------------------------
(* Where the lines of the pages are.                                       *)

(* Lines of page p, each once.                                             *)
LinesOf(p, lines) ==
  /\ \A i \in DOMAIN lines : \E n \in 1 .. written[p] : lines[i] = Line(p, n)
  /\ \A i, j \in DOMAIN lines : lines[i] = lines[j] => i = j

(* The inductive form of WebLinesOnce: what is waiting, what is under way  *)
(* and what is stored are lines that were written, and are disjoint.       *)
PlacesInv ==
  /\ \A p \in Consoles : LinesOf(p, buffer[p])
  /\ \A post \in posts :
       /\ LinesOf(post.page, post.lines)
       /\ \A p \in Consoles : Range(post.lines) \cap Range(buffer[p]) = {}
       /\ \A other \in posts \ {post} :
            Range(post.lines) \cap Range(other.lines) = {}
  /\ \A i \in 1 .. store.size :
       LET l == Ordered(store)[i].message IN
       l # BackendLine =>
         /\ \E p \in Consoles : \E n \in 1 .. written[p] : l = Line(p, n)
         /\ \A j \in 1 .. store.size : Ordered(store)[j].message = l => i = j
         /\ \A p \in Consoles : l \notin Range(buffer[p])
         /\ \A post \in posts : l \notin Range(post.lines)

StoreInv ==
  /\ store \in Stores /\ store.size <= store.seq
  /\ \A i \in 1 .. store.size :
       /\ Ordered(store)[i] \in Entries
       /\ Ordered(store)[i].seq = store.seq - store.size + i - 1

LogsInv ==
  /\ LogTypeOK /\ StoreInv /\ PlacesInv
  /\ \A p \in Consoles : Len(buffer[p]) < Threshold

LEMMA LinesDiffer ==
  /\ \A p, q, n, k : Line(p, n) = Line(q, k) => p = q /\ n = k
  /\ \A p, n : Line(p, n) # BackendLine
<1>1. ASSUME NEW p, NEW q, NEW n, NEW k, Line(p, n) = Line(q, k)
      PROVE  p = q /\ n = k
  BY <1>1 DEF Line
<1>2. ASSUME NEW p, NEW n
      PROVE  Line(p, n) # BackendLine
  <2>1. Line(p, n)[1] = "web" /\ BackendLine[1] = "backend"
    BY DEF Line, BackendLine
  <2> QED
    BY <2>1
<1> QED
  BY <1>1, <1>2

(* Lines of page p, and of no other place, that may be where its buffer is *)
(* after a step that stores nothing.                                       *)
Ready(p, lines) ==
  /\ \A i \in DOMAIN lines : \E n \in 1 .. written'[p] : lines[i] = Line(p, n)
  /\ \A i, j \in DOMAIN lines : lines[i] = lines[j] => i = j
  /\ \A post \in posts : Range(lines) \cap Range(post.lines) = {}
  /\ \A q \in Consoles \ {p} : Range(lines) \cap Range(buffer[q]) = {}
  /\ \A i \in 1 .. store.size : Ordered(store)[i].message \notin Range(lines)

WrittenGrows == \A q \in Consoles : written[q] <= written'[q]

(* The stored lines, in a step that stores nothing.                        *)
LEMMA StoredStay ==
  ASSUME LogTypeOK, LogTypeOK', WrittenGrows, PlacesInv, UNCHANGED store,
         NEW i \in 1 .. store.size, Ordered(store)[i].message # BackendLine
  PROVE  LET l == Ordered(store)[i].message IN
         /\ \E p \in Consoles : \E n \in 1 .. written'[p] : l = Line(p, n)
         /\ \A j \in 1 .. store.size : Ordered(store)[j].message = l => i = j
         /\ \A p \in Consoles : l \notin Range(buffer[p])
         /\ \A post \in posts : l \notin Range(post.lines)
<1> DEFINE l == Ordered(store)[i].message
<1>1. /\ \E p \in Consoles : \E n \in 1 .. written[p] : l = Line(p, n)
      /\ \A j \in 1 .. store.size : Ordered(store)[j].message = l => i = j
      /\ \A p \in Consoles : l \notin Range(buffer[p])
      /\ \A post \in posts : l \notin Range(post.lines)
  BY DEF PlacesInv
<1>2. \A p \in Consoles : \A n \in 1 .. written[p] : n \in 1 .. written'[p]
  BY DEF LogTypeOK, WrittenGrows
<1> QED
  BY <1>1, <1>2

LEMMA BufferedInv ==
  ASSUME LogTypeOK, LogTypeOK', WrittenGrows, PlacesInv, UNCHANGED store,
         NEW p \in Consoles, NEW lines, Ready(p, lines),
         buffer' = [buffer EXCEPT ![p] = lines], UNCHANGED posts
  PROVE  PlacesInv'
<1>0. /\ buffer \in [Consoles -> Seq(Messages)] /\ buffer'[p] = lines
      /\ \A q \in Consoles \ {p} : buffer'[q] = buffer[q]
      /\ \A post \in posts : post.page \in Consoles
  BY DEF LogTypeOK
<1>1. \A q \in Consoles : LinesOf(q, buffer[q])'
  <2>1. ASSUME NEW q \in Consoles \ {p}
        PROVE  LinesOf(q, buffer[q])'
    <3>1. LinesOf(q, buffer[q]) /\ buffer'[q] = buffer[q]
      BY <1>0 DEF PlacesInv
    <3>2. \A n \in 1 .. written[q] : n \in 1 .. written'[q]
      BY DEF LogTypeOK, WrittenGrows
    <3> QED
      BY <3>1, <3>2 DEF LinesOf
  <2>2. LinesOf(p, buffer[p])'
    BY <1>0 DEF Ready, LinesOf
  <2> QED
    BY <2>1, <2>2
<1>2. ASSUME NEW post \in posts
      PROVE  /\ LinesOf(post.page, post.lines)'
             /\ \A q \in Consoles : Range(post.lines) \cap Range(buffer'[q]) = {}
             /\ \A other \in posts \ {post} :
                  Range(post.lines) \cap Range(other.lines) = {}
  <2>1. LinesOf(post.page, post.lines)'
    <3>1. LinesOf(post.page, post.lines) /\ post.page \in Consoles
      BY <1>0 DEF PlacesInv
    <3>2. \A n \in 1 .. written[post.page] : n \in 1 .. written'[post.page]
      BY <3>1 DEF LogTypeOK, WrittenGrows
    <3> QED
      BY <3>1, <3>2 DEF LinesOf
  <2>2. \A q \in Consoles : Range(post.lines) \cap Range(buffer'[q]) = {}
    BY <1>0 DEF PlacesInv, Ready
  <2> QED
    BY <2>1, <2>2 DEF PlacesInv
<1>3. ASSUME NEW i \in 1 .. store.size, Ordered(store)[i].message # BackendLine
      PROVE  LET l == Ordered(store)[i].message IN
             /\ \E q \in Consoles : \E n \in 1 .. written'[q] : l = Line(q, n)
             /\ \A j \in 1 .. store.size :
                  Ordered(store)[j].message = l => i = j
             /\ \A q \in Consoles : l \notin Range(buffer'[q])
             /\ \A post \in posts : l \notin Range(post.lines)
  <2> DEFINE l == Ordered(store)[i].message
  <2>1. /\ \E q \in Consoles : \E n \in 1 .. written'[q] : l = Line(q, n)
        /\ \A j \in 1 .. store.size : Ordered(store)[j].message = l => i = j
        /\ \A q \in Consoles : l \notin Range(buffer[q])
        /\ \A post \in posts : l \notin Range(post.lines)
    BY <1>3, StoredStay
  <2>2. l \notin Range(lines)
    BY DEF Ready
  <2> HIDE DEF l
  <2>3. \A q \in Consoles : l \notin Range(buffer'[q])
    BY <1>0, <2>1, <2>2
  <2> QED
    BY <2>1, <2>3 DEF l
<1>4. store' = store /\ posts' = posts /\ Ordered(store)' = Ordered(store)
  BY DEF Ordered, SlotAt
<1> QED
  BY <1>1, <1>2, <1>3, <1>4 DEF PlacesInv

LEMMA FlushedInv ==
  ASSUME LogTypeOK, LogTypeOK', WrittenGrows, PlacesInv, UNCHANGED store,
         NEW p \in Consoles, NEW lines, Ready(p, lines),
         buffer' = [buffer EXCEPT ![p] = <<>>],
         posts' = posts \cup {[page |-> p, lines |-> lines]}
  PROVE  PlacesInv'
<1> DEFINE new == [page |-> p, lines |-> lines]
<1>0. /\ buffer \in [Consoles -> Seq(Messages)] /\ buffer'[p] = <<>>
      /\ \A q \in Consoles \ {p} : buffer'[q] = buffer[q]
      /\ \A post \in posts : post.page \in Consoles
      /\ posts' = posts \cup {new} /\ new.page = p /\ new.lines = lines
      /\ Range(<<>>) = {}
  BY DEF LogTypeOK, Range
<1>1. \A q \in Consoles : LinesOf(q, buffer[q])'
  <2>1. ASSUME NEW q \in Consoles \ {p}
        PROVE  LinesOf(q, buffer[q])'
    <3>1. LinesOf(q, buffer[q]) /\ buffer'[q] = buffer[q]
      BY <1>0 DEF PlacesInv
    <3>2. \A n \in 1 .. written[q] : n \in 1 .. written'[q]
      BY DEF LogTypeOK, WrittenGrows
    <3> QED
      BY <3>1, <3>2 DEF LinesOf
  <2>2. LinesOf(p, buffer[p])'
    BY <1>0 DEF LinesOf
  <2> QED
    BY <2>1, <2>2
<1>2. \A q \in Consoles : Range(buffer'[q]) \subseteq Range(buffer[q])
  BY <1>0
<1>3. ASSUME NEW post \in posts
      PROVE  /\ LinesOf(post.page, post.lines)'
             /\ \A q \in Consoles : Range(post.lines) \cap Range(buffer'[q]) = {}
             /\ \A other \in posts \ {post} :
                  Range(post.lines) \cap Range(other.lines) = {}
             /\ Range(post.lines) \cap Range(lines) = {}
  <2>1. LinesOf(post.page, post.lines)'
    <3>1. LinesOf(post.page, post.lines) /\ post.page \in Consoles
      BY <1>0 DEF PlacesInv
    <3>2. \A n \in 1 .. written[post.page] : n \in 1 .. written'[post.page]
      BY <3>1 DEF LogTypeOK, WrittenGrows
    <3> QED
      BY <3>1, <3>2 DEF LinesOf
  <2>2. \A q \in Consoles : Range(post.lines) \cap Range(buffer'[q]) = {}
    BY <1>2 DEF PlacesInv
  <2>3. Range(post.lines) \cap Range(lines) = {}
    BY DEF Ready
  <2> QED
    BY <2>1, <2>2, <2>3 DEF PlacesInv
<1>4. /\ LinesOf(new.page, new.lines)'
      /\ \A q \in Consoles : Range(new.lines) \cap Range(buffer'[q]) = {}
  <2>1. LinesOf(new.page, new.lines)'
    BY <1>0 DEF Ready, LinesOf
  <2>2. ASSUME NEW q \in Consoles
        PROVE  Range(lines) \cap Range(buffer'[q]) = {}
    BY <1>0, <1>2 DEF Ready
  <2> HIDE DEF new
  <2> QED
    BY <1>0, <2>1, <2>2
<1>5. ASSUME NEW i \in 1 .. store.size, Ordered(store)[i].message # BackendLine
      PROVE  LET l == Ordered(store)[i].message IN
             /\ \E q \in Consoles : \E n \in 1 .. written'[q] : l = Line(q, n)
             /\ \A j \in 1 .. store.size :
                  Ordered(store)[j].message = l => i = j
             /\ \A q \in Consoles : l \notin Range(buffer'[q])
             /\ \A post \in posts' : l \notin Range(post.lines)
  <2> DEFINE l == Ordered(store)[i].message
  <2>1. /\ \E q \in Consoles : \E n \in 1 .. written'[q] : l = Line(q, n)
        /\ \A j \in 1 .. store.size : Ordered(store)[j].message = l => i = j
        /\ \A q \in Consoles : l \notin Range(buffer[q])
        /\ \A post \in posts : l \notin Range(post.lines)
    BY <1>5, StoredStay
  <2>2. l \notin Range(lines)
    BY DEF Ready
  <2> HIDE DEF l, new
  <2>3. \A q \in Consoles : l \notin Range(buffer'[q])
    BY <1>2, <2>1
  <2>4. \A post \in posts' : l \notin Range(post.lines)
    BY <1>0, <2>1, <2>2
  <2> QED
    BY <2>1, <2>3, <2>4 DEF l
<1>6. store' = store /\ Ordered(store)' = Ordered(store)
  BY DEF Ordered, SlotAt
<1> HIDE DEF new
<1>7. ASSUME NEW post \in posts'
      PROVE  /\ LinesOf(post.page, post.lines)'
             /\ \A q \in Consoles :
                  Range(post.lines) \cap Range(buffer'[q]) = {}
             /\ \A other \in posts' \ {post} :
                  Range(post.lines) \cap Range(other.lines) = {}
  <2>1. CASE post \in posts
    BY <1>0, <1>3, <2>1
  <2>2. CASE post = new
    BY <1>0, <1>3, <1>4, <2>2
  <2> QED
    BY <1>0, <2>1, <2>2
<1>8. \A i \in 1 .. store'.size : Ordered(store)'[i].message # BackendLine =>
        /\ \E q \in Consoles : \E n \in 1 .. written'[q] :
             Ordered(store)'[i].message = Line(q, n)
        /\ \A j \in 1 .. store'.size :
             Ordered(store)'[j].message = Ordered(store)'[i].message => i = j
        /\ \A q \in Consoles : Ordered(store)'[i].message \notin Range(buffer'[q])
        /\ \A post \in posts' : Ordered(store)'[i].message \notin Range(post.lines)
  BY <1>5, <1>6
<1> QED
  BY ONLY <1>1, <1>7, <1>8 DEF PlacesInv

(* Lines that are nowhere but in a batch, or are the worklet's own, are    *)
(* appended to the store.                                                  *)
LEMMA AppendedInv ==
  ASSUME LogTypeOK, PlacesInv, UNCHANGED <<written, buffer>>,
         posts' \subseteq posts, NEW lines \in Seq(Messages),
         Grown(store, store', lines),
         \A i \in 1 .. Len(lines) : lines[i] # BackendLine =>
           /\ \E p \in Consoles : \E n \in 1 .. written[p] : lines[i] = Line(p, n)
           /\ \A j \in 1 .. Len(lines) : lines[j] = lines[i] => i = j
           /\ \A p \in Consoles : lines[i] \notin Range(buffer[p])
           /\ \A post \in posts' : lines[i] \notin Range(post.lines)
           /\ \A j \in 1 .. store.size :
                Ordered(store)[j].message # lines[i]
  PROVE  PlacesInv'
<1> DEFINE d == store.size + Len(lines) - store'.size
           old == Ordered(store)
           new == Ordered(store)'
<1>0. /\ store \in Stores /\ store' \in Stores
      /\ store.size \in 0 .. Capacity /\ store'.size \in 0 .. Capacity
      /\ store.seq \in Nat /\ store'.seq \in Nat /\ Len(lines) \in Nat
      /\ Capacity \in Nat \ {0}
  BY StoreShape DEF Grown, LogTypeOK
<1>1. /\ d \in Nat
      /\ \A i \in 1 .. store'.size :
           /\ i + d <= store.size => i + d \in 1 .. store.size
           /\ ~(i + d <= store.size) => i + d - store.size \in 1 .. Len(lines)
  <2> DEFINE a == store.size
             b == store'.size
             n == Len(lines)
             q == store.seq
             r == store'.seq
  <2>1. /\ a \in 0 .. Capacity /\ Capacity \in Nat \ {0} /\ n \in Nat
        /\ q \in Nat /\ b = IF a + n <= Capacity THEN a + n ELSE Capacity
        /\ r = q + n /\ b \in 0 .. Capacity /\ r \in Nat
    BY <1>0 DEF Grown
  <2> HIDE DEF a, b, n, q, r
  <2>2. /\ a + n - b \in Nat
        /\ \A i \in 1 .. b :
             /\ i + (a + n - b) <= a => i + (a + n - b) \in 1 .. a
             /\ ~(i + (a + n - b) <= a) => i + (a + n - b) - a \in 1 .. n
    BY ONLY <2>1, Renumbered
  <2> QED
    BY ONLY <2>2 DEF a, b, n, q, r
<1>2. \A i \in 1 .. store'.size :
        new[i].message = IF i + d <= store.size
                           THEN old[i + d].message
                           ELSE lines[i + d - store.size]
  <2>1. \A i \in 1 .. store'.size :
          new[i] = IF i + d <= store.size
                     THEN old[i + d]
                     ELSE [seq |-> store.seq + (i + d - store.size) - 1,
                           message |-> lines[i + d - store.size]]
    BY DEF Grown
  <2> HIDE DEF d, old, new
  <2>2. ASSUME NEW i \in 1 .. store'.size
        PROVE  new[i].message = IF i + d <= store.size
                                  THEN old[i + d].message
                                  ELSE lines[i + d - store.size]
    <3>1. CASE i + d <= store.size
      BY ONLY <2>1, <3>1
    <3>2. CASE ~(i + d <= store.size)
      <4>1. new[i] = [seq |-> store.seq + (i + d - store.size) - 1,
                      message |-> lines[i + d - store.size]]
        BY ONLY <2>1, <3>2
      <4> QED
        BY ONLY <3>2, <4>1
    <3> QED
      BY ONLY <3>1, <3>2
  <2> QED
    BY ONLY <2>2
<1>3. \A i, j \in 1 .. store'.size :
        /\ i + d = j + d => i = j
        /\ i + d - store.size = j + d - store.size => i = j
  BY <1>0, <1>1
<1>4. /\ \A i \in 1 .. store.size : old[i].message # BackendLine =>
           /\ \E p \in Consoles : \E n \in 1 .. written[p] :
                old[i].message = Line(p, n)
           /\ \A j \in 1 .. store.size :
                old[j].message = old[i].message => i = j
           /\ \A p \in Consoles : old[i].message \notin Range(buffer[p])
           /\ \A post \in posts' : old[i].message \notin Range(post.lines)
  BY DEF PlacesInv
<1>5. \A i \in 1 .. Len(lines) : lines[i] # BackendLine =>
        \A j \in 1 .. store.size : old[j].message # lines[i]
  OBVIOUS
<1> HIDE DEF d, old, new
<1>6. ASSUME NEW i \in 1 .. store'.size, new[i].message # BackendLine
      PROVE  /\ \E p \in Consoles : \E n \in 1 .. written'[p] :
                  new[i].message = Line(p, n)
             /\ \A j \in 1 .. store'.size :
                  new[j].message = new[i].message => i = j
             /\ \A p \in Consoles : new[i].message \notin Range(buffer'[p])
             /\ \A post \in posts' : new[i].message \notin Range(post.lines)
  <2>1. CASE i + d <= store.size
    <3>1. new[i].message = old[i + d].message /\ i + d \in 1 .. store.size
      BY <1>1, <1>2, <2>1
    <3>2. ASSUME NEW j \in 1 .. store'.size, new[j].message = new[i].message
          PROVE  i = j
      <4>1. CASE j + d <= store.size
        <5>1. new[j].message = old[j + d].message /\ j + d \in 1 .. store.size
          BY <1>1, <1>2, <4>1
        <5> QED
          BY <1>3, <1>4, <1>6, <3>1, <3>2, <5>1
      <4>2. CASE ~(j + d <= store.size)
        <5>1. new[j].message = lines[j + d - store.size]
              /\ j + d - store.size \in 1 .. Len(lines)
          BY <1>1, <1>2, <4>2
        <5> QED
          BY <1>5, <1>6, <3>1, <3>2, <5>1
      <4> QED
        BY <4>1, <4>2
    <3> QED
      BY <1>4, <1>6, <3>1, <3>2
  <2>2. CASE ~(i + d <= store.size)
    <3>1. new[i].message = lines[i + d - store.size]
          /\ i + d - store.size \in 1 .. Len(lines)
      BY <1>1, <1>2, <2>2
    <3>2. ASSUME NEW j \in 1 .. store'.size, new[j].message = new[i].message
          PROVE  i = j
      <4>1. CASE j + d <= store.size
        <5>1. new[j].message = old[j + d].message /\ j + d \in 1 .. store.size
          BY <1>1, <1>2, <4>1
        <5> QED
          BY <1>5, <1>6, <3>1, <3>2, <5>1
      <4>2. CASE ~(j + d <= store.size)
        <5>1. new[j].message = lines[j + d - store.size]
              /\ j + d - store.size \in 1 .. Len(lines)
          BY <1>1, <1>2, <4>2
        <5> QED
          BY <1>3, <1>6, <3>1, <3>2, <5>1
      <4> QED
        BY <4>1, <4>2
    <3> QED
      BY <1>6, <3>1, <3>2
  <2> QED
    BY <2>1, <2>2
<1>7. /\ \A p \in Consoles : LinesOf(p, buffer[p])'
      /\ \A post \in posts' :
           /\ LinesOf(post.page, post.lines)'
           /\ \A p \in Consoles : Range(post.lines) \cap Range(buffer'[p]) = {}
           /\ \A other \in posts' \ {post} :
                Range(post.lines) \cap Range(other.lines) = {}
  <2>1. /\ \A p \in Consoles : LinesOf(p, buffer[p])
        /\ \A post \in posts : LinesOf(post.page, post.lines)
        /\ written' = written /\ buffer' = buffer /\ posts' \subseteq posts
    BY DEF PlacesInv
  <2>2. /\ \A p \in Consoles : LinesOf(p, buffer[p])'
        /\ \A post \in posts' : LinesOf(post.page, post.lines)'
    BY ONLY <2>1 DEF LinesOf
  <2>3. ASSUME NEW post \in posts'
        PROVE  /\ \A p \in Consoles :
                    Range(post.lines) \cap Range(buffer'[p]) = {}
               /\ \A other \in posts' \ {post} :
                    Range(post.lines) \cap Range(other.lines) = {}
    BY <2>1 DEF PlacesInv
  <2> QED
    BY ONLY <2>2, <2>3
<1> QED
  BY ONLY <1>6, <1>7 DEF PlacesInv, new

(* The line a page is about to write is nowhere yet.                       *)
LEMMA NewLine ==
  ASSUME LogTypeOK, PlacesInv, NEW p \in Consoles, written[p] < MaxLines
  PROVE  LET l == Line(p, written[p] + 1) IN
         /\ l \in Messages
         /\ \A q \in Consoles : l \notin Range(buffer[q])
         /\ \A post \in posts : l \notin Range(post.lines)
         /\ \A i \in 1 .. store.size : Ordered(store)[i].message # l
<1> DEFINE l == Line(p, written[p] + 1)
<1>1. /\ written[p] \in Nat /\ MaxLines \in Nat
      /\ written[p] + 1 \in 1 .. MaxLines
      /\ \A n \in 1 .. written[p] : n # written[p] + 1
  BY LinesAssumption DEF LogTypeOK
<1>2. l \in Messages
  BY <1>1, LinesAssumption
<1>3. \A q \in Consoles : \A n \in 1 .. written[q] : l # Line(q, n)
  BY <1>1, LinesDiffer
<1>4. l # BackendLine
  BY LinesDiffer
<1> HIDE DEF l
<1>5. ASSUME NEW q \in Consoles
      PROVE  l \notin Range(buffer[q])
  <2>1. \A i \in DOMAIN buffer[q] : buffer[q][i] # l
    BY <1>3 DEF PlacesInv, LinesOf
  <2> QED
    BY <2>1 DEF Range
<1>6. ASSUME NEW post \in posts
      PROVE  l \notin Range(post.lines)
  <2>1. post.page \in Consoles /\ LinesOf(post.page, post.lines)
    BY DEF PlacesInv, LogTypeOK
  <2>2. \A i \in DOMAIN post.lines : post.lines[i] # l
    BY <1>3, <2>1 DEF LinesOf
  <2> QED
    BY <2>2 DEF Range
<1>7. ASSUME NEW i \in 1 .. store.size
      PROVE  Ordered(store)[i].message # l
  <2>1. Ordered(store)[i].message # BackendLine =>
          \E q \in Consoles : \E n \in 1 .. written[q] :
            Ordered(store)[i].message = Line(q, n)
    BY DEF PlacesInv
  <2> QED
    BY <1>3, <1>4, <2>1
<1> QED
  BY <1>2, <1>5, <1>6, <1>7 DEF l

(* Lines of two pages differ.                                              *)
LEMMA PagesApart ==
  ASSUME NEW p \in Consoles, NEW q \in Consoles, p # q,
         NEW a, NEW b, LinesOf(p, a), LinesOf(q, b)
  PROVE  Range(a) \cap Range(b) = {}
<1> SUFFICES ASSUME NEW i \in DOMAIN a, NEW j \in DOMAIN b, a[i] = b[j]
             PROVE  FALSE
  BY DEF Range
<1>1. /\ \E n \in 1 .. written[p] : a[i] = Line(p, n)
      /\ \E n \in 1 .. written[q] : b[j] = Line(q, n)
  BY DEF LinesOf
<1> QED
  BY <1>1, LinesDiffer

(* The buffer, with the new line.                                          *)
LEMMA WrittenReady ==
  ASSUME LogTypeOK, PlacesInv, NEW p \in Consoles, written[p] < MaxLines,
         written' = [written EXCEPT ![p] = @ + 1]
  PROVE  LET lines == Append(buffer[p], Line(p, written[p] + 1)) IN
         /\ lines \in Seq(Messages) /\ Len(lines) = Len(buffer[p]) + 1
         /\ Ready(p, lines)
         /\ WrittenGrows
<1> DEFINE l     == Line(p, written[p] + 1)
           old   == buffer[p]
           lines == Append(old, l)
<1>1. /\ l \in Messages
      /\ \A q \in Consoles : l \notin Range(buffer[q])
      /\ \A post \in posts : l \notin Range(post.lines)
      /\ \A i \in 1 .. store.size : Ordered(store)[i].message # l
  BY NewLine
<1>2. /\ old \in Seq(Messages) /\ written \in [Consoles -> 0 .. MaxLines]
      /\ MaxLines \in Nat /\ written[p] \in Nat
      /\ written'[p] = written[p] + 1
      /\ written[p] + 1 \in 1 .. written'[p]
      /\ \A n \in 1 .. written[p] : n \in 1 .. written'[p]
      /\ \A q \in Consoles : q # p => written'[q] = written[q]
  BY LinesAssumption DEF LogTypeOK
<1>3. l = Line(p, written'[p])
  BY <1>2
<1> HIDE DEF l
<1>4. /\ lines \in Seq(Messages) /\ Len(lines) = Len(old) + 1
      /\ Len(old) \in Nat
      /\ \A i \in 1 .. Len(old) : lines[i] = old[i]
      /\ lines[Len(old) + 1] = l
      /\ DOMAIN lines = 1 .. Len(old) + 1
      /\ DOMAIN old = 1 .. Len(old)
  BY <1>1, <1>2
<1>5. \A i \in DOMAIN lines : i \in DOMAIN old \/ i = Len(old) + 1
  BY <1>4
<1>6. Range(lines) = Range(old) \cup {l}
  BY ONLY <1>4, <1>5 DEF Range
<1>7. /\ LinesOf(p, old)
      /\ \A post \in posts : Range(post.lines) \cap Range(old) = {}
      /\ \A i \in 1 .. store.size :
           Ordered(store)[i].message # BackendLine =>
             Ordered(store)[i].message \notin Range(old)
  BY DEF PlacesInv
<1>8. BackendLine \notin Range(old)
  <2>1. \A i \in DOMAIN old : \E n \in 1 .. written[p] : old[i] = Line(p, n)
    BY <1>7 DEF LinesOf
  <2>2. \A i \in DOMAIN old : old[i] # BackendLine
    BY <2>1, LinesDiffer
  <2> QED
    BY <2>2 DEF Range
<1>9. \A q \in Consoles \ {p} : Range(old) \cap Range(buffer[q]) = {}
  BY PagesApart DEF PlacesInv
<1> HIDE DEF lines, old
<1>10. \A i \in DOMAIN lines : \E n \in 1 .. written'[p] : lines[i] = Line(p, n)
  <2>1. \A i \in DOMAIN old : \E n \in 1 .. written'[p] : old[i] = Line(p, n)
    BY <1>2, <1>7 DEF LinesOf
  <2>2. \E n \in 1 .. written'[p] : l = Line(p, n)
    BY <1>2, <1>3
  <2> QED
    BY <1>4, <1>5, <2>1, <2>2
<1>11. \A i, j \in DOMAIN lines : lines[i] = lines[j] => i = j
  <2>1. \A i, j \in DOMAIN old : old[i] = old[j] => i = j
    BY <1>7 DEF LinesOf
  <2>2. \A i \in DOMAIN old : old[i] # l
    BY <1>1 DEF Range, old
  <2> QED
    BY <1>4, <1>5, <2>1, <2>2
<1>12. Ready(p, lines)
  <2>2. \A post \in posts : Range(lines) \cap Range(post.lines) = {}
    BY <1>1, <1>6, <1>7
  <2>3. \A q \in Consoles \ {p} : Range(lines) \cap Range(buffer[q]) = {}
    BY <1>1, <1>6, <1>9
  <2>4. \A i \in 1 .. store.size : Ordered(store)[i].message \notin Range(lines)
    BY <1>1, <1>6, <1>7, <1>8
  <2> QED
    BY <1>10, <1>11, <2>2, <2>3, <2>4 DEF Ready
<1>13. WrittenGrows
  BY <1>2 DEF WrittenGrows
<1> QED
  BY <1>4, <1>12, <1>13 DEF lines, old, l

LEMMA StoreStays == StoreInv /\ UNCHANGED store => StoreInv'
BY DEF StoreInv, Ordered, SlotAt

LEMMA StoreGrows ==
  ASSUME StoreInv, NEW lines \in Seq(Messages), Grown(store, store', lines)
  PROVE  StoreInv'
<1>1. /\ store \in Stores /\ store.size <= store.seq
      /\ \A i \in 1 .. store.size :
           /\ Ordered(store)[i] \in Entries
           /\ Ordered(store)[i].seq = store.seq - store.size + i - 1
  BY DEF StoreInv
<1>2. /\ store' \in Stores /\ store'.size <= store'.seq
      /\ \A i \in 1 .. store'.size :
           /\ Ordered(store')[i] \in Entries
           /\ Ordered(store')[i].seq = store'.seq - store'.size + i - 1
  BY <1>1, GrownHolds
<1> QED
  BY <1>2 DEF StoreInv

LEMMA PageLogsInv ==
  ASSUME LogsInv, NEW p \in Consoles, PageLogs(p)
  PROVE  LogsInv'
<1> DEFINE lines == Append(buffer[p], Line(p, written[p] + 1))
<1>1. /\ LogTypeOK /\ PlacesInv /\ StoreInv /\ StoreInv'
      /\ written[p] < MaxLines /\ written' = [written EXCEPT ![p] = @ + 1]
      /\ UNCHANGED store
  BY StoreStays DEF LogsInv, PageLogs
<1>2. /\ lines \in Seq(Messages) /\ Len(lines) = Len(buffer[p]) + 1
      /\ Ready(p, lines) /\ WrittenGrows
  BY <1>1, WrittenReady
<1>3. written' \in [Consoles -> 0 .. MaxLines] /\ store' \in Stores
  BY <1>1, LinesAssumption DEF LogTypeOK
<1>4. CASE Len(lines) >= Threshold
  <2>1. /\ buffer' = [buffer EXCEPT ![p] = <<>>]
        /\ posts' = posts \cup {[page |-> p, lines |-> lines]}
    BY <1>4 DEF PageLogs, Flushed
  <2> HIDE DEF lines
  <2>2. LogTypeOK'
    BY <1>1, <1>2, <1>3, <2>1 DEF LogTypeOK
  <2>3. PlacesInv'
    BY <1>1, <1>2, <2>1, <2>2, FlushedInv
  <2>4. \A q \in Consoles : Len(buffer'[q]) < Threshold
    <3>1. Len(<<>>) < Threshold
      BY LinesAssumption
    <3> QED
      BY <1>1, <2>1, <3>1 DEF LogsInv, LogTypeOK
  <2> QED
    BY <1>1, <2>2, <2>3, <2>4 DEF LogsInv
<1>5. CASE ~(Len(lines) >= Threshold)
  <2>1. buffer' = [buffer EXCEPT ![p] = lines] /\ UNCHANGED posts
    BY <1>5 DEF PageLogs
  <2>2. Len(lines) < Threshold
    BY <1>2, <1>5, LinesAssumption
  <2> HIDE DEF lines
  <2>3. LogTypeOK'
    BY <1>1, <1>2, <1>3, <2>1 DEF LogTypeOK
  <2>4. PlacesInv'
    BY <1>1, <1>2, <2>1, <2>3, BufferedInv
  <2>5. \A q \in Consoles : Len(buffer'[q]) < Threshold
    BY <1>1, <2>1, <2>2 DEF LogsInv, LogTypeOK
  <2> QED
    BY <1>1, <2>3, <2>4, <2>5 DEF LogsInv
<1> QED
  BY <1>4, <1>5

LEMMA FlushTimerInv ==
  ASSUME LogsInv, NEW p \in Consoles, FlushTimer(p)
  PROVE  LogsInv'
<1> DEFINE lines == buffer[p]
<1>1. /\ LogTypeOK /\ PlacesInv /\ StoreInv /\ StoreInv'
      /\ UNCHANGED <<store, written>>
      /\ buffer' = [buffer EXCEPT ![p] = <<>>]
      /\ posts' = posts \cup {[page |-> p, lines |-> lines]}
  BY StoreStays DEF LogsInv, FlushTimer, Flushed
<1>2. lines \in Seq(Messages) /\ LinesOf(p, lines)
  BY <1>1 DEF LogTypeOK, PlacesInv
<1>3. WrittenGrows
  BY <1>1, LinesAssumption DEF WrittenGrows, LogTypeOK
<1>4. Ready(p, lines)
  <2>1. \A q \in Consoles \ {p} : Range(lines) \cap Range(buffer[q]) = {}
    BY <1>1, PagesApart DEF PlacesInv
  <2>2. \A post \in posts : Range(lines) \cap Range(post.lines) = {}
    BY <1>1 DEF PlacesInv
  <2>3. \A i \in DOMAIN lines : lines[i] # BackendLine
    BY <1>2, LinesDiffer DEF LinesOf
  <2>4. \A i \in 1 .. store.size : Ordered(store)[i].message \notin Range(lines)
    BY <1>1, <2>3 DEF PlacesInv, Range
  <2>5. /\ \A i \in DOMAIN lines : \E n \in 1 .. written'[p] : lines[i] = Line(p, n)
        /\ \A i, j \in DOMAIN lines : lines[i] = lines[j] => i = j
    BY <1>1, <1>2 DEF LinesOf
  <2> QED
    BY <2>1, <2>2, <2>4, <2>5 DEF Ready
<1> HIDE DEF lines
<1>5. LogTypeOK'
  BY <1>1, <1>2 DEF LogTypeOK
<1>6. PlacesInv'
  BY <1>1, <1>3, <1>4, <1>5, FlushedInv
<1>7. \A q \in Consoles : Len(buffer'[q]) < Threshold
  <2>1. Len(<<>>) < Threshold
    BY LinesAssumption
  <2> QED
    BY <1>1, <2>1 DEF LogsInv, LogTypeOK
<1> QED
  BY <1>1, <1>5, <1>6, <1>7 DEF LogsInv

LEMMA IngestInv ==
  ASSUME LogsInv, NEW post \in posts, Ingest(post)
  PROVE  LogsInv'
<1>1. /\ LogTypeOK /\ PlacesInv /\ StoreInv /\ store \in Stores
      /\ UNCHANGED <<written, buffer>> /\ posts' = posts \ {post}
      /\ store' = PutAll(store, post.lines)
  BY DEF LogsInv, LogTypeOK, Ingest
<1>2. post.lines \in Seq(Messages) /\ post.page \in Consoles
  BY <1>1 DEF LogTypeOK
<1>3. Grown(store, store', post.lines)
  BY <1>1, <1>2, GrowsByBatch
<1>4. StoreInv'
  BY <1>1, <1>2, <1>3, StoreGrows
<1>5. ASSUME NEW i \in 1 .. Len(post.lines)
      PROVE  /\ \E p \in Consoles : \E n \in 1 .. written[p] :
                  post.lines[i] = Line(p, n)
             /\ \A j \in 1 .. Len(post.lines) :
                  post.lines[j] = post.lines[i] => i = j
             /\ \A p \in Consoles : post.lines[i] \notin Range(buffer[p])
             /\ \A other \in posts' : post.lines[i] \notin Range(other.lines)
             /\ \A j \in 1 .. store.size :
                  Ordered(store)[j].message # post.lines[i]
  <2>1. /\ LinesOf(post.page, post.lines)
        /\ DOMAIN post.lines = 1 .. Len(post.lines)
        /\ post.lines[i] \in Range(post.lines)
    BY <1>1, <1>2 DEF PlacesInv, Range
  <2>2. /\ \E n \in 1 .. written[post.page] : post.lines[i] = Line(post.page, n)
        /\ \A j \in 1 .. Len(post.lines) :
             post.lines[j] = post.lines[i] => i = j
    BY <2>1 DEF LinesOf
  <2>3. post.lines[i] # BackendLine
    BY <2>2, LinesDiffer
  <2>4. /\ \A p \in Consoles : post.lines[i] \notin Range(buffer[p])
        /\ \A other \in posts \ {post} : post.lines[i] \notin Range(other.lines)
    BY <1>1, <2>1 DEF PlacesInv
  <2>5. \A j \in 1 .. store.size : Ordered(store)[j].message # post.lines[i]
    BY <1>1, <2>1, <2>3 DEF PlacesInv
  <2> QED
    BY <1>1, <1>2, <2>2, <2>4, <2>5
<1>6. PlacesInv'
  BY <1>1, <1>2, <1>3, <1>5, AppendedInv
<1>7. LogTypeOK'
  BY <1>1, <1>4 DEF LogTypeOK, StoreInv
<1> QED
  BY <1>1, <1>4, <1>6, <1>7 DEF LogsInv

LEMMA BatchLostInv ==
  ASSUME LogsInv, NEW post \in posts, BatchLost(post)
  PROVE  LogsInv'
<1>1. /\ LogTypeOK /\ PlacesInv /\ StoreInv' /\ store \in Stores
      /\ UNCHANGED <<store, written, buffer>> /\ posts' \subseteq posts
  BY StoreStays DEF LogsInv, LogTypeOK, BatchLost
<1>2. PICK none \in Seq(Messages) :
        Grown(store, store', none) /\ \A i \in 1 .. Len(none) : FALSE
  <2>1. /\ <<>> \in Seq(Messages) /\ Grown(store, store', <<>>)
        /\ \A i \in 1 .. Len(<<>>) : FALSE
    BY <1>1, GrowsByNothing
  <2> QED
    BY <2>1
<1>3. PlacesInv'
  BY <1>1, <1>2, AppendedInv
<1>4. LogTypeOK'
  BY <1>1 DEF LogTypeOK
<1> QED
  BY <1>1, <1>3, <1>4 DEF LogsInv

LEMMA BackendLogsInv ==
  ASSUME LogsInv, BackendLogs
  PROVE  LogsInv'
<1>1. /\ LogTypeOK /\ PlacesInv /\ StoreInv /\ store \in Stores
      /\ UNCHANGED <<written, buffer, posts>>
      /\ store' = Put(store, BackendLine) /\ BackendLine \in Messages
  BY LinesAssumption DEF LogsInv, LogTypeOK, BackendLogs, captureVars
<1>2. /\ Grown(store, store', <<BackendLine>>)
      /\ <<BackendLine>> \in Seq(Messages)
      /\ \A i \in 1 .. Len(<<BackendLine>>) : <<BackendLine>>[i] = BackendLine
  BY <1>1, GrowsByOne
<1>3. StoreInv'
  BY <1>1, <1>2, StoreGrows
<1>4. PlacesInv'
  BY <1>1, <1>2, AppendedInv
<1>5. LogTypeOK'
  BY <1>1, <1>3 DEF LogTypeOK, StoreInv
<1> QED
  BY <1>1, <1>3, <1>4, <1>5 DEF LogsInv

LEMMA ClearLogsInv ==
  ASSUME LogsInv, ClearLogs
  PROVE  LogsInv'
<1>1. /\ LogTypeOK /\ PlacesInv /\ UNCHANGED <<written, buffer, posts>>
      /\ store' \in Stores /\ store'.size = 0 /\ store'.seq = store.seq
      /\ store.seq \in Nat
  BY ClearedIsEmpty, StoreShape
     DEF LogsInv, LogTypeOK, ClearLogs, ClearEntries, captureVars
<1>2. \A i \in 1 .. store'.size : FALSE
  BY <1>1
<1>3. StoreInv'
  BY <1>1, <1>2 DEF StoreInv
<1>4. LogTypeOK'
  BY <1>1 DEF LogTypeOK
<1>5. PlacesInv'
  BY <1>1, <1>2 DEF PlacesInv, LinesOf
<1> QED
  BY <1>1, <1>3, <1>4, <1>5 DEF LogsInv

LEMMA LogsStay == LogsInv /\ UNCHANGED logVars => LogsInv'
<1> SUFFICES ASSUME LogsInv, UNCHANGED logVars
             PROVE  LogsInv'
  OBVIOUS
<1>1. UNCHANGED <<store, written, buffer, posts>>
  BY DEF logVars, captureVars
<1>2. LogTypeOK /\ PlacesInv /\ StoreInv' /\ store \in Stores
  BY <1>1, StoreStays DEF LogsInv, LogTypeOK
<1>3. PICK none \in Seq(Messages) :
        Grown(store, store', none) /\ \A i \in 1 .. Len(none) : FALSE
  <2>1. /\ <<>> \in Seq(Messages) /\ Grown(store, store', <<>>)
        /\ \A i \in 1 .. Len(<<>>) : FALSE
    BY <1>1, <1>2, GrowsByNothing
  <2> QED
    BY <2>1
<1>4. PlacesInv'
  BY <1>1, <1>2, <1>3, AppendedInv
<1> QED
  BY <1>1, <1>2, <1>4 DEF LogsInv, LogTypeOK

LEMMA LogsInit == LogInit => LogsInv
<1> SUFFICES ASSUME LogInit
             PROVE  LogsInv
  OBVIOUS
<1>1. /\ store \in Stores /\ store.size = 0 /\ store.seq = 0
      /\ \A i \in 1 .. store.size : FALSE
  BY CapacityAssumption
     DEF LogInit, RingInit, EmptyStore, Stores, Slots
<1>2. /\ written = [p \in Consoles |-> 0] /\ buffer = [p \in Consoles |-> <<>>]
      /\ posts = {}
  BY DEF LogInit
<1>3. StoreInv
  BY <1>1 DEF StoreInv
<1>4. LogTypeOK
  BY <1>1, <1>2, LinesAssumption DEF LogTypeOK
<1>5. PlacesInv
  BY <1>1, <1>2 DEF PlacesInv, LinesOf
<1>6. \A p \in Consoles : Len(buffer[p]) < Threshold
  BY <1>2, LinesAssumption
<1> QED
  BY <1>3, <1>4, <1>5, <1>6 DEF LogsInv

(* Every line is where the code left it: waiting, under way, or among the  *)
(* latest of the store.                                                    *)
THEOREM LogsAccounted == ServerSpec => []LogsInv
<1>1. Start => LogsInv
  BY LogsInit DEF Start
<1>2. LogsInv /\ [GateStep \/ ServerStep \/ LogStep]_allVars => LogsInv'
  <2> SUFFICES ASSUME LogsInv, [GateStep \/ ServerStep \/ LogStep]_allVars
               PROVE  LogsInv'
    OBVIOUS
  <2>1. CASE UNCHANGED logVars
    BY <2>1, LogsStay
  <2>2. CASE LogStep
    BY <2>2, PageLogsInv, FlushTimerInv, IngestInv, BatchLostInv,
       BackendLogsInv, ClearLogsInv DEF LogStep, PostLogs
  <2> QED
    BY <2>1, <2>2 DEF GateStep, ServerStep, allVars
<1> QED
  BY <1>1, <1>2, PTL DEF ServerSpec

-----------------------------------------------------------------------------
(* What the inductive invariant says of a read-back.                       *)

LEMMA AtMostOne ==
  ASSUME NEW S, \A x, y \in S : x = y
  PROVE  Cardinality(S) \in {0, 1} /\ (S = {} => Cardinality(S) = 0)
<1>1. CASE S = {}
  BY <1>1, FS_EmptySet
<1>2. CASE S # {}
  <2>1. PICK x \in S : TRUE
    BY <1>2
  <2>2. S = {x}
    BY <2>1
  <2> QED
    BY <1>2, <2>2, FS_Singleton
<1> QED
  BY <1>1, <1>2

LEMMA PlacesOnce == LogTypeOK /\ PlacesInv => WebLinesOnce
<1> SUFFICES ASSUME LogTypeOK, PlacesInv,
                    NEW p \in Consoles, NEW n \in 1 .. written[p]
             PROVE  LET l == Line(p, n) IN
                    Cardinality({i \in 1 .. store.size :
                                   Ordered(store)[i].message = l})
                      + Cardinality({post \in posts : l \in Range(post.lines)})
                      + Cardinality({i \in DOMAIN buffer[l[2]] :
                                       buffer[l[2]][i] = l}) <= 1
  BY DEF WebLinesOnce
<1> DEFINE l == Line(p, n)
           stored == {i \in 1 .. store.size : Ordered(store)[i].message = l}
           sent == {post \in posts : l \in Range(post.lines)}
           held == {i \in DOMAIN buffer[l[2]] : buffer[l[2]][i] = l}
<1>1. l[2] = p /\ l # BackendLine
  BY LinesDiffer DEF Line
<1> HIDE DEF l
<1>2. \A i, j \in stored : i = j
  BY <1>1 DEF PlacesInv
<1>3. \A x, y \in sent : x = y
  BY DEF PlacesInv
<1>4. \A i, j \in held : i = j
  BY <1>1 DEF PlacesInv, LinesOf
<1>5. held # {} => l \in Range(buffer[p])
  BY <1>1 DEF Range
<1>6. stored # {} => sent = {} /\ held = {}
  BY <1>1, <1>5 DEF PlacesInv
<1>7. sent # {} => held = {}
  BY <1>5 DEF PlacesInv
<1> HIDE DEF stored, sent, held
<1>8. /\ Cardinality(stored) \in {0, 1} /\ (stored = {} => Cardinality(stored) = 0)
      /\ Cardinality(sent) \in {0, 1} /\ (sent = {} => Cardinality(sent) = 0)
      /\ Cardinality(held) \in {0, 1} /\ (held = {} => Cardinality(held) = 0)
  BY <1>2, <1>3, <1>4, AtMostOne
<1>9. Cardinality(stored) + Cardinality(sent) + Cardinality(held) <= 1
  BY <1>6, <1>7, <1>8
<1> QED
  BY <1>9 DEF stored, sent, held, l

(* What a filter has let through of the first n entries.                   *)
Sifted(f, entries, wanted, n) ==
  /\ f \in Seq(Entries)
  /\ \A i \in 1 .. Len(f) :
       f[i].message \in wanted /\ \E k \in 1 .. n : f[i] = entries[k]
  /\ \A k \in 1 .. n :
       entries[k].message \in wanted => \E i \in 1 .. Len(f) : f[i] = entries[k]
  /\ \A i, j \in 1 .. Len(f) : i < j => f[i].seq < f[j].seq

LEMMA SiftedStep ==
  ASSUME NEW entries \in Seq(Entries), NEW wanted, NEW n \in 1 .. Len(entries),
         \A j, k \in 1 .. Len(entries) : j < k => entries[j].seq < entries[k].seq,
         NEW f, Sifted(f, entries, wanted, n - 1)
  PROVE  Sifted(IF entries[n].message \in wanted THEN Append(f, entries[n])
                                                 ELSE f,
                entries, wanted, n)
<1>0. /\ f \in Seq(Entries) /\ entries[n] \in Entries /\ Len(f) \in Nat
      /\ \A k \in 1 .. n : k \in 1 .. n - 1 \/ k = n
      /\ \A k \in 1 .. n - 1 : k \in 1 .. n /\ k \in 1 .. Len(entries) /\ k < n
      /\ n \in 1 .. n
  BY DEF Sifted
<1>1. CASE entries[n].message \notin wanted
  BY <1>0, <1>1 DEF Sifted
<1>2. CASE entries[n].message \in wanted
  <2> DEFINE g == Append(f, entries[n])
  <2>1. /\ g \in Seq(Entries) /\ Len(g) = Len(f) + 1
        /\ \A i \in 1 .. Len(f) : g[i] = f[i] /\ i \in 1 .. Len(g)
        /\ g[Len(f) + 1] = entries[n] /\ Len(f) + 1 \in 1 .. Len(g)
        /\ \A i \in 1 .. Len(g) : i \in 1 .. Len(f) \/ i = Len(f) + 1
        /\ \A i, j \in 1 .. Len(g) : i < j => i \in 1 .. Len(f)
    BY <1>0
  <2> HIDE DEF g
  <2>2. \A i \in 1 .. Len(g) :
          g[i].message \in wanted /\ \E k \in 1 .. n : g[i] = entries[k]
    BY <1>0, <1>2, <2>1 DEF Sifted
  <2>3. \A k \in 1 .. n : entries[k].message \in wanted =>
          \E i \in 1 .. Len(g) : g[i] = entries[k]
    BY <1>0, <2>1 DEF Sifted
  <2>4. ASSUME NEW i \in 1 .. Len(g), NEW j \in 1 .. Len(g), i < j
        PROVE  g[i].seq < g[j].seq
    <3>1. i \in 1 .. Len(f) /\ g[i] = f[i]
      BY <2>1, <2>4
    <3>2. CASE j \in 1 .. Len(f)
      BY <2>1, <2>4, <3>1, <3>2 DEF Sifted
    <3>3. CASE j = Len(f) + 1
      <4>1. PICK k \in 1 .. n - 1 : f[i] = entries[k]
        BY <3>1 DEF Sifted
      <4>2. entries[k].seq < entries[n].seq
        BY <1>0, <4>1
      <4> QED
        BY <2>1, <3>1, <3>3, <4>1, <4>2
    <3> QED
      BY <2>1, <3>2, <3>3
  <2>5. Sifted(g, entries, wanted, n)
    BY <2>1, <2>2, <2>3, <2>4 DEF Sifted
  <2> QED
    BY <1>2, <2>5 DEF g
<1> QED
  BY <1>1, <1>2

LEMMA FilteredSifts ==
  ASSUME NEW entries \in Seq(Entries), NEW wanted,
         \A j, k \in 1 .. Len(entries) : j < k => entries[j].seq < entries[k].seq
  PROVE  Sifted(Filtered(entries, wanted), entries, wanted, Len(entries))
<1> DEFINE N == Len(entries)
           step == [x \in Seq(Entries) \X Entries |->
                      IF x[2].message \in wanted THEN Append(x[1], x[2])
                                                 ELSE x[1]]
           Recursive(f) ==
             f = [n \in 0 .. N |->
                    IF n = 0 THEN <<>>
                    ELSE IF entries[n].message \in wanted
                           THEN Append(f[n - 1], entries[n])
                           ELSE f[n - 1]]
<1>1. step \in [Seq(Entries) \X Entries -> Seq(Entries)]
  <2>1. ASSUME NEW x \in Seq(Entries) \X Entries
        PROVE  (IF x[2].message \in wanted THEN Append(x[1], x[2])
                                           ELSE x[1]) \in Seq(Entries)
    <3>1. x[1] \in Seq(Entries) /\ x[2] \in Entries
      OBVIOUS
    <3>2. Append(x[1], x[2]) \in Seq(Entries)
      BY <3>1
    <3> QED
      BY <3>1, <3>2
  <2> QED
    BY <2>1
<1>2. PICK g \in [0 .. N -> Seq(Entries)] :
        /\ g[0] = <<>>
        /\ \A n \in 1 .. N : g[n] = step[<<g[n - 1], entries[n]>>]
  <2> HIDE DEF step
  <2>1. <<>> \in Seq(Entries)
    OBVIOUS
  <2>2. \E g : IsWalk(g, Seq(Entries), <<>>, entries, step)
    BY ONLY <1>1, <2>1, entries \in Seq(Entries), Walk
  <2> QED
    BY <2>2 DEF IsWalk
<1>3. \A n \in 1 .. N :
        g[n] = IF entries[n].message \in wanted THEN Append(g[n - 1], entries[n])
                                                ELSE g[n - 1]
  <2> SUFFICES ASSUME NEW n \in 1 .. N
               PROVE  g[n] = IF entries[n].message \in wanted
                               THEN Append(g[n - 1], entries[n]) ELSE g[n - 1]
    OBVIOUS
  <2>1. g[n - 1] \in Seq(Entries) /\ entries[n] \in Entries
    OBVIOUS
  <2>2. step[<<g[n - 1], entries[n]>>]
          = IF entries[n].message \in wanted THEN Append(g[n - 1], entries[n])
                                             ELSE g[n - 1]
    BY <2>1
  <2> QED
    BY <1>2, <2>2
<1>4. Recursive(g)
  <2>1. \A n \in 0 .. N : n # 0 => n \in 1 .. N
    OBVIOUS
  <2> HIDE DEF step
  <2> QED
    BY <1>2, <1>3, <2>1
<1> DEFINE f == CHOOSE f : Recursive(f)
<1>5. Recursive(f)
  BY <1>4
<1>6. Filtered(entries, wanted) = f[N]
  BY DEF Filtered
<1> HIDE DEF f, step
<1>7. \A n \in 0 .. N :
        f[n] = IF n = 0 THEN <<>>
               ELSE IF entries[n].message \in wanted
                      THEN Append(f[n - 1], entries[n])
                      ELSE f[n - 1]
  BY <1>5
<1> DEFINE good == {n \in 0 .. N : Sifted(f[n], entries, wanted, n)}
<1>8. N \in Nat /\ \A n \in 1 .. N : n \in 0 .. N /\ n # 0
  OBVIOUS
<1>9. 0 \in good
  <2>1. f[0] = <<>> /\ 0 \in 0 .. N
    BY <1>7, <1>8
  <2>2. Sifted(<<>>, entries, wanted, 0)
    BY DEF Sifted
  <2> QED
    BY <2>1, <2>2
<1>10. ASSUME NEW n \in 1 .. N, n - 1 \in good
       PROVE  n \in good
  <2>1. Sifted(f[n - 1], entries, wanted, n - 1)
    BY <1>10
  <2>2. f[n] = IF entries[n].message \in wanted
                 THEN Append(f[n - 1], entries[n]) ELSE f[n - 1]
    BY <1>7, <1>8
  <2>3. Sifted(f[n], entries, wanted, n)
    BY <2>1, <2>2, SiftedStep
  <2> QED
    BY <1>8, <2>3
<1> HIDE DEF good
<1>11. \A n \in 0 .. N : n \in good
  <2> HIDE DEF N
  <2> QED
    BY <1>8, <1>9, <1>10, CountUp
<1>12. N \in good
  BY <1>8, <1>11
<1> QED
  BY <1>6, <1>12 DEF good

(* The last count entries.                                                 *)
LEMMA TailOf ==
  ASSUME NEW f \in Seq(Entries), NEW count \in 0 .. Len(f)
  PROVE  LET view == SubSeq(f, Len(f) - count + 1, Len(f)) IN
         /\ view \in Seq(Entries) /\ Len(view) = count
         /\ \A i \in 1 .. count :
              Len(f) - count + i \in 1 .. Len(f)
              /\ view[i] = f[Len(f) - count + i]
         /\ count = Len(f) => view = f
         /\ count = 0 => view = <<>>
<1> DEFINE L    == Len(f)
           from == L - count + 1
           view == SubSeq(f, from, L)
<1>1. /\ L \in Nat /\ count \in Nat /\ from \in 1 .. L + 1
      /\ L - from + 1 = count /\ from - 1 = L - count
      /\ \A i \in 1 .. count : from + i - 1 = L - count + i
                               /\ L - count + i \in 1 .. L
  OBVIOUS
<1>2. /\ view \in Seq(Entries) /\ Len(view) = count
      /\ \A i \in 1 .. count : view[i] = f[from + i - 1]
  <2> HIDE DEF from
  <2>1. \A i \in from .. L : f[i] \in Entries
    BY <1>1
  <2> QED
    BY <1>1, <2>1
<1> HIDE DEF view, from
<1>3. count = L => view = f
  BY <1>1, <1>2
<1>4. count = 0 => view = <<>>
  BY <1>2
<1> QED
  BY <1>1, <1>2, <1>3, <1>4 DEF view, from

(* The count asked for.                                                    *)
LEMMA Counted ==
  ASSUME NEW n \in Int, NEW available \in Nat
  PROVE  /\ TailCount({n}, available)
              = IF n <= 0 THEN 0 ELSE IF n > available THEN available ELSE n
         /\ TailCount({}, available) = available
<1>1. {n} # {} /\ (CHOOSE k \in {n} : TRUE) = n
  OBVIOUS
<1> QED
  BY <1>1 DEF TailCount

LEMMA ViewsLatest ==
  ASSUME StoreInv
  PROVE  ViewsAreLatest
<1> SUFFICES ASSUME NEW wanted \in {Messages, {BackendLine}},
                    NEW tail \in Tails
             PROVE  LET held == {e \in Range(Ordered(store)) :
                                   e.message \in wanted}
                        view == View(tail, wanted)
                        kept == Range(view)
                        n    == tail.n
                    IN /\ kept \subseteq held
                       /\ \A i \in 1 .. Len(view) - 1 :
                            view[i].seq < view[i + 1].seq
                       /\ \A e \in held \ kept, k \in kept : e.seq < k.seq
                       /\ CASE tail.is # "number" -> kept = held
                            [] tail.is = "number" /\ n < 0 -> view = <<>>
                            [] OTHER -> /\ Len(view) <= n
                                        /\ kept # held => Len(view) = n
  BY DEF ViewsAreLatest
<1> DEFINE entries == Ordered(store)
           f       == Filtered(entries, wanted)
           L       == Len(f)
           n       == tail.n
           count   == TailCount(Asked(tail), L)
           view    == View(tail, wanted)
           held    == {e \in Range(entries) : e.message \in wanted}
           kept    == Range(view)
<1>1. /\ store \in Stores /\ store.size \in Nat /\ store.seq \in Nat
      /\ Len(entries) = store.size /\ DOMAIN entries = 1 .. store.size
      /\ entries \in Seq(Entries) /\ Capacity \in Nat \ {0}
  <2>1. /\ store \in Stores
        /\ \A i \in 1 .. store.size : entries[i] \in Entries
    BY DEF StoreInv
  <2>2. /\ store.size \in Nat /\ store.seq \in Nat /\ Capacity \in Nat \ {0}
        /\ Len(entries) = store.size /\ DOMAIN entries = 1 .. store.size
    BY <2>1, StoreShape
  <2>3. entries = [i \in 1 .. store.size |-> entries[i]]
    BY DEF Ordered
  <2> HIDE DEF entries
  <2>4. entries \in [1 .. store.size -> Entries]
    BY <2>1, <2>3
  <2>5. entries \in Seq(Entries)
    BY ONLY <2>2, <2>4, SeqDef
  <2> QED
    BY <2>1, <2>2, <2>5
<1>2. \A j, k \in 1 .. Len(entries) : j < k => entries[j].seq < entries[k].seq
  BY <1>1 DEF StoreInv
<1> HIDE DEF entries
<1>3. Sifted(f, entries, wanted, Len(entries))
  BY <1>1, <1>2, FilteredSifts
<1>4. f \in Seq(Entries) /\ L \in Nat /\ \A i \in 1 .. L : f[i] \in Entries
  <2> HIDE DEF f
  <2> QED
    BY <1>3 DEF Sifted
<1>5. view = SubSeq(f, L - count + 1, L)
  BY DEF View, entries
<1>6. /\ n \in Int
      /\ tail.is # "number" => count = L
      /\ tail.is = "number" =>
           count = IF n <= 0 THEN 0 ELSE IF n > L THEN L ELSE n
  <2> HIDE DEF f
  <2>1. n \in Int
    BY <1>1 DEF Tails
  <2>2. L \in Nat
    BY <1>4
  <2>3. /\ tail.is # "number" => Asked(tail) = {}
        /\ tail.is = "number" => Asked(tail) = {n}
    BY DEF Asked
  <2> HIDE DEF n, L
  <2>4. /\ TailCount({}, L) = L
        /\ TailCount({n}, L) = IF n <= 0 THEN 0 ELSE IF n > L THEN L ELSE n
    BY ONLY <2>1, <2>2, Counted, Zenon
  <2> QED
    BY ONLY <2>1, <2>3, <2>4 DEF count
<1> HIDE DEF n
<1>7. count \in 0 .. L
  BY <1>4, <1>6
<1>8. /\ \A i \in 1 .. L : f[i].seq \in Nat
      /\ \A i, j \in 1 .. L : i < j => f[i].seq < f[j].seq
  <2> HIDE DEF f
  <2>1. \A e \in Entries : e.seq \in Nat
    BY DEF Entries
  <2> QED
    BY <1>4, <1>3, <2>1 DEF Sifted
<1>9. held = {f[i] : i \in 1 .. L}
  <2> HIDE DEF f
  <2>1. Range(entries) = {entries[k] : k \in 1 .. Len(entries)}
    BY <1>1 DEF Range
  <2>2. /\ \A i \in 1 .. L : f[i].message \in wanted
                            /\ \E k \in 1 .. Len(entries) : f[i] = entries[k]
        /\ \A k \in 1 .. Len(entries) : entries[k].message \in wanted =>
             \E i \in 1 .. L : f[i] = entries[k]
    BY <1>3 DEF Sifted
  <2>3. held \subseteq {f[i] : i \in 1 .. L}
    BY ONLY <2>1, <2>2
  <2>4. {f[i] : i \in 1 .. L} \subseteq held
    BY ONLY <2>1, <2>2
  <2> QED
    BY ONLY <2>3, <2>4
<1> HIDE DEF f, held, view, count
<1>10. /\ view \in Seq(Entries) /\ Len(view) = count
       /\ \A i \in 1 .. count :
            L - count + i \in 1 .. L /\ view[i] = f[L - count + i]
       /\ count = L => view = f
       /\ count = 0 => view = <<>>
  BY <1>4, <1>5, <1>7, TailOf
<1>13. kept = {view[i] : i \in 1 .. count}
  <2>1. DOMAIN view = 1 .. count
    BY <1>10
  <2> QED
    BY ONLY <2>1 DEF Range, kept
<1> HIDE DEF kept
<1>14. kept \subseteq held
  <2> SUFFICES ASSUME NEW k \in kept PROVE k \in held
    OBVIOUS
  <2>1. PICK i \in 1 .. count : k = view[i]
    BY ONLY <1>13
  <2>2. L - count + i \in 1 .. L /\ k = f[L - count + i]
    BY ONLY <1>10, <2>1
  <2> QED
    BY ONLY <1>9, <2>2
<1>15. \A i \in 1 .. Len(view) - 1 : view[i].seq < view[i + 1].seq
  <2> SUFFICES ASSUME NEW i \in 1 .. Len(view) - 1
               PROVE  view[i].seq < view[i + 1].seq
    OBVIOUS
  <2>1. /\ i \in 1 .. count /\ i + 1 \in 1 .. count
        /\ L - count + i < L - count + (i + 1)
    BY <1>4, <1>7, <1>10
  <2> QED
    BY <1>8, <1>10, <2>1
<1>16. ASSUME NEW e \in held \ kept, NEW k \in kept
       PROVE  e.seq < k.seq
  <2>1. PICK i \in 1 .. L : e = f[i]
    BY <1>9
  <2>2. PICK j \in 1 .. count : k = view[j]
    BY ONLY <1>13, <1>16
  <2>3. k = f[L - count + j] /\ L - count + j \in 1 .. L
    BY ONLY <1>10, <2>2
  <2>4. i <= L - count
    <3> SUFFICES ASSUME ~(i <= L - count) PROVE FALSE
      OBVIOUS
    <3>1. i - (L - count) \in 1 .. count /\ L - count + (i - (L - count)) = i
      BY <1>4, <1>7
    <3>2. view[i - (L - count)] = f[i]
      BY <1>10, <3>1
    <3> QED
      BY <1>13, <2>1, <3>1, <3>2
  <2>5. i < L - count + j
    BY <1>4, <1>7, <2>4
  <2> QED
    BY <1>8, <2>1, <2>3, <2>5
<1>17. count = L => kept = held
  BY ONLY <1>9, <1>10, <1>13
<1>18. ASSUME tail.is = "number", ~(n < 0)
       PROVE  Len(view) <= n /\ (kept # held => Len(view) = n)
  <2>1. n \in Int /\ L \in Nat
        /\ count = IF n <= 0 THEN 0 ELSE IF n > L THEN L ELSE n
    BY <1>4, <1>6, <1>18
  <2>2. count <= n /\ (count # L => count = n)
    BY ONLY <1>18, <2>1
  <2> QED
    BY <1>10, <1>17, <2>2
<1>19. CASE tail.is # "number"
  BY <1>6, <1>14, <1>15, <1>16, <1>17, <1>19
     DEF held, view, kept, entries, n
<1>20. CASE tail.is = "number" /\ n < 0
  <2>1. view = <<>>
    BY <1>6, <1>10, <1>20
  <2> QED
    BY <1>14, <1>15, <1>16, <1>20, <2>1 DEF held, view, kept, entries, n
<1>21. CASE tail.is = "number" /\ ~(n < 0)
  BY <1>14, <1>15, <1>16, <1>18, <1>21 DEF held, view, kept, entries, n
<1> QED
  BY <1>19, <1>20, <1>21

LEMMA LogsSay == LogsInv => LogInv
<1> SUFFICES ASSUME LogsInv
             PROVE  LogInv
  OBVIOUS
<1>1. LogTypeOK /\ StoreInv /\ PlacesInv
  BY DEF LogsInv
<1>2. WebLinesOnce
  BY <1>1, PlacesOnce
<1>3. HoldsLatest
  BY <1>1, HeldInOrder DEF HoldsLatest, StoreInv
<1>4. ViewsAreLatest
  BY <1>1, ViewsLatest
<1> QED
  BY <1>1, <1>2, <1>3, <1>4 DEF LogInv, LogsInv

-----------------------------------------------------------------------------
(* How a launch is configured.                                             *)

(* Without mode=dev, and with directories, no option says more than the    *)
(* labels of its tokens, and auth, where it is said, is on.                *)
LEMMA QuietConfig ==
  ASSUME NEW argv, ~AsksForDev(argv) \/ Positional(argv)
  PROVE  /\ DOMAIN ResolveWorkletConfig(argv)
              \subseteq Labels \cup {"allowedOrigins"}
         /\ Has(ResolveWorkletConfig(argv), "auth") =>
              ResolveWorkletConfig(argv)["auth"] = TRUE
<1> DEFINE parsed == Parsed(argv)
<1>1. DOMAIN parsed \subseteq Labels \cup {"allowedOrigins"}
  BY DEF Parsed
<1>2. Has(parsed, "auth") => parsed["auth"] \in BOOLEAN
  BY DEF Parsed, ValueOf, Has, Labels
<1>3. CASE Positional(argv)
  BY <1>3 DEF ResolveWorkletConfig, Has, Labels
<1>4. CASE ~Positional(argv)
  <2>1. ResolveWorkletConfig(argv) = ResolveCliConfig(argv)
    BY <1>4 DEF ResolveWorkletConfig
  <2>0. ~AsksForDev(argv)
    BY <1>4
  <2>2. CASE DropsAuth(parsed, AsksForDev(argv))
    BY <1>1, <2>0, <2>1, <2>2 DEF ResolveCliConfig, Has
  <2>3. CASE ~DropsAuth(parsed, AsksForDev(argv))
    <3>1. ResolveWorkletConfig(argv) = parsed
      BY <2>0, <2>1, <2>3 DEF ResolveCliConfig
    <3>2. Has(parsed, "auth") => parsed["auth"] # FALSE
      BY <2>0, <2>3 DEF DropsAuth, Option
    <3> QED
      BY <1>1, <1>2, <3>1, <3>2
  <2> QED
    BY <2>2, <2>3
<1> QED
  BY <1>3, <1>4

(* Whatever the command line and the app's plugins are, a launch leaves    *)
(* the server open only as it was asked to, the sidecar's never; it starts *)
(* unless it names an origin that is none; and no plugin takes the place   *)
(* of another.                                                             *)
THEOREM LaunchesSafe ==
  ASSUME NEW argv, NEW plugins \in Seq(Consumers)
  PROVE  OpenOnlyAsAsked(argv) /\ SidecarIsGuarded(argv)
           /\ NoPluginShadowed(plugins)
<1>1. OpenOnlyAsAsked(argv)
  <2> DEFINE options == ResolveWorkletConfig(argv)
  <2>1. ASSUME ~AsksForDev(argv) \/ Positional(argv)
        PROVE  /\ Auth(options) = TRUE
               /\ Created(options, <<>>) <=> OriginsAreBare(options)
    <3> HIDE DEF options
    <3>0. /\ DOMAIN options \subseteq Labels \cup {"allowedOrigins"}
          /\ Has(options, "auth") => options["auth"] = TRUE
      BY <2>1, QuietConfig DEF options
    <3>1. ~Has(options, "deviceMode")
      BY <3>0 DEF Has, Labels
    <3>2. DeviceMode(options) = TRUE
      BY <3>1 DEF DeviceMode, Option
    <3>3. Option(options, "auth", TRUE) = TRUE
      BY <3>0 DEF Option
    <3>4. Auth(options) = TRUE
      BY <3>2, <3>3 DEF Auth
    <3>5. AllRegister(<<>>)
      BY DEF AllRegister
    <3> QED
      BY <3>3, <3>4, <3>5 DEF Created, OpenToNetwork
  <2>2. Created(options, <<>>) /\ ~Auth(options) =>
          /\ Option(options, "host", "127.0.0.1") \in LoopbackHosts
          /\ ~WritesHandoff(options)
    BY DEF Created, OpenToNetwork, WritesHandoff
  <2> QED
    BY <2>1, <2>2 DEF OpenOnlyAsAsked
<1>2. SidecarIsGuarded(argv)
  <2> DEFINE options == DesktopConfig(argv)
             forced == [deviceMode |-> TRUE, auth |-> TRUE,
                        handoffFile |-> FALSE]
  <2>1. /\ Has(options, "auth") /\ options["auth"] = TRUE
        /\ Has(options, "handoffFile") /\ options["handoffFile"] = FALSE
    <3>1. DOMAIN forced = {"deviceMode", "auth", "handoffFile"}
      OBVIOUS
    <3>2. \A k \in DOMAIN forced :
            k \in DOMAIN options /\ options[k] = forced[k]
      BY DEF DesktopConfig, Over, Option, Has
    <3> QED
      BY <3>1, <3>2 DEF Has
  <2>2. Auth(options) = TRUE /\ Option(options, "auth", TRUE) = TRUE
    BY <2>1 DEF Auth, Option
  <2>3a. AllRegister(<<>>)
    BY DEF AllRegister
  <2> HIDE DEF options
  <2>3. Created(options, <<>>) <=> OriginsAreBare(options)
    BY <2>2, <2>3a DEF Created, OpenToNetwork
  <2>4. ~WritesHandoff(options)
    BY <2>1 DEF WritesHandoff, Option
  <2> QED
    BY <2>2, <2>3, <2>4 DEF SidecarIsGuarded, options
<1>3. NoPluginShadowed(plugins)
  <2> SUFFICES ASSUME AllRegister(plugins)
               PROVE  /\ \A k \in DOMAIN plugins : plugins[k].id \notin Framework
                      /\ \A j, k \in DOMAIN plugins :
                           plugins[j].id = plugins[k].id => j = k
    BY DEF NoPluginShadowed
  <2>1. \A k \in DOMAIN plugins : plugins[k].id \notin TakenBefore(plugins, k)
    BY DEF AllRegister, Registers
  <2>2. ASSUME NEW j \in DOMAIN plugins, NEW k \in DOMAIN plugins, j < k
        PROVE  plugins[j].id # plugins[k].id
    <3>1. j \in 1 .. k - 1
      BY <2>2
    <3> QED
      BY <2>1, <3>1 DEF TakenBefore
  <2>3. \A k \in DOMAIN plugins : plugins[k].id \notin Framework
    BY <2>1 DEF TakenBefore
  <2>4. ASSUME NEW j \in DOMAIN plugins, NEW k \in DOMAIN plugins,
               plugins[j].id = plugins[k].id
        PROVE  j = k
    BY <2>2, <2>4
  <2> QED
    BY <2>3, <2>4
<1> QED
  BY <1>1, <1>2, <1>3

(* The property of the runs: the same, of the lengths they try.            *)
THEOREM SafeLaunches == LaunchesAreSafe
<1>1. \A argv : OpenOnlyAsAsked(argv) /\ SidecarIsGuarded(argv)
  BY LaunchesSafe, <<>> \in Seq(Consumers)
<1>2. ASSUME NEW plugins \in SeqsUpTo(Consumers, MaxArgs)
      PROVE  NoPluginShadowed(plugins)
  <2>1. PICK m \in Nat : plugins \in [1 .. m -> Consumers]
    BY ConfigAssumption DEF SeqsUpTo
  <2>2. plugins \in Seq(Consumers)
    BY <2>1
  <2> QED
    BY <2>2, LaunchesSafe
<1> QED
  BY <1>1, <1>2 DEF LaunchesAreSafe

-----------------------------------------------------------------------------
(* The server, as the pages see it.                                        *)

(* Files and media are accounted for, every line is in one place and read  *)
(* back in order, ranges are exact, and no launch leaves the server open   *)
(* that was not asked to.                                                  *)
THEOREM ServesAsAccounted == ServerSpec => []ServesInv
<1>1. ServerInv /\ LogsInv => ServesInv
  BY LogsSay, SafeLaunches, RangesExact DEF ServesInv
<1> QED
  BY <1>1, FilesAccounted, LogsAccounted, PTL

(* What batches, the worklet's own lines and clearing do to the store is   *)
(* what the abstract list allows.                                          *)
LEMMA GrownAdds ==
  ASSUME store \in Stores, NEW lines \in Seq(Messages),
         Grown(store, store', lines)
  PROVE  Latest!Add
<1> DEFINE old == Ordered(store)
           new == Ordered(store')
           a   == store.size
           b   == store'.size
           q   == store.seq
           r   == store'.seq
           n   == Len(lines)
<1>1. /\ store' \in Stores /\ n \in Nat
      /\ a \in Nat /\ b \in Nat /\ q \in Nat /\ r \in Nat
      /\ a \in 0 .. Capacity /\ b \in 0 .. Capacity /\ Capacity \in Nat \ {0}
      /\ Len(old) = a /\ Len(new) = b
  BY StoreShape DEF Grown
<1>2. /\ r = q + n
      /\ b = IF a + n <= Capacity THEN a + n ELSE Capacity
  BY DEF Grown
<1>3. \A i \in 1 .. b :
           new[i] = IF i + (a + n - b) <= a
                      THEN old[i + (a + n - b)]
                      ELSE [seq |-> q + (i + (a + n - b) - a) - 1,
                            message |-> lines[i + (a + n - b) - a]]
  BY DEF Grown
<1> HIDE DEF old, new, a, b, q, r, n
<1>4. \A i \in 1 .. b :
        ~(i + (a + n - b) <= a) => q + (i + (a + n - b) - a) - 1 = r - b + i - 1
  BY ONLY <1>1, <1>2
<1>5. r - q = n /\ r - q >= 0
  BY ONLY <1>1, <1>2
<1>6. ASSUME NEW i \in 1 .. b
      PROVE  IF i + (a + n - b) <= a
               THEN new[i] = old[i + (a + n - b)]
               ELSE new[i].seq = r - b + i - 1
  <2>1. CASE i + (a + n - b) <= a
    BY ONLY <1>3, <2>1
  <2>2. CASE ~(i + (a + n - b) <= a)
    <3>1. new[i].seq = q + (i + (a + n - b) - a) - 1
      <4>1. new[i] = [seq |-> q + (i + (a + n - b) - a) - 1,
                      message |-> lines[i + (a + n - b) - a]]
        BY ONLY <1>3, <2>2
      <4> QED
        BY ONLY <4>1
    <3> QED
      BY ONLY <1>4, <2>2, <3>1
  <2> QED
    BY ONLY <2>1, <2>2
<1>7. /\ r - q >= 0
      /\ Len(new) = IF Len(old) + (r - q) <= Capacity THEN Len(old) + (r - q)
                                                      ELSE Capacity
      /\ \A i \in 1 .. b :
           IF i + (Len(old) + (r - q) - b) <= Len(old)
             THEN new[i] = old[i + (Len(old) + (r - q) - b)]
             ELSE new[i].seq = r - b + i - 1
  BY ONLY <1>1, <1>2, <1>5, <1>6
<1>8. b = IF Len(old) + (r - q) <= Capacity THEN Len(old) + (r - q) ELSE Capacity
  BY ONLY <1>1, <1>2, <1>5
<1>9. Ordered(store)' = new
  BY DEF new, Ordered, SlotAt
<1> QED
  BY <1>7, <1>8, <1>9, Zenon DEF Latest!Add, old, a, b, q, r

(* Behind the gate, with pages, batches and clearing interleaved, the ring *)
(* implements the list of the latest entries.                              *)
THEOREM LogsImplementTail == ServerSpec => ImplementsTail
<1>1. Start => Ordered(store) = <<>> /\ store.seq = 0
  BY DEF Start, LogInit, RingInit, EmptyStore, Ordered
<1>2. LogsInv /\ [GateStep \/ ServerStep \/ LogStep]_allVars =>
        [Latest!Add \/ Latest!Clear]_(<<Ordered(store), store.seq>>)
  <2> SUFFICES ASSUME LogsInv, [GateStep \/ ServerStep \/ LogStep]_allVars
               PROVE  \/ Latest!Add \/ Latest!Clear
                      \/ UNCHANGED <<Ordered(store), store.seq>>
    OBVIOUS
  <2>t. /\ store \in Stores
        /\ posts \subseteq [page : Consoles, lines : Seq(Messages)]
    BY DEF LogsInv, LogTypeOK
  <2>1. CASE UNCHANGED store
    BY <2>1 DEF Ordered, SlotAt
  <2>2. ASSUME NEW post \in posts, Ingest(post)
        PROVE  Latest!Add
    BY <2>t, <2>2, GrowsByBatch, GrownAdds DEF Ingest
  <2>3. CASE BackendLogs
    <3>1. BackendLine \in Messages /\ store' = Put(store, BackendLine)
      BY <2>3, LinesAssumption DEF BackendLogs
    <3>2. <<BackendLine>> \in Seq(Messages)
      BY <3>1
    <3> QED
      BY <2>t, <3>1, <3>2, GrowsByOne, GrownAdds
  <2>4. CASE ClearLogs
    <3>1. store'.size = 0 /\ store'.seq = store.seq
      BY <2>t, <2>4, ClearedIsEmpty DEF ClearLogs, ClearEntries
    <3> QED
      BY <3>1 DEF Latest!Clear, Ordered
  <2> QED
    BY <2>1, <2>2, <2>3, <2>4
       DEF GateStep, ServerStep, LogStep, PostLogs, PageLogs, FlushTimer,
           BatchLost, allVars, logVars
<1> QED
  BY <1>1, <1>2, LogsAccounted, PTL DEF ServerSpec, ImplementsTail, Latest!Spec

(* The gate does behind the routes what it does alone.                     *)
THEOREM ServerGuarded ==
  ServerSpec => /\ []Inv /\ []RedeemedOnce /\ []LoserIsToldToRetry
                /\ RedeemedInTime
<1> QED
  BY ServerKeepsGate, GateInvariant, NonceRedeemedOnce, LoserRetries,
     NonceRedeemedInTime, PTL

===============================================================================
