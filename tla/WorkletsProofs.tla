--------------------------- MODULE WorkletsProofs ---------------------------
(***************************************************************************)
(* The three programs of Worklets, for any runtimes, reap passes and cap.  *)
(* The phone's host never shows a stale run; the sidecar closes its        *)
(* runtime exactly when it is on its way out; and in the harness every     *)
(* instance goes through one life, in which it is counted, listed and torn *)
(* down once, however allocations, DELETEs, reap passes and close()        *)
(* overlap.                                                                *)
(***************************************************************************)
EXTENDS Worklets, FiniteSetTheorems, TLAPS

-----------------------------------------------------------------------------
(* The runtimes.                                                           *)

(* What the operations of the runtime need: a runtime that is born has a   *)
(* server, and only a born one is closed.                                  *)
Born(i) == life[i] # "absent"

(* RuntimeInv is inductive for the runtime's operations by itself: closing *)
(* a born runtime, ...                                                     *)
LEMMA ShutKeeps ==
  ASSUME RuntimeInv, NEW i \in Runtimes, Born(i), Shut(i),
         life' \in [Runtimes -> {"absent", "starting", "started", "rejected"}],
         \A j \in Runtimes : (life'[j] = "absent") <=> (life[j] = "absent"),
         UNCHANGED files
  PROVE  RuntimeInv'
<1>. USE DEF RuntimeInv, RuntimeTypeOK, Shut, Born
<1>1. RuntimeTypeOK'
  <2>1. wrappers' \in Nat
    BY DEF Detach
  <2>2. server' \in [Runtimes -> {"idle", "listening", "bound", "closing",
                                  "released"}]
    OBVIOUS
  <2>. QED  BY <2>1, <2>2 DEF Detach
<1>2. PortsFollowRuntimes'
  BY DEF PortsFollowRuntimes
<1>3. ConsoleFollowsRuntimes'
  <2>1. sinks' = {j \in Runtimes : life'[j] # "absent" /\ ~closed'[j]}
    BY DEF ConsoleFollowsRuntimes, Detach
  <2>2. wrappers' = IF sinks' = {} THEN 0 ELSE 1
    BY DEF ConsoleFollowsRuntimes, Detach
  <2>. QED  BY <2>1, <2>2 DEF ConsoleFollowsRuntimes
<1>. QED  BY <1>1, <1>2, <1>3

(* ... creating one, ...                                                   *)
LEMMA CreateKeeps ==
  ASSUME RuntimeInv, NEW i \in Runtimes, NEW d \in Storages,
         CreateAndStart(i, d)
  PROVE  RuntimeInv'
<1>. USE DEF RuntimeInv, RuntimeTypeOK, CreateAndStart
<1>1. RuntimeTypeOK'
  BY DEF Attach, Installs
<1>2. PortsFollowRuntimes'
  BY DEF PortsFollowRuntimes
<1>3. ~closed[i]
  BY DEF PortsFollowRuntimes
<1>4. sinks' = {j \in Runtimes : life'[j] # "absent" /\ ~closed'[j]}
  BY <1>3 DEF ConsoleFollowsRuntimes, Attach
<1>5. wrappers' = IF sinks' = {} THEN 0 ELSE 1
  BY DEF ConsoleFollowsRuntimes, Attach, Installs
<1>. QED  BY <1>1, <1>2, <1>4, <1>5 DEF ConsoleFollowsRuntimes

(* ... its start succeeding or not, and its port being released.           *)
LEMMA BoundKeeps ==
  ASSUME RuntimeInv, NEW i \in Runtimes, NEW d \in Storages,
         NEW b \in BOOLEAN, Bound(i, d, b)
  PROVE  RuntimeInv'
<1>. USE DEF RuntimeInv, RuntimeTypeOK, Bound
<1>1. RuntimeTypeOK'
  OBVIOUS
<1>2. PortsFollowRuntimes'
  BY DEF PortsFollowRuntimes
<1>3. ConsoleFollowsRuntimes'
  BY DEF ConsoleFollowsRuntimes
<1>. QED  BY <1>1, <1>2, <1>3

LEMMA FailKeeps ==
  ASSUME RuntimeInv, NEW i \in Runtimes, StartFails(i)
  PROVE  RuntimeInv'
BY ShutKeeps DEF StartFails, Born, RuntimeInv, RuntimeTypeOK

LEMMA CloseKeeps ==
  ASSUME RuntimeInv, NEW i \in Runtimes, Born(i), Close(i)
  PROVE  RuntimeInv'
BY ShutKeeps DEF Close, RuntimeInv, RuntimeTypeOK

LEMMA ReleaseKeeps ==
  ASSUME RuntimeInv, NEW i \in Runtimes, Released(i),
         UNCHANGED <<life, closed, sinks, wrappers>>,
         files' \in [Storages -> Runtimes \cup {NoFile}]
  PROVE  RuntimeInv'
<1>. USE DEF RuntimeInv, RuntimeTypeOK, Released
<1>1. RuntimeTypeOK'
  OBVIOUS
<1>2. PortsFollowRuntimes'
  BY DEF PortsFollowRuntimes
<1>3. ConsoleFollowsRuntimes'
  BY DEF ConsoleFollowsRuntimes
<1>. QED  BY <1>1, <1>2, <1>3

LEMMA DeathKeeps ==
  ASSUME RuntimeInv, AllDie
  PROVE  RuntimeInv'
<1>. USE DEF RuntimeInv, RuntimeTypeOK, AllDie
<1>1. RuntimeTypeOK'
  OBVIOUS
<1>2. PortsFollowRuntimes'
  BY DEF PortsFollowRuntimes
<1>3. ConsoleFollowsRuntimes'
  BY DEF ConsoleFollowsRuntimes
<1>. QED  BY <1>1, <1>2, <1>3

LEMMA RuntimeStutters ==
  ASSUME RuntimeInv, UNCHANGED runtimeVars
  PROVE  RuntimeInv'
BY DEF RuntimeInv, RuntimeTypeOK, ConsoleFollowsRuntimes,
       PortsFollowRuntimes, runtimeVars
-----------------------------------------------------------------------------
(* The phone.                                                              *)

(* Between runs the host knows nothing; from the start of a run the only   *)
(* handoff in the app's storage is that run's, since the start removed     *)
(* what an earlier run left; and what the host has read is the run's too.  *)
HandoffFollowsRun ==
  /\ run = NoRun <=> host = "off"
  /\ host # "off" => files[AppStorage] \in {NoFile, run}
  /\ host \in {"off", "polling"} => handoff = NoRun
  /\ host \in {"read", "loaded"} => handoff = run
  /\ host # "loaded" => view = Status

(* A run is closed only once it was rejected: nothing but a failed start   *)
(* or the end of its process closes it.                                    *)
RunsCloseRejected == \A i \in Runtimes : closed[i] => life[i] = "rejected"

AppInv == HostTypeOK /\ HandoffFollowsRun /\ FreshHandoff

RunInv == RuntimeInv /\ RunsCloseRejected

LEMMA NavigationIsConfined ==
  ASSUME NEW url \in {"app", "web", "blank", "other"},
         NEW special \in BOOLEAN, NEW gesture \in BOOLEAN,
         platform \in {"android", "ios"}, special => url # "other",
         NEW decision,
         decision = IF platform = "ios" THEN DecideIos(url, special, gesture)
                                        ELSE DecideAndroid(url, special, gesture)
  PROVE  AfterDecision(decision, url) \in {Page(handoff), Status, Refused, view}
<1>. USE DEF AfterDecision, Shown, DecideIos, DecideAndroid, IsAppUrl
<1>1. CASE platform = "ios"
  BY <1>1
<1>2. CASE platform = "android"
  BY <1>2
<1>. QED  BY <1>1, <1>2

LEMMA AppStepKeeps ==
  ASSUME RunInv, AppInv, AppNext
  PROVE  RunInv' /\ AppInv'
<1>. USE RuntimesAssumption, HostAssumption
     DEF RunInv, AppInv, NoRun, NoFile
<1>. USE DEF Storages, AppStorage
<1>1. ASSUME NEW i \in Runtimes, Boot(i)  PROVE RunInv' /\ AppInv'
  <2>1. RuntimeInv'
    BY <1>1 DEF Boot, WithoutStale, RuntimeInv, RuntimeTypeOK,
                ConsoleFollowsRuntimes, PortsFollowRuntimes
  <2>2. RunsCloseRejected'
    BY <1>1 DEF Boot, RunsCloseRejected
  <2>3. HostTypeOK'
    BY <1>1 DEF Boot, HostTypeOK
  <2>4. HandoffFollowsRun' /\ FreshHandoff'
    BY <1>1 DEF Boot, WithoutStale, HandoffFollowsRun, FreshHandoff,
                RuntimeInv, RuntimeTypeOK
  <2>. QED  BY <2>1, <2>2, <2>3, <2>4
<1>2. CASE WorkletStarts
  <2>1. RuntimeInv'
    BY <1>2, CreateKeeps DEF WorkletStarts, HostTypeOK
  <2>2. RunsCloseRejected'
    BY <1>2 DEF WorkletStarts, CreateAndStart, RunsCloseRejected,
                RuntimeInv, RuntimeTypeOK, PortsFollowRuntimes, HostTypeOK
  <2>3. AppInv'
    BY <1>2 DEF WorkletStarts, CreateAndStart, HostTypeOK, hostVars,
                HandoffFollowsRun, FreshHandoff, RuntimeInv, RuntimeTypeOK
  <2>. QED  BY <2>1, <2>2, <2>3
<1>3. CASE WorkletUp
  <2>1. RuntimeInv'
    BY <1>3, BoundKeeps DEF WorkletUp, HostTypeOK
  <2>2. RunsCloseRejected'
    BY <1>3 DEF WorkletUp, Bound, RunsCloseRejected,
                RuntimeInv, RuntimeTypeOK, HostTypeOK
  <2>3. AppInv'
    BY <1>3 DEF WorkletUp, Bound, HostTypeOK, hostVars,
                HandoffFollowsRun, FreshHandoff, RuntimeInv, RuntimeTypeOK
  <2>. QED  BY <2>1, <2>2, <2>3
<1>4. CASE WorkletFails
  <2>1. RuntimeInv'
    BY <1>4, FailKeeps DEF WorkletFails, HostTypeOK
  <2>2. RunsCloseRejected'
    BY <1>4 DEF WorkletFails, StartFails, Shut, RunsCloseRejected,
                RuntimeInv, RuntimeTypeOK, HostTypeOK
  <2>3. AppInv'
    BY <1>4 DEF WorkletFails, StartFails, HostTypeOK, hostVars,
                HandoffFollowsRun, FreshHandoff
  <2>. QED  BY <2>1, <2>2, <2>3
<1>5. CASE PollReads
  <2>1. RunInv'
    BY <1>5, RuntimeStutters DEF PollReads, runtimeVars, RunsCloseRejected
  <2>2. AppInv'
    BY <1>5 DEF PollReads, HostTypeOK, runtimeVars, HandoffFollowsRun,
                FreshHandoff
  <2>. QED  BY <2>1, <2>2
<1>6. CASE PollDeletes
  <2>1. RunInv'
    BY <1>6 DEF PollDeletes, RuntimeInv, RuntimeTypeOK, RunsCloseRejected,
                ConsoleFollowsRuntimes, PortsFollowRuntimes
  <2>2. AppInv'
    BY <1>6 DEF PollDeletes, HostTypeOK, HandoffFollowsRun, FreshHandoff,
                RuntimeInv, RuntimeTypeOK
  <2>. QED  BY <2>1, <2>2
<1>7. ASSUME NEW url \in Urls, NEW special \in BOOLEAN,
             NEW gesture \in BOOLEAN, Navigate(url, special, gesture)
      PROVE  RunInv' /\ AppInv'
  <2>1. RunInv'
    BY <1>7, RuntimeStutters DEF Navigate, runtimeVars, RunsCloseRejected
  <2>2. view' \in {Page(handoff), Status, Refused, view}
    BY <1>7, NavigationIsConfined DEF Navigate, HostTypeOK
  <2>3. AppInv'
    BY <1>7, <2>2 DEF Navigate, HostTypeOK, runtimeVars, HandoffFollowsRun,
                      FreshHandoff
  <2>. QED  BY <2>1, <2>3
<1>8. CASE GoBack
  <2>1. RunInv'
    BY <1>8, RuntimeStutters DEF GoBack, runtimeVars, RunsCloseRejected
  <2>2. host = "loaded"
    BY <1>8 DEF GoBack, HandoffFollowsRun, Refused, Status
  <2>3. AppInv'
    BY <1>8, <2>2 DEF GoBack, HostTypeOK, runtimeVars, HandoffFollowsRun,
                      FreshHandoff
  <2>. QED  BY <2>1, <2>3
<1>9. CASE Stop
  <2>1. RuntimeInv'
    BY <1>9, DeathKeeps DEF Stop
  <2>2. RunsCloseRejected'
    BY <1>9 DEF Stop, AllDie, RunsCloseRejected
  <2>3. AppInv'
    BY <1>9 DEF Stop, HostTypeOK, HandoffFollowsRun, FreshHandoff
  <2>. QED  BY <2>1, <2>2, <2>3
<1>. QED
  BY <1>1, <1>2, <1>3, <1>4, <1>5, <1>6, <1>7, <1>8, <1>9 DEF AppNext

-----------------------------------------------------------------------------
(* The sidecar.                                                            *)

(* Nothing goes over the pipe, and nothing is shut down, before the        *)
(* runtime is created.                                                     *)
SidecarInv ==
  /\ DesktopTypeOK
  /\ ExitsWithItsRuntime
  /\ pipe # "unused" \/ exit.is = "closing" => Born(Sidecar)

LEMMA SidecarStepKeeps ==
  ASSUME RuntimeInv, SidecarInv, DesktopNext
  PROVE  RuntimeInv' /\ SidecarInv'
<1>. USE SidecarAssumption
     DEF SidecarInv, DesktopTypeOK, ExitsWithItsRuntime, Born
<1>1. CASE LaunchRefused
  <2>1. RuntimeInv'
    BY <1>1, RuntimeStutters DEF LaunchRefused
  <2>. QED  BY <1>1, <2>1 DEF LaunchRefused, runtimeVars
<1>2. CASE Launch
  <2>1. RuntimeInv'
    BY <1>2, CreateKeeps DEF Launch, Storages
  <2>2. Born(Sidecar)'
    BY <1>2 DEF Launch, CreateAndStart, RuntimeInv, RuntimeTypeOK
  <2>3. ~closed[Sidecar] /\ closed' = closed /\ exit.is = "running"
    BY <1>2 DEF Launch, Alive, CreateAndStart, RuntimeInv,
                PortsFollowRuntimes
  <2>. QED  BY <1>2, <2>1, <2>2, <2>3 DEF Launch, desktopVars
<1>3. CASE HandsOff
  <2>1. RuntimeInv'
    BY <1>3, BoundKeeps DEF HandsOff, WritesFile, Storages
  <2>2. Born(Sidecar)' /\ Born(Sidecar) /\ closed' = closed
    BY <1>3 DEF HandsOff, Bound, RuntimeInv, RuntimeTypeOK
  <2>. QED  BY <1>3, <2>1, <2>2 DEF HandsOff
<1>4. ASSUME NEW code \in {0, 1}, Shutdown(code), Born(Sidecar),
             UNCHANGED <<parent, watched>>,
             pipe' \in {"unused", "writing", "written", "failed"}
      PROVE  RuntimeInv' /\ SidecarInv'
  <2>1. RuntimeInv' /\ Born(Sidecar)'
    <3>1. CASE exit.is = "running"
      BY <1>4, <3>1, CloseKeeps DEF Shutdown, Close
    <3>2. CASE exit.is # "running"
      BY <1>4, <3>2, RuntimeStutters DEF Shutdown, runtimeVars
    <3>. QED  BY <3>1, <3>2
  <2>2. exit'.is = (IF exit.is = "running" THEN "closing" ELSE exit.is)
         /\ DesktopTypeOK'
    BY <1>4 DEF Shutdown, ExitWith
  <2>3. closed'[Sidecar] <=> exit'.is # "running"
    <3>1. CASE exit.is = "running"
      BY <1>4, <2>2, <3>1 DEF Shutdown, Close, Shut, RuntimeInv, RuntimeTypeOK
    <3>2. CASE exit.is # "running"
      BY <1>4, <2>2, <3>2 DEF Shutdown, runtimeVars
    <3>. QED  BY <3>1, <3>2
  <2>. QED  BY <2>1, <2>2, <2>3
<1>5. CASE StartRejects
  <2>1. RuntimeInv'
    BY <1>5, FailKeeps DEF StartRejects
  <2>2. Born(Sidecar)'
    BY <1>5 DEF StartRejects, StartFails, RuntimeInv, RuntimeTypeOK
  <2>3. closed'[Sidecar] /\ exit'.is # "running"
    BY <1>5 DEF StartRejects, StartFails, Shut, ExitWith, RuntimeInv,
                RuntimeTypeOK
  <2>. QED  BY <1>5, <2>1, <2>2, <2>3 DEF StartRejects, ExitWith
<1>6. ASSUME NEW ok \in BOOLEAN, PipeEnds(ok)
      PROVE  RuntimeInv' /\ SidecarInv'
  <2>0. Born(Sidecar)
    BY <1>6 DEF PipeEnds
  <2>1. CASE ok
    <3>1. RuntimeInv'
      BY <1>6, <2>1, RuntimeStutters DEF PipeEnds
    <3>. QED  BY <1>6, <2>0, <2>1, <3>1 DEF PipeEnds, runtimeVars
  <2>2. CASE ~ok
    BY <1>6, <2>0, <2>2, <1>4 DEF PipeEnds
  <2>. QED  BY <2>1, <2>2
<1>7. CASE ParentDies
  <2>1. RuntimeInv'
    BY <1>7, RuntimeStutters DEF ParentDies
  <2>. QED  BY <1>7, <2>1 DEF ParentDies, runtimeVars
<1>8. CASE StdinEnds
  BY <1>4, <1>8 DEF StdinEnds
<1>9. ASSUME exit'.is = "exited", exit' \in {[exit EXCEPT !.is = "exited"],
                                             [is |-> "exited", code |-> 1]},
             AllDie, UNCHANGED <<parent, watched, pipe>>
      PROVE  RuntimeInv' /\ SidecarInv'
  <2>1. RuntimeInv'
    BY <1>9, DeathKeeps
  <2>2. /\ Born(Sidecar) => Born(Sidecar)'
        /\ Born(Sidecar)' => closed'[Sidecar]
    BY <1>9 DEF AllDie
  <2>3. DesktopTypeOK'
    BY <1>9
  <2>. QED  BY <1>9, <2>1, <2>2, <2>3
<1>. QED
  BY <1>1, <1>2, <1>3, <1>5, <1>6, <1>7, <1>8, <1>9
     DEF DesktopNext, Throws, ServerCallsBack, TimerFires, TimerRuns

-----------------------------------------------------------------------------
(* The harness.  An instance lives through these stages, in this order or  *)
(* with an early end.                                                      *)

LeavesNothing(i) == i \in dirs \/ files[i] # NoFile => i \in stuck

Unborn(i) ==
  /\ life[i] = "absent" /\ reply[i] \in {"none", "500"}
  /\ LeavesNothing(i)

Starting(i) ==
  /\ life[i] = "starting" /\ reply[i] = "none" /\ ~closed[i]

HalfStarted(i) ==
  /\ life[i] = "rejected" /\ reply[i] = "none" /\ closed[i]

Listed(i) ==
  /\ life[i] = "started" /\ reply[i] = "201" /\ ~closed[i]

TornDownNow(i) ==
  /\ life[i] = "started" /\ reply[i] = "201" /\ closed[i]

GivenUp(i) ==
  /\ life[i] = "rejected" /\ reply[i] = "500" /\ closed[i]
  /\ server[i] = "released" /\ LeavesNothing(i)

Gone(i) ==
  /\ life[i] = "started" /\ reply[i] = "201" /\ closed[i]
  /\ server[i] = "released" /\ LeavesNothing(i)

(* An instance is in the registry in one stage only, someone waits for its *)
(* teardown in one stage only, and it was destroyed before it was gone.    *)
OneLife(i) ==
  \/ /\ Unborn(i) \/ Starting(i) \/ HalfStarted(i) \/ GivenUp(i)
     /\ i \notin registry /\ destroyer[i] = NoOne /\ destroyed[i] = 0
  \/ /\ Listed(i)
     /\ i \in registry /\ destroyer[i] = NoOne /\ destroyed[i] = 0
  \/ /\ TornDownNow(i)
     /\ i \notin registry /\ destroyer[i] # NoOne /\ destroyed[i] = 1
  \/ /\ Gone(i)
     /\ i \notin registry /\ destroyer[i] = NoOne /\ destroyed[i] = 1

(* What the closing pass found and has not destroyed is still on its list. *)
CloserKnows ==
  /\ \A i \in seen : reply[i] = "201"
  /\ manager # "open" => registry \cap seen \subseteq rest[Closer]
  /\ manager = "closed" => rest[Closer] = {}

HarnessInv ==
  /\ RuntimeInv /\ HarnessTypeOK
  /\ \A i \in Runtimes : OneLife(i)
  /\ CapHolds
  /\ CloserKnows

(* The cap is kept by a step that neither starts an allocation nor lists   *)
(* an instance.                                                            *)
LEMMA CapKept ==
  ASSUME HarnessInv, Allocating' = Allocating, starting' = starting,
         registry' \in SUBSET registry
  PROVE  CapHolds'
<1>1. IsFiniteSet(registry) /\ Cardinality(registry) \in Nat
  BY RuntimesAssumption, FS_Subset, FS_CardinalityType
     DEF HarnessInv, HarnessTypeOK
<1>2. Cardinality(registry') <= Cardinality(registry)
       /\ Cardinality(registry') \in Nat
  BY <1>1, FS_Subset, FS_CardinalityType
<1>. QED
  BY <1>1, <1>2, HarnessAssumption DEF HarnessInv, HarnessTypeOK, CapHolds

(* The instances still allocating are finitely many; one that is answered  *)
(* is one less.                                                            *)
LEMMA OneAnswered ==
  ASSUME HarnessInv, NEW i \in Allocating, Allocating' = Allocating \ {i},
         starting' = starting - 1
  PROVE  /\ starting > 0 /\ starting' \in Nat
         /\ starting' = Cardinality(Allocating')
<1>1. IsFiniteSet(Allocating) /\ Cardinality(Allocating) \in Nat
  BY RuntimesAssumption, FS_Subset, FS_CardinalityType DEF Allocating
<1>2. Cardinality(Allocating') = Cardinality(Allocating) - 1
       /\ Cardinality(Allocating') \in Nat
  BY <1>1, FS_RemoveElement, FS_CardinalityType
<1>. QED  BY <1>1, <1>2 DEF HarnessInv, CapHolds

(* An instance no variable of which changes stays in its stage.            *)
LEMMA UntouchedLives ==
  ASSUME NEW j, OneLife(j),
         life'[j] = life[j], closed'[j] = closed[j], reply'[j] = reply[j],
         destroyer'[j] = destroyer[j], destroyed'[j] = destroyed[j],
         j \in registry' <=> j \in registry,
         server'[j] = server[j],
         j \in dirs' => j \in dirs, j \in stuck => j \in stuck',
         files'[j] = files[j]
  PROVE  OneLife(j)'
BY DEF OneLife, Listed, Unborn, Starting, HalfStarted, GivenUp,
       TornDownNow, Gone, LeavesNothing

(* Destroying a listed instance takes it to the next stage of its life and *)
(* leaves the others alone.                                                *)
LEMMA DestroyKeeps ==
  ASSUME HarnessInv, NEW i \in registry,
         NEW who \in {"DELETE"} \cup Reapers, Destroy(i, who),
         UNCHANGED <<starting, dirs, idle, stuck, reply>>
  PROVE  /\ RuntimeInv'
         /\ \A j \in Runtimes : OneLife(j)'
         /\ CapHolds'
         /\ registry' = registry \ {i}
         /\ destroyer' \in [Runtimes -> {NoOne, "DELETE"} \cup Reapers]
         /\ destroyed' \in [Runtimes -> Nat]
<1>. USE DEF HarnessInv, HarnessTypeOK
<1>1. i \in Runtimes /\ Listed(i)
  BY DEF OneLife
<1>2. RuntimeInv'
  BY <1>1, CloseKeeps DEF Destroy, Born, Listed
<1>3. registry' = registry \ {i}
  BY DEF Destroy, Without
<1>4. destroyer' \in [Runtimes -> {NoOne, "DELETE"} \cup Reapers]
       /\ destroyed' \in [Runtimes -> Nat]
  BY DEF Destroy
<1>5. who # NoOne
  BY HarnessAssumption DEF NoOne, Reapers, Closer
<1>6. life' = life /\ closed' = [closed EXCEPT ![i] = TRUE]
       /\ server' = [server EXCEPT ![i] = "closing"]
  BY <1>1 DEF Destroy, Close, Shut, Listed
<1>7. OneLife(i)'
  <2>1. TornDownNow(i)'
    BY <1>1, <1>6 DEF TornDownNow, Listed, RuntimeInv, RuntimeTypeOK
  <2>2. i \notin registry' /\ destroyer'[i] # NoOne
    BY <1>1, <1>3, <1>5 DEF Destroy
  <2>3. destroyed'[i] = 1
    BY <1>1 DEF Destroy, OneLife, Listed, Unborn, Starting, HalfStarted,
                GivenUp, TornDownNow, Gone
  <2>. QED  BY <2>1, <2>2, <2>3 DEF OneLife
<1>8. ASSUME NEW j \in Runtimes, j # i  PROVE OneLife(j)'
  <2>1. /\ closed'[j] = closed[j] /\ server'[j] = server[j]
        /\ destroyer'[j] = destroyer[j] /\ destroyed'[j] = destroyed[j]
        /\ j \in registry' <=> j \in registry
        /\ files' = files
    BY <1>3, <1>6, <1>8 DEF Destroy, Close, RuntimeInv, RuntimeTypeOK
  <2>. QED  BY <1>6, <2>1, UntouchedLives
<1>9. CapHolds'
  BY <1>3, <1>6, CapKept DEF Allocating
<1>. QED  BY <1>2, <1>3, <1>4, <1>7, <1>8, <1>9

(* A step of the loop of a pass over the instances of q, all or part of    *)
(* what it has listed.                                                     *)
LEMMA GoOnKeeps ==
  ASSUME HarnessInv, NEW p \in Reapers, NEW q \in SUBSET Runtimes,
         GoOn(p, q), UNCHANGED <<starting, dirs, idle, stuck, reply>>
  PROVE  /\ RuntimeInv'
         /\ \A j \in Runtimes : OneLife(j)'
         /\ CapHolds'
         /\ registry' \in SUBSET registry
         /\ registry' \cap q \subseteq rest'[p]
         /\ rest' = [rest EXCEPT ![p] = rest'[p]]
         /\ rest'[p] \in SUBSET q
         /\ destroyer' \in [Runtimes -> {NoOne, "DELETE"} \cup Reapers]
         /\ destroyed' \in [Runtimes -> Nat]
<1>. USE DEF HarnessInv, HarnessTypeOK
<1>. DEFINE left == q \cap registry
<1>1. CASE left = {}
  <2>0. /\ rest' = [rest EXCEPT ![p] = {}]
        /\ UNCHANGED <<registry, destroyer, destroyed>>
        /\ UNCHANGED runtimeVars
    BY <1>1 DEF GoOn
  <2>1. RuntimeInv'
    BY <2>0, RuntimeStutters
  <2>2. ASSUME NEW j \in Runtimes  PROVE OneLife(j)'
    BY <2>0, UntouchedLives DEF runtimeVars
  <2>3. CapHolds'
    BY <2>0, CapKept DEF Allocating, runtimeVars
  <2>. QED  BY <1>1, <2>0, <2>1, <2>2, <2>3
<1>2. CASE left # {}
  <2>1. PICK i \in left : /\ rest' = [rest EXCEPT ![p] = left \ {i}]
                          /\ Destroy(i, p)
    BY <1>2 DEF GoOn
  <2>2. /\ RuntimeInv' /\ CapHolds'
        /\ \A j \in Runtimes : OneLife(j)'
        /\ registry' = registry \ {i}
        /\ destroyer' \in [Runtimes -> {NoOne, "DELETE"} \cup Reapers]
        /\ destroyed' \in [Runtimes -> Nat]
    BY <2>1, DestroyKeeps
  <2>. QED  BY <2>1, <2>2
<1>. QED  BY <1>1, <1>2

LEMMA AllocateKeeps ==
  ASSUME HarnessInv, NEW i \in Runtimes, Allocate(i)
  PROVE  HarnessInv'
<1>. USE DEF HarnessInv, HarnessTypeOK
<1>0. /\ life[i] = "absent" /\ reply[i] = "none" /\ OneLife(i)
      /\ RuntimeTypeOK /\ PortsFollowRuntimes
  BY DEF Allocate, IsNext, RuntimeInv
<1>1. RuntimeInv'
  BY CreateKeeps DEF Allocate, Storages
<1>2. /\ life' = [life EXCEPT ![i] = "starting"]
      /\ UNCHANGED <<closed, registry, destroyer, destroyed, reply, stuck>>
      /\ server' = [server EXCEPT ![i] = "listening"]
      /\ dirs' = dirs \cup {i}
      /\ files' \in {files, [files EXCEPT ![i] = NoFile]}
  BY DEF Allocate, CreateAndStart
<1>3. Unborn(i) /\ ~closed[i]
  BY <1>0 DEF OneLife, Starting, HalfStarted, GivenUp, Listed, TornDownNow,
              Gone, PortsFollowRuntimes
<1>4. \A j \in Runtimes : OneLife(j)'
  <2>1. OneLife(i)'
    <3>1. Starting(i)'
      BY <1>0, <1>2, <1>3 DEF Starting, RuntimeTypeOK
    <3>. QED
      BY <1>0, <1>2, <3>1 DEF OneLife, Listed, TornDownNow, Gone
  <2>2. ASSUME NEW j \in Runtimes, j # i  PROVE OneLife(j)'
    <3>1. files'[j] = files[j]
      BY <1>0, <1>2, <2>2 DEF RuntimeTypeOK, Storages
    <3>. QED  BY <1>0, <1>2, <2>2, <3>1, UntouchedLives DEF RuntimeTypeOK
  <2>. QED  BY <2>1, <2>2
<1>5. CapHolds'
  <2>1. IsFiniteSet(Allocating) /\ Cardinality(Allocating) \in Nat
    BY RuntimesAssumption, FS_Subset, FS_CardinalityType DEF Allocating
  <2>2. IsFiniteSet(registry) /\ Cardinality(registry) \in Nat
    BY RuntimesAssumption, FS_Subset, FS_CardinalityType
  <2>3. Allocating' = Allocating \cup {i} /\ i \notin Allocating
    BY <1>0, <1>2 DEF Allocating, RuntimeTypeOK
  <2>4. Cardinality(Allocating') = Cardinality(Allocating) + 1
    BY <2>1, <2>3, FS_AddElement
  <2>5. Cardinality(registry) + starting < MaxInstances
    BY <2>2, HarnessAssumption DEF Allocate, AtCap
  <2>. QED
    BY <1>2, <2>1, <2>2, <2>4, <2>5, HarnessAssumption
       DEF CapHolds, Allocate
<1>6. HarnessTypeOK'
  BY DEF Allocate
<1>7. CloserKnows'
  BY DEF CloserKnows, Allocate
<1>. QED  BY <1>1, <1>4, <1>5, <1>6, <1>7

LEMMA AllocateThrowsKeeps ==
  ASSUME HarnessInv, NEW i \in Runtimes, AllocateThrows(i)
  PROVE  HarnessInv'
<1>. USE DEF HarnessInv, HarnessTypeOK
<1>0. /\ life[i] = "absent" /\ reply[i] = "none" /\ OneLife(i)
      /\ reply' = [reply EXCEPT ![i] = "500"]
      /\ UNCHANGED runtimeVars
      /\ UNCHANGED <<registry, starting, idle, destroyer, destroyed, rest,
                     manager, seen>>
      /\ \/ UNCHANGED <<dirs, stuck>>
         \/ dirs' = dirs \cup {i} /\ stuck' = stuck \cup {i}
  BY DEF AllocateThrows, IsNext
<1>1. RuntimeInv'
  BY <1>0, RuntimeStutters
<1>2. \A j \in Runtimes : OneLife(j)'
  <2>1. OneLife(i)'
    <3>1. Unborn(i) /\ i \notin registry /\ destroyer[i] = NoOne
           /\ destroyed[i] = 0
      BY <1>0 DEF OneLife, Starting, HalfStarted, GivenUp, Listed,
                  TornDownNow, Gone
    <3>2. Unborn(i)'
      BY <1>0, <3>1 DEF Unborn, LeavesNothing, runtimeVars
    <3>. QED  BY <1>0, <3>1, <3>2 DEF OneLife
  <2>2. ASSUME NEW j \in Runtimes, j # i  PROVE OneLife(j)'
    BY <1>0, <2>2, UntouchedLives DEF runtimeVars
  <2>. QED  BY <2>1, <2>2
<1>3. CapHolds'
  <2>1. Allocating' = Allocating
    BY <1>0 DEF Allocating, runtimeVars
  <2>. QED  BY <1>0, <2>1, CapKept
<1>4. CloserKnows'
  BY <1>0 DEF CloserKnows
<1>. QED  BY <1>0, <1>1, <1>2, <1>3, <1>4

LEMMA RegisterKeeps ==
  ASSUME HarnessInv, NEW i \in Runtimes, Register(i)
  PROVE  HarnessInv'
<1>. USE DEF HarnessInv, HarnessTypeOK
<1>0. life[i] = "starting" /\ OneLife(i) /\ RuntimeTypeOK
  BY DEF Register, Bound, RuntimeInv
<1>1. RuntimeInv'
  BY BoundKeeps DEF Register, Storages
<1>2. /\ life' = [life EXCEPT ![i] = "started"]
      /\ UNCHANGED <<closed, destroyer, destroyed, dirs, stuck, seen, rest,
                     manager>>
      /\ reply' = [reply EXCEPT ![i] = "201"]
      /\ registry' = registry \cup {i}
      /\ starting' = starting - 1
  BY DEF Register, Bound
<1>3. Starting(i) /\ i \notin registry /\ destroyer[i] = NoOne
       /\ destroyed[i] = 0
  BY <1>0 DEF OneLife, Unborn, HalfStarted, GivenUp, Listed, TornDownNow,
              Gone
<1>4. \A j \in Runtimes : OneLife(j)'
  <2>1. OneLife(i)'
    <3>1. Listed(i)'
      BY <1>2, <1>3, <1>0 DEF Listed, Starting, RuntimeTypeOK
    <3>. QED  BY <1>2, <1>3, <3>1 DEF OneLife
  <2>2. ASSUME NEW j \in Runtimes, j # i  PROVE OneLife(j)'
    <3>1. server'[j] = server[j] /\ files'[j] = files[j]
      BY <1>0, <2>2 DEF Register, Bound, RuntimeTypeOK, Storages
    <3>. QED  BY <1>0, <1>2, <2>2, <3>1, UntouchedLives DEF RuntimeTypeOK
  <2>. QED  BY <2>1, <2>2
<1>5. starting > 0 /\ starting' \in Nat
       /\ starting' = Cardinality(Allocating')
  <2>1. i \in Allocating /\ Allocating' = Allocating \ {i}
    BY <1>0, <1>2, <1>3 DEF Allocating, Starting, RuntimeTypeOK
  <2>. QED  BY <1>2, <2>1, OneAnswered
<1>6. CapHolds'
  <2>1. IsFiniteSet(registry) /\ Cardinality(registry) \in Nat
    BY RuntimesAssumption, FS_Subset, FS_CardinalityType
  <2>2. Cardinality(registry') = Cardinality(registry) + 1
    BY <1>2, <1>3, <2>1, FS_AddElement
  <2>. QED
    BY <1>2, <1>5, <2>1, <2>2, HarnessAssumption DEF CapHolds
<1>7. HarnessTypeOK'
  BY <1>2, <1>5 DEF Register
<1>8. CloserKnows'
  BY <1>2, <1>3 DEF CloserKnows, Starting
<1>. QED  BY <1>1, <1>4, <1>6, <1>7, <1>8

LEMMA AllocationFailsKeeps ==
  ASSUME HarnessInv, NEW i \in Runtimes, AllocationFails(i)
  PROVE  HarnessInv'
<1>. USE DEF HarnessInv, HarnessTypeOK
<1>0. life[i] = "starting" /\ OneLife(i) /\ RuntimeTypeOK
  BY DEF AllocationFails, StartFails, RuntimeInv
<1>1. RuntimeInv'
  BY FailKeeps DEF AllocationFails
<1>2. /\ life' = [life EXCEPT ![i] = "rejected"]
      /\ closed' = [closed EXCEPT ![i] = TRUE]
      /\ server' = [server EXCEPT ![i] = "closing"]
      /\ files' = files
      /\ UNCHANGED harnessVars
  BY <1>0 DEF AllocationFails, StartFails, Shut, OneLife, Unborn, Starting,
              HalfStarted, GivenUp, Listed, TornDownNow, Gone
<1>3. \A j \in Runtimes : OneLife(j)'
  <2>1. OneLife(i)'
    <3>1. Starting(i) /\ i \notin registry /\ destroyer[i] = NoOne
           /\ destroyed[i] = 0
      BY <1>0 DEF OneLife, Unborn, HalfStarted, GivenUp, Listed,
                  TornDownNow, Gone
    <3>2. HalfStarted(i)'
      BY <1>0, <1>2, <3>1 DEF HalfStarted, Starting, RuntimeTypeOK,
                              harnessVars
    <3>. QED  BY <1>2, <3>1, <3>2 DEF OneLife, harnessVars
  <2>2. ASSUME NEW j \in Runtimes, j # i  PROVE OneLife(j)'
    BY <1>0, <1>2, <2>2, UntouchedLives DEF RuntimeTypeOK, harnessVars
  <2>. QED  BY <2>1, <2>2
<1>4. CapHolds'
  <2>1. Allocating' = Allocating
    BY <1>0, <1>2 DEF Allocating, harnessVars, RuntimeTypeOK
  <2>. QED  BY <1>2, <2>1, CapKept DEF harnessVars
<1>5. HarnessTypeOK' /\ CloserKnows'
  BY <1>2 DEF CloserKnows, harnessVars
<1>. QED  BY <1>1, <1>3, <1>4, <1>5

(* What removing a directory leaves of the files.                          *)
LEMMA RemoveDirKeeps ==
  ASSUME RuntimeTypeOK, HarnessTypeOK, NEW i \in Runtimes, RemoveDir(i)
  PROVE  /\ files' \in [Storages -> Runtimes \cup {NoFile}]
         /\ dirs' \subseteq dirs /\ stuck \subseteq stuck'
         /\ stuck' \subseteq Runtimes
         /\ LeavesNothing(i)'
         /\ \A j \in Runtimes \ {i} : files'[j] = files[j]
BY DEF RemoveDir, LeavesNothing, RuntimeTypeOK, HarnessTypeOK, Storages

LEMMA AbandonedKeeps ==
  ASSUME HarnessInv, NEW i \in Runtimes, Abandoned(i)
  PROVE  HarnessInv'
<1>. USE DEF HarnessInv, HarnessTypeOK
<1>0. /\ life[i] = "rejected" /\ reply[i] = "none" /\ OneLife(i)
      /\ RuntimeTypeOK
  BY DEF Abandoned, RuntimeInv
<1>1. /\ files' \in [Storages -> Runtimes \cup {NoFile}]
      /\ dirs' \subseteq dirs /\ stuck \subseteq stuck'
      /\ stuck' \subseteq Runtimes
      /\ LeavesNothing(i)'
      /\ \A j \in Runtimes \ {i} : files'[j] = files[j]
  BY <1>0, RemoveDirKeeps DEF Abandoned
<1>2. RuntimeInv'
  BY <1>1, ReleaseKeeps DEF Abandoned
<1>3. /\ UNCHANGED <<life, closed, registry, destroyer, destroyed, idle,
                     seen, rest, manager>>
      /\ server' = [server EXCEPT ![i] = "released"]
      /\ reply' = [reply EXCEPT ![i] = "500"]
      /\ starting' = starting - 1
  BY DEF Abandoned, Released
<1>4. HalfStarted(i) /\ i \notin registry /\ destroyer[i] = NoOne
       /\ destroyed[i] = 0
  BY <1>0 DEF OneLife, Unborn, Starting, GivenUp, Listed, TornDownNow, Gone
<1>5. \A j \in Runtimes : OneLife(j)'
  <2>1. OneLife(i)'
    <3>1. GivenUp(i)'
      BY <1>0, <1>1, <1>3, <1>4 DEF GivenUp, HalfStarted, RuntimeTypeOK
    <3>. QED  BY <1>3, <1>4, <3>1 DEF OneLife
  <2>2. ASSUME NEW j \in Runtimes, j # i  PROVE OneLife(j)'
    BY <1>0, <1>1, <1>3, <2>2, UntouchedLives DEF RuntimeTypeOK
  <2>. QED  BY <2>1, <2>2
<1>6. starting > 0 /\ starting' \in Nat
       /\ starting' = Cardinality(Allocating')
  <2>1. i \in Allocating /\ Allocating' = Allocating \ {i}
    BY <1>0, <1>3 DEF Allocating
  <2>. QED  BY <1>3, <2>1, OneAnswered
<1>7. CapHolds'
  <2>1. IsFiniteSet(registry) /\ Cardinality(registry) \in Nat
    BY RuntimesAssumption, FS_Subset, FS_CardinalityType
  <2>. QED  BY <1>3, <1>6, <2>1, HarnessAssumption DEF CapHolds
<1>8. HarnessTypeOK'
  BY <1>1, <1>3, <1>6
<1>9. CloserKnows'
  BY <1>0, <1>3 DEF CloserKnows
<1>. QED  BY <1>2, <1>5, <1>7, <1>8, <1>9

LEMMA TornDownKeeps ==
  ASSUME HarnessInv, NEW i \in Runtimes, TornDown(i)
  PROVE  HarnessInv'
<1>. USE DEF HarnessInv, HarnessTypeOK
<1>0. destroyer[i] # NoOne /\ OneLife(i) /\ RuntimeTypeOK
  BY DEF TornDown, RuntimeInv
<1>1. /\ files' \in [Storages -> Runtimes \cup {NoFile}]
      /\ dirs' \subseteq dirs /\ stuck \subseteq stuck'
      /\ stuck' \subseteq Runtimes
      /\ LeavesNothing(i)'
      /\ \A j \in Runtimes \ {i} : files'[j] = files[j]
  BY <1>0, RemoveDirKeeps DEF TornDown
<1>2. RuntimeInv'
  BY <1>1, ReleaseKeeps DEF TornDown
<1>3. /\ UNCHANGED <<life, closed, registry, destroyed, idle, seen, rest,
                     manager, reply, starting>>
      /\ server' = [server EXCEPT ![i] = "released"]
      /\ destroyer' = [destroyer EXCEPT ![i] = NoOne]
  BY DEF TornDown, Released
<1>4. TornDownNow(i) /\ i \notin registry /\ destroyed[i] = 1
  BY <1>0 DEF OneLife
<1>5. \A j \in Runtimes : OneLife(j)'
  <2>1. OneLife(i)'
    <3>1. Gone(i)'
      BY <1>0, <1>1, <1>3, <1>4 DEF Gone, TornDownNow, RuntimeTypeOK
    <3>. QED  BY <1>3, <1>4, <3>1 DEF OneLife
  <2>2. ASSUME NEW j \in Runtimes, j # i  PROVE OneLife(j)'
    BY <1>0, <1>1, <1>3, <2>2, UntouchedLives DEF RuntimeTypeOK
  <2>. QED  BY <2>1, <2>2
<1>6. CapHolds'
  <2>1. Allocating' = Allocating
    BY <1>3 DEF Allocating
  <2>. QED  BY <1>3, <2>1, CapKept
<1>7. HarnessTypeOK' /\ CloserKnows'
  BY <1>1, <1>3 DEF CloserKnows
<1>. QED  BY <1>2, <1>5, <1>6, <1>7

LEMMA DeleteKeeps ==
  ASSUME HarnessInv, NEW i \in Runtimes, Delete(i)
  PROVE  HarnessInv'
<1>. USE DEF HarnessInv, HarnessTypeOK
<1>1. /\ RuntimeInv' /\ CapHolds'
      /\ \A j \in Runtimes : OneLife(j)'
      /\ registry' = registry \ {i}
      /\ destroyer' \in [Runtimes -> {NoOne, "DELETE"} \cup Reapers]
      /\ destroyed' \in [Runtimes -> Nat]
  BY DestroyKeeps DEF Delete, Known
<1>2. HarnessTypeOK' /\ CloserKnows'
  BY <1>1 DEF CloserKnows, Delete
<1>. QED  BY <1>1, <1>2

(* Passes by the interval, and the loop of every pass.                     *)
LEMMA PassKeeps ==
  ASSUME HarnessInv, NEW p \in Reapers, NEW q \in SUBSET Runtimes,
         GoOn(p, q), p \in Passes \/ q = rest[p],
         UNCHANGED <<starting, dirs, idle, stuck, reply, manager, seen>>
  PROVE  HarnessInv'
<1>. USE DEF HarnessInv, HarnessTypeOK
<1>1. /\ RuntimeInv' /\ CapHolds'
      /\ \A j \in Runtimes : OneLife(j)'
      /\ registry' \in SUBSET registry
      /\ registry' \cap q \subseteq rest'[p]
      /\ rest' = [rest EXCEPT ![p] = rest'[p]]
      /\ rest'[p] \in SUBSET q
      /\ destroyer' \in [Runtimes -> {NoOne, "DELETE"} \cup Reapers]
      /\ destroyed' \in [Runtimes -> Nat]
  BY GoOnKeeps
<1>2. HarnessTypeOK'
  BY <1>1
<1>3. CASE p = Closer
  <2>1. q = rest[Closer]
    BY <1>3, HarnessAssumption DEF Closer
  <2>. QED  BY <1>1, <1>2, <1>3, <2>1 DEF CloserKnows
<1>4. CASE p # Closer
  <2>1. rest'[Closer] = rest[Closer]
    BY <1>1, <1>4 DEF Reapers
  <2>. QED  BY <1>1, <1>2, <2>1 DEF CloserKnows
<1>. QED  BY <1>3, <1>4

LEMMA CloseManagerKeeps ==
  ASSUME HarnessInv, CloseManager
  PROVE  HarnessInv'
<1>. USE DEF HarnessInv, HarnessTypeOK
<1>0. /\ GoOn(Closer, registry) /\ seen' = registry /\ manager' = "reaping"
      /\ UNCHANGED <<starting, dirs, idle, stuck, reply>>
      /\ Closer \in Reapers
  BY DEF CloseManager, Reapers
<1>1. /\ RuntimeInv' /\ CapHolds'
      /\ \A j \in Runtimes : OneLife(j)'
      /\ registry' \in SUBSET registry
      /\ registry' \cap registry \subseteq rest'[Closer]
      /\ rest' = [rest EXCEPT ![Closer] = rest'[Closer]]
      /\ rest'[Closer] \in SUBSET registry
      /\ destroyer' \in [Runtimes -> {NoOne, "DELETE"} \cup Reapers]
      /\ destroyed' \in [Runtimes -> Nat]
  BY <1>0, GoOnKeeps
<1>2. HarnessTypeOK'
  BY <1>0, <1>1
<1>3. \A i \in registry : reply[i] = "201"
  BY DEF OneLife, Listed
<1>4. CloserKnows'
  BY <1>0, <1>1, <1>3 DEF CloserKnows
<1>. QED  BY <1>1, <1>2, <1>4

(* Steps that change the idle mark or the manager alone.                   *)
LEMMA QuietKeeps ==
  ASSUME HarnessInv, UNCHANGED runtimeVars, idle' \subseteq Runtimes,
         UNCHANGED <<registry, starting, dirs, destroyer, destroyed, stuck,
                     reply, rest, seen>>,
         \/ manager' = manager
         \/ manager = "reaping" /\ manager' = "closed" /\ rest[Closer] = {}
  PROVE  HarnessInv'
<1>. USE DEF HarnessInv, HarnessTypeOK
<1>1. RuntimeInv'
  BY RuntimeStutters
<1>2. \A j \in Runtimes : OneLife(j)'
  BY UntouchedLives DEF runtimeVars
<1>3. CapHolds'
  BY CapKept DEF Allocating, runtimeVars
<1>. QED  BY <1>1, <1>2, <1>3 DEF CloserKnows

LEMMA HarnessStepKeeps ==
  ASSUME HarnessInv, HarnessNext
  PROVE  HarnessInv'
<1>1. ASSUME NEW i \in Runtimes, Allocate(i)  PROVE HarnessInv'
  BY <1>1, AllocateKeeps
<1>2. ASSUME NEW i \in Runtimes, AllocateThrows(i)  PROVE HarnessInv'
  BY <1>2, AllocateThrowsKeeps
<1>3. ASSUME NEW i \in Runtimes, HarnessStep(i)  PROVE HarnessInv'
  BY <1>3, RegisterKeeps, AllocationFailsKeeps, AbandonedKeeps,
     TornDownKeeps DEF HarnessStep
<1>4. ASSUME NEW i \in Runtimes, Delete(i)  PROVE HarnessInv'
  BY <1>4, DeleteKeeps
<1>5. ASSUME NEW i \in Runtimes, Touch(i) \/ BecomesIdle(i)
      PROVE  HarnessInv'
  BY <1>5, QuietKeeps DEF Touch, BecomesIdle, Due, HarnessInv, HarnessTypeOK
<1>6. ASSUME NEW p \in Passes, Reap(p)  PROVE HarnessInv'
  BY <1>6, PassKeeps DEF Reap, Due, Reapers, HarnessInv, HarnessTypeOK
<1>7. ASSUME NEW p \in Reapers, NextOfPass(p)  PROVE HarnessInv'
  <2>1. rest[p] \in SUBSET Runtimes
    BY DEF HarnessInv, HarnessTypeOK
  <2>. QED  BY <1>7, <2>1, PassKeeps DEF NextOfPass
<1>8. CASE CloseManager
  BY <1>8, CloseManagerKeeps
<1>9. CASE ManagerClosed
  BY <1>9, QuietKeeps DEF ManagerClosed, Running, HarnessInv, HarnessTypeOK
<1>. QED
  BY <1>1, <1>2, <1>3, <1>4, <1>5, <1>6, <1>7, <1>8, <1>9 DEF HarnessNext

(* What the stages mean for ports, log stores, directories and teardowns.  *)
LEMMA StagesSuffice ==
  ASSUME HarnessInv
  PROVE  NothingLeaks /\ DestroyedOnce /\ CloseReapsWhatItSaw
<1>1. NothingLeaks
  <2>. SUFFICES ASSUME NEW i \in Runtimes,
                       i \notin Allocating \cup registry \cup TearingDown
                PROVE  /\ server[i] \in {"idle", "released"}
                       /\ i \notin sinks
                       /\ i \in dirs \/ files[i] # NoFile => i \in stuck
    BY DEF NothingLeaks
  <2>1. Unborn(i) \/ GivenUp(i) \/ Gone(i)
    BY DEF HarnessInv, OneLife, Allocating, TearingDown, Starting,
           HalfStarted, Unborn, Listed, GivenUp, Gone
  <2>. QED
    BY <2>1 DEF HarnessInv, RuntimeInv, PortsFollowRuntimes,
                ConsoleFollowsRuntimes, Unborn, GivenUp, Gone,
                LeavesNothing
<1>2. DestroyedOnce
  BY DEF DestroyedOnce, HarnessInv, OneLife, Unborn, Starting, HalfStarted,
         GivenUp, Listed, TornDownNow, Gone
<1>3. CloseReapsWhatItSaw
  BY DEF CloseReapsWhatItSaw, HarnessInv, CloserKnows
<1>. QED  BY <1>1, <1>2, <1>3

-----------------------------------------------------------------------------
(* The three programs.  A process runs one of them, and leaves the         *)
(* variables of the others as they started.                                *)
ProgramInv ==
  /\ entry \in {"app", "desktop", "harness"}
  /\ RuntimeInv /\ HostTypeOK /\ DesktopTypeOK /\ HarnessTypeOK
  /\ HandoffFollowsRun /\ FreshHandoff
  /\ entry # "app" => host = "off"
  /\ entry = "app" => RunsCloseRejected
  /\ entry = "desktop" => SidecarInv
  /\ entry = "harness" => HarnessInv

LEMMA ProgramStarts == Init => ProgramInv
<1>. SUFFICES ASSUME Init  PROVE ProgramInv
  OBVIOUS
<1>. USE RuntimesAssumption, HostAssumption, HarnessAssumption
     DEF Init, RuntimeInit, HostInit, DesktopInit, HarnessInit
<1>1. RuntimeInv
  BY DEF RuntimeInv, RuntimeTypeOK, ConsoleFollowsRuntimes,
         PortsFollowRuntimes, NoFile
<1>2. HostTypeOK /\ HandoffFollowsRun /\ FreshHandoff /\ RunsCloseRejected
  BY DEF HostTypeOK, HandoffFollowsRun, FreshHandoff, RunsCloseRejected,
         NoRun
<1>3. DesktopTypeOK /\ SidecarInv
  BY SidecarAssumption
     DEF SidecarInv, DesktopTypeOK, ExitsWithItsRuntime, Running0
<1>4. HarnessInv
  <2>1. HarnessTypeOK /\ CloserKnows
    BY DEF HarnessTypeOK, CloserKnows
  <2>2. \A i \in Runtimes : OneLife(i)
    BY DEF OneLife, Unborn, LeavesNothing, Storages
  <2>3. Allocating = {}
    BY DEF Allocating
  <2>4. CapHolds
    BY <2>3, FS_EmptySet DEF CapHolds
  <2>. QED  BY <1>1, <2>1, <2>2, <2>4 DEF HarnessInv
<1>. QED  BY <1>1, <1>2, <1>3, <1>4 DEF ProgramInv, HarnessInv

LEMMA ProgramKeeps ==
  ASSUME ProgramInv, [Next]_vars
  PROVE  ProgramInv'
<1>. USE DEF ProgramInv
<1>1. CASE AppStep
  <2>1. RunInv' /\ AppInv'
    BY <1>1, AppStepKeeps DEF AppStep, RunInv, AppInv
  <2>2. DesktopTypeOK' /\ HarnessTypeOK'
    BY <1>1 DEF AppStep, DesktopTypeOK, desktopVars, HarnessTypeOK,
                harnessVars
  <2>. QED  BY <1>1, <2>1, <2>2 DEF AppStep, RunInv, AppInv
<1>2. ASSUME entry # "app", UNCHANGED <<entry, hostVars>>
      PROVE  /\ HostTypeOK' /\ HandoffFollowsRun' /\ FreshHandoff'
             /\ host' = "off" /\ entry' = entry
  BY <1>2 DEF hostVars, HostTypeOK, HandoffFollowsRun, FreshHandoff
<1>3. CASE DesktopStep
  <2>1. RuntimeInv' /\ SidecarInv'
    BY <1>3, SidecarStepKeeps DEF DesktopStep
  <2>2. HarnessTypeOK'
    BY <1>3 DEF DesktopStep, HarnessTypeOK, harnessVars
  <2>. QED  BY <1>2, <1>3, <2>1, <2>2 DEF DesktopStep, SidecarInv
<1>4. CASE HarnessEntryStep
  <2>1. HarnessInv'
    BY <1>4, HarnessStepKeeps DEF HarnessEntryStep
  <2>2. DesktopTypeOK'
    BY <1>4 DEF HarnessEntryStep, DesktopTypeOK, desktopVars
  <2>. QED  BY <1>2, <1>4, <2>1, <2>2 DEF HarnessEntryStep, HarnessInv
<1>5. CASE UNCHANGED vars
  <2>1. RuntimeInv'
    BY <1>5, RuntimeStutters DEF vars
  <2>2. HostTypeOK' /\ HandoffFollowsRun' /\ FreshHandoff'
         /\ (RunsCloseRejected => RunsCloseRejected')
    BY <1>5 DEF vars, hostVars, runtimeVars, HostTypeOK, HandoffFollowsRun,
                FreshHandoff, RunsCloseRejected
  <2>3. DesktopTypeOK' /\ (SidecarInv => SidecarInv')
    BY <1>5 DEF vars, desktopVars, runtimeVars, SidecarInv, DesktopTypeOK,
                ExitsWithItsRuntime, Born
  <2>4. HarnessTypeOK'
    BY <1>5 DEF vars, harnessVars, HarnessTypeOK
  <2>5. HarnessInv => HarnessInv'
    BY <1>5, QuietKeeps DEF vars, harnessVars, HarnessInv, HarnessTypeOK
  <2>. QED  BY <1>5, <2>1, <2>2, <2>3, <2>4, <2>5 DEF vars, hostVars
<1>. QED  BY <1>1, <1>3, <1>4, <1>5 DEF Next

LEMMA ProgramInvariant == Spec => []ProgramInv
BY ProgramStarts, ProgramKeeps, PTL DEF Spec

(* Whatever program runs: the console is wrapped once while a runtime      *)
(* lives and ports follow runtimes; the sidecar closes its runtime exactly *)
(* when it is on its way out; and in the harness the cap holds across the  *)
(* await of an allocation, an instance is torn down once, nothing leaks    *)
(* but what the file system refuses to make whole or to remove, and        *)
(* close() tears down all it found.                                        *)
THEOREM WorkletsInvariant == Spec => []Inv
<1>1. ProgramInv => Inv
  BY StagesSuffice DEF ProgramInv, Inv, HarnessInv, SidecarInv
<1>. QED  BY <1>1, ProgramInvariant, PTL

(* The host of a phone holds the handoff of the current run or none,       *)
(* whatever earlier runs left behind, and its trusted view shows that      *)
(* run's pages or no origin's.                                             *)
THEOREM HandoffIsFresh == Spec => []FreshHandoff
<1>1. ProgramInv => FreshHandoff
  BY DEF ProgramInv
<1>. QED  BY <1>1, ProgramInvariant, PTL

(* A handoff is written for a runtime that listens, though nothing in      *)
(* start() looks whether close() came meanwhile: no program that lets its  *)
(* runtimes write one closes them before start() has settled.              *)
THEOREM HandoffsOfListeners == Spec => HandoffsAreServed
<1>. DEFINE Served == \A i \in Runtimes, d \in Storages :
                        files'[d] = i /\ files[d] # i => server'[i] = "bound"
<1>1. ASSUME NEW i \in Runtimes, NEW d \in Storages, NEW b \in BOOLEAN,
             RuntimeInv, Bound(i, d, b), b => ~closed[i]
      PROVE  Served
  <2>1. CASE b
    <3>1. server[i] = "listening"
      BY <1>1, <2>1 DEF Bound, RuntimeInv, PortsFollowRuntimes
    <3>2. files' = [files EXCEPT ![d] = i] /\ server'[i] = "bound"
      BY <1>1, <2>1, <3>1 DEF Bound, RuntimeInv, RuntimeTypeOK
    <3>. QED  BY <3>2 DEF RuntimeInv, RuntimeTypeOK
  <2>2. CASE ~b
    BY <1>1, <2>2 DEF Bound
  <2>. QED  BY <2>1, <2>2
<1>2. ASSUME NEW d \in Storages, RuntimeInv,
             files' \in {files, [files EXCEPT ![d] = NoFile]}
      PROVE  Served
  BY <1>2, RuntimesAssumption DEF RuntimeInv, RuntimeTypeOK, NoFile
<1>3. ProgramInv /\ [Next]_vars => Served
  <2>. SUFFICES ASSUME ProgramInv, [Next]_vars  PROVE Served
    OBVIOUS
  <2>0. RuntimeInv
    BY DEF ProgramInv
  <2>1. CASE AppStep
    <3>1. CASE WorkletUp
      <4>1. run \in Runtimes /\ ~closed[run]
        BY <2>1, <3>1 DEF WorkletUp, Bound, AppStep, ProgramInv, HostTypeOK,
                          RunsCloseRejected
      <4>. QED  BY <1>1, <2>0, <3>1, <4>1 DEF WorkletUp, Storages
    <3>2. CASE ~WorkletUp
      <4>1. files' \in {files, [files EXCEPT ![AppStorage] = NoFile]}
        BY <2>1, <3>2
           DEF AppStep, AppNext, Boot, WithoutStale, WorkletStarts,
               CreateAndStart, WorkletFails, StartFails, PollReads,
               PollDeletes, Navigate, GoBack, Stop, AllDie, runtimeVars
      <4>. QED  BY <1>2, <2>0, <4>1 DEF Storages
    <3>. QED  BY <3>1, <3>2
  <2>2. CASE DesktopStep
    <3>1. CASE HandsOff
      BY <1>1, <2>0, <3>1, SidecarAssumption
         DEF HandsOff, WritesFile, Storages
    <3>2. CASE ~HandsOff
      <4>1. files' \in {files, [files EXCEPT ![AppStorage] = NoFile]}
        BY <2>2, <3>2
           DEF DesktopStep, DesktopNext, LaunchRefused, Throws, Launch,
               CreateAndStart, StartRejects, StartFails, PipeEnds, Shutdown,
               Close, ParentDies, StdinEnds, ServerCallsBack, TimerFires,
               AllDie, runtimeVars
      <4>. QED  BY <1>2, <2>0, <4>1 DEF Storages
    <3>. QED  BY <3>1, <3>2
  <2>3. CASE HarnessEntryStep
    <3>0. HarnessInv
      BY <2>3 DEF HarnessEntryStep, ProgramInv
    <3>1. ASSUME NEW i \in Runtimes, Register(i)  PROVE Served
      <4>1. ~closed[i]
        BY <3>0, <3>1 DEF Register, Bound, HarnessInv, OneLife, Unborn,
                          Starting, HalfStarted, GivenUp, Listed,
                          TornDownNow, Gone
      <4>. QED  BY <1>1, <2>0, <3>1, <4>1 DEF Register, Storages
    <3>2. ASSUME NEW i \in Runtimes,
                 files' \in {files, [files EXCEPT ![i] = NoFile]}
          PROVE  Served
      BY <1>2, <2>0, <3>2 DEF Storages
    <3>3. ASSUME NEW p, NEW q, GoOn(p, q)  PROVE files' = files
      BY <3>3 DEF GoOn, Destroy, Close, runtimeVars
    <3>4. CASE files' = files
      BY <1>2, <2>0, <3>4 DEF Storages
    <3>5. ASSUME NEW i \in Runtimes,
                 \/ Allocate(i) \/ AllocateThrows(i) \/ AllocationFails(i)
                 \/ Abandoned(i) \/ TornDown(i) \/ Delete(i)
                 \/ Touch(i) \/ BecomesIdle(i)
          PROVE  Served
      BY <3>2, <3>5
         DEF Allocate, CreateAndStart, AllocateThrows, AllocationFails,
             StartFails, Abandoned, TornDown, RemoveDir, Delete, Destroy,
             Close, Touch, BecomesIdle, runtimeVars
    <3>. QED
      BY <2>3, <3>1, <3>3, <3>4, <3>5
         DEF HarnessEntryStep, HarnessNext, HarnessStep, Reap, NextOfPass,
             CloseManager, ManagerClosed, runtimeVars
  <2>4. CASE UNCHANGED vars
    BY <1>2, <2>0, <2>4 DEF vars, runtimeVars, Storages
  <2>. QED  BY <2>1, <2>2, <2>3, <2>4 DEF Next
<1>4. ProgramInv /\ [Next]_vars => [Served]_vars
  BY <1>3
<1>. QED
  BY <1>4, ProgramInvariant, PTL DEF Spec, HandoffsAreServed
=============================================================================
