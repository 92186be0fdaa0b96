------------------------------ MODULE Worklets ------------------------------
(***************************************************************************)
(* The three programs built on the worklet runtime: the phone's worklet    *)
(* with its host, the desktop sidecar, and the test harness.  A process is *)
(* one of them from its start.                                             *)
(***************************************************************************)
EXTENDS AppHost, DesktopSidecar, HarnessSupervisor

VARIABLE entry  \* which program the process runs

vars == <<entry, runtimeVars, hostVars, desktopVars, harnessVars>>

(* What the steps of each program change.                                  *)
app == <<runtimeVars, hostVars>>
desktop == <<runtimeVars, desktopVars>>
harness == <<runtimeVars, harnessVars>>

Init ==
  /\ entry \in {"app", "desktop", "harness"}
  /\ RuntimeInit
  /\ HostInit
  /\ DesktopInit
  /\ HarnessInit
  /\ entry # "app" => platform = CHOOSE p \in Platforms : TRUE
  /\ entry # "desktop" => watched = FALSE

AppStep ==
  entry = "app" /\ AppNext /\ UNCHANGED <<entry, desktopVars, harnessVars>>

DesktopStep ==
  entry = "desktop" /\ DesktopNext /\ UNCHANGED <<entry, hostVars, harnessVars>>

HarnessEntryStep ==
  entry = "harness" /\ HarnessNext /\ UNCHANGED <<entry, hostVars, desktopVars>>

Next == AppStep \/ DesktopStep \/ HarnessEntryStep

Spec == Init /\ [][Next]_vars

(* The phone: the worklet's thread runs, its port is bound or refused, and *)
(* the host keeps polling.                                                 *)
AppFairness ==
  /\ WF_app(entry = "app" /\ WorkletStarts)
  /\ WF_app(entry = "app" /\ (WorkletUp \/ WorkletFails))
  /\ WF_app(entry = "app" /\ (PollReads \/ PollDeletes))

(* The sidecar: the port is bound or refused, the end of stdin is noticed  *)
(* once the host that holds it is gone, and the timer fires.               *)
DesktopFairness ==
  /\ WF_desktop(entry = "desktop" /\ (HandsOff \/ StartRejects))
  /\ WF_desktop(entry = "desktop" /\ parent = "gone" /\ StdinEnds)
  /\ WF_desktop(entry = "desktop" /\ TimerFires)

(* The harness: ports are bound or refused, the loops of the passes go on, *)
(* and the interval fires until it is cleared.  Of the connections nothing *)
(* is assumed, here as for the sidecar: they may keep a server for ever.   *)
HarnessFairness ==
  /\ \A i \in Runtimes :
       WF_harness(entry = "harness" /\ (Register(i) \/ AllocationFails(i)))
  /\ \A p \in Reapers : WF_harness(entry = "harness" /\ NextOfPass(p))
  /\ \A p \in Passes :
       WF_harness(entry = "harness" /\ manager = "open" /\ Reap(p))
  /\ WF_harness(entry = "harness" /\ ManagerClosed)

FairSpec == Spec /\ AppFairness /\ DesktopFairness /\ HarnessFairness

-----------------------------------------------------------------------------
(* A handoff that appears is one of a runtime that listens.  start() does  *)
(* not look whether close() came while it waited for the port, so this is  *)
(* up to the programs: one that may close a runtime which is starting lets *)
(* it write none, and the others close it once start() has settled.        *)
HandoffsAreServed ==
  [][\A i \in Runtimes, d \in Storages :
        files'[d] = i /\ files[d] # i => server'[i] = "bound"]_vars

Inv ==
  /\ RuntimeInv /\ HostTypeOK /\ DesktopTypeOK /\ HarnessTypeOK
  /\ entry = "desktop" => ExitsWithItsRuntime
  /\ entry = "harness" =>
       CapHolds /\ NothingLeaks /\ DestroyedOnce /\ CloseReapsWhatItSaw

(* Whatever program runs: management requests are answered, idle instances *)
(* reaped, an orphaned sidecar exits and a polling host is handed off to.  *)
Settles ==
  /\ entry = "harness" => ManagementAnswers /\ IdleIsReaped
  /\ entry = "desktop" => SidecarExits
  /\ entry = "app" => HandoffArrives
=============================================================================
