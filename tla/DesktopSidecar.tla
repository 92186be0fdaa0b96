--------------------------- MODULE DesktopSidecar ---------------------------
(***************************************************************************)
(* core/desktop.core.ts: the backend the desktop host spawns.  The handoff *)
(* goes over an inherited pipe, never to a file, and the end of stdin is   *)
(* taken to mean that the host is gone.  Shutting down is bounded by a     *)
(* timer, so a connection that never ends cannot keep an orphan alive.     *)
(***************************************************************************)
EXTENDS WorkletRuntime

CONSTANT Sidecar  \* its runtime

ASSUME SidecarAssumption == Sidecar \in Runtimes

VARIABLES
  parent,   \* the desktop host: alive or gone
  watched,  \* stdin is a pipe, so its end is noticed
  pipe,     \* the handoff pipe: unused, writing, written or failed
  exit      \* running, or closing or exited with a code

desktopVars == <<parent, watched, pipe, exit>>

Running0 == [is |-> "running", code |-> 0]

DesktopTypeOK ==
  /\ parent \in {"alive", "gone"}
  /\ watched \in BOOLEAN
  /\ pipe \in {"unused", "writing", "written", "failed"}
  /\ exit \in [is : {"running", "closing", "exited"}, code : {0, 1, 2}]

DesktopInit ==
  /\ parent = "alive" /\ watched \in BOOLEAN
  /\ pipe = "unused" /\ exit = Running0

-----------------------------------------------------------------------------
(* A plausible bug, as a mutant of the definition below: shutdown() relies *)
(* on the server's callback alone.                                         *)
NoTimeout == exit.is = "closing" /\ server[Sidecar] = "released"

-----------------------------------------------------------------------------
Alive == exit.is # "exited"

(* A launch without a handoff pipe is refused, and a command line of which *)
(* no runtime can be made throws; as a pipe does that cannot be opened     *)
(* once the server is bound.  Nobody catches either: the process dies.     *)
LaunchRefused ==
  /\ Alive /\ life[Sidecar] = "absent"
  /\ exit' = [is |-> "exited", code |-> 2]
  /\ UNCHANGED runtimeVars
  /\ UNCHANGED <<parent, watched, pipe>>

Throws ==
  /\ Alive /\ life[Sidecar] \in {"absent", "starting"}
  /\ exit' = [is |-> "exited", code |-> 1]
  /\ AllDie
  /\ UNCHANGED <<parent, watched, pipe>>

Launch ==
  /\ Alive
  /\ CreateAndStart(Sidecar, AppStorage)
  /\ UNCHANGED desktopVars

(* handoffFile: false.                                                     *)
WritesFile == FALSE

(* start() resolved: the handoff goes out, also while shutting down.       *)
HandsOff ==
  /\ Alive
  /\ Bound(Sidecar, AppStorage, WritesFile)
  /\ pipe' = "writing"
  /\ UNCHANGED <<parent, watched, exit>>

(* shutdown(): only the first reason counts.                               *)
ExitWith(code) ==
  exit' = IF exit.is = "running" THEN [is |-> "closing", code |-> code]
                                 ELSE exit

Shutdown(code) ==
  /\ ExitWith(code)
  /\ IF exit.is = "running" THEN Close(Sidecar) ELSE UNCHANGED runtimeVars

StartRejects ==
  /\ Alive
  /\ StartFails(Sidecar)
  /\ ExitWith(1)
  /\ UNCHANGED <<parent, watched, pipe>>

PipeEnds(ok) ==
  /\ Alive /\ pipe = "writing"
  /\ IF ok THEN pipe' = "written" /\ UNCHANGED exit /\ UNCHANGED runtimeVars
           ELSE pipe' = "failed" /\ Shutdown(1)
  /\ UNCHANGED <<parent, watched>>

ParentDies ==
  /\ parent = "alive" /\ parent' = "gone"
  /\ UNCHANGED runtimeVars
  /\ UNCHANGED <<watched, pipe, exit>>

(* stdin ends or breaks: with its host, or although the host lives.        *)
StdinEnds ==
  /\ Alive /\ life[Sidecar] # "absent"
  /\ watched /\ exit.is = "running"
  /\ Shutdown(0)
  /\ UNCHANGED <<parent, watched, pipe>>

(* The server's callback, if its connections ever end, ...                 *)
ServerCallsBack ==
  /\ Alive /\ exit.is = "closing" /\ server[Sidecar] = "closing"
  /\ exit' = [exit EXCEPT !.is = "exited"]
  /\ AllDie
  /\ UNCHANGED <<parent, watched, pipe>>

(* ... or the timer, closeTimeoutMs later, ends the process.               *)
TimerRuns == exit.is = "closing"

TimerFires ==
  /\ TimerRuns
  /\ exit' = [exit EXCEPT !.is = "exited"]
  /\ AllDie
  /\ UNCHANGED <<parent, watched, pipe>>

DesktopNext ==
  \/ LaunchRefused
  \/ Throws
  \/ Launch
  \/ HandsOff
  \/ StartRejects
  \/ \E ok \in BOOLEAN : PipeEnds(ok)
  \/ ParentDies
  \/ StdinEnds
  \/ ServerCallsBack
  \/ TimerFires

-----------------------------------------------------------------------------
(* The process is on its way out exactly when its runtime is closed, for   *)
(* whatever reason and at whatever stage of start() that began: it neither *)
(* leaves a server behind it that still accepts, nor lives on without one. *)
ExitsWithItsRuntime ==
  life[Sidecar] # "absent" => (closed[Sidecar] <=> exit.is # "running")

(* The sidecar exits once its host is gone, once it could not start, and   *)
(* once the handoff failed, whatever its connections do.                   *)
SidecarExits ==
  (\/ parent = "gone" /\ watched /\ life[Sidecar] # "absent"
   \/ life[Sidecar] = "rejected"
   \/ pipe = "failed") ~> exit.is = "exited"
=============================================================================
