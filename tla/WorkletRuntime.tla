--------------------------- MODULE WorkletRuntime ---------------------------
(***************************************************************************)
(* createWorkletRuntime of core/runtime.ts: the life of the runtimes of    *)
(* one process, the console capture they share, and the handoff file that  *)
(* tells a host where a runtime listens.  The server behind a runtime is   *)
(* seen only as a port: being bound, held, drained and released.           *)
(*                                                                         *)
(* The entry points (the harness, the device worklet, the desktop sidecar) *)
(* are modules of their own, which call the operations here.               *)
(***************************************************************************)
EXTENDS Naturals, FiniteSets

CONSTANTS
  Runtimes  \* the runtimes created, in the order of their numbers

ASSUME RuntimesAssumption ==
  Runtimes \subseteq Nat \ {0} /\ IsFiniteSet(Runtimes)

VARIABLES
  life,      \* life[i]: what became of createWorkletRuntime() and start()
  closed,    \* closed[i]: close() was called
  server,    \* server[i]: the HTTP server and its port
  sinks,     \* consoleSinks: the runtimes whose log store is fed
  wrappers,  \* how many capture wrappers stand around the console methods
  files      \* files[d]: the handoff.json in storage directory d, by its run

runtimeVars == <<life, closed, server, sinks, wrappers, files>>

(* Harness instances have a storage directory each, named like the         *)
(* instance; the runs of an app all use the same one.                      *)
AppStorage == 0
Storages == Runtimes \cup {AppStorage}

NoFile == 0

RuntimeTypeOK ==
  /\ life \in [Runtimes -> {"absent", "starting", "started", "rejected"}]
  /\ closed \in [Runtimes -> BOOLEAN]
  /\ server \in [Runtimes -> {"idle", "listening", "bound", "closing",
                              "released"}]
  /\ sinks \subseteq Runtimes
  /\ wrappers \in Nat
  /\ files \in [Storages -> Runtimes \cup {NoFile}]

RuntimeInit ==
  /\ life = [i \in Runtimes |-> "absent"]
  /\ closed = [i \in Runtimes |-> FALSE]
  /\ server = [i \in Runtimes |-> "idle"]
  /\ sinks = {} /\ wrappers = 0
  /\ files = [d \in Storages |-> NoFile]

-----------------------------------------------------------------------------
(* The shared console capture.                                             *)

(* sharedConsoleCapture is null.                                           *)
Installs == wrappers = 0

Attach(i) ==
  /\ sinks' = sinks \cup {i}
  /\ wrappers' = IF Installs THEN wrappers + 1 ELSE wrappers

(* The last sink to go restores the console.                               *)
Detach(i) ==
  /\ sinks' = sinks \ {i}
  /\ wrappers' = IF i \in sinks /\ sinks' = {} /\ wrappers > 0
                   THEN wrappers - 1 ELSE wrappers

-----------------------------------------------------------------------------
(* close(): the console lets go of the runtime and the server stops        *)
(* accepting.  A second close() calls back at once.                        *)
Shut(i) ==
  /\ closed' = [closed EXCEPT ![i] = TRUE]
  /\ server' = IF closed[i] THEN server
               ELSE [server EXCEPT ![i] = "closing"]
  /\ Detach(i)

Close(i) ==
  /\ Shut(i)
  /\ UNCHANGED <<life, files>>

(* createWorkletRuntime() followed by start(): the stale handoff of        *)
(* storage d is removed, unless that fails, which nobody is told, and the  *)
(* server starts to listen.  The console is patched last, once nothing in  *)
(* the factory can throw any more.                                         *)
CreateAndStart(i, d) ==
  /\ life[i] = "absent"
  /\ life' = [life EXCEPT ![i] = "starting"]
  /\ server' = [server EXCEPT ![i] = "listening"]
  /\ files' \in {files, [files EXCEPT ![d] = NoFile]}
  /\ Attach(i)
  /\ UNCHANGED closed

(* The server is bound: start() resolves, and a host that reads the file   *)
(* finds the handoff there.  Nothing looks whether close() came meanwhile. *)
Bound(i, d, writesFile) ==
  /\ life[i] = "starting" /\ server[i] \in {"listening", "closing"}
  /\ life' = [life EXCEPT ![i] = "started"]
  /\ server' = [server EXCEPT ![i] = IF @ = "listening" THEN "bound" ELSE @]
  /\ files' = IF writesFile THEN [files EXCEPT ![d] = i] ELSE files
  /\ UNCHANGED <<closed, sinks, wrappers>>

(* start() rejects: the port is taken, or the handoff cannot be written,   *)
(* which is worse than no server, since the host would wait for nothing.   *)
(* Every entry point then closes the runtime, unless it already did.       *)
StartFails(i) ==
  /\ life[i] = "starting" /\ server[i] \in {"listening", "closing"}
  /\ life' = [life EXCEPT ![i] = "rejected"]
  /\ Shut(i)
  /\ UNCHANGED files

(* The callback of close(): the connections ended and the port is free.    *)
Released(i) ==
  /\ server[i] = "closing"
  /\ server' = [server EXCEPT ![i] = "released"]

(* The process dies: only the files are left.                              *)
AllDie ==
  /\ life' = [i \in Runtimes |->
                IF life[i] = "absent" THEN "absent" ELSE "rejected"]
  /\ closed' = [i \in Runtimes |-> life[i] # "absent"]
  /\ server' = [i \in Runtimes |->
                  IF life[i] = "absent" THEN "idle" ELSE "released"]
  /\ sinks' = {} /\ wrappers' = 0
  /\ UNCHANGED files

-----------------------------------------------------------------------------
(* Invariants of the runtimes, whatever entry point drives them.           *)

(* The console is wrapped once while a runtime lives and not at all        *)
(* afterwards, and exactly the live runtimes' stores are fed.              *)
ConsoleFollowsRuntimes ==
  /\ sinks = {i \in Runtimes : life[i] # "absent" /\ ~closed[i]}
  /\ wrappers = IF sinks = {} THEN 0 ELSE 1

(* A port is held only by a runtime that was started, and a closed one is  *)
(* on its way to releasing it.                                             *)
PortsFollowRuntimes ==
  \A i \in Runtimes :
    /\ life[i] = "absent" <=> server[i] = "idle"
    /\ closed[i] <=> server[i] \in {"closing", "released"}

RuntimeInv ==
  RuntimeTypeOK /\ ConsoleFollowsRuntimes /\ PortsFollowRuntimes
=============================================================================
