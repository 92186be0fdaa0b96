-------------------------- MODULE HarnessSupervisor --------------------------
(***************************************************************************)
(* createHarnessSupervisor of core/harness/supervisor.ts with the registry *)
(* of registry.ts: one process that hosts many runtimes, allocates them    *)
(* over a management server, and tears the idle ones down.                 *)
(*                                                                         *)
(* Allocation and teardown both wait (for a port, for connections to end), *)
(* so POSTs, DELETEs, reap passes and close() overlap freely.  A reap pass *)
(* is one call of reapDue(): by the interval, by reapNow(), or by close(). *)
(* A clock is not needed: an instance is idle or has been touched.  In     *)
(* which order a pass takes the instances it has listed is left open.      *)
(***************************************************************************)
EXTENDS WorkletRuntime

CONSTANTS
  Passes,        \* the reap passes that may run at once
  MaxInstances   \* options.maxInstances

ASSUME HarnessAssumption ==
  /\ MaxInstances \in Nat \ {0}
  /\ Passes \cap {"none", "DELETE", "close"} = {}

VARIABLES
  registry,   \* the instances Map
  starting,   \* allocations past the cap check, not registered yet
  dirs,       \* the instance directories on disk
  idle,       \* instances idle for idleTimeoutMs
  destroyer,  \* destroyer[i]: who waits for the teardown of i
  destroyed,  \* history: how often destroy() of i ran
  stuck,      \* history: the instances whose directories could not be made
              \* whole, or not be removed
  reply,      \* reply[i]: the answer to the POST that allocates i
  rest,       \* rest[p]: what pass p has listed and not reached yet
  manager,    \* the management server: open, reaping (close() was called)
              \* or closed
  seen        \* history: what close() found registered

harnessVars == <<registry, starting, dirs, idle, destroyer, destroyed,
                 stuck, reply, rest, manager, seen>>

Closer == "close"
Reapers == Passes \cup {Closer}
NoOne == "none"

HarnessTypeOK ==
  /\ registry \subseteq Runtimes
  /\ starting \in Nat
  /\ dirs \subseteq Runtimes
  /\ idle \subseteq Runtimes
  /\ destroyer \in [Runtimes -> {NoOne, "DELETE"} \cup Reapers]
  /\ destroyed \in [Runtimes -> Nat]
  /\ stuck \subseteq Runtimes
  /\ reply \in [Runtimes -> {"none", "201", "500"}]
  /\ rest \in [Reapers -> SUBSET Runtimes]
  /\ manager \in {"open", "reaping", "closed"}
  /\ seen \subseteq Runtimes

HarnessInit ==
  /\ registry = {} /\ starting = 0
  /\ dirs = {} /\ idle = {}
  /\ destroyer = [i \in Runtimes |-> NoOne]
  /\ destroyed = [i \in Runtimes |-> 0]
  /\ stuck = {}
  /\ reply = [i \in Runtimes |-> "none"]
  /\ rest = [p \in Reapers |-> {}]
  /\ manager = "open" /\ seen = {}

-----------------------------------------------------------------------------
(* Plausible bugs, as mutants of the definitions below: the cap counts     *)
(* registered instances only, and a DELETE finds an instance that is still *)
(* starting.                                                               *)
CapOfRegistered == Cardinality(registry) >= MaxInstances

KnownEarly(i) == i \in registry \/ life[i] = "starting"

-----------------------------------------------------------------------------
(* POST /instances                                                         *)

(* nextInstanceId: instances are numbered in order.                        *)
IsNext(i) ==
  /\ reply[i] = "none" /\ life[i] = "absent"
  /\ \A j \in Runtimes : j < i => reply[j] # "none" \/ life[j] # "absent"

AtCap == Cardinality(registry) + starting >= MaxInstances

(* The instance gets its directories and its runtime is started.           *)
Allocate(i) ==
  /\ manager # "closed"
  /\ IsNext(i) /\ ~AtCap
  /\ starting' = starting + 1
  /\ dirs' = dirs \cup {i}
  /\ CreateAndStart(i, i)
  /\ UNCHANGED <<registry, idle, destroyer, destroyed, stuck, reply, rest,
                 manager, seen>>

(* A mkdir throws, of which nothing is cleaned up if it is not the first,  *)
(* or the factory throws before there is a runtime, and the directories    *)
(* are removed unless that fails too: 500, with or without a directory.    *)
AllocateThrows(i) ==
  /\ manager # "closed"
  /\ IsNext(i) /\ ~AtCap
  /\ reply' = [reply EXCEPT ![i] = "500"]
  /\ \/ UNCHANGED <<dirs, stuck>>
     \/ dirs' = dirs \cup {i} /\ stuck' = stuck \cup {i}
  /\ UNCHANGED runtimeVars
  /\ UNCHANGED <<registry, starting, idle, destroyer, destroyed, rest,
                 manager, seen>>

(* The runtime is up: it is registered, and the caller gets credentials.   *)
Register(i) ==
  /\ Bound(i, i, TRUE)
  /\ registry' = registry \cup {i}
  /\ starting' = starting - 1
  /\ reply' = [reply EXCEPT ![i] = "201"]
  /\ UNCHANGED <<dirs, idle, destroyer, destroyed, stuck, rest, manager,
                 seen>>

(* start() rejected, and the half-started runtime is closed.               *)
AllocationFails(i) ==
  /\ StartFails(i)
  /\ UNCHANGED harnessVars

(* rmSync of the instance's directory; it may fail.                        *)
RemoveDir(i) ==
  \/ /\ dirs' = dirs \ {i}
     /\ files' = [files EXCEPT ![i] = NoFile]
     /\ UNCHANGED stuck
  \/ /\ stuck' = stuck \cup {i}
     /\ UNCHANGED <<dirs, files>>

(* Its port is free: the directory goes, and the caller gets a 500.        *)
Abandoned(i) ==
  /\ life[i] = "rejected" /\ reply[i] = "none"
  /\ Released(i)
  /\ RemoveDir(i)
  /\ starting' = starting - 1
  /\ reply' = [reply EXCEPT ![i] = "500"]
  /\ UNCHANGED <<life, closed, sinks, wrappers>>
  /\ UNCHANGED <<registry, idle, destroyer, destroyed, rest, manager, seen>>

-----------------------------------------------------------------------------
(* destroy(): the instance leaves the registry before anything is awaited, *)
(* so whoever comes second finds nothing to destroy.                       *)

Without(i) == registry \ {i}

Destroy(i, who) ==
  /\ registry' = Without(i)
  /\ destroyer' = [destroyer EXCEPT ![i] = who]
  /\ destroyed' = [destroyed EXCEPT ![i] = @ + 1]
  /\ Close(i)

(* DELETE /instances/:id; an unknown id is a 404.                          *)
Known(i) == i \in registry

Delete(i) ==
  /\ manager # "closed"
  /\ Known(i)
  /\ Destroy(i, "DELETE")
  /\ UNCHANGED <<starting, dirs, idle, stuck, reply, rest, manager, seen>>

-----------------------------------------------------------------------------
(* reapDue(): what is due is listed first and destroyed one by one, each   *)
(* teardown awaited.                                                       *)

Waiting(p) == \E i \in Runtimes : destroyer[i] = p

Running(p) == Waiting(p) \/ rest[p] # {}

(* The pass goes on to an instance of q that is still registered; entries  *)
(* someone else destroyed meanwhile are skipped without waiting.           *)
GoOn(p, q) ==
  LET left == q \cap registry IN
  IF left = {}
    THEN /\ rest' = [rest EXCEPT ![p] = {}]
         /\ UNCHANGED <<registry, destroyer, destroyed>>
         /\ UNCHANGED runtimeVars
    ELSE \E i \in left :
           /\ rest' = [rest EXCEPT ![p] = left \ {i}]
           /\ Destroy(i, p)

Due == registry \cap idle

(* The interval fires, until close() clears it, or reapNow() is called,    *)
(* whether or not earlier passes have ended.                               *)
Reap(p) ==
  /\ ~Running(p) /\ Due # {}
  /\ GoOn(p, Due)
  /\ UNCHANGED <<starting, dirs, idle, stuck, reply, manager, seen>>

(* Traffic keeps an instance from becoming due; a pass that has listed it  *)
(* already does not look again.                                            *)
Touch(i) ==
  /\ i \in Due
  /\ idle' = idle \ {i}
  /\ UNCHANGED runtimeVars
  /\ UNCHANGED <<registry, starting, dirs, destroyer, destroyed, stuck, reply,
                 rest, manager, seen>>

BecomesIdle(i) ==
  /\ i \in registry \ idle
  /\ idle' = idle \cup {i}
  /\ UNCHANGED runtimeVars
  /\ UNCHANGED <<registry, starting, dirs, destroyer, destroyed, stuck, reply,
                 rest, manager, seen>>

(* The teardown of i ends.  If its directory cannot be removed, a DELETE   *)
(* answers 500 and a pass logs it and goes on with the rest.               *)
TornDown(i) ==
  /\ destroyer[i] # NoOne
  /\ Released(i)
  /\ RemoveDir(i)
  /\ destroyer' = [destroyer EXCEPT ![i] = NoOne]
  /\ UNCHANGED <<life, closed, sinks, wrappers>>
  /\ UNCHANGED <<registry, starting, idle, destroyed, reply, rest, manager,
                 seen>>

(* The loop of a pass whose last teardown ended.                           *)
NextOfPass(p) ==
  /\ ~Waiting(p) /\ rest[p] # {}
  /\ GoOn(p, rest[p])
  /\ UNCHANGED <<starting, dirs, idle, stuck, reply, manager, seen>>

-----------------------------------------------------------------------------
(* close(): one last pass over everything registered, then the server.     *)

CloseManager ==
  /\ manager = "open"
  /\ manager' = "reaping"
  /\ seen' = registry
  /\ GoOn(Closer, registry)
  /\ UNCHANGED <<starting, dirs, idle, stuck, reply>>

ManagerClosed ==
  /\ manager = "reaping" /\ ~Running(Closer)
  /\ manager' = "closed"
  /\ UNCHANGED runtimeVars
  /\ UNCHANGED <<registry, starting, dirs, idle, destroyer, destroyed, stuck,
                 reply, rest, seen>>

HarnessStep(i) ==
  \/ Register(i)
  \/ AllocationFails(i)
  \/ Abandoned(i)
  \/ TornDown(i)

HarnessNext ==
  \/ \E i \in Runtimes :
       \/ Allocate(i)
       \/ AllocateThrows(i)
       \/ HarnessStep(i)
       \/ Delete(i)
       \/ Touch(i)
       \/ BecomesIdle(i)
  \/ \E p \in Passes : Reap(p)
  \/ \E p \in Reapers : NextOfPass(p)
  \/ CloseManager
  \/ ManagerClosed

-----------------------------------------------------------------------------
(* Properties.                                                             *)

(* The instances that own a server, a port and a directory legitimately.   *)
Allocating == {i \in Runtimes : life[i] # "absent" /\ reply[i] = "none"}
TearingDown == {i \in Runtimes : destroyer[i] # NoOne}

(* The cap holds across the await in allocate(), counting what is still    *)
(* starting or being cleaned up after a failed start.                      *)
CapHolds ==
  /\ starting = Cardinality(Allocating)
  /\ Cardinality(registry) + starting <= MaxInstances

(* A runtime that is neither allocating, registered nor being torn down    *)
(* holds no port, feeds no log store and left neither directory nor        *)
(* handoff, except where the file system failed: its directories could not *)
(* be removed, or only some could be made, for which the code has no       *)
(* clean-up.                                                               *)
NothingLeaks ==
  \A i \in Runtimes \ (Allocating \cup registry \cup TearingDown) :
    /\ server[i] \in {"idle", "released"}
    /\ i \notin sinks
    /\ i \in dirs \/ files[i] # NoFile => i \in stuck

(* However DELETE, the reap passes and close() overlap, an instance is     *)
(* destroyed once, and never while it is listed.                           *)
DestroyedOnce ==
  \A i \in Runtimes :
    destroyed[i] = IF reply[i] = "201" /\ i \notin registry THEN 1 ELSE 0

(* When close() has finished, everything it found registered is gone.      *)
(* What was still starting then registers later and outlives it.           *)
CloseReapsWhatItSaw == manager = "closed" => registry \cap seen = {}

(* Every POST that got past the cap is answered, and close() comes to its  *)
(* end, unless it is the closing server of that very instance, or of one   *)
(* instance, which keeps them: nothing bounds how long server.close()      *)
(* waits for its connections to end, and they need not.                    *)
ManagementAnswers ==
  /\ \A i \in Runtimes :
       i \in Allocating ~> reply[i] # "none" \/ server[i] = "closing"
  /\ manager = "reaping" ~>
       manager = "closed" \/ \E i \in Runtimes : [](destroyer[i] = Closer)

(* An instance that stays idle is reaped, until close() clears the timer,  *)
(* although passes before may be waiting for ever for other instances.     *)
IdleIsReaped ==
  \A i \in Runtimes :
    (i \in registry \cap idle /\ manager = "open") ~>
      (i \notin registry \cap idle \/ manager # "open")
=============================================================================
