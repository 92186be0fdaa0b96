# Verification of ekrooh

ekrooh runs a JavaScript *worklet* (the Bare runtime) next to a web page and a
native *host* (Android, iOS, desktop).  The page talks to the worklet over a
loopback WebSocket, the worklet talks to the host over an IPC pipe, and a router
in the worklet sends each request to a local adapter or on to the host.  This
directory holds TLA+ models of that machinery, the TLC configurations that check
them, and the proofs that TLAPS checks.  Paths in this file are relative to the
repository root; `PROJECT.json` lists, for every definition that models code,
the lines it stands for.

Contents: [how to run](#how-to-run) · [the system](#the-system) ·
[modules](#modules) · [abstract specifications](#the-abstract-specifications) ·
[runs](#what-each-run-checks) · [fairness](#fairness) ·
[findings](#findings) · [proofs](#what-is-proved) ·
[limits](#modelling-assumptions-and-what-is-left-out) · [plan](#plan)

## How to run

    tlasany M.tla                                   # parse
    tlc -workers 2 -config MCWebTransport.cfg MCWebTransport
    tlapm HostPipeProofs.tla                        # check proofs

The MC modules only add the values TLC needs (symmetry sets, small functions);
every property lives in the module of the component it is about.  The "plausible
bugs" near the top of a module are operators no specification uses: each one is a
mistaken version of a definition below it, and putting it in that definition's
place must make the run of the property named in `PROJECT.json` fail.

## The system

```
 page                         worklet (Bare)                       native host
+--------------------+   +-----------------------------+   +---------------------+
| RPC messenger      |   | static file server          |   | HostIpcCoordinator  |
|   | send/subscribe |   |   loopback gate  /login     |   |  deadlines, queue   |
| WebSocket transport|<->|   protocol socket slot      |   |   ^                 |
|   connection       | ws|     bounded writer          |   |   | handlers        |
|   machine          |   |     frame channel [ws]      |   |                     |
+--------------------+   |            |                |   |                     |
                         |       plugin router         |   |                     |
                         |        |        |           |   |                     |
                         |   local      host bridge <--+---+--> IPC pipe         |
                         |   adapters   frame channel [ipc]|                     |
                         +-----------------------------+   +---------------------+
```

| Part (source) | State it keeps | Operations | Hard behaviour | Correct when |
|---|---|---|---|---|
| Connection lifecycle (`src/web/connection-machine.ts`) | state, retries, everConnected, boot window, replaced | login ok/fail, socket open/close/replaced, open timeout, retry and stable timers, wake, stop | sequences of closes, wakes and replacements | a client that connected once never gives up; one that never did gives up after its cap and boot window |
| WebSocket transport (`src/web/websocket-client.ts`) | current socket, queue, in-flight invokes, login progress | send, socket callbacks, foreground check, log-tail fetch, close | late events of dropped sockets, silently dead sockets, login racing a sibling document, a queue at its limit | one socket at a time, in step with the machine; requests in order; each answered at most once; none held for ever but by a log tail without a body |
| RPC messenger (`src/core/messages/rpc-messenger.ts`) | pending map, timers, shared log-tail fetch | invoke, handleIncoming, timeout | eviction of the oldest call, throwing send, response after timeout | every call settles exactly once, or waits for a log tail without a body |
| Host bridge (`src/core/messages/host-ipc.ts`) | tracked slots, timers, closed | invokeOnHost, queryCapabilities, consumeDownstream, timeout, close | the same, plus writes that throw and close with calls under way | no caller is stranded, none outlives close |
| Plugin router (`src/core/messages/plugin-kernel.ts`) | three in-flight counters, serial tails, capability snapshot and query | route, adapters, delegation, snapshot refresh | counters on every exit path, serial chaining, a query answered after a disownment | slots balance; no channel starves; serial order; a disowned plugin is not trusted; every call is answered |
| Frame channel (`src/core/messages/frame-channel.ts`, `framing.ts`, `channel-health.ts`) and inbound gate (`backpressure.ts`) | decoder buffer, failure run, pending work, paused | push, close, route | violations after whole frames, work that ends after the stream stopped, pausing the pipe one waits on | each request is answered once and settles; the stream is read again; host responses stay readable |
| Bounded writer (`backpressure.ts`) | queue, bytes, blocked, dead | write, drain, clear | a drain cut short, responses piling up behind a stalled reader | memory bounded, order kept, only pushes shed |
| Protocol socket slot (`src/core/server/protocol-socket.ts`) | owner, its age, held upgrade and its timer | upgrade, handshake, close event, hold timer, close | overlapping handshakes, late close events, a timer that finds another owner, two documents that both want the session | one live socket, one held upgrade, bounded churn, a held upgrade is served, a replaced document waits |
| Loopback gate (`src/core/server/loopback-gate.ts`) | nonce, its lifetime, the suspend clock | bind, credentials, admitRequest, login, pause/resume | several logins in flight, repeated suspends, a login that is no page load | one redemption, in time; a loser is told to retry |
| Static file server (`src/core/server/static-file-server.ts`) | mounts, root cache, the response of each connection | request, range, stream, consumer route, mount, login, upgrade, close | login bodies that arrive late, roots that move, a handler that fails after it answered, a client that leaves mid-stream | gated files only with a session, descriptors closed, an answer stands |
| Media plugin (`src/plugins/media/`) | the mounted picks, in order | serve | a mount evicted while it streams | what the plugin believes mounted is what is served |
| Logs (`src/core/logs/*`) | ring of lines, page's buffer | append, view, clear, capture, POST /logs | wrapping, clearing at any fill, batches lost | the ring is the tail of what was logged; no line twice |
| Wire codec (`wire-codec.ts`, `frame-content.ts`, `encode-response.ts`) | none | encode, decode, fallback | limits in bytes of strings counted in units, answers that cannot be encoded | a peer reads what was encoded; every answer can be matched to its request |
| Worklet runtime (`src/core/runtime.ts`, `main.core.ts`) | life, server, console sinks, handoff file | create, start, close | close during start, failures at two points, a handoff left by a crash | no program leaves a handoff to a port nobody listens on; sinks and wrappers are balanced |
| Harness supervisor (`src/core/harness/supervisor.ts`, `registry.ts`) | instances, `starting` counter, reaper | POST, DELETE, touch, reap, close | allocations, deletions, reap passes and close overlap across awaits, some of which never end | the cap holds, nothing leaks but what the file system refused, each instance is destroyed once, idle ones are reaped |
| Desktop entry (`src/core/desktop.core.ts`) | handoff pipe, exit under way | launch, handoff, stdin end, shutdown | a parent that dies, connections that never end | an orphan exits; the process is on its way out exactly when its runtime is closed |
| Android host (`src/android/.../HostIpcCoordinator.kt` and neighbours) | decoder buffer, deadlines, outbound queue, stop flags | readable and writable callbacks, answer, deadline, stop | four kinds of thread, partial writes, an answer racing its deadline | one frame per call, whole; no deadline lost or leaked; silence after stop |
| iOS host (`src/ios/Sources/BareHost/HostIpcCoordinator.swift` and neighbours) | the same, on an `AsyncStream` and tasks | one task reads, one writes, one sleeps per invoke | an answer racing the sleep, a stream finished with frames in it | the same |
| Web views (`BareWebViewClient.kt`, `BareHandoff.kt`, `BareWebHost.swift`) | handoff, page shown | poll, delete, navigate, stop | stale handoff files, POSTs only the interceptor sees | the view shows the current run or nothing of the app |
| Other plugins, mock transport, p2p-verify, scripts | none, or tooling | – | – | not modelled, see [below](#modelling-assumptions-and-what-is-left-out) |

How they interact.  The page's messenger calls `send` of the transport and is
called back through `subscribe`.  The transport posts the nonce to `/login`, then
opens a WebSocket; the server asks the gate for admission and then the slot.
Frames of the admitted socket go through a frame channel to the router, and its
responses through the bounded writer.  The router calls adapters directly or
awaits the host bridge, whose frames go out on the IPC pipe; the pipe's frame
channel gives host responses to the bridge *before* routing.  The host may also
send requests of its own on that pipe.  All TypeScript parts are single threaded,
so an action is one event-loop task; a promise continuation is an action of its
own wherever another task can run first.  The Android host is multi-threaded, and
a section under its lock is one step; the iOS host has one reader task, one writer
task, a task per invoke, and handlers on any thread.

The programs around this are three: the app (a host thread boots the worklet and
polls for `handoff.json`), the desktop sidecar (the handoff goes over a pipe, the
end of stdin ends it) and the test harness (one process with many runtimes behind
a management server).  All three call the same `createWorkletRuntime`.

## Modules

| Module | Models | State and actions against the code |
|---|---|---|
| `RequestLedger` | abstract | what every carrier of requests promises, see below |
| `ConnectionMachine` | `connection-machine.ts` | one operator from record to record per `m.on(...)` handler; an event with no handler in a state returns the record unchanged; delays are events |
| `WebTransport` | `websocket-client.ts` | EXTENDS the machine.  `Transition` is `machine.onChange` with `dropSocket`, `failQueuedMessages`, `failWithServerDetail` and `openSocket`; `OnOpen`/`OnMessage`/`OnClose` are the socket callbacks, current socket or not; `OnForeground` is the visibility handler; `Send` covers the direct, queued and refused cases; `LoginSucceeds`/`LoginSpent`/`RetryLogin`/`LoginFails` are `bootstrap()`; `TailFails`, `TailAnswers` and `BodyArrives` are the two halves of the log-tail fetch, of which only the first is raced with a timer |
| `RpcMessenger` | `rpc-messenger.ts` | `Invoke` (eviction, timer, send that may throw), `HandleIncoming`, `Timeout`, `TailFails`, `TailAnswers`, `BodyArrives`, `TailAges` |
| `HostBridge` | `host-ipc.ts` | `Call` (both kinds: refused when closed, eviction, write that may throw), `ConsumeDownstream` of a call whose frame was written, `Timeout`, `Close` |
| `HostCoordinator` | `HostIpcCoordinator.kt` | one action per section that another thread can get between: `Schedule`, `StoreDeadline`, `TrackDeadline`, `Recheck`, `Dispatch` are the lines of `invoke()`; `HandlerResponds`/`DeadlinePasses`, `Untrack`, `Deliver` are `answer()`; `Send`, `WriteHead`, `DrainEnds`, `OnWritable` the outbound queue; `StopFlag`, `StopUnhook`, `StopCancel`, `StopClear` are `stop()` |
| `IosCoordinator` | `HostIpcCoordinator.swift`, `HostPluginRegistry.swift` | EXTENDS `HostCoordinator` for what both share (the reading and reassembly of chunks, the query, the dispatch); `Yield`, `Finish`, `WritePart`, `WriteThrows` are the `AsyncStream` and its writer task; `StartTimer`, `SetTimer`, `TimerCalls`, `HandlerCalls`, `CancelTimer`, `SendOutcome` the single-response object |
| `HostPipe` | the bridge and either coordinator, composed | EXTENDS `HostBridge`, `Host == INSTANCE IosCoordinator`, `platform` picks the next-state relation; calls the bridge writes are the coordinator's input, units the coordinator writes become frames for `ConsumeDownstream` |
| `PluginRouter` | `plugin-kernel.ts` | `Refuse`/`Admit` are the synchronous part of `route`; the `Start…` actions the first step of `routeNow` after the serial predecessor; `QueryResolves`, `QueryFails`, `DelegationAnswered`, `DelegationFails`, `AdapterDone` the awaited outcomes; a call of `Dispatches` owes no result, and a plugin only the host has refuses it; `Release` the `finally`; `TidyTail` the tail cleanup; `HostReads`, `HostFinishes`, `HostChanges` the host and its ordered pipe |
| `WireCodec` | `wire-codec.ts`, `frame-content.ts`, `encode-response.ts` | pure operators: `ClampFrameBytes`, `Encode`, `Decode` with its verdicts and what it recovers of a rejected header, `EncodeResponse` with its fallback.  A header is its length in bytes and what the codec looks at in it |
| `FrameChannel` | `frame-channel.ts`, `framing.ts`, `channel-health.ts`, the gate of `backpressure.ts` | `Push` handles one chunk: its whole frames, then possibly a violation; `RouteEnds`, `HostDeadline` are the awaited routing; `kind` picks the options the runtime passes for the socket or the pipe |
| `ChannelFrames` | `answerRejected` of `frame-channel.ts` over the codec | `Sent` spoils a frame in one way, `Disposition` is what the channel makes of it; `Items`, `Violations`, `Batches` are what `FrameChannel` may be given |
| `BoundedWriter` | `createBoundedWriter` of `backpressure.ts` | `WriteThrough`, `Enqueue`, `Shed`, `Overflow` are the four ways through `write()`; `Drain`, `Clear` |
| `ServerSocket` | an accepted socket, whole | instances of the channel and the writer: what the channel answers is what the writer is given (`WriteResponse`), with pushes beside it (`WritePush`) and drains; `Closes` is an error, the close event or an eviction, `Drops` the close event of a socket that had stopped |
| `ProtocolSocket` | `protocol-socket.ts` | `Arrives` is `accept()`, `HoldEnds` the timer's second `accept()`, `HandshakeDone`/`HandshakeFails` the upgrade callback, `Closes` the close listeners, `Close` |
| `SlotHistory` | – | the slot with a memory of who arrived while whom was present, for finding 3 |
| `SessionTakeover` | `protocol-socket.ts` with the machines of several pages | EXTENDS `ProtocolSocket` and `ConnectionMachine`: `SocketOpens`, `LearnsReplaced`, `Loses`, `Foreground` are the socket callbacks and the visibility handler of `websocket-client.ts`, each applying the machine's own operator; `Opens` sends an upgrade that arrives or is lost |
| `LoopbackGate` | the session bootstrap of `loopback-gate.ts` | `GiveNonce` is `credentials()`, `LoadPage`/`PostLogin` are `admitRequest(…, 'public')`, `Login` is `login()` once the body is in, `Pause`/`Resume` the suspend clock |
| `StaticFileServer` | `static-file-server.ts`, the media plugin | EXTENDS the gate.  `GetPublic`, `GetShared`, `GetMedia` resolve and open a file; `StreamEnds`, `StreamFails`, `ClientGone`, `SourceDestroyed` end its stream; `RunRoute`, `RouteWrites`, `RouteReturns`, `RouteFails` are a consumer's handler; `MountShared`, `RootMoves`, `MediaPicked` the mounts; `ParseRange` the ranges |
| `LogTail` | abstract | what a log store promises, see below |
| `LogRing` | `logs/store.ts` | `Put`, `Ordered`, `Cleared` on a record of entries, start, size and sequence number |
| `LogRoutes` | `capture-web.ts`, `routes.ts`, `capture.ts` | `PageLogs`, `FlushTimer` are the page's capture, `Ingest`/`BatchLost` the fate of a POST, `BackendLogs` the worklet's console; `View` is the read-back |
| `LoopbackServer` | the three above, composed | a batch is ingested only from a document with a session; `GetPublic` takes the place of the gate's `LoadPage` |
| `WorkletRuntime` | `runtime.ts` | `CreateAndStart`, `Bound`, `StartFails`, `Close`, `Released`, `AllDie`: operations without a program around them |
| `AppHost` | `main.core.ts`, `BareHandoff.kt`, `BareWebViewClient.kt`, `BareWebHost.swift` | `Boot` removes a stale file, `WorkletStarts`/`WorkletUp`/`WorkletFails`, `PollReads` and `PollDeletes`, `Navigate`, `GoBack`, `Stop` (also the crash) |
| `DesktopSidecar` | `desktop.core.ts` | `LaunchRefused`, `Throws`, `Launch`, `HandsOff`, `StartRejects`, `PipeEnds`, `ParentDies`, `StdinEnds` (with or without the host's death), `ServerCallsBack`, `TimerFires` |
| `HarnessSupervisor` | `supervisor.ts`, `registry.ts` | `Allocate` … `Register` or `AllocationFails`, `Abandoned`; `AllocateThrows`, which may leave a directory; `Destroy` and `TornDown` around the await; `Reap`, `NextOfPass` the loop of a pass; `Touch`, `BecomesIdle`; `CloseManager`, `ManagerClosed` |
| `Worklets` | the three programs | EXTENDS the three; a process is one of them from its start (`entry`) |
| `RuntimeConfig` | the options of `runtime.ts`, `main.core.ts`, the registry of plugins and the checks of `createLoopbackServer` | pure operators: what a command line (tokens, or the directories a host passes) and a list of plugins come to, and when a launch throws, an origin that is none included |
| `HostPipeProofs`, `RpcMessengerProofs`, `ProtocolSocketProofs`, `PluginRouterProofs`, `ServerSocketProofs`, `WebTransportProofs`, `WorkletsProofs`, `LoopbackServerProofs` | – | theorems about the module they extend and what it is made of |
| `MC*` | – | symmetry and constant functions for TLC |

Variables a comment calls *history* record what happened and no guard reads
them; they exist so that a property can speak of the past (who arrived before
whom, how long the clock really ran, which plugins the host disowned).

## The abstract specifications

`RequestLedger` has one status per request, `new → open → answered`, plus
`forgotten` for components whose books are bounded, and a flag `shut` after which
nothing may be open.  Nothing leaves `answered`.  An open request is forgotten only
in a step after which `Capacity` *younger* ones are open (`CrowdedOut`): the books
must be full of later requests, and a request that nobody crowded out is kept
until it is answered.  Three components implement it:

* `WebTransport` maps *open* to "queued or tracked, not answered", with
  `Capacity` the in-flight limit (`MAX_TRACKED_INFLIGHT`).  So what is in flight
  is forgotten only by a full list of younger requests, on the wire with it; the
  messenger's own timeout then settles the call.  What is queued is never
  forgotten.  A second answer would map to a status outside the ledger, so the
  refinement also says "at most once".
* `RpcMessenger` maps *open* to "in the map, or waiting for a log tail" and never
  forgets: its `Capacity` is the number of calls, which cannot all be younger.
* `HostBridge` maps *open* to "its promise is tracked" and never forgets either,
  because eviction rejects the evicted caller; `shut` is `closed`.

`ImplementsLedger` is checked by TLC in the runs below and proved for all three, for
the bridge also inside `HostPipe`.

`LogTail` says what a log store is without its ring: the latest entries in the
order they were added, numbered one after the other, and as few of the oldest
dropped as the capacity demands.  A step adds any number of entries or clears the
tail.  `LogRing` implements it with the ring's view as `tail` (`ImplementsTail`):
checked inside `LoopbackServer`, where batches of the page and the worklet's own
lines meet, and proved there as well as for the ring alone.

## What each run checks

| Run | Instance | Distinct states | Question |
|---|---|---|---|
| `web_transport` | 3 invokes, 3 sockets, queue and in-flight limit 2, `MaxRetries` 1, 2 tail fetches and a body of one, login and diagnostics on | 113,838 | Do socket and machine stay in step (`Inv`), requests keep their order (`NoOvertaking`), a client once connected never give up (`NeverGivesUpOnceConnected`); is a held request failed only when hopeless (`HeldUntilHopeless`), one in flight only with its socket (`FailsWithItsSocket`); does the queue drain, but for a stalled tail (`QueueDrains`); is the ledger implemented? |
| `web_transport_tail` | the same | – | violation, [finding 1](#findings) |
| `web_transport_stall` | 1 invoke, 2 sockets, 1 tail fetch, `MaxRetries` 1, login and diagnostics on | – | violation, [finding 2](#findings) |
| `rpc_messenger` | 4 calls, map of 2 | 2,341 | Are entries, timers and callers in step (`Inv`), does a timed-out call stay failed (`TimedOutStaysFailed`), does every call settle but for a stalled tail (`EveryCallSettles`), is the ledger implemented? |
| `host_pipe` | both platforms; 3 calls (one a capability query), map of 2, frames of 2 units, chunks cut anywhere | 744,570 | Bridge and coordinator together: `Inv` of the bridge, `HostInv` (deadlines neither lost nor leaked, no frame forgotten, frames whole), `SilentAfterStop`, and the ledger across the pipe |
| `router` | 3 calls of the page to a serial local plugin, 2 and a dispatch of the host to a host plugin; caps 3/2/3 | 400,862 | Do the counters equal the calls under way (`Inv`), can a channel starve the other (`NoChannelStarved`), do serial calls keep their order while tails are cleaned up (`SerialInOrder`), does a snapshot that lists a disowned plugin stay in use (`DisownedNotTrusted`)? |
| `router_answers` | 4 calls: 2 to a serial host plugin, one local, one to an unknown plugin; caps 3/2/2 | 45,688 | Is every call answered, behind a serial call that waits for the host and behind a capabilities query that fails (`EveryCallAnswered`)? |
| `protocol_socket` | `SessionTakeover`: 2 documents, 3 connections at a time, interval 1 tick, replaced backoff 2 ticks | 519,286 | One live socket and one held upgrade (`Inv`), bounded churn (`ChurnBounded`), a held upgrade is served (`HeldIsServed`), and a replaced document waits before it takes the session back (`TakenBackAfterWaiting`) |
| `protocol_socket_newer` | the slot alone with its history, interval 2 ticks | – | violation, [finding 3](#findings) |
| `server_socket` | both kinds of channel; 3 requests (2 host bound), gate of 2, 3 failures, chunks of up to 2 frames, 1 push, 1 oversized response, queue limits 2 and 3; the codec's real limits 65,535, 16 MiB and 256 | 44,544 | Counters, memory and drains are right (`Inv`), responses leave in order and can be read by the peer (`NoResponseLost`), none twice (`AnsweredOnce`), every request settles and a paused stream is read again (`Settles`) |
| `worklets` | harness with 3 runtimes, cap 2, three interval passes beside the closing one; phone with 3 runs, both platforms; sidecar | 85,913 | Cap, leaks and single destruction (`Inv`), the host only uses its own run's handoff (`FreshHandoff`), a handoff that appears is that of a bound port (`HandoffsAreServed`); POSTs are answered, idle instances reaped, an orphan exits, a poller gets its handoff (`Settles`) |
| `loopback_server` | 2 documents, lifetimes 1 and 2, clock to 3; 3 picks for 2 media mounts; 3 kinds of headers; ring of 2, 2 lines per page, 4 entries; ranges of files up to 4 bytes; command lines of up to 3 arguments out of 14 | 83,404 | Suspend is free and lifetimes consistent (`Inv`); descriptors, mounts, logs and their read-back, and in its first state the ranges and the options of a launch (`ServesInv`); the nonce (`RedeemedOnce`, `RedeemedInTime`, `LoserIsToldToRetry`); gated files (`GatedStaysGated`); answers (`AnswersStand`); the ring (`ImplementsTail`) |

Why the bounds are enough to be interesting:

* Every limit is *below* the number of things competing for it: three invokes for a
  queue and an in-flight list of two, four calls for a map of two, three requests
  for a gate of two, three instances for a cap of two, three picks for two mounts,
  four entries for a ring of two.  So eviction, refusal, shedding, wrapping and
  overflow all happen, and every action of every model fires.
* `MaxRetries = 1` gives a first failure that may retry, a second that may not, and
  the degraded state past the cap.  Sockets are named by the events they can still
  produce; three are enough for a current socket and two dropped ones whose close
  events are still due.  Two tail fetches are the least for which one give-up
  overtakes another; one body (`MaxBodies`) is enough to be stalled for ever.
* In `host_pipe` two units are the least for which a write can be cut inside a
  frame, and three calls the least for which one is evicted while another is being
  answered and a third queued.
* In `protocol_socket` three connections are the least for a socket that is owner, one
  that is held and one that supersedes it or is being shaken hands with; the backoff
  is longer than the interval, as in the defaults (30 s against 1 s).
* In `server_socket` the three headers are an ordinary one, one with the longest ids
  there can be and a result that does not fit, and one of multi-byte characters
  with a result that is no JSON: the cases in which the fallback could fail.
* `loopback_server` is explored under the state constraint `InScope`: login and
  clock run before files and logs are used, and files and logs are used one without
  the other, by one page.  The parts share only the session, whose history the
  first part has explored; without the constraint their product is out of reach.
  The clock runs past both lifetimes with a pause before, between and across them.
* In `worklets` three instances let one be allocated, one be torn down by a pass and
  one be touched at once; three runs let a file survive a crash, and be met by a
  run that crashes again.  Of three passes two may wait for ever for the connections
  of one instance each, and the third still reaps the last; with two passes it would
  seem to stay, for want of a pass and not because of the code.
* In `router` the page makes one call more than its channel's cap; three serial
  calls are the least for which a tail can be replaced while an older one is being
  cleaned up, and two host calls that are not serial the least for which a
  delegation and a capabilities query overlap.  Its interchangeable calls are
  symmetric; `router_answers` checks liveness and uses no symmetry.

`CHECK_DEADLOCK` is off in every run: a finite number of calls is made, or the
component is closed for good, and then nothing more need happen.  That nothing is
left *waiting* in such a state is what the liveness properties and the ledger say.

## Fairness

Only what the code's own scheduling guarantees is assumed; a peer, a browser, a
server or a host owes nothing.

* `WebTransport`: `/login` is raced with a timer, so one of its outcomes comes
  (`LoginSucceeds ∨ LoginFails ∨ LoginSpent`); the retry of a spent login, the open
  timeout, the retry timer and the boot window are timers, and so is what the
  log-tail `fetch()` is raced with.  The body of its response (`BodyArrives`) is read
  after that race and owes nothing: `QueueDrains` says that it is the one thing
  that can hold a request for ever.  For a socket that is no longer open either its close event fires or,
  when a suspended browser swallowed it, the page comes back to the foreground.
  Nothing makes a socket open or a response come.
* `RpcMessenger`: each armed timer fires; the tail's `fetch()` is raced with a timer,
  its body not, with the same exception in `EveryCallSettles`.
* `PluginRouter`: continuations run, local adapters return (the router gives them
  no deadline), and the bridge's timers bound each wait on the host.
* `ServerSocket`: routing ends, the bridge's deadlines pass, and a task that has
  produced responses writes them.  The peer may never read.
* `SessionTakeover`: time passes and the hold timer fires.  The pages owe nothing.
* `Worklets`: a port is bound or refused; the loop of a pass that waits for nothing
  goes on; the interval fires until `close()` clears it; the phone's host polls; the
  end of the sidecar's stdin is noticed once its host is gone, and its timer fires.
  Nothing is assumed of anybody's connections.  For the sidecar that is why its
  timer is there; the harness has none, so `ManagementAnswers` names the server that
  never finishes closing as its exception, and `IdleIsReaped` needs no exception
  because the interval starts another pass beside one that hangs.
* `LoopbackServer` has no liveness property and no fairness.

`HeldIsServed` is stated with what the code cannot prevent left in: an upgrade may
be held for ever only if the slot changes hands infinitely often.

## Findings

1. **`web_transport_tail`, `src/web/websocket-client.ts:417`.**  With diagnostics on,
   a give-up fetches the server's log tail and fails the queue *as it is when the
   tail arrives*.  A wake in between returns the machine to idle and starts over;
   requests queued since then are failed too, though a login or a socket is under
   way for them.  The comment at lines 409-410 says the queued requests "are already
   terminally lost, so a short delay changes nothing semantically".
   `HeldUntilHopeless`, which passes, states the promise with exactly this
   exception.
2. **`web_transport_stall`, `src/web/websocket-client.ts:142`.**  The give-up awaits
   the log tail before it fails the queue.  Only `fetch()` is raced with the timer:
   once the headers of a good response are there, `await response.text()` has no
   bound, and a server that stalls there keeps every queued caller unanswered.  The
   comment at line 112 calls the constant "How long to wait for the log-tail fetch
   before giving up on enrichment", and the one at lines 119-120 says that the
   function "Returns null when nothing can be learned (no fetch available, network
   error, timeout)".  The messenger reads its tail the same way
   (`src/core/messages/rpc-messenger.ts:236`).  `QueueDrains` and `EveryCallSettles`,
   which pass, state that nothing else holds a request for ever.
3. **`protocol_socket_newer`, `src/core/server/protocol-socket.ts:120`.**  An upgrade
   held for the interval keeps its place when the slot frees itself and a *newer*
   upgrade is admitted at once.  When its timer fires it waits again and then
   evicts that newer socket with the code which the comment at lines 36-38 defines
   as "evicted by a newer one".  `ChurnBounded`, which passes and is proved, shows
   that the interval is kept nevertheless.

Results short of findings, because no line of the repository promises otherwise or no
program of it gets there:

* The comment at `src/web/connection-machine.ts:24-26` says that two documents must
  not evict each other for ever.  Two documents that both stay open do alternate,
  but spaced: each waits the whole `replacedBackoffMs` first.  That is what
  `TakenBackAfterWaiting` states, with its two exceptions (a document that comes to
  the foreground has a reason to hurry; one whose connection broke before the close
  code arrived does not know that it was replaced).
* `src/core/messages/encode-response.ts:12-17` replaces a response that cannot be
  encoded.  One that is nested deeper than the page's decoder takes *is* encoded,
  and dropped at the page; the caller's timeout settles it.  `NoResponseLost` and
  `AnswerIsMatched` name it as their exception.
* `src/core/messages/host-ipc.ts:243`: a slot's promise is tracked and timed before the
  frame is written.  When the write throws its caller is rejected, and nobody awaits
  the slot any more, whose timer, eviction or `close()` rejects it unhandled.
* `GET /logs?tail=abc` returns every line (`src/core/logs/routes.ts:96-106` makes the
  tail undefined), although the store itself is careful that an invalid count never
  means everything (`src/core/logs/store.ts:3-7`).  `ViewsAreLatest` states both.
* `src/core/harness/supervisor.ts:149` says that a half-started instance must not keep
  its directories; those made by `instanceDirs()` (line 136) before a later `mkdir`
  fails are kept, being made outside the `try`.  `NothingLeaks` names it.
* A DELETE, a reap pass, `close()` of the manager or a POST whose start failed waits
  for `server.close()` with no timeout (`supervisor.ts:153,174`), so a connection that
  never ends holds it; `ManagementAnswers` names it.
* `start()` of a runtime writes its handoff although `close()` was called while it
  waited for the port (`src/core/runtime.ts:487-497`), and nothing removes it.  No
  program here does that with a runtime that writes one: `HandoffsAreServed` is a
  property of the programs, not of the runtime.

## What is proved

Every safety invariant and every action property that a passing run checks is
also a theorem, for every value of the constants and not only for the instances
above.  The assumptions are the named ones of the modules, which TLC evaluates on
every run:

| Assumption | Says, and why the code justifies it |
|---|---|
| `BridgeAssumption`, `MessengerAssumption`, `TransportAssumption`, `MaxRetriesAssumption` | caps and numbers of requests are numbers, a map holds at least one |
| `SlotAssumption`, `TakeoverAssumption` | intervals are numbers; a value that names nobody is nobody's name |
| `GateAssumption` | the lifetime before a page is loaded is not the shorter one (`loopback-gate.ts` takes the maximum); finitely many documents |
| `ServerAssumption` | a pick is mounted under a name of its own, apart from the names of the other files (mounts have random tokens) |
| `CapacityAssumption`, `LinesAssumption` | a ring has room for one entry, a page's threshold is at least one, the bounds on lines are numbers |
| `RouterAssumption` | plugins that run locally are registered; finitely many calls and channels; dispatches are calls |
| `CodecAssumption`, `ChannelAssumption`, `WriterAssumption` | every request carries an id of its own, a plugin's result is written as UTF-8 whatever it is, a message has at least one byte, the hard limit is not below the soft one |
| `RuntimesAssumption`, `HostAssumption`, `SidecarAssumption`, `HarnessAssumption` | runs are numbered from one and finitely many; a pass of the reaper is no DELETE and not the closing pass |
| `ConfigAssumption` | an argument has a key and a value; the bound on command lines is a number |
| `PipeAssumption` | a host is Android or iOS; a frame has at least one unit |

| Theorem | States | Argument |
|---|---|---|
| **The host's pipe** (`HostPipeProofs`) | | |
| `BridgeInvariant` | `Spec => []Inv` | `Inv` is inductive once it says that an unanswered caller is tracked *and* timed.  A full map has an oldest entry (`LeastElement`), and evicting it, timer and waiter together, keeps the map within its cap (`EvictionBounds`) |
| `BridgeImplementsLedger` | `Spec => ImplementsLedger` | under `Inv` and `Inv'` each action moves each call by one of the ledger's moves; `Close` leaves nothing open because only tracked calls are open |
| `PipeAccounted` | `PipeSpec => []PipeInv` | the invariant behind the next three.  `QueueInv`: a call is on the pipe, or in the chunk being worked on, or begun, never two of them; `FramesInv`: while the port can be written to, it has taken a number of whole frames and, of the first one owed, exactly what that one no longer has `left` (`Taken`); every other frame owed is whole, and of a call with nothing on the wire; `AnswersInv`: a frame is sent for a query or by an answer that is done; `DeadlinesInv` and `AndroidInv` or `TimersHeld`: the books of the timers |
| `HostKeepsPromises` | `PipeSpec => []HostInv` | from it.  That frames come whole is arithmetic, done once over sequences: `GroupedGrows` says that more units of the frame a sequence ends in keep it grouped, `DivOf` which units one frame's are |
| `StopSilences` | `PipeSpec => SilentAfterStop` | only `WriteHead` writes, under the lock; `stop()` empties the queue with the lock free, and nothing is queued after its flag |
| `PipeKeepsBridge` | `PipeSpec => []Inv`, `ImplementsLedger` | every frame on the wire is of a call that was made, so each step of the pipe is one of the bridge |
| **The page's messenger and transport** (`RpcMessengerProofs`, `WebTransportProofs`) | | |
| `MessengerInvariant` | `Spec => []Inv` | entries and timers are equal sets; a caller that waits is in the map or waits for a fetch under way.  Needs that calls in the map or waiting are never `resolved`, and that calls not made are unsettled |
| `LateResponseIgnored` | `Spec => TimedOutStaysFailed` | `awaiting` and `pending` are disjoint (part of `Inv`), and only pending calls are resolved |
| `MessengerImplementsLedger` | `Spec => ImplementsLedger` | as for the bridge, with nothing ever forgotten |
| `TransportInStep`, `ConnectedNeverGivesUp`, `RequestsKeepOrder` | `Spec =>` `[]Inv`, `[]NeverGivesUpOnceConnected`, `[]NoOvertaking` | parts of `TransportInv`, with `OnlyIssued` (queue, wire and in-flight list hold requests that were sent), `OpenIsFlushed` (an open current socket leaves nothing queued), `InflightIsCurrent` (what is in flight went over the current socket), `ClosedHoldsNothing` and `AnsweredLast`.  The machine's handlers enter as facts about records, one lemma each; that the queue is within its limit needs that a sorted sequence of distinct requests is no longer than their number (`SortedIsShort`) |
| `HoldsUntilHopeless`, `InflightFailsWithItsSocket` | `Spec =>` `HeldUntilHopeless`, `FailsWithItsSocket` | each way to fail a request, from the invariant |
| `TransportImplementsLedger` | `Spec => ImplementsLedger` | `Accounted`, the books of one step: a new request is held or answered, an answer is the first, and what is no longer held was answered, unless `Track` dropped it from a list that is then full of younger requests, each open (`CrowdedOut`): what it keeps are the last `MaxInflight` of a sorted list |
| **The protocol socket** (`ProtocolSocketProofs`, `ServerSocketProofs`) | | |
| `SlotInvariant` | `Spec => []Inv` | the owner is the only socket in phase `open` and the held one the only one in phase `held`: the two identity checks in the close listeners are what keeps it |
| `EvictionsAreSpaced` | `Spec => ChurnBounded` | an owner changes only through `TakeSlot`, which `accept()` reaches only with `Wait = 0`; under the type invariant that is `age = MinInterval` or a free slot |
| `TakeoverIsSpaced` | `TakeoverSpec => TakenBackAfterWaiting` | `TakeoverInv`: a page with a connection has opened it itself (`OwnSockets`), and a page that owes a wait has not learnt of the eviction yet, or has at least that much of its backoff left (`DebtIsWaited`).  The machine's handlers enter as facts about records (`MachineSteps`), the server's steps as facts about names |
| `TakeoverKeepsSlot` | `TakeoverSpec => Spec`, `[]Inv`, `ChurnBounded` | every step of the documents and of the server is one of the slot or leaves it alone (`TakeoverStepsTheSlot`), so what is proved of the slot holds of the composition the run checks |
| `PrefixRoundTrip` | the lengths of a frame come back from its prefix | a header is below 2^16 and a payload below 2^24 whenever `Encode` does not refuse (`TwoBytes`, `ThreeBytes`) |
| `EncodedIsRead` | what one end encodes, an end with no smaller limit reads as the same message | the round trip, and the checks of `Decode` being those of `Encode` |
| `FallbackAlwaysFits` | `encodeResponse()` never throws | an id of more than 256 bytes is left out and JSON makes at most six bytes of one: with the text of the error the header stays legal |
| `AnswerIsMatched` | a request that was read, or whose ids were recovered, gets a frame its sender can match to it | the two before, with `DecodedIdsShort`: what was decoded has ids the encoder takes |
| `CountersTrue` | `Spec => []Inv` | `SocketInv` = `ChannelInv` (the channel's own `Inv` and `AnsweredOnce`, with the failures below their limit until it stops, and pausing and asking each on its kind only), `WriterInv` (the writer's `Inv`, `MemoryBounded`, `InOrder`, `ResponsesKept`) and `WrittenWereAnswered`, which ties the two.  That the bytes of the queue are their sum is a fact about a fold: the sum is the cardinality of the set of single bytes, whose size `Append`, `Tail` and `SubSeq` change as they should |
| `AnsweredAtMostOnce`, `ResponsesArrive` | `Spec =>` `[]AnsweredOnce`, `[]NoResponseLost` | from it, with `AnswerIsMatched` for what the peer can read |
| **The router** (`PluginRouterProofs`) | | |
| `SlotsAccounted` | `Spec => []SlotsBalance` | `SlotInv`; `Admit` and `Release` change each cardinality by one, and every other step moves calls only within the active phases or within the others (`Moves`) |
| `NoStarvation` | `Spec => []NoChannelStarved` | with two channels and one idle, every call under way is on the other, so the global counter is that channel's, which its cap bounds |
| `SerialOrder` | `Spec => []SerialInOrder` | `SerialInv`: a held call is chained behind every unfinished call ahead of it, and the tail of a plugin behind every unfinished call of that plugin; a tail is deleted only when its call, hence everything before it, is finished |
| `RouterInStep` | `Spec => []Inv` | `RouterInv` = `SlotInv`, `SerialInv` and `PipeInv` |
| `DisownedStaysUnlisted` | `Spec => []DisownedNotTrusted` | `PipeInv`: the pipes are typed, a delegation or query is in one place (`RequestsInOnePlace`), and a plugin the host disowned with no query under way is in no list of capabilities until it is added back, neither the host's, nor one on its way, nor the snapshot (`DisownedEverywhere`) |
| **The programs** (`WorkletsProofs`) | | |
| `WorkletsInvariant` | `Spec => []Inv` | `ProgramInv`, one part per program: `HandoffFollowsRun` and `RunsCloseRejected` for the phone, `SidecarInv` for the desktop, `HarnessInv` for the harness: an instance is allocated, listed, torn down in that order (`OneLife`), `starting` counts those between, and a pass knows what it closes (`CloserKnows`) |
| `HandoffIsFresh`, `HandoffsOfListeners` | `Spec =>` `[]FreshHandoff`, `HandoffsAreServed` | from it: a file is written only by a runtime whose port was just bound and which was not closed, because the phone closes a run once its start has settled, the harness a runtime once it is registered or its start failed, and the sidecar writes none |
| **The loopback server** (`LoopbackServerProofs`) | | |
| `GateInvariant` | `Spec => []Inv` | `SuspendIsFree` alone is not inductive: it needs that the pause began in the past and that the paused total is not ahead of the clock; the lifetime part ties `boundAt`, `firstPublicAt` to the time really run.  The bound `MaxNow` is arbitrary, so the clock may be of any length |
| `NonceRedeemedOnce`, `LoserRetries`, `NonceRedeemedInTime` | `RedeemedOnce`, `LoserIsToldToRetry`, `RedeemedInTime` | from `NonceInv` and `LifetimeInv`: redeeming needs a live nonce and spends it; a live nonce is within its lifetime on the clock that counts only running time |
| `ServerKeepsGate`, `ServerGuarded` | `ServerSpec => Spec`, and with it the four above for the whole server | files and logs leave the gate's variables alone; a page load is the gate's own step |
| `FilesAccounted` | `ServerSpec => []ServerInv` | `FilesInv` = `StreamsInv` (a descriptor is open exactly while a response streams from it), `RootsInv` (a cached root is where the directory is, until it moves), `MountsInv` (the mounts are the latest picks, in order) |
| `NothingUngated`, `CompleteAnswersStand` | `ServerSpec =>` `GatedStaysGated`, `AnswersStand` | which action starts a stream, and which ones may still change a response |
| `RangesExact` | `RangesAreExact` | arithmetic on the three forms of a range |
| `RingHoldsLatest` | `RingSpec => []RingInv` | entry `i` of the view is slot `(start + i - 1) % Capacity` and carries number `seq - size + i - 1`; `Put` overwrites the oldest slot when full and moves `start` past it (`Wrap`, `Slot`, `StartMoves`: the modular arithmetic, once) |
| `RingImplementsTail`, `LogsImplementTail` | `RingSpec => ImplementsTail`, `ServerSpec => ImplementsTail` | `Put` is `Add` of one entry on the view, with one dropped when full; a clear is `Clear`; a batch is as many `Put`s, which `PutAll` does one after the other |
| `LogsAccounted` | `ServerSpec => []LogsInv` | `PlacesInv`: a line of a page waits in its buffer, is in a batch under way, was lost, or is stored, and only one of them; `StoreInv`: what is stored was logged, in the order it came |
| `ServesAsAccounted` | `ServerSpec => []ServesInv` | the parts together |
| `SafeLaunches` | `LaunchesAreSafe` | how a later argument, the directories of a host, a default and a list of plugins override each other, case by case |

Each invariant proof has one lemma or step per action and one below it per
conjunct the action disturbs; the temporal step comes last.

What a recursive definition computes (`PutAll` of a batch, a filter of lines, the
oldest entry of a map) is not proved by the library's induction theorems, whose
operator parameters the provers cannot instantiate.  Where such a fact is needed
the recursive function is described at its least counterexample instead: a
non-empty set of naturals has a least element (`LeastElement`, from
well-foundedness), and the value just below it satisfies the claim.

The codec's theorems, `RangesExact` and `SafeLaunches` are about operators; the
runs `server_socket` and `loopback_server` check the same operators on real values.

Only model-checked: liveness (`QueueDrains`, `EveryCallSettles`,
`EveryCallAnswered`, `HeldIsServed` and both `Settles`), which needs fairness and
`ENABLED`, out of the prover's reach; and the three runs that show a finding
(`web_transport_tail`, `web_transport_stall`, `protocol_socket_newer`), which are about
instances.

## Modelling assumptions and what is left out

* **Payloads** are absent: a request is its number or name, and in `WireCodec` a
  header its length and what the codec looks at in it.  How JSON spells an id is
  bounded: at most six bytes per byte.  Field-by-field copying (capability rows,
  error objects, prototype keys) is left out.
* **Requests are invokes.**  A dispatch owes no answer and takes the same way, but in the
  router, where one to a plugin only the host has is refused at once (`Dispatches`).
* **Time** is an event that may come at any moment (`WebTransport`, the messenger,
  bridge, router, coordinator) or a count of ticks where durations are compared
  (`ProtocolSocket`, `LoopbackGate`).  A timer may be late, never early, and
  `Date.now()` does not run backwards.
* **Ids are fresh.**  The bridge's ids come from a counter, so "superseding a live
  id" does not arise.
* **`PluginRouter`** keeps no responses apart from the host's disowning an event, on
  which the snapshot depends.  An answer of the host may be handled before a
  capabilities response that was read in the same chunk, because it takes fewer
  promise hops; messages of a call or a query nobody waits for any more leave the
  pipes, as the bridge drops them.  `DisownedNotTrusted` leaves out a query that is
  under way when the disownment is handled: its response may still install the
  older list, which the next disownment or the TTL removes.
* **`FrameChannel`** sees a chunk as what it completes.  A chunk that completes no
  frame counts as success for the health tracker, as in the code, so isolated
  violations separated by such chunks never add up to a give-up.  A response of the
  host on the pipe, or a stray one on the socket, is a message whose routing writes
  nothing: a batch without it.
* **`HostCoordinator`**: the Kotlin variable `deadline` is a plain `var` shared by
  threads, so `Untrack` may find it null until `invoke()` has looked at `answered`
  again; that second look is ordered after the write, so later readers see it.
  Neither coordinator is given frames the worklet's bridge never sends (malformed
  envelopes, oversized prefixes), and the content of the capability rows is left
  out; a handler that throws, or does not exist, is one that answers.
* **`SessionTakeover`**: every document has connected before, so none gives up and
  its retries do not matter; an upgrade arrives when it is opened, or is lost.
  Ordinary backoffs may be as short as nothing.  Login, the stable timer and the
  boot window are `WebTransport`'s.
* **`LoopbackGate`, `StaticFileServer`**: authentication is on, and what admission reads
  of a request is three fields of `Headers`.  A place on disk has one name: the case
  folding by which `comparablePath()` makes two spellings one is left out.  How a hostname or a path is parsed,
  HEAD, content types, caching headers and the timeouts of the HTTP server are left
  out.  One gated directory beside the web root stands for the two-root cases, and
  a document has one request under way.
* **`LogRoutes`**: levels, formatting and the size limit of a body are left out; a
  batch that is refused or lost is lost, as nobody retries.
* **`HarnessSupervisor`** has no clock: an instance is idle or was touched.  The order in
  which a pass takes what it listed is open.  GET routes only read.
* **`WorkletRuntime`** sees its server as a port.  A handoff is written and renamed in
  one step, so a host finds a whole file or none.
* **Bounds in guards.** `NumRequests`/`NumCalls` (calls made), `MaxTails` (tail
  fetches at once), `MaxBodies` (bodies being read), `Passes` (reap passes at once),
  `MaxArgs` (arguments of a command line), `MaxBatch` (frames per chunk), `MaxNow` (clock), `MaxLines` and
  `MaxSeq` (log lines), `Picks` (media), `MaxSize` (files whose ranges are tried).
  The retry counter saturates just above `MaxRetries`, beyond which no comparison
  can tell.
* **Not modelled**: other plugins (stateless handlers), the mock transport (a test
  double), the p2p-verify tool and the scripts (developer tooling).

## Plan

The modules above cover every part with state of its own, and their safety
properties are proved.  What is left:

1. **Answers of the pipe.**  That a frame the worklet is handed answers a call that
   was made, and no call twice, is part of `PipeInv`; as a refinement of a ledger on
   the native side it would be a property of its own.
2. **The page whole**: `RpcMessenger` over `WebTransport` (an invoke the transport
   forgot is settled by the messenger's timer).  The product of the two has too many
   states at the sizes where either alone is interesting; it needs a transport
   reduced to its ledger, which `TransportImplementsLedger` justifies.
3. **The router's two runs as one**: they differ in what competes (symmetric calls
   of one serial plugin, or calls behind host and local plugins) and their union is
   out of reach.
4. **Tooling**: the p2p-verify tool and the scripts are not modelled.
