-------------------------- MODULE HostCoordinator --------------------------
(***************************************************************************)
(* HostIpcCoordinator of the Android host: it reads the worklet's calls    *)
(* from the IPC pipe, runs each invoke under a deadline, and writes each   *)
(* answer through one queue whose writes the port may cut short.           *)
(*                                                                         *)
(* Four kinds of thread meet here: the one that runs the readable          *)
(* callback, the deadline timer, whichever thread a handler answers from,  *)
(* and the one that calls stop().  A section under outboundLock is one     *)
(* step, but for the drain loop, which holds the lock over its writes.     *)
(* The variable deadline is a plain one: see Untrack.                      *)
(***************************************************************************)
EXTENDS Naturals, Sequences

CONSTANTS
  Calls,       \* the calls of the worklet
  Queries,     \* those that query the capabilities; the others are invokes
  FrameUnits   \* a port takes a frame in this many units

VARIABLES
  toHost,     \* calls on the pipe to the host
  partial,    \* units of the first of them the decoder has buffered
  batch,      \* calls of the chunk the readable callback is working on
  at,         \* at[c]: how far invoke(c) is, see Places
  timer,      \* timer[c]: the scheduled deadline of c
  tracked,    \* deadlines: the calls whose deadline stop() would cancel
  answer,     \* answer[c]: how far the one answer() that won is
  outbound,   \* frames still owed: call and units left
  waiting,    \* waitingForWritable: the writable callback is set
  draining,   \* the lock is held by drainLocked
  stopping,   \* how far stop() is
  gone,       \* the port is gone: its writes fail
  wire        \* history: the units the port took, each named by its call

writer == <<outbound, waiting, draining, wire>>

hostVars == <<toHost, partial, batch, at, timer, tracked, answer, writer,
              stopping, gone>>

(* invoke(): the deadline is scheduled, stored in the variable, tracked,   *)
(* checked against an answer that came already; then the handler is called.*)
Places == {"none", "scheduled", "stored", "tracked", "checked", "dispatched"}

Stops == <<"running", "flagged", "unhooked", "cancelled", "stopped">>

HostTypeOK ==
  /\ at \in [Calls -> Places]
  /\ timer \in [Calls -> {"none", "running", "fired", "cancelled"}]
  /\ tracked \subseteq Calls
  /\ answer \in [Calls -> {"none", "won", "untracked", "done"}]
  /\ \A i \in DOMAIN outbound :
       outbound[i] \in [call : Calls, left : 1 .. FrameUnits]
  /\ {waiting, draining, gone} \subseteq BOOLEAN
  /\ stopping \in {Stops[i] : i \in DOMAIN Stops} \cup {"finished"}
  /\ partial \in 0 .. FrameUnits - 1

HostInit ==
  /\ toHost = <<>> /\ partial = 0 /\ batch = <<>>
  /\ at = [c \in Calls |-> "none"]
  /\ timer = [c \in Calls |-> "none"]
  /\ tracked = {}
  /\ answer = [c \in Calls |-> "none"]
  /\ outbound = <<>> /\ waiting = FALSE /\ draining = FALSE
  /\ stopping = "running"
  /\ gone = FALSE
  /\ wire = <<>>

(* Plausible bugs, as mutants of the definitions below: a frame cut short  *)
(* is written from its start again, and send() does not look at stopped.   *)
KeepsWholeFrame(head, n) == <<[head EXCEPT !.left = FrameUnits]>>

NeverIgnored == FALSE

-----------------------------------------------------------------------------
(* The outbound queue.                                                     *)

(* send() under the lock ignores what comes after stop().                  *)
Ignored == stopping # "running"

(* send(): the frame is queued, and drained unless the port is full.       *)
Send(c) ==
  /\ ~draining
  /\ IF Ignored
       THEN UNCHANGED <<outbound, draining>>
       ELSE /\ outbound' = Append(outbound, [call |-> c, left |-> FrameUnits])
            /\ draining' = ~waiting
  /\ UNCHANGED <<waiting, wire>>

(* What is still owed of a frame of which n units were taken.              *)
UnwrittenTail(head, n) == <<[head EXCEPT !.left = @ - n]>>

(* One turn of drainLocked: the port takes n units of the first frame.     *)
WriteHead(n) ==
  /\ draining /\ outbound # <<>> /\ ~gone
  /\ LET head == Head(outbound) IN
       /\ n \in 0 .. head.left
       /\ wire' = wire \o [i \in 1 .. n |-> head.call]
       /\ IF n = head.left
            THEN /\ outbound' = Tail(outbound)
                 /\ UNCHANGED <<waiting, draining>>
            ELSE /\ outbound' = UnwrittenTail(head, n) \o Tail(outbound)
                 /\ waiting' = TRUE
                 /\ draining' = FALSE
  /\ UNCHANGED <<toHost, partial, batch, at, timer, tracked, answer, stopping,
                 gone>>

(* The loop ends with nothing left to write, or because a write failed.    *)
DrainEnds ==
  /\ draining /\ (outbound = <<>> \/ gone)
  /\ outbound' = <<>>
  /\ waiting' = FALSE
  /\ draining' = FALSE
  /\ UNCHANGED <<toHost, partial, batch, at, timer, tracked, answer, stopping,
                 gone, wire>>

(* The port has room again; after stop() the callback does nothing.        *)
OnWritable ==
  /\ waiting /\ ~draining
  /\ ~Ignored
  /\ draining' = TRUE
  /\ UNCHANGED <<toHost, partial, batch, at, timer, tracked, answer, outbound,
                 waiting, stopping, gone, wire>>

PortFails ==
  /\ ~gone
  /\ gone' = TRUE
  /\ UNCHANGED <<toHost, partial, batch, at, timer, tracked, answer, writer,
                 stopping>>

-----------------------------------------------------------------------------
(* The readable callback: one chunk at a time, its calls in order.         *)

CallbackIdle ==
  batch = <<>> /\ \A c \in Calls : at[c] \in {"none", "dispatched"}

(* The decoder: of a chunk of n units, the frames it completes are handed  *)
(* on, and the rest is kept as the partial of the next.                    *)
TakesChunk(n) ==
  /\ CallbackIdle
  /\ n \in 1 .. Len(toHost) * FrameUnits - partial
  /\ LET whole == (partial + n) \div FrameUnits IN
       /\ batch' = SubSeq(toHost, 1, whole)
       /\ toHost' = SubSeq(toHost, whole + 1, Len(toHost))
       /\ partial' = (partial + n) % FrameUnits

ReadChunk(n) ==
  /\ stopping \in {"running", "flagged"}
  /\ TakesChunk(n)
  /\ UNCHANGED <<at, timer, tracked, answer, writer, stopping, gone>>

NextInBatch(c) ==
  /\ batch # <<>> /\ c = Head(batch)
  /\ \A d \in Calls : at[d] \in {"none", "dispatched"}
  /\ batch' = Tail(batch)

AnswerQuery(c) ==
  /\ NextInBatch(c)
  /\ c \in Queries
  /\ Send(c)
  /\ UNCHANGED <<toHost, partial, at, timer, tracked, answer, stopping, gone>>

Schedule(c) ==
  /\ NextInBatch(c)
  /\ c \notin Queries
  /\ at' = [at EXCEPT ![c] = "scheduled"]
  /\ timer' = [timer EXCEPT ![c] = "running"]
  /\ UNCHANGED <<toHost, partial, tracked, answer, writer, stopping, gone>>

Advance(c, from, to) == at[c] = from /\ at' = [at EXCEPT ![c] = to]

StoreDeadline(c) ==
  /\ Advance(c, "scheduled", "stored")
  /\ UNCHANGED <<toHost, partial, batch, timer, tracked, answer, writer,
                 stopping, gone>>

TrackDeadline(c) ==
  /\ Advance(c, "stored", "tracked")
  /\ tracked' = tracked \cup {c}
  /\ UNCHANGED <<toHost, partial, batch, timer, answer, writer, stopping,
                 gone>>

Cancelled(S) ==
  [c \in Calls |-> IF c \in S /\ timer[c] = "running" THEN "cancelled"
                                                      ELSE timer[c]]

(* The deadline may have answered before it was stored.                    *)
Recheck(c) ==
  /\ Advance(c, "tracked", "checked")
  /\ IF answer[c] # "none"
       THEN timer' = Cancelled({c}) /\ tracked' = tracked \ {c}
       ELSE UNCHANGED <<timer, tracked>>
  /\ UNCHANGED <<toHost, partial, batch, answer, writer, stopping, gone>>

Dispatch(c) ==
  /\ Advance(c, "checked", "dispatched")
  /\ UNCHANGED <<toHost, partial, batch, timer, tracked, answer, writer,
                 stopping, gone>>

-----------------------------------------------------------------------------
(* answer(): the first caller wins, the others return at once.             *)

Wins(c) ==
  answer' = IF answer[c] = "none" THEN [answer EXCEPT ![c] = "won"] ELSE answer

(* The handler answers, throws, or does not exist.                         *)
HandlerResponds(c) ==
  /\ at[c] = "dispatched"
  /\ answer[c] = "none"
  /\ Wins(c)
  /\ UNCHANGED <<toHost, partial, batch, at, timer, tracked, writer, stopping,
                 gone>>

DeadlinePasses(c) ==
  /\ timer[c] = "running"
  /\ timer' = [timer EXCEPT ![c] = "fired"]
  /\ Wins(c)
  /\ UNCHANGED <<toHost, partial, batch, at, tracked, writer, stopping, gone>>

(* The winner cancels the deadline it finds in the variable, if any: until *)
(* invoke() has looked at answered again, other threads may read null.     *)
Untrack(c) ==
  /\ answer[c] = "won"
  /\ answer' = [answer EXCEPT ![c] = "untracked"]
  /\ \/ /\ at[c] \in {"scheduled", "stored", "tracked"}
        /\ UNCHANGED <<timer, tracked>>
     \/ /\ at[c] # "scheduled"
        /\ timer' = Cancelled({c}) /\ tracked' = tracked \ {c}
  /\ UNCHANGED <<toHost, partial, batch, at, writer, stopping, gone>>

Deliver(c) ==
  /\ answer[c] = "untracked"
  /\ answer' = [answer EXCEPT ![c] = "done"]
  /\ Send(c)
  /\ UNCHANGED <<toHost, partial, batch, at, timer, tracked, stopping, gone>>

-----------------------------------------------------------------------------
(* stop(), from a thread of its own.                                       *)

StopFlag ==
  /\ stopping = "running"
  /\ stopping' = "flagged"
  /\ UNCHANGED <<toHost, partial, batch, at, timer, tracked, answer, writer,
                 gone>>

StopUnhook ==
  /\ stopping = "flagged" /\ ~draining
  /\ stopping' = "unhooked"
  /\ outbound' = <<>>
  /\ waiting' = FALSE
  /\ UNCHANGED <<toHost, partial, batch, at, timer, tracked, answer, draining,
                 gone, wire>>

StopCancel ==
  /\ stopping = "unhooked"
  /\ stopping' = "cancelled"
  /\ timer' = Cancelled(tracked)
  /\ UNCHANGED <<toHost, partial, batch, at, tracked, answer, writer, gone>>

StopClear ==
  /\ stopping = "cancelled"
  /\ stopping' = "stopped"
  /\ tracked' = {}
  /\ UNCHANGED <<toHost, partial, batch, at, timer, answer, writer, gone>>

-----------------------------------------------------------------------------

InvokeStep(c) ==
  \/ Schedule(c) \/ StoreDeadline(c) \/ TrackDeadline(c) \/ Recheck(c)
  \/ Dispatch(c)

AnswerStep(c) == Untrack(c) \/ Deliver(c)

HostNext ==
  \/ \E c \in Calls :
       \/ AnswerQuery(c) \/ InvokeStep(c)
       \/ HandlerResponds(c) \/ DeadlinePasses(c) \/ AnswerStep(c)
  \/ \E n \in 1 .. Len(toHost) * FrameUnits : ReadChunk(n)
  \/ \E n \in 0 .. FrameUnits : WriteHead(n)
  \/ DrainEnds \/ OnWritable \/ PortFails
  \/ StopFlag \/ StopUnhook \/ StopCancel \/ StopClear

-----------------------------------------------------------------------------
(* Properties.                                                             *)

(* Deadlines are neither leaked nor lost: one that is tracked belongs to   *)
(* an invoke nobody answered, or to one whose answer, or whose recheck, is *)
(* about to take it out.                                                   *)
DeadlinesTidy ==
  \A c \in tracked : answer[c] \in {"none", "won"} \/ at[c] = "tracked"

(* "Every host invoke gets the deadline its handler was registered with":  *)
(* an invoke nobody has answered is answered by its deadline at the latest *)
(* unless stop() cancelled it.                                             *)
DeadlineArmed ==
  \A c \in Calls :
    at[c] # "none" /\ answer[c] = "none" =>
      timer[c] = "running" \/ stopping \in {"cancelled", "stopped"}

(* A frame that is owed is being written or waits for the port to call     *)
(* back, and the port is asked to call back only then.                     *)
NoFrameForgotten ==
  /\ outbound # <<>> => draining \/ waiting
  /\ waiting /\ ~draining => outbound # <<>>

(* The port takes the units of one frame after the other, and one frame    *)
(* for each call, whatever threads answer and however writes are cut.      *)
FramesWhole ==
  \A i, j \in DOMAIN wire :
    wire[i] = wire[j] <=> (i - 1) \div FrameUnits = (j - 1) \div FrameUnits

(* The deadline of an invoke that was answered does not go on running,     *)
(* whichever of the threads that can cancel it came first.                 *)
NoTimerLeaked ==
  \A c \in Calls :
    (/\ answer[c] \in {"untracked", "done"}
     /\ at[c] \in {"checked", "dispatched"}) => timer[c] # "running"

(* The coordinator's threads keep all of this.                             *)
HostInv ==
  /\ HostTypeOK
  /\ DeadlinesTidy
  /\ DeadlineArmed
  /\ NoTimerLeaked
  /\ NoFrameForgotten
  /\ FramesWhole

(* "Stops reading, drops queued frames": once stop() has had the lock the  *)
(* port is not written to, so the IPC may be closed.                       *)
SilentAfterStop ==
  [][wire' # wire =>
       stopping \notin {"unhooked", "cancelled", "stopped"}]_hostVars
=============================================================================
