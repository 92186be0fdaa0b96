--------------------------- MODULE IosCoordinator ---------------------------
(***************************************************************************)
(* HostIpcCoordinator and HostIpcRouter of the iOS host: the same duties   *)
(* as the Android coordinator, and its variables, on other machinery.  One *)
(* task reads, one task writes, a task per invoke sleeps until its         *)
(* deadline, and handlers answer from any thread.                          *)
(*                                                                         *)
(* outbound is the AsyncStream between router and writer, tracked the      *)
(* calls whose responder holds its timer.  There is no stop(): the owner   *)
(* drops the coordinator, which finishes the stream, and closes the IPC,   *)
(* so that its reads and writes fail (PortFails).                          *)
(***************************************************************************)
EXTENDS HostCoordinator

(* continuation.yield(frame): ignored once the stream is finished.         *)
Yield(c) ==
  /\ outbound' = IF stopping = "finished" THEN outbound
                 ELSE Append(outbound, [call |-> c, left |-> FrameUnits])
  /\ UNCHANGED <<waiting, draining, wire>>

(* deinit; frames that were yielded before are still written.              *)
Finish ==
  /\ stopping = "running"
  /\ stopping' = "finished"
  /\ UNCHANGED <<toHost, partial, batch, at, timer, tracked, answer, writer,
                 gone>>

(* The writer task awaits each frame's write, whatever parts the channel   *)
(* takes it in.                                                            *)
WritePart(n) ==
  /\ outbound # <<>> /\ ~gone
  /\ LET head == Head(outbound) IN
       /\ n \in 1 .. head.left
       /\ wire' = wire \o [i \in 1 .. n |-> head.call]
       /\ outbound' = IF n = head.left
                        THEN Tail(outbound)
                        ELSE UnwrittenTail(head, n) \o Tail(outbound)
  /\ UNCHANGED <<toHost, partial, batch, at, timer, tracked, answer, waiting,
                 draining, stopping, gone>>

(* A write that throws is logged, and the writer goes on with the next.    *)
WriteThrows ==
  /\ outbound # <<>> /\ gone
  /\ outbound' = Tail(outbound)
  /\ UNCHANGED <<toHost, partial, batch, at, timer, tracked, answer, waiting,
                 draining, wire, stopping, gone>>

-----------------------------------------------------------------------------
(* The reader task, until the channel is closed.                           *)

ReceiveChunk(n) ==
  /\ ~gone
  /\ TakesChunk(n)
  /\ UNCHANGED <<at, timer, tracked, answer, writer, stopping, gone>>

HandleQuery(c) ==
  /\ NextInBatch(c)
  /\ c \in Queries
  /\ Yield(c)
  /\ UNCHANGED <<toHost, partial, at, timer, tracked, answer, stopping, gone>>

(* The responder is made and the task that sleeps until the deadline runs. *)
StartTimer(c) ==
  /\ NextInBatch(c)
  /\ c \notin Queries
  /\ at' = [at EXCEPT ![c] = "scheduled"]
  /\ timer' = [timer EXCEPT ![c] = "running"]
  /\ UNCHANGED <<toHost, partial, tracked, answer, writer, stopping, gone>>

(* setTimer(): under the responder's lock.                                 *)
SetTimer(c) ==
  /\ Advance(c, "scheduled", "checked")
  /\ IF answer[c] = "none"
       THEN tracked' = tracked \cup {c} /\ UNCHANGED timer
       ELSE timer' = Cancelled({c}) /\ UNCHANGED tracked
  /\ UNCHANGED <<toHost, partial, batch, answer, writer, stopping, gone>>

-----------------------------------------------------------------------------
(* SingleResponse.call(): the first one takes the timer under the lock,    *)
(* cancels it and sends.                                                   *)

TakesResponder(c) ==
  /\ Wins(c)
  /\ tracked' = tracked \ {c}

(* The handler answers, or there is none.                                  *)
HandlerCalls(c) ==
  /\ at[c] = "dispatched"
  /\ answer[c] = "none"
  /\ TakesResponder(c)
  /\ UNCHANGED <<toHost, partial, batch, at, timer, writer, stopping, gone>>

TimerCalls(c) ==
  /\ timer[c] = "running"
  /\ timer' = [timer EXCEPT ![c] = "fired"]
  /\ TakesResponder(c)
  /\ UNCHANGED <<toHost, partial, batch, at, writer, stopping, gone>>

CancelTimer(c) ==
  /\ answer[c] = "won"
  /\ answer' = [answer EXCEPT ![c] = "untracked"]
  /\ timer' = Cancelled({c})
  /\ UNCHANGED <<toHost, partial, batch, at, tracked, writer, stopping, gone>>

(* A result that is not JSON, or too large for a frame, is replaced by an  *)
(* error: either way one frame is sent.                                    *)
SendOutcome(c) ==
  /\ answer[c] = "untracked"
  /\ answer' = [answer EXCEPT ![c] = "done"]
  /\ Yield(c)
  /\ UNCHANGED <<toHost, partial, batch, at, timer, tracked, stopping, gone>>

IosNext ==
  \/ \E c \in Calls :
       \/ HandleQuery(c) \/ StartTimer(c) \/ SetTimer(c) \/ Dispatch(c)
       \/ HandlerCalls(c) \/ TimerCalls(c) \/ CancelTimer(c) \/ SendOutcome(c)
  \/ \E n \in 1 .. Len(toHost) * FrameUnits : ReceiveChunk(n)
  \/ \E n \in 1 .. FrameUnits : WritePart(n)
  \/ WriteThrows \/ PortFails \/ Finish

-----------------------------------------------------------------------------
(* Properties.                                                             *)

(* A responder holds its timer only while nobody has called it.            *)
TimersHeld == \A c \in tracked : answer[c] = "none"

(* The coordinator's tasks and the handlers' threads keep all of this; one *)
(* writer task takes what one frame needs before it looks at the next.     *)
IosInv ==
  /\ HostTypeOK
  /\ TimersHeld
  /\ DeadlineArmed
  /\ NoTimerLeaked
  /\ FramesWhole
=============================================================================
