------------------------------ MODULE HostPipe ------------------------------
(***************************************************************************)
(* The worklet's HostBridge and the host's coordinator, of either platform,*)
(* at the two ends of the IPC pipe.  A call that was written reaches the   *)
(* coordinator, and the units the coordinator's port takes reach the       *)
(* worklet's decoder, which hands a frame to consumeDownstream once it has *)
(* all of it.  The coordinator answers each call with the type of response *)
(* it expects.  Either end may be shut down while the other goes on.       *)
(***************************************************************************)
EXTENDS HostBridge, Sequences

CONSTANTS
  Hosts,       \* the platforms the host may run on
  Queries,     \* the calls that query the capabilities
  FrameUnits   \* a port takes a frame in this many units

ASSUME PipeAssumption ==
  /\ Hosts \subseteq {"android", "ios"}
  /\ Queries \subseteq Calls
  /\ FrameUnits \in Nat \ {0}

VARIABLES
  platform,  \* the host at the other end; never changes
  toHost, partial, batch, at, timer, tracked, answer, outbound, waiting,
  draining, stopping, gone, wire,
  consumed   \* units of wire the worklet's decoder has turned into frames

Host == INSTANCE IosCoordinator

hostVars ==
  <<platform, toHost, partial, batch, at, timer, tracked, answer, outbound,
    waiting, draining, stopping, gone, wire>>

pipeVars == <<vars, hostVars, consumed>>

PipeInit ==
  /\ Init
  /\ platform \in Hosts
  /\ Host!HostInit
  /\ consumed = 0

(* A call the bridge refuses, or whose write throws, is not on the pipe.   *)
CallHost(writeThrows) ==
  /\ Call(writeThrows)
  /\ toHost' = IF closed \/ writeThrows THEN toHost
                                        ELSE Append(toHost, calls')
  /\ UNCHANGED <<platform, partial, batch, at, timer, tracked, answer,
                 outbound, waiting, draining, stopping, gone, wire, consumed>>

(* The data listener is taken off the pipe when the runtime closes.        *)
FrameArrives ==
  /\ ~closed
  /\ Len(wire) >= consumed + FrameUnits
  /\ consumed' = consumed + FrameUnits
  /\ ConsumeDownstream(wire[consumed'], TRUE)
  /\ UNCHANGED hostVars

BridgeStep ==
  /\ (\E c \in Calls : Timeout(c)) \/ Close
  /\ UNCHANGED <<hostVars, consumed>>

HostStep ==
  /\ \/ platform = "android" /\ Host!HostNext
     \/ platform = "ios" /\ Host!IosNext
  /\ UNCHANGED <<vars, platform, consumed>>

PipeNext ==
  \/ \E throws \in BOOLEAN : CallHost(throws)
  \/ FrameArrives
  \/ BridgeStep
  \/ HostStep

PipeSpec == PipeInit /\ [][PipeNext]_pipeVars

-----------------------------------------------------------------------------
(* Properties.                                                             *)

(* The host's end of the pipe, under the calls the worklet really makes.   *)
HostInv == IF platform = "android" THEN Host!HostInv ELSE Host!IosInv

SilentAfterStop == Host!SilentAfterStop
=============================================================================
