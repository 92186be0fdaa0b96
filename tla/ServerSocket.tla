---------------------------- MODULE ServerSocket ----------------------------
(***************************************************************************)
(* The protocol socket from its first byte to its last: the frame channel  *)
(* that attachWebSocketProtocol (core/server/websocket-server.ts) runs on  *)
(* an accepted socket, writing its responses, and the server its pushes,   *)
(* through the bounded writer of that socket.  The host pipe's channel,    *)
(* which has no such writer, is explored beside it.                        *)
(*                                                                         *)
(* The response to request r is the frame r.  The writes of one task of    *)
(* the channel are steps of their own, before any other step of it.        *)
(***************************************************************************)
EXTENDS ChannelFrames, Sequences, FiniteSets, SequencesExt

CONSTANTS
  Kinds, HostBound, MaxPending, MaxFailures,
  ResultOf,   \* ResultOf[r]: the response header a plugin's result makes
  PeerLimit,  \* maxFrameBytes of the peer
  Pushes,     \* the frames createLoopbackPush() is called with
  SizeOf, MaxQueued, HardMax

VARIABLES
  kind, stopped, failures, phase, answers, pending, paused,
  queue, queued, blocked, dead, sent, offered, cleared

Channel == INSTANCE FrameChannel
Writer  == INSTANCE BoundedWriter
             WITH Frames <- Requests \cup Pushes, Droppable <- Pushes

channelVars == <<kind, stopped, failures, phase, answers, pending, paused>>
writerVars  == <<queue, queued, blocked, dead, sent, offered, cleared>>
vars        == <<channelVars, writerVars>>

ASSUME ChannelAssumption ==
  /\ Kinds \subseteq {"socket", "host"}
  /\ IsFiniteSet(Requests)
  /\ HeaderOf \in [Requests -> Headers] /\ ResultOf \in [Requests -> Headers]
  /\ \A r \in Requests :
       /\ HeaderOf[r].requestId.string /\ HeaderOf[r].requestId.bytes > 0
       /\ ResultOf[r].utf8
  /\ Limit \in Limits /\ PeerLimit \in Limits /\ Limit <= PeerLimit
  /\ HostBound \subseteq Requests
  /\ MaxPending \in Nat \ {0}
  /\ MaxFailures \in Nat \ {0}

ASSUME WriterAssumption ==
  /\ Requests \cap Pushes = {}
  /\ SizeOf \in [Requests \cup Pushes -> Nat \ {0}]
  /\ MaxQueued \in Nat
  /\ HardMax \in Nat /\ HardMax >= MaxQueued

Init == Channel!Init /\ Writer!Init

-----------------------------------------------------------------------------
(* The answers: what route(), routingFailure() or answerRejected() answers *)
(* to the request as it was received, encoded for its sender.              *)

(* id ?? ''                                                                *)
OrEmpty(id) == IF id.string THEN id ELSE EmptyId

AnswerHeader(r, outcome, request) ==
  LET error == ErrorFor(request.requestId, OrEmpty(request.pluginId),
                        OrEmpty(request.event))
      names == request.pluginId.bytes + request.event.bytes
  IN CASE outcome = "invalid"  -> error
       [] outcome = "failed"   ->
            [error EXCEPT !.text = @ + EscapedBytes * names]
       [] outcome = "response" ->
            [ResultOf[r] EXCEPT !.type      = "INVOKE_RESPONSE",
                                !.requestId = request.requestId,
                                !.pluginId  = request.pluginId,
                                !.event     = request.event]

AnswerRead(r, outcome, request) ==
  Decode(EncodeResponse(AnswerHeader(r, outcome, request), Limit), PeerLimit)

(* Whether the channel, given a frame so read, answers so.                 *)
AnsweredSo(verdict, outcome) ==
  Disposition(verdict) =
    IF outcome = "invalid" THEN "badRequest" ELSE "request"

-----------------------------------------------------------------------------

(* Responses the channel has produced and not yet written.  Once the       *)
(* writer is dead, it ignores what it is given.                            *)
Unwritten ==
  IF kind = "socket" /\ ~dead
    THEN {r \in Requests : answers[r] # <<>>} \ ToSet(offered)
    ELSE {}

(* write(frame)                                                            *)
Write(f) ==
  /\ \/ Writer!WriteThrough(f) \/ Writer!Enqueue(f)
     \/ Writer!Shed(f) \/ Writer!Overflow(f)
  /\ UNCHANGED channelVars

WriteResponse == \E r \in Unwritten : Write(r)

(* The server-initiated push; without a socket there is nobody to tell.    *)
WritePush(f) == kind = "socket" /\ ~stopped /\ Unwritten = {} /\ Write(f)

Step(action) == Unwritten = {} /\ action /\ UNCHANGED writerVars

Routes(r) ==
  Step(\E written \in {<<>>, <<"response">>, <<"failed">>} :
         Channel!RouteEnds(r, written))

Deadline(r) == Step(Channel!HostDeadline(r))

Reads ==
  \/ \E batch \in Batches, violation \in Violations :
       Step(Channel!Push(batch, violation))
  \/ Step(Channel!PushNonBinary)

(* The close event, or the slot's eviction of the socket: nothing is read, *)
(* and nothing queued written, any more.  An error of the socket stops the *)
(* reading alone: its close event is still to come.                        *)
Closes ==
  /\ Unwritten = {}
  /\ Channel!Close
  /\ \/ kind = "socket" /\ Writer!Clear
     \/ UNCHANGED writerVars

(* The close event after an eviction, an error or a framing violation:     *)
(* what was written since, or is left, is dropped.                         *)
Drops ==
  /\ kind = "socket" /\ stopped
  /\ Writer!Clear
  /\ UNCHANGED channelVars

Drains(n) == Writer!Drain(n) /\ UNCHANGED channelVars

Next ==
  \/ Reads \/ Closes \/ Drops \/ WriteResponse
  \/ \E f \in Pushes : WritePush(f)
  \/ \E n \in 0 .. Cardinality(Requests \cup Pushes) : Drains(n)
  \/ \E r \in Requests : Routes(r) \/ Deadline(r)

Spec == Init /\ [][Next]_vars

(* Routing ends, the bridge's deadlines pass, and a task runs to its end.  *)
(* Nothing is assumed of the peer: it may never read what was written.     *)
FairSpec ==
  /\ Spec
  /\ WF_vars(WriteResponse)
  /\ \A r \in Requests : WF_vars(Routes(r)) /\ WF_vars(Deadline(r))

-----------------------------------------------------------------------------
(* Properties.                                                             *)

(* The channel's counters and the writer's are true, the queue is bounded  *)
(* and has a drain to wait for, a host response can be read, and only what *)
(* was answered is written.                                                *)
Inv ==
  /\ Channel!Inv /\ Channel!ResponsesReadable
  /\ Writer!Inv /\ Writer!MemoryBounded
  /\ \A r \in ToSet(offered) \cap Requests : answers[r] # <<>>

(* Frames leave in the order they were written, and only pushes are shed:  *)
(* on a socket that was not given up, every answer is with the stream, in  *)
(* the queue, or was discarded when the socket closed.  Whatever the       *)
(* request and the result were, the peer can read the answer and match it  *)
(* to its request, unless the result is nested too deep for its decoder:   *)
(* encodeResponse() does not look at that.                                 *)
NoResponseLost ==
  /\ Writer!InOrder /\ Writer!ResponsesKept
  /\ kind = "socket" /\ ~dead =>
       {r \in Requests : answers[r] # <<>>} \ Unwritten
         \subseteq ToSet(sent) \cup ToSet(queue) \cup cleared
  /\ \A r \in Requests : \A i \in DOMAIN answers[r], defect \in Defects :
       LET received == Received(r, "INVOKE_REQUEST", defect)
           read     == AnswerRead(r, answers[r][i], received.header)
       IN AnsweredSo(received, answers[r][i]) =>
            \/ /\ read.kind = "message"
               /\ read.header.requestId = HeaderOf[r].requestId
            \/ answers[r][i] = "response" /\ ResultOf[r].huge

(* No request is answered twice, nor before it was received, and no        *)
(* response reaches the peer twice.                                        *)
AnsweredOnce ==
  /\ Channel!AnsweredOnce
  /\ IsInjective(sent \o queue)

(* A paused stream is read again and every request taken off it settles,   *)
(* although the peer may have stopped reading.                             *)
Settles == Channel!ReadsAgain /\ Channel!EveryRequestSettles
=============================================================================
